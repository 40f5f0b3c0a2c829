--------------------------- MODULE RequestExchange ---------------------------
(***************************************************************************)
(* What the transactions of one request promise their users: the sender    *)
(* learns at most one outcome of its request; that outcome is a failure of *)
(* its own, or an answer some server transaction gave; a server            *)
(* transaction gives at most one answer; and a server that stops           *)
(* retransmitting its answer because it was acknowledged is talking to a   *)
(* sender who knows an outcome.                                            *)
(***************************************************************************)
CONSTANTS Servers,    \* the server transactions of the request
          Answers,    \* the final answers a server may give
          Failures    \* what the sender may be told instead

VARIABLES outcome,    \* what the sender was told, "pending" before
          answer,     \* answer[s]: the answer of server transaction s
          confirmed   \* the servers whose answer is acknowledged
vars == <<outcome, answer, confirmed>>

Init ==
    /\ outcome = "pending"
    /\ answer = [s \in Servers |-> "none"]
    /\ confirmed = {}

Decide(s, a) ==
    /\ answer[s] = "none"
    /\ answer' = [answer EXCEPT ![s] = a]
    /\ UNCHANGED <<outcome, confirmed>>

Learn(a) ==
    /\ outcome = "pending"
    /\ \E s \in Servers : answer[s] = a
    /\ outcome' = a
    /\ UNCHANGED <<answer, confirmed>>

Fail(f) ==
    /\ outcome = "pending"
    /\ outcome' = f
    /\ UNCHANGED <<answer, confirmed>>

Confirm(s) ==
    /\ answer[s] \in Answers
    /\ outcome \in Answers
    /\ confirmed' = confirmed \cup {s}
    /\ UNCHANGED <<outcome, answer>>

Forget(s) ==
    /\ confirmed' = confirmed \ {s}
    /\ UNCHANGED <<outcome, answer>>

Next ==
    \/ \E s \in Servers : Confirm(s) \/ Forget(s) \/ \E a \in Answers : Decide(s, a)
    \/ \E a \in Answers : Learn(a)
    \/ \E f \in Failures : Fail(f)

Spec == Init /\ [][Next]_vars
=============================================================================
