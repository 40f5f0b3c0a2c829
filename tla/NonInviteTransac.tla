--------------------------- MODULE NonInviteTransac ---------------------------
(***************************************************************************)
(* One non-INVITE request between two stacks: the client transaction       *)
(* (Nict), the server transactions (Nist) and the network between them.    *)
(***************************************************************************)
EXTENDS Nict, Nist

vars == <<net, reliable, nictVars, nist>>

Init ==
    /\ net = {}
    /\ reliable \in BOOLEAN
    /\ NictInit
    /\ NistInit

SenderWaits == UNCHANGED <<nictVars, reliable>>
ReceiverWaits == UNCHANGED <<nist, reliable>>

Next ==
    \/ NictSend /\ ReceiverWaits
    \/ NictRecv1xx /\ ReceiverWaits
    \/ NictRecvFinal /\ ReceiverWaits
    \/ NictCancel /\ ReceiverWaits
    \/ \E t \in nictTimers : NictTimerDue(t) /\ ReceiverWaits
    \/ \E t \in nictTimers : NictTimerE(t) /\ ReceiverWaits
    \/ \E t \in nictTimers : NictTimerF(t) /\ ReceiverWaits
    \/ \E t \in nictTimers : NictTimerK(t) /\ ReceiverWaits
    \/ \E t \in nictTimers : NictTimerIgnored(t) /\ ReceiverWaits
    \/ \E i \in Server :
          \/ NistRecvRequest(i) /\ SenderWaits
          \/ NistRecvRequestAgain(i) /\ SenderWaits
          \/ NistRespond(i) /\ SenderWaits
          \/ NistCancel(i) /\ SenderWaits
          \/ \E t \in nist[i].timers : NistTimerDue(i, t) /\ SenderWaits
          \/ \E t \in nist[i].timers : NistTimerFires(i, t) /\ SenderWaits

Spec == Init /\ [][Next]_vars
FairSpec == Spec /\ NictFairness /\ NistFairness
------------------------------------------------------------------------------
\* Every variable stays in its range.
TypeOK ==
    /\ net \subseteq {"request", "1xx", "final"}
    /\ reliable \in BOOLEAN
    /\ nictState \in NictStates
    /\ nictTimers \subseteq TimerOf(NictTimer)
    /\ told \subseteq Told
    /\ nist \in [Server -> NistRecord]

\* The sender's dialog is told one outcome: a final response, a timeout or a
\* transport error, and it is told of a timeout only if nothing ever came.
OutcomeIsUnique ==
    /\ \A a, b \in told \ {"1xx"} : a = b
    /\ "timedout" \in told => told = {"timedout"}

\* At most one server transaction of a request lives at a time.
OneServerTransaction ==
    \A i, j \in Server : Alive(nist, i) /\ Alive(nist, j) => i = j

ClientIsTimed ==
    /\ nictState = "Trying" => IsPending(nictTimers, "F")
    /\ nictState = "Completed" /\ ~reliable => IsPending(nictTimers, "K")
ServerIsTimed(s) == s.state = "Completed" /\ ~reliable => IsPending(s.timers, "J")

\* A state that ends by itself has the timer that ends it, named by the
\* identifier the callback will compare (a zero delay may defeat timers K and J).
LiveTransactionsAreTimed ==
    /\ ClientIsTimed
    /\ \A i \in Server : ServerIsTimed(nist[i])

\* Over a reliable transport the request is handed to one dialog only, once,
\* whatever fails at either end.
ReliableHandsOnce ==
    reliable => \A i, j \in Server : nist[i].handed /\ nist[j].handed => i = j

\* The rest of the inductive invariant: what the sender was told and what a
\* server transaction sent last follow from their states, a final response in the
\* network was given by some server transaction, and over a reliable transport
\* one request is sent and one server transaction is created for it.
ToldFollowsState ==
    /\ nictState \in {"Started", "Trying"} => told = {}
    /\ nictState = "Proceeding" => told = {"1xx"}
LastFollows(s) ==
    /\ s.state = "none" => s.last = "none" /\ ~s.handed
    /\ s.state = "Trying" => s.last = "none"
    /\ s.state = "Proceeding" => s.last = "1xx"
    /\ s.state = "Completed" => s.last = "final"
    /\ s.state # "Started"
LastFollowsState == \A i \in Server : LastFollows(nist[i])
NetIsCaused == "final" \in net => \E i \in Server : nist[i].last = "final"
ReliableSendsOnce ==
    reliable =>
      /\ nictTimers \subseteq TimerOf(NictTimer \ {"E"})
      /\ nictState = "Started" => "request" \notin net
      /\ nictState = "Started" \/ "request" \in net =>
           \A i \in Server : nist[i].state = "none"
      /\ \A i, j \in Server :
           nist[i].state # "none" /\ nist[j].state # "none" => i = j

IndInv ==
    /\ TypeOK
    /\ ToldFollowsState /\ LastFollowsState
    /\ NetIsCaused
    /\ OutcomeIsUnique /\ OneServerTransaction
    /\ LiveTransactionsAreTimed
    /\ ReliableSendsOnce

\* The transactions implement the exchange.
Exchange == INSTANCE RequestExchange WITH
    Servers <- Server, Answers <- {"final"},
    Failures <- {"timedout", "transport_error"},
    outcome <- IF told \ {"1xx"} = {} THEN "pending"
               ELSE CHOOSE a \in Told \ {"1xx"} : a \in told,
    answer <- [i \in Server |-> IF nist[i].last = "final" THEN "final" ELSE "none"],
    confirmed <- {}
ImplementsExchange == Exchange!Spec
------------------------------------------------------------------------------
\* With fair timers the sender leaves Trying, and transactions that have seen
\* the final response are removed (a zero delay may defeat timers K and J).
TransactionsEnd ==
    /\ (nictState = "Trying") ~> (nictState # "Trying")
    /\ (nictState = "Completed" /\ ~reliable) ~> (nictState = "Terminated")
    /\ \A i \in Server :
         (nist[i].state = "Completed" /\ ~reliable) ~> (nist[i].state = "Terminated")

\* RFC 3261 17.1.2.2, quoted at tsip_transac_nict.c:504: timer F also ends a
\* transaction in Proceeding.  The code cancelled it on the way there.
ProceedingTimesOut == (nictState = "Proceeding") ~> (nictState # "Proceeding")
=============================================================================
