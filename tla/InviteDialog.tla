---------------------------- MODULE InviteDialog ----------------------------
(***************************************************************************)
(* A call between two phones of this code: the INVITE dialog of the one    *)
(* that calls and the dialog of the one that is called                     *)
(* (tsip_dialog_invite.c, .client.c, .server.c, .hold.c, .timers.c).       *)
(*                                                                         *)
(* A transaction is what the dialogs see of it (Ict, Ist, Nict and Nist):  *)
(* the request reaches the other end once, or never; its final answer      *)
(* ends it; without one it times out, an INVITE only as long as no         *)
(* provisional answer came.  Messages overtake each other.  A final answer *)
(* to an INVITE that was heard of is sent once: the dialog that rejects    *)
(* ends and cancels the server transaction that would repeat the answer,   *)
(* and nobody repeats a 2xx.  A proxy between the two may challenge every  *)
(* request but a CANCEL.  The ACK and the requests that change nothing     *)
(* (INFO, OPTIONS) are left out.                                           *)
(***************************************************************************)
EXTENDS Integers, FiniteSets

CONSTANTS
    MaxOffers,      \* bound on the INVITEs and UPDATEs of the call
    MaxChallenges,  \* the proxy challenges while the call has no more offers than this
    MaxLost         \* bound on the answers to INVITEs lost for good: none or one

ASSUME BoundsAssumption ==
    MaxOffers \in Nat /\ MaxChallenges \in Nat /\ MaxLost \in {0, 1}

VARIABLES
    state,      \* per end, the current state of the state machine
    dialog,     \* per end, tsip_dialog_t.state
    offers,     \* per end, the number of INVITEs and UPDATEs sent
    pending,    \* per end, its client transactions without a final answer
    ringing,    \* the callee's last_iInvite while it can be answered, or 0
    unacked,    \* the callee's timer100rel is armed: last_o1xxrel has no PRACK
    pracked,    \* the caller's rseq: a reliable 1xx was acknowledged
    shutting,   \* the ends whose timershutdown is armed
    net,        \* the messages in transit
    answers,    \* the final answers the callee gave to a first INVITE
    faults      \* what went wrong so far

vars == <<state, dialog, offers, pending, ringing, unacked, pracked, shutting,
          net, answers, faults>>

Ends == {"caller", "callee"}
Peer(e) == IF e = "caller" THEN "callee" ELSE "caller"
\* Resuming has the rows of Holding and is called Holding too.
States == {"Started", "Outgoing", "Cancelling", "Ringing", "Connected",
           "Holding", "Trying", "Terminated"}
Offers == {"INVITE", "UPDATE"}
Methods == Offers \cup {"CANCEL", "PRACK", "BYE"}
\* A CANCEL and a PRACK have the number of their INVITE, a BYE has none.
Transaction == [of : Methods, n : 0..MaxOffers, heard : BOOLEAN]
\* "again" is a 401, 407 or 422: the request has to be sent again.
Provisional == {"100", "1xx", "1xx100rel"}
Classes == {"request", "2xx", "again", "failure"} \cup Provisional
Message == [to : Ends, class : Classes, of : Methods, n : 0..MaxOffers]
Faults == {"gaveUp", "refused", "resent", "lost", "challenged"}

Init ==
    /\ state = [e \in Ends |-> "Started"]
    /\ dialog = [e \in Ends |-> "initial"]
    /\ offers = [e \in Ends |-> 0]
    /\ pending = [e \in Ends |-> {}]
    /\ ringing = 0
    /\ unacked = FALSE
    /\ pracked = FALSE
    /\ shutting = {}
    /\ net = {}
    /\ answers = {}
    /\ faults = {}
------------------------------------------------------------------------------
Alive(e) == state[e] \notin {"Started", "Terminated"}
Moves(e, s) == state' = [state EXCEPT ![e] = s]
Becomes(e, d) == dialog' = [dialog EXCEPT ![e] = d]
Msg(to, class, of, n) == [to |-> to, class |-> class, of |-> of, n |-> n]

\* The answers to a transaction; those that come when it is over find none and are
\* dropped, here where they would be sent or when it ends.
AnswersTo(e, of, n) == {m \in net : m.class # "request" /\ m.to = e /\ m.of = of /\ m.n = n}
Answer(e, classes, of, n) ==
    {Msg(Peer(e), c, of, n) :
        c \in {d \in classes : \E t \in pending[Peer(e)] : t.of = of /\ t.n = n}}

\* tsip_dialog_request_send: a request and its client transaction, while waiting
\* stays of those e has; passed is what was taken from the network.
Requests(e, of, n, waiting, passed) ==
    /\ pending' = [pending EXCEPT
                     ![e] = waiting \cup {[of |-> of, n |-> n, heard |-> FALSE]}]
    /\ net' = (net \ passed) \cup {Msg(Peer(e), "request", of, n)}

\* send_INVITEorUPDATE
SendsOffer(e, of, waiting, passed) ==
    /\ offers["caller"] + offers["callee"] < MaxOffers
    /\ offers' = [offers EXCEPT ![e] = @ + 1]
    /\ Requests(e, of, offers[e] + 1, waiting, passed)

\* A slip: the transactions of the dialog are left alone.
TerminatesAlone(e, taken, last) ==
    /\ Moves(e, "Terminated")
    /\ net' = (net \ taken) \cup last
    /\ ringing' = IF e = "callee" THEN 0 ELSE ringing
    /\ unacked' = (unacked /\ e # "callee")
    /\ shutting' = shutting \ {e}
    /\ UNCHANGED <<dialog, offers, pracked, pending>>

\* tsip_dialog_invite_OnTerminated and the destructor: the transactions of the
\* dialog, those of its peer's requests included, and its timers are cancelled.
\* It took the messages in taken and sent those in last.
Terminates(e, taken, last) ==
    /\ Moves(e, "Terminated")
    /\ pending' = [pending EXCEPT ![e] = {}]
    /\ net' = {m \in net \ taken : m.to # e \/ m.class = "request"} \cup last
    /\ ringing' = IF e = "callee" THEN 0 ELSE ringing
    /\ unacked' = (unacked /\ e # "callee")
    /\ shutting' = shutting \ {e}
    /\ UNCHANGED <<dialog, offers, pracked>>
------------------------------------------------------------------------------
\* The user places the call.
Calls ==
    /\ state["caller"] = "Started"
    /\ Moves("caller", "Outgoing")
    /\ SendsOffer("caller", "INVITE", {}, {})
    /\ UNCHANGED <<dialog, ringing, unacked, pracked, shutting, answers, faults>>

\* The user, or the session timer of the refresher, sends a new offer.
Refreshes(e) ==
    /\ state[e] = "Connected"
    /\ \E of \in Offers : SendsOffer(e, of, pending[e], {})
    /\ UNCHANGED <<state, dialog, ringing, unacked, pracked, shutting, answers, faults>>

\* The user holds the call, or resumes it; it does not matter whether the INVITE
\* could be sent.
Holds(e) ==
    /\ state[e] = "Connected"
    /\ Moves(e, "Holding")
    /\ \/ SendsOffer(e, "INVITE", pending[e], {})
       \/ UNCHANGED <<offers, pending, net>>
    /\ UNCHANGED <<dialog, ringing, unacked, pracked, shutting, answers, faults>>

\* send_RESPONSE and send_ERROR for the first INVITE.
Ringing == Answer("callee", {"1xx100rel"}, "INVITE", ringing)
Final(class) == Answer("callee", {class}, "INVITE", ringing)
Answers(class) == answers' = answers \cup {[n |-> ringing, class |-> class]}

\* The user of the called phone accepts.
Accepts ==
    /\ state["callee"] = "Ringing"
    /\ Moves("callee", "Connected")
    /\ Answers("2xx")
    /\ net' = net \cup Final("2xx")
    /\ ringing' = 0
    /\ unacked' = FALSE
    /\ UNCHANGED <<dialog, offers, pending, pracked, shutting, faults>>

\* A slip: the rejected call goes on ringing.
RejectsAndRings ==
    /\ state["callee"] = "Ringing"
    /\ Answers("failure")
    /\ net' = net \cup Final("failure")
    /\ unacked' = FALSE
    /\ UNCHANGED <<state, ringing, dialog, offers, pending, pracked, shutting, faults>>

\* In Ringing, hanging up is rejecting: the actions have the same number.
Rejects ==
    /\ state["callee"] = "Ringing"
    /\ Answers("failure")
    /\ Terminates("callee", {}, Final("failure"))
    /\ UNCHANGED faults

\* The user hangs up before the call is established: the dialog does not look
\* whether the INVITE was heard of.
Cancels ==
    /\ state["caller"] = "Outgoing"
    /\ Moves("caller", "Cancelling")
    /\ Requests("caller", "CANCEL", offers["caller"], pending["caller"], {})
    /\ UNCHANGED <<dialog, offers, ringing, unacked, pracked, shutting, answers, faults>>

\* The user hangs up, or the session expires.  A dialog that is leaving by a BYE
\* may send another.
HangsUp(e) ==
    /\ Alive(e)
    /\ dialog[e] = "established"
    /\ state[e] # "Ringing"
    /\ Moves(e, "Trying")
    /\ Requests(e, "BYE", 0, pending[e], {})
    /\ UNCHANGED <<dialog, offers, ringing, unacked, pracked, shutting, answers, faults>>

\* A slip: the time a shutdown may take is not bounded.
ShutsDownUntimed(e) ==
    /\ Alive(e)
    /\ Moves(e, "Trying")
    /\ \/ dialog[e] = "established" /\ Requests(e, "BYE", 0, pending[e], {})
       \/ /\ dialog[e] = "early"
          /\ Requests(e, "CANCEL", offers[e], pending[e], {})
       \/ dialog[e] = "initial" /\ UNCHANGED <<pending, net>>
    /\ UNCHANGED <<shutting, dialog, offers, ringing, unacked, pracked, answers, faults>>

\* The stack ends the dialog: a BYE or a CANCEL, or nothing before the first 1xx.
ShutsDown(e) ==
    /\ Alive(e)
    /\ Moves(e, "Trying")
    /\ shutting' = shutting \cup {e}
    /\ \/ dialog[e] = "established" /\ Requests(e, "BYE", 0, pending[e], {})
       \/ /\ dialog[e] = "early"
          /\ Requests(e, "CANCEL", offers[e], pending[e], {})
       \/ dialog[e] = "initial" /\ UNCHANGED <<pending, net>>
    /\ UNCHANGED <<dialog, offers, ringing, unacked, pracked, answers, faults>>

\* timershutdown: the dialog ends without a word to its peer.
ShutdownTimesOut(e) ==
    /\ e \in shutting
    /\ Terminates(e, {}, {})
    /\ faults' = faults \cup {"gaveUp"}
    /\ UNCHANGED answers
------------------------------------------------------------------------------
\* tsip_dialog_layer_find: the tag of the peer is known from its first 101-299.
Found(m) ==
    /\ Alive(m.to)
    /\ m.of = "CANCEL" \/ dialog[m.to] # "initial"

Takes(m, class) ==
    /\ m \in net
    /\ m.class = class

\* m.to answers the request m; the server transaction of an INVITE sends a 100
\* before the dialog hears of it.
Reply(m, classes) ==
    Answer(m.to, classes \cup (IF m.of = "INVITE" THEN {"100"} ELSE {}), m.of, m.n)
Replies(m, classes) == net' = (net \ {m}) \cup Reply(m, classes)

\* The called phone makes a dialog.  It may be unable to take the call, or may
\* ask for a longer session, once; the dialog it leaves behind is never used.
RecvFirstInvite(m) ==
    /\ Takes(m, "request")
    /\ m.of = "INVITE"
    /\ m.to = "callee" /\ state["callee"] = "Started"
    /\ \/ \E rel \in BOOLEAN :
             /\ Moves("callee", "Ringing")
             /\ Becomes("callee", "established")
             /\ ringing' = m.n
             /\ unacked' = rel
             /\ Replies(m, {IF rel THEN "1xx100rel" ELSE "1xx"})
             /\ UNCHANGED answers
       \/ /\ Moves("callee", "Terminated")
          /\ Replies(m, {"failure"})
          /\ answers' = answers \cup {[n |-> m.n, class |-> "failure"]}
          /\ UNCHANGED <<dialog, ringing, unacked>>
       \/ /\ \A a \in answers : a.class # "again"
          /\ Replies(m, {"again"})
          /\ answers' = answers \cup {[n |-> m.n, class |-> "again"]}
          /\ UNCHANGED <<state, dialog, ringing, unacked>>
    /\ UNCHANGED <<offers, pending, pracked, shutting, faults>>

\* Outside Outgoing and Connected no row takes an offer.
RecvOffer(m) ==
    /\ Takes(m, "request")
    /\ m.of \in Offers
    /\ Found(m)
    /\ Replies(m, IF state[m.to] \in {"Outgoing", "Connected"} THEN {"2xx"} ELSE {})
    /\ UNCHANGED <<state, dialog, offers, pending, ringing, unacked, pracked,
                   shutting, answers, faults>>

\* An INVITE within a dialog that is not found makes another dialog: it rings, its
\* user may take the call or reject it, and it is not followed further.
RecvOfferTooLate(m) ==
    /\ Takes(m, "request")
    /\ m.of = "INVITE"
    /\ ~Found(m)
    /\ ~(m.to = "callee" /\ state["callee"] = "Started")
    /\ \E classes \in {{}, {"2xx"}, {"failure"}} : Replies(m, classes)
    /\ faults' = faults \cup {"refused"}
    /\ UNCHANGED <<state, dialog, offers, pending, ringing, unacked, pracked,
                   shutting, answers>>

RecvBye(m) ==
    /\ Takes(m, "request")
    /\ m.of = "BYE"
    /\ Found(m)
    /\ Terminates(m.to, {m}, Reply(m, {"2xx"}))
    /\ UNCHANGED <<answers, faults>>

\* A slip: the CANCEL is answered, its INVITE is not.
RecvCancelOnly(m) ==
    /\ Takes(m, "request")
    /\ m.of = "CANCEL"
    /\ Found(m)
    /\ IF state[m.to] = "Ringing"
       THEN Terminates(m.to, {m}, Reply(m, {"2xx"}))
       ELSE /\ Replies(m, {})
            /\ UNCHANGED <<state, dialog, offers, pending, ringing, unacked,
                           pracked, shutting>>
    /\ UNCHANGED <<answers, faults>>

\* A CANCEL that comes after the answer gets none itself.
RecvCancel(m) ==
    /\ Takes(m, "request")
    /\ m.of = "CANCEL"
    /\ Found(m)
    /\ IF state[m.to] = "Ringing"
       THEN /\ Terminates(m.to, {m}, Reply(m, {"2xx"}) \cup Final("failure"))
            /\ Answers("failure")
       ELSE /\ Replies(m, {})
            /\ UNCHANGED <<state, dialog, offers, pending, ringing, unacked,
                           pracked, shutting, answers>>
    /\ UNCHANGED faults

\* Only the row of Ringing cancels timer100rel.  A PRACK of this code matches the
\* 1xx it is for: the 488 to one that does not (it goes to last_iInvite, and not
\* to the PRACK) cannot be met between two such phones.
RecvPrack(m) ==
    /\ Takes(m, "request")
    /\ m.of = "PRACK"
    /\ Found(m)
    /\ unacked' = (unacked /\ state[m.to] # "Ringing")
    /\ Replies(m, {"2xx"})
    /\ UNCHANGED <<state, dialog, offers, pending, ringing, pracked, shutting,
                   answers, faults>>

\* tsip_dialog_layer_handle_incoming_msg: 481, or 482 when only the tags differ.
Refuses(m) ==
    /\ Takes(m, "request")
    /\ m.of # "INVITE"
    /\ ~Found(m)
    /\ Replies(m, {"failure"})
    /\ faults' = IF state[m.to] = "Terminated" THEN faults
                 ELSE faults \cup {"refused"}
    /\ UNCHANGED <<state, dialog, offers, pending, ringing, unacked, pracked,
                   shutting, answers>>
------------------------------------------------------------------------------
\* The client transaction that m answers.
Asked(m) == {t \in pending[m.to] : t.of = m.of /\ t.n = m.n}
Done(m) == AnswersTo(m.to, m.of, m.n)
Heard(t) == [t EXCEPT !.heard = TRUE]

\* A final answer ends its transaction.
Answered(m, class) ==
    /\ Takes(m, class)
    /\ net' = net \ Done(m)
    /\ pending' = [pending EXCEPT ![m.to] = @ \ Asked(m)]

Recv1xx(m) ==
    /\ m \in net
    /\ m.class \in Provisional
    /\ IF m.class = "100" \/ dialog[m.to] = "established"
       THEN UNCHANGED dialog
       ELSE Becomes(m.to, "early")
    /\ LET waiting == (pending[m.to] \ Asked(m)) \cup {Heard(t) : t \in Asked(m)}
       IN  IF m.class = "1xx100rel" /\ ~pracked
           THEN Requests(m.to, "PRACK", m.n, waiting, {m}) /\ pracked' = TRUE
           ELSE /\ pending' = [pending EXCEPT ![m.to] = waiting]
                /\ net' = net \ {m}
                /\ UNCHANGED pracked
    /\ UNCHANGED <<state, offers, ringing, unacked, shutting, answers, faults>>

\* A 2xx to an INVITE is acknowledged in any state; only Outgoing and Holding
\* leave theirs.
Recv2xxOffer(m) ==
    /\ Answered(m, "2xx")
    /\ m.of \in Offers
    /\ Becomes(m.to, "established")
    /\ IF state[m.to] \in {"Outgoing", "Holding"}
       THEN Moves(m.to, "Connected")
       ELSE UNCHANGED state
    /\ UNCHANGED <<offers, ringing, unacked, pracked, shutting, answers, faults>>

RecvFailureOffer(m) ==
    /\ Answered(m, "failure")
    /\ m.of \in Offers
    /\ state[m.to] \notin {"Outgoing", "Cancelling"} \/ m.of # "INVITE"
    /\ IF state[m.to] = "Holding" THEN Moves(m.to, "Connected") ELSE UNCHANGED state
    /\ UNCHANGED <<dialog, offers, ringing, unacked, pracked, shutting, answers, faults>>

\* What ends the dialog: its INVITE is rejected before the call is established,
\* its CANCEL is rejected, or its BYE is answered.
RecvLast(m) ==
    /\ m \in net
    /\ \/ /\ m.class = "failure" /\ m.of = "INVITE"
          /\ state[m.to] \in {"Outgoing", "Cancelling"}
       \/ m.class = "failure" /\ m.of = "CANCEL" /\ state[m.to] = "Cancelling"
       \/ m.class \in {"2xx", "failure"} /\ m.of = "BYE"
    /\ Terminates(m.to, {m}, {})
    /\ UNCHANGED <<answers, faults>>

\* The answers that no row takes: those of 401 and 407 are for offers only.
RecvIgnored(m) ==
    /\ \/ Answered(m, "2xx") /\ m.of \in {"CANCEL", "PRACK"}
       \/ Answered(m, "failure") /\ m.of = "PRACK"
       \/ Answered(m, "again") /\ m.of \in {"CANCEL", "PRACK"}
       \/ /\ Answered(m, "failure")
          /\ m.of = "CANCEL" /\ state[m.to] # "Cancelling"
    /\ UNCHANGED <<state, dialog, offers, ringing, unacked, pracked, shutting,
                   answers, faults>>

\* A BYE is under way that the dialog sent beside the one that m answers.
SentAnother(m) ==
    \E b \in net \ {m} :
        b.of = "BYE" /\ b.to = IF b.class = "request" THEN Peer(m.to) ELSE m.to

\* No row takes the challenge of a BYE either: the BYE is over, and the dialog
\* stays where it is.
RecvChallengedBye(m) ==
    /\ Takes(m, "again")
    /\ m.of = "BYE"
    /\ net' = net \ {m}
    /\ pending' = IF SentAnother(m) THEN pending
                  ELSE [pending EXCEPT ![m.to] = @ \ Asked(m)]
    /\ UNCHANGED <<state, dialog, offers, ringing, unacked, pracked, shutting,
                   answers, faults>>

\* The offer is sent again, with credentials or a longer session, whatever the
\* state: the rows of 401, 407 and 422 hold in Cancelling and in Trying too.  After
\* a 422 it is an INVITE, also for an UPDATE.
RecvAgain(m) ==
    /\ Takes(m, "again")
    /\ m.of \in Offers
    /\ \E of \in {m.of, "INVITE"} :
          /\ SendsOffer(m.to, of, pending[m.to] \ Asked(m), Done(m))
          /\ faults' = IF of = "INVITE" /\ state[m.to] \in {"Cancelling", "Trying"}
                       THEN faults \cup {"resent"} ELSE faults
    /\ UNCHANGED <<state, dialog, ringing, unacked, pracked, shutting, answers>>

\* The handler of m fails: the offer in it cannot be used, the challenge cannot
\* be answered, or a message cannot be sent.
RecvFails(m) ==
    /\ m \in net
    /\ \/ /\ m.class = "request" /\ m.of \in Offers /\ Found(m)
          /\ state[m.to] \in {"Outgoing", "Connected"}
          /\ Terminates(m.to, {m}, Reply(m, {}))
       \/ /\ m.class \in {"2xx", "again", "1xx", "1xx100rel"} /\ m.of \in Offers
          /\ Terminates(m.to, {m}, {})
    /\ faults' = faults \cup {"gaveUp"}
    /\ UNCHANGED answers

Receives(m) ==
    \/ RecvFirstInvite(m) \/ RecvOffer(m) \/ RecvOfferTooLate(m)
    \/ RecvBye(m) \/ RecvCancel(m) \/ RecvPrack(m) \/ Refuses(m)
    \/ Recv1xx(m) \/ Recv2xxOffer(m) \/ RecvFailureOffer(m)
    \/ RecvLast(m) \/ RecvIgnored(m) \/ RecvChallengedBye(m) \/ RecvAgain(m)
    \/ RecvFails(m)
------------------------------------------------------------------------------
\* Timers B and F of a client transaction, or a failure of its transport.
TimesOut(e) ==
    /\ \E t \in pending[e] : t.of # "INVITE" \/ ~t.heard
    /\ Terminates(e, {}, {})
    /\ faults' = faults \cup {"gaveUp"}
    /\ UNCHANGED answers

\* timer100rel sends the last reliable 1xx again, and in the end gives up.
Timer100rel ==
    /\ unacked
    /\ \/ /\ net' = net \cup Ringing
          /\ UNCHANGED <<state, dialog, offers, pending, ringing, unacked,
                         pracked, shutting, faults>>
       \/ /\ Terminates("callee", {}, {})
          /\ faults' = faults \cup {"gaveUp"}
    /\ UNCHANGED answers

\* External: a proxy answers a request in the place of the other end, but no
\* CANCEL.  Its bounds: while the call has no more than MaxChallenges offers; and one
\* BYE, as the first thing that goes wrong.
Challenges(m) ==
    /\ Takes(m, "request")
    /\ m.of # "CANCEL"
    /\ offers["caller"] + offers["callee"] <= MaxChallenges
    /\ m.of = "BYE" => faults = {}
    /\ Replies(m, {"again"})
    /\ faults' = IF m.of = "BYE" THEN faults \cup {"challenged"} ELSE faults
    /\ UNCHANGED <<state, dialog, offers, pending, ringing, unacked, pracked,
                   shutting, answers>>

\* External: the final answer to an INVITE is lost, after a provisional answer
\* has stopped the INVITE from being sent again.
Loses(m) ==
    /\ m \in net
    /\ m.class \in {"2xx", "failure"} /\ m.of = "INVITE"
    /\ MaxLost > 0 /\ faults = {}
    /\ \E t \in Asked(m) : t.heard
    /\ net' = net \ {m}
    /\ faults' = faults \cup {"lost"}
    /\ UNCHANGED <<state, dialog, offers, pending, ringing, unacked, pracked,
                   shutting, answers>>

Next ==
    \/ Calls \/ Accepts \/ Rejects \/ Cancels \/ Timer100rel
    \/ \E e \in Ends : \/ Refreshes(e) \/ Holds(e) \/ HangsUp(e) \/ ShutsDown(e)
                       \/ ShutdownTimesOut(e) \/ TimesOut(e)
    \/ \E m \in net : Receives(m) \/ Challenges(m) \/ Loses(m)

Spec == Init /\ [][Next]_vars

\* The timers are served.  What is not lost arrives, but for the provisional
\* answers.  The users need not do anything.  This is less than each end's own
\* timer thread and transport give it.
Fairness ==
    /\ WF_vars(\E e \in Ends : TimesOut(e))
    /\ WF_vars(\E e \in Ends : ShutdownTimesOut(e))
    /\ WF_vars(\E m \in net : m.class \notin Provisional /\ Receives(m))

FairSpec == Spec /\ Fairness
------------------------------------------------------------------------------
\* The type invariant, in which a dialog that has ended waits for nothing.
TypeOK ==
    /\ state \in [Ends -> States]
    /\ dialog \in [Ends -> {"initial", "early", "established"}]
    /\ offers \in [Ends -> 0..MaxOffers]
    /\ pending \in [Ends -> SUBSET Transaction]
    /\ ringing \in 0..MaxOffers
    /\ unacked \in BOOLEAN
    /\ pracked \in BOOLEAN
    /\ shutting \subseteq Ends
    /\ net \subseteq Message
    /\ answers \subseteq [n : 1..MaxOffers, class : {"2xx", "again", "failure"}]
    /\ faults \subseteq Faults
    \* Only a dialog that goes on has anything that can still call it back.
    /\ \A e \in Ends : ~Alive(e) => pending[e] = {} /\ e \notin shutting

\* An INVITE gets one final answer, although the user, a CANCEL, the stack and
\* the timer of a reliable 1xx may each end the ringing (the rows of Ringing).
OneFinalAnswer ==
    /\ \A a, b \in answers : a.n = b.n => a = b
    /\ Cardinality({a \in answers : a.class = "2xx"}) <= 1
    /\ state["callee"] = "Ringing" => \A a \in answers : a.n # ringing

\* Unless a message was lost, a BYE challenged, a transaction or timer gave up, a
\* handler failed, a request came before the other end knew the dialog or the
\* cancelled call was placed again, no end waits for a peer that has ended: whoever
\* leaves tells.
NobodyLeftWaiting ==
    \A e \in Ends :
        (/\ Alive(e)
         /\ e \notin shutting
         /\ state[Peer(e)] = "Terminated"
         /\ \A m \in net : m.to = e => m.class \in Provisional
         /\ \A t \in pending[e] : t.of = "INVITE" /\ t.heard)
        => faults # {}

\* A dialog the user or the stack ends does end, whatever crosses its CANCEL or
\* its BYE, unless the answer to the INVITE is lost, the INVITE was sent again or
\* its BYE was challenged: no row sends a BYE again, and no timer ends the dialog.
HangupEnds ==
    \A e \in Ends :
        state[e] \in {"Cancelling", "Trying"}
            ~> state[e] = "Terminated" \/ faults \cap {"resent", "lost", "challenged"} # {}

\* tsip_transac_ist.c makes the dialog responsible for the reliability of its
\* 2xx: an accepted call is established or ends at the calling phone too.
AcceptedCallConnects ==
    state["callee"] = "Connected" ~> state["caller"] # "Outgoing"

\* Whatever final answer its BYE gets ends the dialog (the comment "Any -> (i3xx-i6xx
\* BYE) -> Terminated" of tsip_dialog_invite_init, and its twin for a 2xx), or its
\* timershutdown will.
AnsweredByeEnds ==
    [][\A m \in net \ net' :
          m.of = "BYE" /\ m.class \in {"2xx", "again", "failure"}
              => state'[m.to] = "Terminated" \/ m.to \in shutting]_vars

\* A call that was hung up is not placed again (tsip_action.h on hangup: in early
\* state the dialog will be canceled).
NotPlacedAgain == "resent" \notin faults
------------------------------------------------------------------------------
(* The parts of the inductive invariant that are not properties above.     *)

Awaits(e, of, n) == \E t \in pending[e] : t.of = of /\ t.n = n
Leaving(e) == \E t \in pending[e] : t.of = "BYE"
Placed(m) == m.class = "request" /\ m.of = "INVITE" /\ m.to = "callee"
Accepted == \E a \in answers : a.class = "2xx"
\* The answers that end a dialog, and what tells the caller that no phone rings.
Ending(m) ==
    \/ m.class \in {"2xx", "failure"} /\ m.of \in {"BYE", "CANCEL"}
    \/ m.class = "failure" /\ m.of = "INVITE" /\ m.to = "caller"
Telling(m) ==
    \/ Placed(m)
    \/ m.to = "caller" /\ m.of = "INVITE" /\ m.class \in {"again", "failure"}

\* An answer in transit has a transaction that waits for it, and no answer ends a
\* BYE unnoticed.
AnswersAreAwaited ==
    \A m \in net : m.class # "request" =>
        /\ Awaits(m.to, m.of, m.n)
        /\ m.class = "again" /\ m.of = "BYE" => "challenged" \in faults

\* The INVITEs of the caller are numbered from 1.
InvitesAreNumbered ==
    /\ \A m \in net : Placed(m) => m.n \in 1..offers["caller"]
    /\ \A t \in pending["caller"] : t.of = "INVITE" => t.n <= offers["caller"]
    /\ \A a \in answers : a.n <= offers["caller"]
    /\ ringing <= offers["caller"]
    /\ state["callee"] = "Ringing" => ringing > 0

\* An INVITE in transit is not answered in any way, and its caller waits for it.
InvitesAreFresh ==
    \A m \in net : Placed(m) =>
        /\ \A a \in answers : a.n # m.n
        /\ ringing # m.n
        /\ \A b \in net : b.class # "request" /\ b.to = "caller" /\ b.of = "INVITE"
              => b.n # m.n
        /\ state["caller"] # "Terminated" => Awaits("caller", "INVITE", m.n)
        /\ \A t \in pending["caller"] : t.of = "INVITE" /\ t.n = m.n => ~t.heard

\* The calling phone does not ring, the called one does not place the call.
RolesAreKept ==
    state["caller"] # "Ringing" /\ state["callee"] \notin {"Outgoing", "Cancelling"}

\* While the phone rings nobody has taken the call, and the caller waits.
RingingIsAwaited ==
    /\ state["callee"] \in {"Started", "Ringing"} => ~Accepted
    /\ state["callee"] = "Ringing" =>
         /\ state["caller"] # "Terminated" => Awaits("caller", "INVITE", ringing)
         /\ \A m \in net : m.to = "caller" /\ m.of = "INVITE" /\ m.n = ringing
               => m.class \in Provisional \cup {"request"}

\* A BYE in transit comes from an end that left or waits for its answer, and not
\* from a phone that has not been answered.
ByesAreAwaited ==
    \A m \in net : m.class = "request" /\ m.of = "BYE" =>
        /\ state[Peer(m.to)] = "Terminated" \/ Leaving(Peer(m.to))
        /\ m.to = "caller" => state["callee"] \notin {"Started", "Ringing"}

\* The answers that end a dialog come from an end that left.
LastAnswersComeFromLeavers ==
    \A m \in net : Ending(m) => state[Peer(m.to)] = "Terminated"

\* Before the call is accepted the caller is not established.
UnacceptedIsNotEstablished ==
    ~Accepted =>
        /\ \A m \in net : ~(m.class = "2xx" /\ m.of \in Offers /\ m.to = "caller")
        /\ dialog["caller"] # "established"
        /\ state["caller"] \in {"Started", "Outgoing", "Cancelling", "Trying", "Terminated"}
        /\ state["caller"] = "Trying" => "caller" \in shutting
        /\ state["callee"] \notin {"Connected", "Holding"}

\* Nobody leaves before the call is placed and rung for.
CallerComesFirst ==
    /\ state["caller"] = "Started" => net = {} /\ state["callee"] = "Started"
    /\ state["callee"] \in {"Started", "Ringing"} => state["caller"] # "Terminated"

\* An end that is left behind waits for the answer to its BYE, or it is a caller
\* that is about to hear of its INVITE.
LeftBehindIsTold ==
    \A e \in Ends :
        Alive(e) /\ e \notin shutting /\ state[Peer(e)] = "Terminated" =>
            \/ Leaving(e)
            \/ /\ e = "caller" /\ ~Accepted
               /\ \E m \in net : Telling(m)

IndInv ==
    /\ TypeOK /\ OneFinalAnswer
    /\ AnswersAreAwaited /\ InvitesAreNumbered /\ InvitesAreFresh
    /\ RolesAreKept /\ RingingIsAwaited /\ ByesAreAwaited
    /\ faults = {} => /\ LastAnswersComeFromLeavers /\ UnacceptedIsNotEstablished
                      /\ CallerComesFirst /\ LeftBehindIsTold
=============================================================================
