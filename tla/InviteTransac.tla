---------------------------- MODULE InviteTransac ----------------------------
(***************************************************************************)
(* One INVITE between two stacks: the client transaction (Ict) at the      *)
(* caller, the server transactions (Ist) at the callee, and the network    *)
(* between them.                                                           *)
(***************************************************************************)
EXTENDS Ict, Ist

vars == <<net, reliable, ictVars, ist>>

Message == {"INVITE", "1xx", "2xx", "300_699", "ACK_2xx", "ACK_300_699"}

Init ==
    /\ net = {}
    /\ reliable \in BOOLEAN
    /\ IctInit
    /\ IstInit

\* The ACK for a 2xx is sent by the caller's dialog, outside any transaction
\* (send_ACK), once for each 2xx it is passed.
TuAck ==
    /\ "2xx" \in passedUp
    /\ net' = net \cup {"ACK_2xx"}
    /\ UNCHANGED ictVars

CallerWaits == UNCHANGED <<ictVars, reliable>>
CalleeWaits == UNCHANGED <<ist, reliable>>

Next ==
    \/ IctSend /\ CalleeWaits
    \/ IctRecv1xx /\ CalleeWaits
    \/ IctRecv2xx /\ CalleeWaits
    \/ IctRecv300 /\ CalleeWaits
    \/ IctRecv300Again /\ CalleeWaits
    \/ IctCancel /\ CalleeWaits
    \/ TuAck /\ CalleeWaits
    \/ \E t \in ictTimers : IctTimerDue(t) /\ CalleeWaits
    \/ \E t \in ictTimers : IctTimerA(t) /\ CalleeWaits
    \/ \E t \in ictTimers : IctTimerB(t) /\ CalleeWaits
    \/ \E t \in ictTimers : IctTimerEnds(t) /\ CalleeWaits
    \/ \E t \in ictTimers : IctTimerIgnored(t) /\ CalleeWaits
    \/ \E i \in Server :
          \/ IstRecvInvite(i) /\ CallerWaits
          \/ IstRecvInviteAgain(i) /\ CallerWaits
          \/ \E j \in Server : IstRecvInviteFails(i, j) /\ CallerWaits
          \/ \E ack \in {"ACK_2xx", "ACK_300_699"} : IstRecvAck(i, ack) /\ CallerWaits
          \/ IstRespond(i) /\ CallerWaits
          \/ IstCancel(i) /\ CallerWaits
          \/ \E t \in ist[i].timers : IstTimerDue(i, t) /\ CallerWaits
          \/ \E t \in ist[i].timers : IstTimerG(i, t) /\ CallerWaits
          \/ \E t \in ist[i].timers : IstTimerH(i, t) /\ CallerWaits
          \/ \E t \in ist[i].timers : IstTimerEnds(i, t) /\ CallerWaits
          \/ \E t \in ist[i].timers : IstTimerIgnored(i, t) /\ CallerWaits

Spec == Init /\ [][Next]_vars
FairSpec == Spec /\ IctFairness /\ IstFairness
------------------------------------------------------------------------------
\* Every variable stays in its range.
TypeOK ==
    /\ net \subseteq Message
    /\ reliable \in BOOLEAN
    /\ ictState \in IctStates
    /\ ictTimers \subseteq TimerOf(IctTimer)
    /\ passedUp \subseteq Response
    /\ timedOut \in BOOLEAN
    /\ ist \in [Server -> IstRecord]

\* The caller's dialog is told one outcome of its INVITE: a 2xx, a 300-699 or a
\* timeout, never two of them, although responses of several server transactions
\* arrive in any order (tsip_transac_ict.c, the rows of Calling to Accepted).
OutcomeIsUnique ==
    /\ ~ Final \subseteq passedUp
    /\ timedOut => passedUp = {}

\* At most one server transaction of an INVITE lives at a time: the dialog layer
\* creates one only when find_server finds none or the one found has just ended.
OneServerTransaction ==
    \A i, j \in Server : Alive(ist, i) /\ Alive(ist, j) => i = j

ClientIsTimed ==
    /\ ictState = "Calling" => IsPending(ictTimers, "B")
    /\ ictState = "Accepted" => IsPending(ictTimers, "M")
    /\ ictState = "Completed" /\ ~reliable => IsPending(ictTimers, "D")
ServerIsTimed(s) ==
    /\ s.state = "Completed" => IsPending(s.timers, "H")
    /\ s.state = "Accepted" => IsPending(s.timers, "L")
    /\ s.state = "Confirmed" /\ ~reliable => IsPending(s.timers, "I")

\* A state that ends by itself has the timer that ends it, named by the
\* identifier the callback will compare: without it the transaction would never
\* be removed from the layer.
LiveTransactionsAreTimed == ClientIsTimed /\ \A i \in Server : ServerIsTimed(ist[i])

\* A server transaction that stopped retransmitting its rejection because of an
\* ACK does so only when the caller's dialog has been passed a final response.
ConfirmedImpliesCallerKnows ==
    \A i \in Server : ist[i].state = "Confirmed" => passedUp \cap Final # {}

\* Over a reliable transport the callee is alerted of the call at most once,
\* whatever fails at either end.
ReliableAlertsOnce ==
    reliable => \A i, j \in Server :
        "INVITE" \in ist[i].told /\ "INVITE" \in ist[j].told => i = j

\* The transactions implement the exchange.
Exchange == INSTANCE RequestExchange WITH
    Servers <- Server, Answers <- Final, Failures <- {"timedout"},
    outcome <- IF timedOut THEN "timedout"
               ELSE IF passedUp \cap Final = {} THEN "pending"
               ELSE CHOOSE a \in Final : a \in passedUp,
    answer <- [i \in Server |-> IF ist[i].last \in Final THEN ist[i].last ELSE "none"],
    confirmed <- {i \in Server : ist[i].state = "Confirmed"}
ImplementsExchange == Exchange!Spec
------------------------------------------------------------------------------
\* With fair timers a client transaction does not stay in the states a timer
\* guards: a Calling one is answered or removed, one that has its final response
\* is removed (over a reliable transport timer D may be missed).
ClientIsGuarded ==
    \/ ictState \in {"Calling", "Accepted"}
    \/ ictState = "Completed" /\ ~reliable
ClientEnds == ClientIsGuarded ~> ~ClientIsGuarded

\* With fair timers a server transaction that answered is removed, whether or
\* not its ACK ever arrives.
ServerIsGuarded(i) ==
    \/ ist[i].state \in {"Completed", "Accepted"}
    \/ ist[i].state = "Confirmed" /\ ~reliable
ServerEnds == \A i \in Server : ServerIsGuarded(i) ~> ~ServerIsGuarded(i)
------------------------------------------------------------------------------
(* The parts of the inductive invariant that are not properties above.     *)

\* The response a server transaction retransmits is that of its state.
LastFollows(s) ==
    /\ s.state = "none" => s.last = "none" /\ s.told = {}
    /\ s.state \in {"Started", "Proceeding"} => s.last = "1xx"
    /\ s.state = "Accepted" => s.last = "2xx"
    /\ s.state \in {"Completed", "Confirmed"} => s.last = "300_699"
LastFollowsState == \A i \in Server : LastFollows(ist[i])

\* What the caller's dialog was told is what the client's state says.
ToldFollowsState ==
    /\ ictState \in {"Started", "Calling"} => passedUp = {} /\ ~timedOut
    /\ ictState = "Proceeding" => passedUp \cap Final = {} /\ ~timedOut
    /\ ictState = "Accepted" => "2xx" \in passedUp
    /\ ictState = "Completed" => "300_699" \in passedUp

\* Each message that matters to the outcome has its cause.
NetIsCaused ==
    /\ \A a \in Final : a \in net => \E i \in Server : ist[i].last = a
    /\ "ACK_2xx" \in net => "2xx" \in passedUp
    /\ "ACK_300_699" \in net => passedUp \cap Final # {}

\* Over a reliable transport there is one INVITE, and it is received once.
ReliableSendsOnce ==
    reliable =>
        /\ ictTimers \subseteq TimerOf(IctTimer \ {"A"})
        /\ ictState = "Started" => "INVITE" \notin net
        /\ ictState = "Started" \/ "INVITE" \in net =>
              \A i \in Server : ist[i].state = "none"
        /\ \A i, j \in Server :
              ist[i].state # "none" /\ ist[j].state # "none" => i = j

IndInv ==
    /\ TypeOK /\ LastFollowsState /\ ToldFollowsState /\ NetIsCaused
    /\ OutcomeIsUnique /\ OneServerTransaction /\ LiveTransactionsAreTimed
    /\ ConfirmedImpliesCallerKnows /\ ReliableSendsOnce
------------------------------------------------------------------------------
(* What the comments of the code say, and the code does not do.            *)

\* tsip_transac_ict.c:530, "Cancel timers A and B": a client transaction that
\* accepted its 2xx has no retransmission timer left to elapse.
AcceptedStopsRetransmitting ==
    ictState = "Accepted" =>
        \A t \in ictTimers : t.name \in {"A", "B"} => t.queued

\* tsip_transac_layer.c:205, a request matches a server transaction if its branch
\* does: the dialog of an accepted call is passed no ACK but that of the 2xx.
AckIsForTheAnswer ==
    \A i \in Server : "ACK" \in ist[i].told => "2xx" \in passedUp

\* tsip_transac_ict.c:448, "The client transaction MUST pass the received response
\* up to the TU": a 300-699 that ends the wait for an answer reaches the dialog.
RejectionPassedUp ==
    [][IctRecv300 => "300_699" \in passedUp']_vars

\* tsip_transac_ict.c:464, timer D is zero for reliable transports: a rejected
\* client transaction is removed at once.
ReliableCompletedEnds ==
    (ictState = "Completed" /\ reliable) ~> (ictState = "Terminated")
=============================================================================
