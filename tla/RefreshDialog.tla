---------------------------- MODULE RefreshDialog ----------------------------
(***************************************************************************)
(* A client dialog that keeps a binding alive at a server: REGISTER,       *)
(* SUBSCRIBE and PUBLISH (tsip_dialog_register*.c, _subscribe.client.c,    *)
(* _publish.client.c over tsip_dialog.c).  The three state machines have   *)
(* the same rows but for the ones a condition on kind guards here; the     *)
(* state InProgress is called Trying in the last two.                      *)
(*                                                                         *)
(* Each request has a non-INVITE client transaction of its own, of which   *)
(* the dialog sees what Nict shows: it may never send anything (the result *)
(* of the transport is not looked at), it hands up provisional responses   *)
(* and one final response, or it times out.  requests and answers are what *)
(* was sent and may still arrive, in any order or never.  The server is    *)
(* external: it ignores a request that is not newer than the last one it   *)
(* processed (RFC 3261 10.3) and answers the others as it likes.           *)
(***************************************************************************)
EXTENDS Integers, FiniteSets

CONSTANT MaxRequests    \* bound on the sequence numbers of a dialog
ASSUME MaxRequestsAssumption == MaxRequests \in Nat

VARIABLES
    kind,        \* the method of the dialog
    silent,      \* ss->silent_hangup
    fsm,         \* the current state of the state machine
    state,       \* tsip_dialog_t.state
    leaving,     \* unregistering, unsubscribing, unpublishing
    challenged,  \* a challenge is stored in the dialog
    cseq,        \* the last sequence number used
    live,        \* the requests whose transaction waits for a final response
    provisional, \* those of live that were sent a 1xx
    refresh,     \* a timer is armed whose identifier is in timerrefresh.id
    shutdown,    \* the timer in timershutdown.id is armed
    told,        \* what the user was told of the binding, and "stopping" once the
                 \* stack asked the dialog to end
    requests, answers, notifies,    \* in transit
    binding,     \* at the server: "none", "held", or "lapsed" by itself
    seen         \* at the server: the last sequence number processed

dialog == <<kind, silent, fsm, state, leaving, challenged, cseq, live,
            provisional, refresh, shutdown, told>>
peer == <<binding, seen>>
net == <<requests, answers, notifies>>
vars == <<dialog, peer, net>>

Kinds == {"REGISTER", "SUBSCRIBE", "PUBLISH"}
FsmStates == {"Started", "InProgress", "Connected", "Terminated"}
Cseqs == 1..MaxRequests
\* "brief" is a 2xx, or a NOTIFY, that grants less than two seconds:
\* tsip_dialog_get_newdelay halves it to a delay of zero.
Granted == {"2xx", "brief"}
Notification == {"active", "brief", "terminated"}
Final == Granted \cup {"401", "stale", "423", "423bare", "error"}
Request == [cseq : Cseqs, leaving : BOOLEAN]
Answer == [cseq : Cseqs, class : Final \cup {"1xx"}]

Init ==
    /\ kind \in Kinds
    /\ silent \in BOOLEAN
    /\ fsm = "Started"
    /\ state = "initial"
    /\ leaving = FALSE
    /\ challenged = FALSE
    /\ cseq = 0
    /\ live = {}
    /\ provisional = {}
    /\ refresh = FALSE
    /\ shutdown = FALSE
    /\ told = {}
    /\ requests = {}
    /\ answers = {}
    /\ notifies = {}
    /\ binding = "none"
    /\ seen = 0
------------------------------------------------------------------------------
\* send_REGISTER and its like: a new request and its transaction, while the
\* transactions in waiting stay.  Expires is 0 when the dialog is leaving.
Sends(waiting, leave) ==
    /\ cseq < MaxRequests
    /\ cseq' = cseq + 1
    /\ leaving' = leave
    /\ live' = waiting \cup {cseq + 1}
    /\ \E sent \in BOOLEAN :
          requests' = IF sent
                      THEN requests \cup {[cseq |-> cseq + 1, leaving |-> leave]}
                      ELSE requests

SendsNothing == UNCHANGED <<cseq, requests, leaving>>

\* The final state: *_OnTerminated tells the user and leaves the layer.  The
\* transactions of the dialog go on without it.
Ends ==
    /\ fsm' = "Terminated"
    /\ SendsNothing

\* The user asks for the binding.
Begin ==
    /\ fsm = "Started"
    /\ fsm' = "InProgress"
    /\ UNCHANGED <<kind, silent, state, challenged, provisional, refresh,
                   shutdown, told, answers, notifies, peer>>
    /\ Sends(live, leaving)

\* A slip: the timer renews the binding in every state but the final one.
RefreshAnywhere(byTimer) ==
    /\ byTimer => refresh
    /\ refresh' = (refresh /\ ~byTimer)
    /\ fsm \in {"InProgress", "Connected"}
    /\ fsm' = "InProgress"
    /\ UNCHANGED <<kind, silent, state, challenged, provisional, shutdown,
                   told, answers, notifies, peer>>
    /\ Sends(live, leaving)

\* The user, or the timer, asks for a refresh.  There is no row for it while a
\* request is in progress.
Refresh(byTimer) ==
    /\ byTimer => refresh
    /\ refresh' = (refresh /\ ~byTimer)
    /\ UNCHANGED <<kind, silent, state, challenged, provisional, shutdown,
                   told, answers, notifies, peer>>
    /\ \/ fsm = "Connected" /\ fsm' = "InProgress" /\ Sends(live, leaving)
       \/ /\ byTimer
          /\ fsm \in {"InProgress", "Terminated"}
          /\ SendsNothing
          /\ UNCHANGED <<fsm, live>>
------------------------------------------------------------------------------
\* A transaction hands up an answer to request a.cseq.
Receives(a) ==
    /\ a \in answers
    /\ a.cseq \in live
    /\ answers' = answers \ {a}
    /\ UNCHANGED <<kind, silent, notifies, peer>>

ReceivesFinal(a) ==
    /\ Receives(a)
    /\ provisional' = provisional \ {a.cseq}

\* REGISTER passes a 1xx to tsip_dialog_update, which makes the dialog early
\* whatever it was before, unless the 1xx is a 100.
Recv1xx(a) ==
    /\ a.class = "1xx"
    /\ Receives(a)
    /\ provisional' = provisional \cup {a.cseq}
    /\ state' \in IF kind = "REGISTER" /\ fsm = "InProgress"
                  THEN {state, "early"} ELSE {state}
    /\ SendsNothing
    /\ UNCHANGED <<fsm, challenged, live, refresh, shutdown, told>>

\* A slip: a 2xx connects the dialog even when it is leaving.
Recv2xxConnectedLeaving(a) ==
    /\ a.class \in Granted
    /\ ReceivesFinal(a)
    /\ fsm = "InProgress"
    /\ fsm' = "Connected"
    /\ state' = "established"
    /\ live' = live \ {a.cseq}
    /\ refresh' \in IF a.class = "brief" THEN BOOLEAN ELSE {TRUE}
    /\ told' = told \cup {a.class}
    /\ SendsNothing
    /\ UNCHANGED <<challenged, shutdown>>

\* A slip: only the first 2xx arms the timer.
Recv2xxConnectedOnce(a) ==
    /\ a.class \in Granted
    /\ ReceivesFinal(a)
    /\ fsm = "InProgress" /\ ~leaving
    /\ fsm' = "Connected"
    /\ state' = "established"
    /\ live' = live \ {a.cseq}
    /\ refresh' = (refresh \/ state = "initial")
    /\ told' = told \cup {a.class}
    /\ SendsNothing
    /\ UNCHANGED <<challenged, shutdown>>

\* A zero delay may elapse before the timer's identifier is stored.
Recv2xxConnected(a) ==
    /\ a.class \in Granted
    /\ ReceivesFinal(a)
    /\ fsm = "InProgress" /\ ~leaving
    /\ fsm' = "Connected"
    /\ state' = "established"
    /\ live' = live \ {a.cseq}
    /\ refresh' \in IF a.class = "brief" THEN BOOLEAN ELSE {TRUE}
    /\ told' = told \cup {a.class}
    /\ SendsNothing
    /\ UNCHANGED <<challenged, shutdown>>

Recv2xxLeaving(a) ==
    /\ a.class \in Granted
    /\ ReceivesFinal(a)
    /\ fsm = "InProgress" /\ leaving
    /\ Ends
    /\ live' = live \ {a.cseq}
    /\ told' = told \cup {"unbound"}
    /\ UNCHANGED <<state, challenged, refresh, shutdown>>

\* tsip_dialog_update_challenges refuses a second challenge unless it is stale,
\* or the registration was established.
Accepted(a) ==
    ~challenged \/ a.class = "stale" \/ (kind = "REGISTER" /\ state = "established")

RecvChallenge(a) ==
    /\ a.class \in {"401", "stale"}
    /\ ReceivesFinal(a)
    /\ fsm = "InProgress"
    /\ \/ /\ Accepted(a)
          /\ challenged' = TRUE
          /\ Sends(live \ {a.cseq}, leaving)
          /\ UNCHANGED fsm
       \/ /\ ~Accepted(a)
          /\ Ends
          /\ live' = live \ {a.cseq}
          /\ UNCHANGED challenged
    /\ UNCHANGED <<state, refresh, shutdown, told>>

\* Without a Min-Expires header ("423bare") the function fails.
Recv423(a) ==
    /\ a.class \in {"423", "423bare"}
    /\ ReceivesFinal(a)
    /\ fsm = "InProgress"
    /\ \/ a.class = "423" /\ Sends(live \ {a.cseq}, leaving) /\ UNCHANGED fsm
       \/ a.class = "423bare" /\ Ends /\ live' = live \ {a.cseq}
    /\ UNCHANGED <<state, challenged, refresh, shutdown, told>>

\* The other codes raise the action error, which has a row for every state.
RecvError(a) ==
    /\ a.class = "error"
    /\ ReceivesFinal(a)
    /\ Ends
    /\ live' = live \ {a.cseq}
    /\ UNCHANGED <<state, challenged, refresh, shutdown, told>>

\* The dialog has ended: tsk_fsm_act returns at once.
RecvTooLate(a) ==
    /\ a.class \in Final \ {"error"}
    /\ ReceivesFinal(a)
    /\ fsm = "Terminated"
    /\ Ends
    /\ live' = live \ {a.cseq}
    /\ UNCHANGED <<state, challenged, refresh, shutdown, told>>

\* A slip: the dialog does not listen to timeouts.
TimesOutUnheard(c) ==
    /\ c \in live
    /\ live' = live \ {c}
    /\ provisional' = provisional \ {c}
    /\ SendsNothing
    /\ UNCHANGED <<kind, silent, fsm, state, challenged, refresh, shutdown, told,
                   answers, notifies, peer>>

\* A slip: what is provisional outlives its transaction.
TimesOutKept(c) ==
    /\ c \in live
    /\ live' = live \ {c}
    /\ Ends
    /\ UNCHANGED <<kind, silent, state, challenged, provisional, refresh, shutdown,
                   told, answers, notifies, peer>>

\* Timer F.  It may be queued already when a 1xx cancels it.
TimesOut(c) ==
    /\ c \in live
    /\ live' = live \ {c}
    /\ provisional' = provisional \ {c}
    /\ Ends
    /\ UNCHANGED <<kind, silent, state, challenged, refresh, shutdown, told,
                   answers, notifies, peer>>
------------------------------------------------------------------------------
\* A slip: the rows for a hangup in progress are missing, so that the row of
\* any state sends the request at once.
LeavesAnywhere(when) ==
    \/ /\ fsm \in when \cup {"InProgress"} /\ silent
       /\ Ends
       /\ UNCHANGED live
    \/ /\ fsm \in when \cup {"InProgress"}
       /\ ~silent
       /\ fsm' = "InProgress"
       /\ Sends(live, TRUE)

\* Leaving: a request with Expires 0 when the dialog is Connected, or (REGISTER
\* only) not started.  A silent dialog ends at once, and a request in progress
\* is abandoned.
Leaves(when) ==
    \/ /\ fsm = "InProgress" \/ (fsm \in when /\ silent)
       /\ Ends
       /\ UNCHANGED live
    \/ /\ fsm \in when
       /\ ~silent
       /\ fsm' = "InProgress"
       /\ Sends(live, TRUE)

\* tsip_dialog_hangup of an established dialog.
Hangup ==
    /\ state = "established"
    /\ Leaves({"Connected"})
    /\ UNCHANGED <<kind, silent, state, challenged, provisional, refresh, shutdown, told,
                   answers, notifies, peer>>

\* tsip_dialog_hangup of another dialog raises cancel, which ends its requests.
CancelRequests ==
    /\ state # "established"
    /\ fsm = "InProgress"
    /\ Ends
    /\ live' = {}
    /\ provisional' = {}
    /\ UNCHANGED <<kind, silent, state, challenged, refresh, shutdown, told,
                   answers, notifies, peer>>

\* A slip: the timer is not scheduled.
ShutdownUntimed ==
    /\ Leaves({"Connected"} \cup IF kind = "REGISTER" THEN {"Started"} ELSE {})
    /\ told' = told \cup {"stopping"}
    /\ UNCHANGED <<kind, silent, state, challenged, provisional, refresh, shutdown,
                   answers, notifies, peer>>

\* The stack stops (tsip_dialog_shutdown).  SUBSCRIBE and PUBLISH swallow every
\* event but the first request in Started.
Shutdown ==
    /\ Leaves({"Connected"} \cup IF kind = "REGISTER" THEN {"Started"} ELSE {})
    /\ shutdown' = (shutdown \/ fsm' = "InProgress")
    /\ told' = told \cup {"stopping"}
    /\ UNCHANGED <<kind, silent, state, challenged, provisional, refresh,
                   answers, notifies, peer>>

ShutdownTimesOut ==
    /\ shutdown
    /\ shutdown' = FALSE
    /\ Ends
    /\ UNCHANGED <<kind, silent, state, challenged, live, provisional, refresh,
                   told, answers, notifies, peer>>

\* Each NOTIFY arms a new refresh timer (process_i_notify), whose delay may be zero
\* as after a 2xx: when little is granted, or nothing is and the dialog, which is
\* leaving, asks for nothing itself.  A NOTIFY that ends the subscription ends the
\* dialog in Connected only.
RecvNotify(n) ==
    /\ kind = "SUBSCRIBE"
    /\ n \in notifies
    /\ notifies' = notifies \ {n}
    /\ \/ /\ fsm \in {"InProgress", "Connected"}
          /\ fsm = "Connected" => n # "terminated"
          /\ refresh' \in IF n = "active" /\ ~leaving THEN {TRUE} ELSE BOOLEAN
          /\ told' = IF n = "brief" THEN told \cup {n} ELSE told
          /\ UNCHANGED fsm
       \/ /\ fsm = "Connected" /\ n = "terminated"
          /\ fsm' = "Terminated"
          /\ UNCHANGED <<refresh, told>>
       \/ fsm \in {"Started", "Terminated"} /\ UNCHANGED <<fsm, refresh, told>>
    /\ UNCHANGED <<kind, silent, state, leaving, challenged, cseq, live, provisional,
                   shutdown, requests, answers, peer>>
------------------------------------------------------------------------------
\* The server, which is not part of the code.
PeerTries(r) ==
    /\ r \in requests
    /\ answers' = answers \cup {[cseq |-> r.cseq, class |-> "1xx"]}
    /\ UNCHANGED <<dialog, peer, requests, notifies>>

PeerAnswers(r) ==
    /\ r \in requests
    /\ requests' = requests \ {r}
    /\ \/ r.cseq <= seen /\ UNCHANGED <<peer, answers>>
       \/ /\ r.cseq > seen
          /\ seen' = r.cseq
          /\ \E class \in Final :
                /\ answers' = answers \cup {[cseq |-> r.cseq, class |-> class]}
                /\ binding' = IF class \notin Granted THEN binding
                              ELSE IF r.leaving THEN "none" ELSE "held"
    /\ UNCHANGED <<dialog, notifies>>

PeerLapses ==
    /\ binding = "held"
    /\ binding' = "lapsed"
    /\ notifies' = notifies \cup IF kind = "SUBSCRIBE" THEN {"terminated"} ELSE {}
    /\ UNCHANGED <<dialog, seen, requests, answers>>

PeerNotifies ==
    /\ kind = "SUBSCRIBE"
    /\ binding = "held"
    /\ \E n \in Notification \ {"terminated"} : notifies' = notifies \cup {n}
    /\ UNCHANGED <<dialog, peer, requests, answers>>
------------------------------------------------------------------------------
Next ==
    \/ Begin
    \/ \E byTimer \in BOOLEAN : Refresh(byTimer)
    \/ \E a \in answers : \/ Recv1xx(a)
                          \/ Recv2xxConnected(a)
                          \/ Recv2xxLeaving(a)
                          \/ RecvChallenge(a)
                          \/ Recv423(a)
                          \/ RecvError(a)
                          \/ RecvTooLate(a)
    \/ \E c \in live : TimesOut(c)
    \/ Hangup
    \/ CancelRequests
    \/ Shutdown
    \/ ShutdownTimesOut
    \/ \E n \in notifies : RecvNotify(n)
    \/ \E r \in requests : PeerTries(r)
    \/ \E r \in requests : PeerAnswers(r)
    \/ PeerLapses
    \/ PeerNotifies

Spec == Init /\ [][Next]_vars

\* The timer manager serves the timers.  Nothing makes the network deliver, the
\* server answer or the user act, and timer F is cancelled by a 1xx.
Fairness ==
    /\ \A c \in Cseqs : WF_vars(c \notin provisional /\ TimesOut(c))
    /\ WF_vars(ShutdownTimesOut)
    /\ WF_vars(Refresh(TRUE))
FairSpec == Spec /\ Fairness
------------------------------------------------------------------------------
\* Every variable stays in its range.
TypeOK ==
    /\ kind \in Kinds /\ silent \in BOOLEAN
    /\ fsm \in FsmStates
    /\ state \in {"initial", "early", "established"}
    /\ leaving \in BOOLEAN /\ challenged \in BOOLEAN
    /\ cseq \in 0..MaxRequests
    /\ live \subseteq Cseqs /\ provisional \subseteq live
    /\ refresh \in BOOLEAN /\ shutdown \in BOOLEAN
    /\ told \subseteq {"unbound", "stopping"} \cup Granted
    /\ requests \subseteq Request
    /\ answers \subseteq Answer
    /\ notifies \subseteq Notification
    /\ binding \in {"none", "held", "lapsed"}
    /\ seen \in 0..MaxRequests

\* A dialog that waits has exactly one request outstanding, its last: RFC 3261
\* 10.2 forbids a second REGISTER before the first is answered or timed out,
\* and without one nothing would ever move the dialog.
OneRequestOutstanding ==
    /\ fsm = "InProgress" => live = {cseq}
    /\ fsm \in {"Started", "Connected"} => live = {}
    /\ fsm = "Terminated" => live \subseteq {cseq}

\* A dialog that believes in its binding has one, unless the server let it lapse.
ConnectedIsBound == fsm = "Connected" => binding # "none"

\* Once the user is told that the binding was given up the server holds none,
\* whatever requests of the dialog are still on their way.
UnboundWhenTold == "unbound" \in told => binding # "held"

\* A Connected dialog has a timer that will refresh its binding, named by the
\* identifier the callback compares, unless a delay of zero defeated it.
ConnectedIsRefreshed == fsm = "Connected" => refresh \/ "brief" \in told

\* A dialog the stack shuts down ends, whatever the network and the server do.
ShutdownEnds == ("stopping" \in told) ~> (fsm = "Terminated")

\* A request is answered, times out, or waits behind a provisional response.
RequestsEnd == (fsm = "InProgress") ~> (fsm # "InProgress" \/ provisional # {})
------------------------------------------------------------------------------
\* tsip_api_common.c:94: a hangup "Will send an unREGISTER or unSUBSCRIBE or
\* unPUBLISH".  Told to hang up, an established dialog that is not silent leaves.
HangupUnbinds == [][Hangup /\ ~silent => leaving']_vars
=============================================================================
