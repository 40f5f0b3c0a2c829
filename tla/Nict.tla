--------------------------------- MODULE Nict ---------------------------------
(***************************************************************************)
(* The non-INVITE client transaction, tsip_transac_nict.c, in the terms of *)
(* module Ict.  told records what the dialog was called back with.  The    *)
(* dialog's answer to a callback is ignored here, but the dialog may       *)
(* terminate inside it and cancel the transaction (tuStays is FALSE), as   *)
(* the INVITE dialog does when it ends.  timerK is scheduled after the     *)
(* callback, whether or not that happened.                                 *)
(***************************************************************************)
EXTENDS Timers, Transport

VARIABLES nictState, nictTimers, told
nictVars == <<nictState, nictTimers, told>>

NictTimer == {"E", "F", "K"}
NictStates == {"Started", "Trying", "Proceeding", "Completed", "Terminated"}
Told == {"1xx", "final", "timedout", "transport_error"}

NictInit ==
    /\ nictState = "Started"
    /\ nictTimers = {}
    /\ told = {}

\* The end of tsk_fsm_act, with the destructor of a terminated transaction.
NictEnd(to, timers) ==
    /\ nictState' = to
    /\ nictTimers' = IF to = "Terminated" THEN Cancel(timers, NictTimer) ELSE timers

Tell(what) == told' = told \cup {what}
CancelE(timers) == IF reliable THEN timers ELSE Cancel(timers, {"E"})
------------------------------------------------------------------------------
\* A slip: timers E and F are both for unreliable transports.
NictSendUntimed ==
    /\ nictState = "Started"
    /\ \E sent \in BOOLEAN : net' = net \cup Sent("request", sent)
    /\ LET withEF == Schedule(Schedule(nictTimers, "F", FALSE), "E", FALSE)
       IN  NictEnd("Trying", IF reliable THEN nictTimers ELSE withEF)
    /\ UNCHANGED told

\* A slip: timer E is scheduled for every transport.
NictSendRepeated ==
    /\ nictState = "Started"
    /\ \E sent \in BOOLEAN : net' = net \cup Sent("request", sent)
    /\ NictEnd("Trying", Schedule(Schedule(nictTimers, "F", FALSE), "E", FALSE))
    /\ UNCHANGED told

NictSend ==
    /\ nictState = "Started"
    /\ \E sent \in BOOLEAN : net' = net \cup Sent("request", sent)
    /\ LET withF == Schedule(nictTimers, "F", FALSE)
       IN  NictEnd("Trying", IF reliable THEN withF ELSE Schedule(withF, "E", FALSE))
    /\ UNCHANGED told

\* Timer F is cancelled by the first provisional response only.
NictRecv1xx ==
    /\ "1xx" \in net
    /\ net' = Rest("1xx")
    /\ Tell("1xx")
    /\ \/ /\ nictState = "Trying"
          /\ NictEnd("Proceeding", Cancel(CancelE(nictTimers), {"F"}))
       \/ nictState = "Proceeding" /\ NictEnd("Proceeding", CancelE(nictTimers))

NictRecvFinal ==
    /\ "final" \in net
    /\ nictState \in {"Trying", "Proceeding"}
    /\ net' = Rest("final")
    /\ Tell("final")
    /\ \E tuStays \in BOOLEAN, missed \in Missed :
          NictEnd(IF tuStays THEN "Completed" ELSE "Terminated",
                  Schedule(IF nictState = "Trying"
                           THEN Cancel(CancelE(nictTimers), {"F"})
                           ELSE CancelE(nictTimers),
                           "K", missed))

\* The dialog terminates and cancels its transactions; Started swallows it.
NictCancel ==
    /\ nictState \notin {"Started", "Terminated"}
    /\ NictEnd("Terminated", nictTimers)
    /\ UNCHANGED <<net, told>>
------------------------------------------------------------------------------
NictTimerDue(t) ==
    /\ ~t.queued
    /\ nictTimers' = Due(nictTimers, t)
    /\ UNCHANGED <<nictState, told, net>>

\* tsip_transac_nict_timer_callback compares the identifiers before it acts.
NictRaised(t, name, states) ==
    t.queued /\ t.current /\ t.name = name /\ nictState \in states

\* Timer E finds the transaction in Proceeding when it was already queued as the
\* provisional response cancelled it; it is then rescheduled there.
NictTimerE(t) ==
    /\ NictRaised(t, "E", {"Trying", "Proceeding"})
    /\ \E sent \in BOOLEAN : net' = net \cup Sent("request", sent)
    /\ NictEnd(nictState, Schedule(nictTimers \ {t}, "E", FALSE))
    /\ UNCHANGED told

\* A slip: timer F ends the transaction in every state.
NictTimerFAnywhere(t) ==
    /\ NictRaised(t, "F", NictStates \ {"Terminated"})
    /\ Tell(IF nictState = "Proceeding" THEN "transport_error" ELSE "timedout")
    /\ NictEnd("Terminated", nictTimers \ {t})
    /\ UNCHANGED net

NictTimerF(t) ==
    /\ NictRaised(t, "F", {"Trying", "Proceeding"})
    /\ Tell(IF nictState = "Trying" THEN "timedout" ELSE "transport_error")
    /\ NictEnd("Terminated", nictTimers \ {t})
    /\ UNCHANGED net

NictTimerK(t) ==
    /\ NictRaised(t, "K", {"Completed"})
    /\ NictEnd("Terminated", nictTimers \ {t})
    /\ UNCHANGED <<net, told>>

NictTimerIgnored(t) ==
    /\ t.queued
    /\ ~ \/ NictRaised(t, "E", {"Trying", "Proceeding"})
         \/ NictRaised(t, "F", {"Trying", "Proceeding"})
         \/ NictRaised(t, "K", {"Completed"})
    /\ nictTimers' = nictTimers \ {t}
    /\ UNCHANGED <<nictState, told, net>>

NictTimerFires(t) ==
    NictTimerE(t) \/ NictTimerF(t) \/ NictTimerK(t) \/ NictTimerIgnored(t)
------------------------------------------------------------------------------
NictFairness ==
    \A t \in TimerOf(NictTimer) :
        WF_<<nictVars, net>>(/\ t \in nictTimers
                             /\ NictTimerDue(t) \/ NictTimerFires(t))
=============================================================================
