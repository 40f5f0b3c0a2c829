--------------------------------- MODULE Ict ---------------------------------
(***************************************************************************)
(* The INVITE client transaction, tsip_transac_ict.c.                      *)
(*                                                                         *)
(* Every action is one call of tsip_transac_fsm_act on the transaction: it *)
(* runs under the lock of the state machine.  passedUp and timedOut record *)
(* what the dialog (the transaction user, TU) has been called back with.   *)
(* tuOk is the dialog's answer: FALSE when its callback returned an error, *)
(* which tsk_fsm_act turns into a transition to Terminated.                *)
(*                                                                         *)
(* The rows of the table for transporterror and error are left out: no     *)
(* code raises these two events.                                           *)
(***************************************************************************)
EXTENDS Timers, Transport

VARIABLES ictState, ictTimers, passedUp, timedOut
ictVars == <<ictState, ictTimers, passedUp, timedOut>>

IctTimer == {"A", "B", "D", "M"}
IctStates ==
    {"Started", "Calling", "Proceeding", "Completed", "Accepted", "Terminated"}
Final == {"2xx", "300_699"}
Response == Final \cup {"1xx"}

IctInit ==
    /\ ictState = "Started"
    /\ ictTimers = {}
    /\ passedUp = {}
    /\ timedOut = FALSE

\* The end of tsk_fsm_act: the state machine is in state to, or terminates when
\* the transition's function failed.  A terminated transaction is removed from
\* the layer and its destructor cancels the timers it can still name.
IctEnd(to, ok, timers) ==
    IF ok /\ to # "Terminated"
    THEN ictState' = to /\ ictTimers' = timers
    ELSE ictState' = "Terminated" /\ ictTimers' = Cancel(timers, IctTimer)

PassUp(response) == passedUp' = passedUp \cup {response} /\ UNCHANGED timedOut
TellNothing == UNCHANGED <<passedUp, timedOut>>

\* A slip: timer A is scheduled for every transport.
WithTimerAAlways(timers) == Schedule(timers, "A", FALSE)

\* Timer A exists for unreliable transports only.
WithTimerA(timers) == IF reliable THEN timers ELSE Schedule(timers, "A", FALSE)
\* A slip: timer B is forgotten.
ScheduleAOnly(timers) == WithTimerA(timers)
ScheduleAB(timers) == Schedule(WithTimerA(timers), "B", FALSE)
CancelAB(timers) == Cancel(timers, IF reliable THEN {"B"} ELSE {"A", "B"})
------------------------------------------------------------------------------
\* tsip_transac_ict_start; the outcome of the send is ignored.
IctSend ==
    /\ ictState = "Started"
    /\ \E sent \in BOOLEAN : net' = net \cup Sent("INVITE", sent)
    /\ IctEnd("Calling", TRUE, ScheduleAB(ictTimers))
    /\ TellNothing

IctRecv1xx ==
    /\ "1xx" \in net
    /\ net' = Rest("1xx")
    /\ PassUp("1xx")
    /\ \/ ictState = "Calling" /\ IctEnd("Proceeding", TRUE, CancelAB(ictTimers))
       \/ /\ ictState = "Proceeding"
          /\ \E tuOk \in BOOLEAN : IctEnd("Proceeding", tuOk, ictTimers)

\* The code schedules timers A and B here, where its comment says it cancels them.
IctRecv2xx ==
    /\ "2xx" \in net
    /\ net' = Rest("2xx")
    /\ PassUp("2xx")
    /\ \/ /\ ictState \in {"Calling", "Proceeding"}
          /\ \E tuOk \in BOOLEAN :
                IctEnd("Accepted", tuOk, ScheduleAB(Schedule(ictTimers, "M", FALSE)))
       \/ ictState = "Accepted" /\ IctEnd("Accepted", TRUE, ictTimers)

\* A slip: the ACK is sent, and the response is kept from the dialog.
IctRecv300Unreported ==
    /\ "300_699" \in net
    /\ ictState \in {"Calling", "Proceeding"}
    /\ \E sent, tuOk \in BOOLEAN, missed \in Missed :
          /\ net' = Rest("300_699") \cup Sent("ACK_300_699", sent)
          /\ TellNothing
          /\ IctEnd("Completed", sent /\ tuOk,
                    Schedule(CancelAB(ictTimers), "D", missed))

\* The response reaches the dialog only when the ACK could be sent.
IctRecv300 ==
    /\ "300_699" \in net
    /\ ictState \in {"Calling", "Proceeding"}
    /\ \E sent, tuOk \in BOOLEAN, missed \in Missed :
          /\ net' = Rest("300_699") \cup Sent("ACK_300_699", sent)
          /\ IF sent THEN PassUp("300_699") ELSE TellNothing
          /\ IctEnd("Completed", sent /\ tuOk,
                    Schedule(CancelAB(ictTimers), "D", missed))

IctRecv300Again ==
    /\ "300_699" \in net
    /\ ictState = "Completed"
    /\ \E sent \in BOOLEAN :
          /\ net' = Rest("300_699") \cup Sent("ACK_300_699", sent)
          /\ IctEnd("Completed", sent, ictTimers)
    /\ TellNothing

\* The dialog terminates and cancels its transactions.  In Started the event is
\* swallowed by the state machine's "any" row.
IctCancel ==
    /\ ictState \notin {"Started", "Terminated"}
    /\ IctEnd("Terminated", TRUE, ictTimers)
    /\ TellNothing
    /\ UNCHANGED net
------------------------------------------------------------------------------
IctTimerDue(t) ==
    /\ ~t.queued
    /\ ictTimers' = Due(ictTimers, t)
    /\ TellNothing
    /\ UNCHANGED <<ictState, net>>

\* tsip_transac_ict_timer_callback compares the identifiers before it acts.
Raised(t, name, state) ==
    t.queued /\ t.current /\ t.name = name /\ ictState = state

IctTimerA(t) ==
    /\ Raised(t, "A", "Calling")
    /\ \E sent \in BOOLEAN : net' = net \cup Sent("INVITE", sent)
    /\ IctEnd("Calling", TRUE, Schedule(ictTimers \ {t}, "A", FALSE))
    /\ TellNothing

\* A slip: timer B ends the transaction in every state.
IctTimerBAnywhere(t) ==
    /\ t.queued /\ t.current /\ t.name = "B" /\ ictState # "Terminated"
    /\ IctEnd("Terminated", TRUE, ictTimers \ {t})
    /\ timedOut' = TRUE
    /\ UNCHANGED <<net, passedUp>>

IctTimerB(t) ==
    /\ Raised(t, "B", "Calling")
    /\ IctEnd("Terminated", TRUE, ictTimers \ {t})
    /\ timedOut' = TRUE
    /\ UNCHANGED <<net, passedUp>>

\* A slip: the row of timer M is missing.
IctTimerDEnds(t) ==
    /\ Raised(t, "D", "Completed")
    /\ IctEnd("Terminated", TRUE, ictTimers \ {t})
    /\ TellNothing
    /\ UNCHANGED net

IctTimerEnds(t) ==
    /\ Raised(t, "D", "Completed") \/ Raised(t, "M", "Accepted")
    /\ IctEnd("Terminated", TRUE, ictTimers \ {t})
    /\ TellNothing
    /\ UNCHANGED net

\* Any other timer finds no row of the table, or not even its identifier.
IctTimerIgnored(t) ==
    /\ t.queued
    /\ ~ \/ Raised(t, "A", "Calling") \/ Raised(t, "B", "Calling")
         \/ Raised(t, "D", "Completed") \/ Raised(t, "M", "Accepted")
    /\ ictTimers' = ictTimers \ {t}
    /\ TellNothing
    /\ UNCHANGED <<ictState, net>>

IctTimerFires(t) ==
    IctTimerA(t) \/ IctTimerB(t) \/ IctTimerEnds(t) \/ IctTimerIgnored(t)
------------------------------------------------------------------------------
\* The manager's two threads serve every timer.
IctFairness ==
    \A t \in TimerOf(IctTimer) :
        WF_<<ictVars, net>>(t \in ictTimers /\ (IctTimerDue(t) \/ IctTimerFires(t)))
=============================================================================
