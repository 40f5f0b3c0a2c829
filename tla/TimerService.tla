---------------------------- MODULE TimerService ----------------------------
(***************************************************************************)
(* What the timer manager of tinySAK promises those who schedule timers: a *)
(* timer falls due no sooner than its deadline, it is called back at most  *)
(* once and only when it has fallen due, and a timer that is cancelled     *)
(* before that is never called back.  A stop loses the timers that are due.*)
(***************************************************************************)
EXTENDS Naturals

CONSTANTS Timer,
          Deadline    \* the deadlines a timer may have

VARIABLES clock,
          deadline,   \* deadline[t]: set when t is armed
          status      \* status[t]: where t is in its life
vars == <<clock, deadline, status>>

Init ==
    /\ clock = 0
    /\ deadline = [t \in Timer |-> 0]
    /\ status = [t \in Timer |-> "idle"]

Move(t, from, to) ==
    /\ status[t] = from
    /\ status' = [status EXCEPT ![t] = to]
    /\ UNCHANGED clock

Arm(t) ==
    /\ Move(t, "idle", "armed")
    /\ \E d \in Deadline : deadline' = [deadline EXCEPT ![t] = d]
FallDue(t) == clock >= deadline[t] /\ Move(t, "armed", "due") /\ UNCHANGED deadline
CancelArmed(t) == Move(t, "armed", "cancelled") /\ UNCHANGED deadline
Call(t) == Move(t, "due", "called") /\ UNCHANGED deadline

\* The manager stops: the timers that are due are not called back any more.
Lose(T) ==
    /\ \A t \in T : status[t] = "due"
    /\ status' = [t \in Timer |-> IF t \in T THEN "lost" ELSE status[t]]
    /\ UNCHANGED <<clock, deadline>>

Tick == clock' = clock + 1 /\ UNCHANGED <<deadline, status>>

Next ==
    \/ \E t \in Timer : Arm(t) \/ FallDue(t) \/ CancelArmed(t) \/ Call(t)
    \/ \E T \in SUBSET Timer : Lose(T)
    \/ Tick

Spec == Init /\ [][Next]_vars
=============================================================================
