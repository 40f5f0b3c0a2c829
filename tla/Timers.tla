------------------------------- MODULE Timers -------------------------------
(***************************************************************************)
(* The timers of one SIP transaction as the timer manager of tinySAK       *)
(* (tsk_timer.c) sees them.                                                *)
(*                                                                         *)
(* A transaction keeps one identifier per timer name (self->timerX.id).    *)
(* TRANSAC_TIMER_SCHEDULE overwrites the identifier without cancelling the *)
(* timer it named, so the manager may hold timers nobody can cancel any    *)
(* more.  A timer that is due is first moved to the queue of the manager's *)
(* runnable and only then called back by the runnable's thread; a timer in *)
(* that queue can no longer be cancelled.  Both facts are kept:            *)
(*                                                                         *)
(*   current   the transaction's identifier still names this timer         *)
(*   queued    the timer is due and waits in the runnable's queue          *)
(*                                                                         *)
(* Time itself is left out: any armed timer may become due at any moment.  *)
(***************************************************************************)
TimerOf(Name) == [name : Name, current : BOOLEAN, queued : BOOLEAN]

\* self->timerX.id = tsk_timer_mgr_global_schedule(...).  missed: the timer's
\* delay is zero and its callback ran before the identifier was stored, so the
\* comparison with self->timerX.id fails when it fires.
Schedule(timers, name, missed) ==
    {t \in timers : t.name # name}
        \cup {[t EXCEPT !.current = FALSE] : t \in {u \in timers : u.name = name}}
        \cup {[name |-> name, current |-> ~missed, queued |-> FALSE]}

\* tsk_timer_mgr_global_cancel(self->timerX.id) for every X in names.
Cancel(timers, names) ==
    {t \in timers : t.queued \/ ~t.current \/ t.name \notin names}

\* The manager's main thread finds timer t due and queues it.
Due(timers, t) == (timers \ {t}) \cup {[t EXCEPT !.queued = TRUE]}

\* The identifier of some pending timer is still stored under this name.
IsPending(timers, name) == \E t \in timers : t.name = name /\ t.current
=============================================================================
