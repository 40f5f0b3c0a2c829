---------------------------- MODULE TimerManager ----------------------------
(***************************************************************************)
(* The timer manager of tinySAK, tsk_timer.c, over tsk_runnable.c: the     *)
(* threads that schedule and cancel timers (callers), the manager's main   *)
(* thread, which waits for the first timer of the list, the runnable's     *)
(* thread (worker), which calls timers back, and the thread that starts    *)
(* and stops the manager (owner).                                          *)
(*                                                                         *)
(* An action is what a thread does between two points at which another may *)
(* change what it goes on to use.  The list of timers is the set Listed,   *)
(* ordered by Before.                                                      *)
(***************************************************************************)
EXTENDS Naturals, FiniteSets, Sequences

CONSTANTS Caller, Timer,
          NoTimer,      \* the null pointer
          MaxTime,      \* bound on the clock
          MaxStarts     \* bound on the starts of the manager
ASSUME TimersAssumption == IsFiniteSet(Timer) /\ NoTimer \notin Timer
ASSUME CallersAssumption == IsFiniteSet(Caller)
ASSUME BoundsAssumption == MaxTime \in Nat /\ MaxStarts \in Nat

VARIABLES
    now,        \* tsk_time_now()
    timers,     \* the timer objects
    uniqueId,   \* tsk_unique_timer_id
    pushes,     \* how many timers were put into the list
    callers,    \* where each caller is in tsk_timer_manager_schedule
    sem,        \* manager->sem
    main,       \* the main thread: pc, and the timer it looks at
    worker,     \* the runnable's thread
    running,    \* runnable->running
    queue,      \* runnable->objects
    rsem,       \* runnable->semaphore
    owner,      \* where the owner is in start and stop
    starts
callerVars == <<timers, uniqueId, pushes, callers>>
runnableVars == <<worker, running, queue, rsem>>
ownerVars == <<owner, starts>>
vars == <<now, callerVars, sem, main, runnableVars, ownerVars>>

TimerRecord ==
    [status   : {"free", "new", "listed", "queued", "called", "dropped", "lost"},
     id       : Nat,
     timeout  : Nat,
     canceled : BOOLEAN,
     order    : Nat]
CallerRecord == [pc    : {"idle", "number", "push", "signal", "count"},
                 timer : Timer \cup {NoTimer}]
MainRecord == [pc   : {"off", "loop", "sem", "peek", "look", "raise", "drop",
                       "sleep", "wait"},
               curr : Timer \cup {NoTimer}]

Init ==
    /\ now = 0
    /\ timers = [t \in Timer |-> [status |-> "free", id |-> 0, timeout |-> 0,
                                  canceled |-> FALSE, order |-> 0]]
    /\ uniqueId = 1 /\ pushes = 0
    /\ callers = [c \in Caller |-> [pc |-> "idle", timer |-> NoTimer]]
    /\ sem = 0
    /\ main = [pc |-> "off", curr |-> NoTimer]
    /\ worker = "off" /\ running = FALSE /\ queue = <<>> /\ rsem = 0
    /\ owner = "off" /\ starts = 0

\* runnable->started and runnable->initialized: from tsk_runnable_start to the
\* end of tsk_runnable_stop.
Started == owner \in {"on", "joiningWorker"}

Listed == {t \in Timer : timers[t].status = "listed"}

\* A slip: a timer goes before those with the same timeout.
NewestBefore(t, u) ==
    \/ timers[t].timeout < timers[u].timeout
    \/ timers[t].timeout = timers[u].timeout /\ timers[t].order > timers[u].order

\* The order of the list: by timeout, and a timer goes behind those that have the
\* same timeout (tsk_list_push_ascending_data).
Before(t, u) ==
    \/ timers[t].timeout < timers[u].timeout
    \/ timers[t].timeout = timers[u].timeout /\ timers[t].order < timers[u].order
IsFirst(t, T) == t \in T /\ \A u \in T \ {t} : Before(t, u)
HeadOf(T) == IF T = {} THEN NoTimer ELSE CHOOSE t \in T : IsFirst(t, T)

\* tsk_condwait_signal wakes the main thread only if it waits already.
Signalled == IF main.pc = "wait" THEN [main EXCEPT !.pc = "peek"] ELSE main
------------------------------------------------------------------------------
(* tsk_timer_manager_schedule                                              *)

\* The timer object is created; its identifier is read ...
Schedule(c) ==
    /\ callers[c].pc = "idle"
    /\ running \/ Started
    /\ \E t \in Timer, delay \in 0..MaxTime :
          /\ timers[t].status = "free"
          /\ now + delay <= MaxTime
          /\ timers' = [timers EXCEPT ![t].status = "new", ![t].id = uniqueId,
                                      ![t].timeout = now + delay]
          /\ callers' = [callers EXCEPT ![c] = [pc |-> "number", timer |-> t]]
    /\ UNCHANGED <<now, uniqueId, pushes, sem, main, runnableVars, ownerVars>>

\* ... and the static counter is written, without a lock.
Number(c) ==
    /\ callers[c].pc = "number"
    /\ uniqueId' = timers[callers[c].timer].id + 1
    /\ callers' = [callers EXCEPT ![c].pc = "push"]
    /\ UNCHANGED <<now, timers, pushes, sem, main, runnableVars, ownerVars>>

Push(c) ==
    /\ callers[c].pc = "push"
    /\ pushes' = pushes + 1
    /\ timers' = [timers EXCEPT ![callers[c].timer].status = "listed",
                                ![callers[c].timer].order = pushes]
    /\ callers' = [callers EXCEPT ![c].pc = "signal"]
    /\ UNCHANGED <<now, uniqueId, sem, main, runnableVars, ownerVars>>

Signal(c) ==
    /\ callers[c].pc = "signal"
    /\ main' = Signalled
    /\ callers' = [callers EXCEPT ![c].pc = "count"]
    /\ UNCHANGED <<now, timers, uniqueId, pushes, sem, runnableVars, ownerVars>>

\* A slip: the semaphore is incremented for the first timer of the list only.
CountFirst(c) ==
    /\ callers[c].pc = "count"
    /\ sem' = IF Cardinality(Listed) > 1 THEN sem ELSE sem + 1
    /\ callers' = [callers EXCEPT ![c] = [pc |-> "idle", timer |-> NoTimer]]
    /\ UNCHANGED <<now, timers, uniqueId, pushes, main, runnableVars, ownerVars>>

Count(c) ==
    /\ callers[c].pc = "count"
    /\ sem' = sem + 1
    /\ callers' = [callers EXCEPT ![c] = [pc |-> "idle", timer |-> NoTimer]]
    /\ UNCHANGED <<now, timers, uniqueId, pushes, main, runnableVars, ownerVars>>

\* tsk_timer_manager_cancel with the identifier of timer t, which its scheduler
\* has returned: the first timer of the list with that identifier is marked, and
\* the main thread is told when it is the very first.
Cancel(c, t) ==
    /\ callers[c].pc = "idle" /\ running
    /\ timers[t].status \notin {"free", "new"} /\ \A d \in Caller : callers[d].timer # t
    /\ LET same == {u \in Listed : timers[u].id = timers[t].id}
           item == HeadOf(same)
       IN  /\ same # {}
           /\ timers' = [timers EXCEPT ![item].canceled = TRUE]
           /\ main' = IF item = HeadOf(Listed) THEN Signalled ELSE main
    /\ UNCHANGED <<now, uniqueId, pushes, callers, sem, runnableVars, ownerVars>>
------------------------------------------------------------------------------
(* __tsk_timer_manager_mainthread                                          *)

MainKeeps == UNCHANGED <<now, uniqueId, pushes, callers, ownerVars>>

MainLoops ==
    /\ main.pc = "loop"
    /\ main' = [main EXCEPT !.pc = IF running THEN "sem" ELSE "off"]
    /\ UNCHANGED <<timers, sem, runnableVars>> /\ MainKeeps

\* A slip: the thread does not wait for the semaphore.
MainDecrementsAtOnce ==
    /\ main.pc = "sem"
    /\ sem' = sem - 1
    /\ main' = [main EXCEPT !.pc = "peek"]
    /\ UNCHANGED <<timers, runnableVars>> /\ MainKeeps

MainDecrements ==
    /\ main.pc = "sem" /\ sem > 0
    /\ sem' = sem - 1
    /\ main' = [main EXCEPT !.pc = "peek"]
    /\ UNCHANGED <<timers, runnableVars>> /\ MainKeeps

\* The first timer is read under the lock and used after the unlock.
MainPeeks ==
    /\ main.pc = "peek"
    /\ main' = IF running THEN [pc |-> "look", curr |-> HeadOf(Listed)]
                          ELSE [pc |-> "off", curr |-> NoTimer]
    /\ UNCHANGED <<timers, sem, runnableVars>> /\ MainKeeps

MainGoes(pc) ==
    /\ main' = [main EXCEPT !.pc = pc]
    /\ UNCHANGED <<timers, sem, runnableVars>> /\ MainKeeps

\* A slip: the cancellation of a timer that is due is not seen.
MainLooksLate ==
    /\ main.pc = "look"
    /\ \/ main.curr = NoTimer /\ MainGoes("loop")
       \/ /\ main.curr # NoTimer
          /\ MainGoes(IF now >= timers[main.curr].timeout THEN "raise"
                      ELSE IF timers[main.curr].canceled THEN "drop" ELSE "sleep")

MainLooks ==
    /\ main.pc = "look"
    /\ \/ main.curr = NoTimer /\ MainGoes("loop")
       \/ main.curr # NoTimer /\ timers[main.curr].canceled /\ MainGoes("drop")
       \/ /\ main.curr # NoTimer /\ ~timers[main.curr].canceled
          /\ MainGoes(IF now >= timers[main.curr].timeout THEN "raise" ELSE "sleep")

\* tsk_list_remove_item_by_data finds its item by tsk_timer_cmp: the first of the
\* list that has the same timeout.
Found(t) == HeadOf({u \in Listed : timers[u].timeout = timers[t].timeout})

\* The timer is queued for the worker and taken out of the list; an uninitialized
\* runnable frees it instead.
MainRaises ==
    /\ main.pc = "raise"
    /\ timers' = [timers EXCEPT ![Found(main.curr)].status = "dropped",
                                ![main.curr].status = IF Started THEN "queued" ELSE "lost"]
    /\ queue' = IF Started THEN Append(queue, main.curr) ELSE queue
    /\ rsem' = IF Started THEN rsem + 1 ELSE rsem
    /\ main' = [pc |-> "loop", curr |-> NoTimer]
    /\ UNCHANGED <<sem, worker, running>> /\ MainKeeps

MainDrops ==
    /\ main.pc = "drop"
    /\ timers' = [timers EXCEPT ![Found(main.curr)].status = "dropped"]
    /\ main' = [pc |-> "loop", curr |-> NoTimer]
    /\ UNCHANGED <<sem, runnableVars>> /\ MainKeeps

\* tsk_condwait_timedwait: a signal sent before the wait begins is lost.
MainSleeps == main.pc = "sleep" /\ MainGoes("wait")
MainTimesOut ==
    main.pc = "wait" /\ now >= timers[main.curr].timeout /\ MainGoes("peek")
------------------------------------------------------------------------------
(* run, with TSK_RUNNABLE_RUN_BEGIN and TSK_RUNNABLE_RUN_END               *)

WorkerKeeps == UNCHANGED <<now, uniqueId, pushes, callers, sem, ownerVars>>

\* "VERY IMPORTANT --> needed by the main thread", which is created here.
WorkerBegins ==
    /\ worker = "born"
    /\ worker' = "begun" /\ running' = TRUE
    /\ main' = [pc |-> "loop", curr |-> NoTimer]
    /\ UNCHANGED <<timers, queue, rsem>> /\ WorkerKeeps

\* TSK_RUNNABLE_RUN_BEGIN sets running once more.
WorkerLoops ==
    /\ worker = "begun"
    /\ worker' = "loop" /\ running' = TRUE
    /\ UNCHANGED <<timers, queue, rsem, main>> /\ WorkerKeeps

WorkerEnds ==
    /\ worker = "loop" /\ rsem > 0 /\ ~running
    /\ rsem' = rsem - 1
    /\ worker' = "off"
    /\ UNCHANGED <<timers, queue, running, main>> /\ WorkerKeeps

\* A slip: the thread waits for the next timer when one is already queued.
WorkerCallsLast ==
    /\ worker = "loop" /\ rsem > 0 /\ running
    /\ rsem' = rsem - 1
    /\ IF Len(queue) # 1
       THEN UNCHANGED <<timers, queue>>
       ELSE /\ timers' = [timers EXCEPT ![Head(queue)].status = "called"]
            /\ queue' = Tail(queue)
    /\ UNCHANGED <<worker, running, main>> /\ WorkerKeeps

WorkerCalls ==
    /\ worker = "loop" /\ rsem > 0 /\ running
    /\ rsem' = rsem - 1
    /\ IF queue = <<>>
       THEN UNCHANGED <<timers, queue>>
       ELSE /\ timers' = [timers EXCEPT ![Head(queue)].status = "called"]
            /\ queue' = Tail(queue)
    /\ UNCHANGED <<worker, running, main>> /\ WorkerKeeps
------------------------------------------------------------------------------
(* tsk_timer_manager_start and tsk_timer_manager_stop                      *)

OwnerKeeps == UNCHANGED <<now, uniqueId, pushes, callers>>

Start ==
    /\ owner = "off" /\ starts < MaxStarts
    /\ starts' = starts + 1
    /\ owner' = "on" /\ worker' = "born" /\ queue' = <<>> /\ rsem' = 0
    /\ UNCHANGED <<running, timers, sem, main>> /\ OwnerKeeps

\* tsk_runnable_stop, up to the join of the worker.
Stop ==
    /\ owner = "on" /\ running
    /\ running' = FALSE /\ rsem' = rsem + 1
    /\ owner' = "joiningWorker"
    /\ UNCHANGED <<starts, worker, queue, timers, sem, main>> /\ OwnerKeeps

\* The runnable is deinitialized with the timers still queued, and the main
\* thread's semaphore incremented.
StopWorker ==
    /\ owner = "joiningWorker" /\ worker = "off"
    /\ timers' = [t \in Timer |-> IF timers[t].status = "queued"
                                  THEN [timers[t] EXCEPT !.status = "lost"]
                                  ELSE timers[t]]
    /\ queue' = <<>> /\ rsem' = 0
    /\ sem' = sem + 1
    /\ owner' = "signal"
    /\ UNCHANGED <<starts, worker, running, main>> /\ OwnerKeeps

StopSignals ==
    /\ owner = "signal"
    /\ main' = Signalled
    /\ owner' = "joiningMain"
    /\ UNCHANGED <<starts, runnableVars, timers, sem>> /\ OwnerKeeps

StopMain ==
    /\ owner = "joiningMain" /\ main.pc = "off"
    /\ owner' = "off"
    /\ UNCHANGED <<starts, runnableVars, timers, sem, main>> /\ OwnerKeeps
------------------------------------------------------------------------------
Tick ==
    /\ now < MaxTime
    /\ now' = now + 1
    /\ UNCHANGED <<callerVars, sem, main, runnableVars, ownerVars>>

Next ==
    \/ \E c \in Caller :
          \/ Schedule(c)
          \/ Number(c)
          \/ Push(c)
          \/ Signal(c)
          \/ Count(c)
          \/ \E t \in Timer : Cancel(c, t)
    \/ MainLoops
    \/ MainDecrements
    \/ MainPeeks
    \/ MainLooks
    \/ MainRaises
    \/ MainDrops
    \/ MainSleeps
    \/ MainTimesOut
    \/ WorkerBegins
    \/ WorkerLoops
    \/ WorkerCalls
    \/ WorkerEnds
    \/ Start
    \/ Stop
    \/ StopWorker
    \/ StopSignals
    \/ StopMain
    \/ Tick

MainStep ==
    \/ MainLoops \/ MainDecrements \/ MainPeeks \/ MainLooks
    \/ MainRaises \/ MainDrops \/ MainSleeps \/ MainTimesOut

\* Every thread that can go on does so in the end, and time passes.  Nobody has to
\* schedule or cancel a timer, or to start or stop the manager.
Fairness ==
    /\ WF_vars(MainStep)
    /\ WF_vars(WorkerBegins \/ WorkerLoops \/ WorkerCalls \/ WorkerEnds)
    /\ \A c \in Caller : WF_vars(Number(c) \/ Push(c) \/ Signal(c) \/ Count(c))
    /\ WF_vars(StopWorker \/ StopSignals \/ StopMain)
    /\ WF_vars(Tick)

Spec == Init /\ [][Next]_vars
FairSpec == Spec /\ Fairness
------------------------------------------------------------------------------
\* Every variable stays in its range.
TypeOK ==
    /\ now \in 0..MaxTime
    /\ timers \in [Timer -> TimerRecord]
    /\ uniqueId \in Nat /\ pushes \in Nat
    /\ callers \in [Caller -> CallerRecord]
    /\ sem \in Nat
    /\ main \in MainRecord
    /\ worker \in {"off", "born", "begun", "loop"}
    /\ running \in BOOLEAN
    /\ queue \in Seq(Timer) /\ rsem \in Nat
    /\ owner \in {"off", "on", "joiningWorker", "signal", "joiningMain"}
    /\ starts \in 0..MaxStarts

\* The main thread does not sleep on its semaphore while a timer is in the list,
\* unless a caller is about to increment it: across cancellations, stops and
\* restarts no permit of manager->sem is lost.
NoTimerWithoutPermit ==
    main.pc = "sem" /\ sem = 0 /\ Listed # {} =>
        \E c \in Caller : callers[c].pc \in {"signal", "count"}

\* The item that tsk_list_remove_item_by_data takes out, the first with the same
\* timeout, is the timer the main thread looked at: no other timer vanishes.
RemovesTheServed ==
    main.curr # NoTimer => main.curr \in Listed /\ Found(main.curr) = main.curr

\* What the service promises of a timer: its deadline, once it is in the list, and
\* where it is in its life.  It falls due when the main thread finds it so.
DeadlineInService ==
    [t \in Timer |-> IF timers[t].status \in {"free", "new"} THEN 0
                     ELSE timers[t].timeout]
Raising(t) == main.pc = "raise" /\ main.curr = t
StatusInService ==
    [t \in Timer |->
        CASE timers[t].status \in {"free", "new"} -> "idle"
          [] timers[t].status = "listed" ->
               IF Raising(t) THEN "due" ELSE IF timers[t].canceled THEN "cancelled"
               ELSE "armed"
          [] timers[t].status = "queued" -> "due"
          [] timers[t].status = "dropped" -> "cancelled"
          [] OTHER -> timers[t].status]

\* The manager implements the service: a timer is called back once at most, not
\* before its timeout, and not once it was seen cancelled.
Service == INSTANCE TimerService WITH
    Deadline <- 0..MaxTime, clock <- now,
    deadline <- DeadlineInService, status <- StatusInService
ImplementsService == Service!Spec

\* A timer in the list leaves it, and one that is due is called back, unless the
\* manager is stopped.
TimersAreServed ==
    \A t \in Timer :
        /\ (timers[t].status = "listed") ~> (timers[t].status # "listed" \/ owner # "on")
        /\ (timers[t].status = "queued") ~> (timers[t].status = "called" \/ owner # "on")
------------------------------------------------------------------------------
(* What the comments of the code say, and the code does not do.            *)

\* tsk_timer.c:55, "Unique timer identifier".
IdsAreUnique ==
    \A t, u \in Timer :
        /\ timers[t].status \notin {"free", "new"}
        /\ timers[u].status \notin {"free", "new"}
        /\ timers[t].id = timers[u].id
        => t = u

\* tsk_timer.c:57, "When the timer will timeout": when every caller has returned,
\* the main thread does not sleep on while a timer in the list is overdue.
NoneSleptOver ==
    main.pc = "wait" /\ (\A c \in Caller : callers[c].pc = "idle") =>
        \A t \in Listed : t = main.curr \/ now <= timers[t].timeout

\* tsk_runnable.c:153, "Stops a runnable object": the call returns.
StopReturns == (owner = "joiningWorker") ~> (owner = "off")
------------------------------------------------------------------------------
(* The parts of the inductive invariant that are not properties above.     *)

\* A timer is not cancelled before it is in the list, and the bound on the clock
\* bounds the timeouts.
TimersAreFresh ==
    \A t \in Timer :
        /\ timers[t].timeout <= MaxTime
        /\ timers[t].status \in {"free", "new"} => ~timers[t].canceled

\* A caller in tsk_timer_manager_schedule has a timer of its own.
CallersFollow ==
    /\ \A c \in Caller :
          /\ callers[c].pc = "idle" <=> callers[c].timer = NoTimer
          /\ callers[c].pc \in {"number", "push"} =>
                timers[callers[c].timer].status = "new"
          /\ callers[c].pc \in {"signal", "count"} =>
                timers[callers[c].timer].status \notin {"free", "new"}
    /\ \A c, d \in Caller :
          callers[c].timer = callers[d].timer /\ callers[c].timer # NoTimer => c = d

\* No two timers of the list have the same place in it.
ListIsOrdered ==
    /\ \A t \in Listed : timers[t].order < pushes
    /\ \A t, u \in Listed : timers[t].order = timers[u].order => t = u

\* The timer the main thread looks at is in the list, ahead of those with the same
\* timeout, until the main thread itself takes it out.
Leads(t) ==
    /\ t \in Listed
    /\ \A u \in Listed \ {t} :
          timers[u].timeout = timers[t].timeout => timers[t].order < timers[u].order
MainFollows ==
    /\ main.curr # NoTimer => Leads(main.curr)
    /\ main.pc \in {"raise", "drop", "sleep", "wait"} => main.curr # NoTimer
    /\ main.pc = "raise" => now >= timers[main.curr].timeout
    /\ main.pc = "drop" => timers[main.curr].canceled

\* The worker's queue holds queued timers, each of them once.
QueueFollows ==
    /\ \A i \in 1..Len(queue) : timers[queue[i]].status = "queued"
    /\ \A i, j \in 1..Len(queue) : queue[i] = queue[j] => i = j

\* How far the threads may be, by the phase of the owner.
PhasesFollow ==
    /\ owner = "off" => main.pc = "off"
    /\ owner = "on" => \/ worker = "born" /\ main.pc = "off"
                       \/ worker \in {"begun", "loop"} /\ running
    /\ owner = "joiningWorker" => worker \in {"begun", "loop", "off"}
    /\ running => owner \in {"on", "joiningWorker"} /\ worker \in {"begun", "loop"}
    /\ worker # "off" => owner \in {"on", "joiningWorker"}

\* Every timer of the list has a permit: in the semaphore, about to be added by its
\* caller, or held by the main thread.  A permit with which the main thread ends
\* is made up for by the stop.
InFlight == {c \in Caller : callers[c].pc \in {"signal", "count"}}
HoldsPermit ==
    \/ main.pc \in {"peek", "raise", "drop", "sleep", "wait"}
    \/ main.pc = "look" /\ main.curr # NoTimer
    \/ main.pc = "off" /\ owner = "joiningWorker"
Surplus == owner \in {"signal", "joiningMain"} /\ main.pc # "off"
PermitsBalance ==
    Cardinality(Listed) + (IF Surplus THEN 1 ELSE 0)
        <= sem + Cardinality(InFlight) + (IF HoldsPermit THEN 1 ELSE 0)

IndInv ==
    /\ TypeOK /\ TimersAreFresh /\ CallersFollow /\ ListIsOrdered /\ MainFollows
    /\ QueueFollows /\ PhasesFollow /\ PermitsBalance
=============================================================================
