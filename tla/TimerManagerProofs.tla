------------------------- MODULE TimerManagerProofs -------------------------
(* What the timer manager does for any number of callers and timers.       *)
EXTENDS TimerManager, FiniteSetTheorems, WellFoundedInduction, TLAPS

\* A set of naturals that is not empty has a least element.
LEMMA LeastNatural ==
    ASSUME NEW T, T \subseteq Nat, T # {}
    PROVE  \E x \in T : \A y \in T : x <= y
  <1> DEFINE R == {p \in Nat \X Nat : p[1] < p[2]}
  <1>1. IsWellFoundedOn(R, Nat)
    BY NatLessThanWellFounded DEF OpToRel
  <1>2. \E x \in T : \A y \in T : <<y, x>> \notin R
    <2> HIDE DEF R
    <2> QED
      BY <1>1, WFMin
  <1>3. \A x, y \in T : <<y, x>> \notin R => x <= y
    OBVIOUS
  <1> HIDE DEF R
  <1> QED
    BY <1>2, <1>3

\* No two timers are each the first of a set.
LEMMA FirstIsUnique ==
    ASSUME timers \in [Timer -> TimerRecord], NEW T, T \subseteq Timer,
           NEW t, NEW u, IsFirst(t, T), IsFirst(u, T)
    PROVE  t = u
  <1> SUFFICES ASSUME t # u PROVE FALSE
    OBVIOUS
  <1>1. Before(t, u) /\ Before(u, t) /\ t \in Timer /\ u \in Timer
    BY DEF IsFirst
  <1>2. /\ timers[t].timeout \in Nat /\ timers[u].timeout \in Nat
        /\ timers[t].order \in Nat /\ timers[u].order \in Nat
    BY <1>1 DEF TimerRecord
  <1> QED
    BY <1>1, <1>2 DEF Before

\* The head of the list is its first timer.
LEMMA HeadIsFirst ==
    ASSUME timers \in [Timer -> TimerRecord], NEW T, T \subseteq Timer,
           NEW t, IsFirst(t, T)
    PROVE  HeadOf(T) = t
  <1>1. T # {} /\ t \in T
    BY DEF IsFirst
  <1>2. IsFirst(CHOOSE x \in T : IsFirst(x, T), T)
    BY <1>1
  <1>3. (CHOOSE x \in T : IsFirst(x, T)) = t
    BY <1>2, FirstIsUnique
  <1> QED
    BY <1>1, <1>3 DEF HeadOf

\* Timers of the list, if there are any, have a first, which is their head.
LEMMA ListHasHead ==
    ASSUME timers \in [Timer -> TimerRecord], ListIsOrdered,
           NEW T, T \subseteq Listed, T # {}
    PROVE  IsFirst(HeadOf(T), T)
  <1>1. T \subseteq Timer
    BY DEF Listed
  <1>2. \A t \in T : timers[t].timeout \in Nat /\ timers[t].order \in Nat
    BY <1>1 DEF TimerRecord
  <1> DEFINE Timeouts == {timers[t].timeout : t \in T}
  <1>3. PICK least \in Timeouts : \A x \in Timeouts : least <= x
    <2>1. Timeouts \subseteq Nat /\ Timeouts # {}
      BY <1>2
    <2> QED
      BY <2>1, LeastNatural
  <1> DEFINE Soonest == {t \in T : timers[t].timeout = least}
             Orders == {timers[t].order : t \in Soonest}
  <1>4. PICK order \in Orders : \A x \in Orders : order <= x
    <2>1. Orders \subseteq Nat /\ Orders # {}
      BY <1>2
    <2> QED
      BY <2>1, LeastNatural
  <1>5. PICK t \in Soonest : timers[t].order = order
    BY <1>4
  <1>6. ASSUME NEW u \in T \ {t}
        PROVE  Before(t, u)
    <2>1. timers[t].timeout <= timers[u].timeout
      BY <1>3, <1>5
    <2>2. timers[t].timeout = timers[u].timeout =>
             timers[t].order <= timers[u].order /\ timers[t].order # timers[u].order
      BY <1>4, <1>5 DEF ListIsOrdered
    <2> QED
      BY <1>2, <1>5, <2>1, <2>2 DEF Before
  <1>7. IsFirst(t, T)
    BY <1>5, <1>6 DEF IsFirst
  <1> QED
    BY <1>1, <1>7, HeadIsFirst

\* The head of the list leads those with its timeout.
LEMMA HeadLeads ==
    ASSUME timers \in [Timer -> TimerRecord], ListIsOrdered, Listed # {}
    PROVE  HeadOf(Listed) \in Timer /\ Leads(HeadOf(Listed))
  <1>1. PICK t : t = HeadOf(Listed)
    OBVIOUS
  <1>2. IsFirst(t, Listed)
    BY <1>1, ListHasHead
  <1>3. t \in Listed /\ t \in Timer /\ Listed \subseteq Timer
    BY <1>2 DEF IsFirst, Listed
  <1>4. ASSUME NEW u \in Listed \ {t}, timers[u].timeout = timers[t].timeout
        PROVE  timers[t].order < timers[u].order
    <2>1. Before(t, u)
      BY <1>2 DEF IsFirst
    <2>2. timers[t].timeout \in Nat
      BY <1>3 DEF TimerRecord
    <2> QED
      BY <1>4, <2>1, <2>2 DEF Before
  <1> QED
    BY <1>1, <1>3, <1>4 DEF Leads

\* A timer that leads those with its timeout is the one that is taken out of the
\* list in its name.
LEMMA LeaderIsFound ==
    ASSUME timers \in [Timer -> TimerRecord], NEW t, Leads(t)
    PROVE  Found(t) = t
  <1> DEFINE T == {u \in Listed : timers[u].timeout = timers[t].timeout}
  <1>1. T \subseteq Timer /\ t \in T
    BY DEF Leads, Listed
  <1>2. IsFirst(t, T)
    BY <1>1 DEF IsFirst, Leads, Before
  <1>3. HeadOf(T) = t
    BY <1>1, <1>2, HeadIsFirst
  <1> QED
    BY <1>3 DEF Found

\* The main thread takes out of the list the timer it looked at.
THEOREM TakesTheServed == TypeOK /\ MainFollows => RemovesTheServed
  BY LeaderIsFound DEF TypeOK, MainFollows, RemovesTheServed, Leads

\* A caller inside tsk_timer_manager_schedule has a timer, and so has the main
\* thread beyond its look at the list.
LEMMA TimersInHand ==
    ASSUME TypeOK, CallersFollow, MainFollows
    PROVE  /\ \A c \in Caller : callers[c].pc # "idle" => callers[c].timer \in Timer
           /\ main.pc \in {"raise", "drop", "sleep", "wait"} => main.curr \in Timer
           /\ main.curr # NoTimer => main.curr \in Timer /\ Found(main.curr) = main.curr
  BY TakesTheServed
  DEF TypeOK, CallerRecord, MainRecord, CallersFollow, MainFollows, Leads, Listed,
      RemovesTheServed

\* Updates of the records of timers, callers and the main thread that keep their
\* types.
LEMMA RecordTypes ==
    /\ \A r \in TimerRecord :
          /\ \A x \in {"listed", "queued", "called", "dropped", "lost"} :
                [r EXCEPT !.status = x] \in TimerRecord
          /\ \A n \in Nat : [r EXCEPT !.status = "listed", !.order = n] \in TimerRecord
          /\ \A n, m \in Nat :
                [r EXCEPT !.status = "new", !.id = n, !.timeout = m] \in TimerRecord
          /\ [r EXCEPT !.canceled = TRUE] \in TimerRecord
    /\ \A r \in CallerRecord :
          \A pc \in {"push", "signal", "count"} : [r EXCEPT !.pc = pc] \in CallerRecord
    /\ \A t \in Timer : [pc |-> "number", timer |-> t] \in CallerRecord
    /\ [pc |-> "idle", timer |-> NoTimer] \in CallerRecord
    /\ \A r \in MainRecord :
          \A pc \in {"off", "loop", "sem", "peek", "raise", "drop", "sleep", "wait"} :
             [r EXCEPT !.pc = pc] \in MainRecord
    /\ \A t \in Timer \cup {NoTimer} : [pc |-> "look", curr |-> t] \in MainRecord
    /\ [pc |-> "loop", curr |-> NoTimer] \in MainRecord
    /\ [pc |-> "off", curr |-> NoTimer] \in MainRecord
  <1>1. \A r \in TimerRecord :
          /\ \A x \in {"listed", "queued", "called", "dropped", "lost"} :
                [r EXCEPT !.status = x] \in TimerRecord
          /\ \A n \in Nat : [r EXCEPT !.status = "listed", !.order = n] \in TimerRecord
          /\ \A n, m \in Nat :
                [r EXCEPT !.status = "new", !.id = n, !.timeout = m] \in TimerRecord
          /\ [r EXCEPT !.canceled = TRUE] \in TimerRecord
    BY DEF TimerRecord
  <1>2. /\ \A r \in CallerRecord :
              \A pc \in {"push", "signal", "count"} :
                 [r EXCEPT !.pc = pc] \in CallerRecord
        /\ \A t \in Timer : [pc |-> "number", timer |-> t] \in CallerRecord
        /\ [pc |-> "idle", timer |-> NoTimer] \in CallerRecord
    BY DEF CallerRecord
  <1>3. \A r \in MainRecord :
          \A pc \in {"off", "loop", "sem", "peek", "raise", "drop", "sleep", "wait"} :
             [r EXCEPT !.pc = pc] \in MainRecord
    BY DEF MainRecord
  <1>4. /\ \A t \in Timer \cup {NoTimer} : [pc |-> "look", curr |-> t] \in MainRecord
        /\ [pc |-> "loop", curr |-> NoTimer] \in MainRecord
        /\ [pc |-> "off", curr |-> NoTimer] \in MainRecord
    BY DEF MainRecord
  <1> QED
    BY <1>1, <1>2, <1>3, <1>4

\* Every step keeps the types.
LEMMA TypeStep ==
    ASSUME IndInv, Next
    PROVE  TypeOK'
  <1> USE BoundsAssumption
  <1>1. TypeOK /\ CallersFollow /\ MainFollows /\ QueueFollows
    BY DEF IndInv
  <1>2. /\ \A c \in Caller : callers[c].pc # "idle" => callers[c].timer \in Timer
        /\ main.curr # NoTimer => main.curr \in Timer /\ Found(main.curr) = main.curr
        /\ main.pc \in {"raise", "drop"} => main.curr # NoTimer
    BY <1>1, TimersInHand DEF MainFollows
  <1>3. Signalled \in MainRecord
    BY <1>1, RecordTypes DEF TypeOK, Signalled
  <1>4. ASSUME NEW c \in Caller, Schedule(c) PROVE TypeOK'
    <2>1. PICK t \in Timer, delay \in 0..MaxTime :
             /\ timers' = [timers EXCEPT ![t].status = "new", ![t].id = uniqueId,
                                         ![t].timeout = now + delay]
             /\ callers' = [callers EXCEPT ![c] = [pc |-> "number", timer |-> t]]
      BY <1>4 DEF Schedule
    <2>2. uniqueId \in Nat /\ now + delay \in Nat
      BY <1>1 DEF TypeOK
    <2>3. timers' \in [Timer -> TimerRecord]
      BY <1>1, <2>1, <2>2, RecordTypes DEF TypeOK
    <2>4. callers' \in [Caller -> CallerRecord]
      BY <1>1, <2>1, RecordTypes DEF TypeOK
    <2> QED
      BY <1>1, <1>4, <2>3, <2>4 DEF Schedule, TypeOK, runnableVars, ownerVars
  <1>5. ASSUME NEW c \in Caller, Number(c) PROVE TypeOK'
    <2>1. timers[callers[c].timer].id + 1 \in Nat
      BY <1>1, <1>2, <1>5 DEF Number, TypeOK, TimerRecord
    <2>2. callers' \in [Caller -> CallerRecord]
      BY <1>1, <1>5, RecordTypes DEF Number, TypeOK
    <2> QED
      BY <1>1, <1>5, <2>1, <2>2 DEF Number, TypeOK, runnableVars, ownerVars
  <1>6. ASSUME NEW c \in Caller, Push(c) PROVE TypeOK'
    <2>1. timers' \in [Timer -> TimerRecord]
      BY <1>1, <1>2, <1>6, RecordTypes DEF Push, TypeOK
    <2>2. callers' \in [Caller -> CallerRecord]
      BY <1>1, <1>6, RecordTypes DEF Push, TypeOK
    <2> QED
      BY <1>1, <1>6, <2>1, <2>2 DEF Push, TypeOK, runnableVars, ownerVars
  <1>7. ASSUME NEW c \in Caller, Signal(c) PROVE TypeOK'
    <2>1. callers' \in [Caller -> CallerRecord]
      BY <1>1, <1>7, RecordTypes DEF Signal, TypeOK
    <2> QED
      BY <1>1, <1>3, <1>7, <2>1 DEF Signal, TypeOK, runnableVars, ownerVars
  <1>8. ASSUME NEW c \in Caller, Count(c) PROVE TypeOK'
    <2>1. callers' \in [Caller -> CallerRecord]
      BY <1>1, <1>8, RecordTypes DEF Count, TypeOK
    <2> QED
      BY <1>1, <1>8, <2>1 DEF Count, TypeOK, runnableVars, ownerVars
  <1>9. ASSUME NEW c \in Caller, NEW t \in Timer, Cancel(c, t) PROVE TypeOK'
    <2>1. PICK item : /\ timers' = [timers EXCEPT ![item].canceled = TRUE]
                      /\ main' \in {Signalled, main}
      BY <1>9 DEF Cancel
    <2>2. timers' \in [Timer -> TimerRecord]
      BY <1>1, <2>1, RecordTypes DEF TypeOK
    <2> QED
      BY <1>1, <1>3, <1>9, <2>1, <2>2 DEF Cancel, TypeOK, runnableVars, ownerVars
  <1>10. ASSUME MainLoops \/ MainDecrements \/ MainPeeks PROVE TypeOK'
    <2>1. HeadOf(Listed) \in Timer \cup {NoTimer}
      <3>1. CASE Listed = {}
        BY <3>1 DEF HeadOf
      <3>2. CASE Listed # {}
        BY <1>1, <3>2, HeadLeads DEF IndInv, TypeOK
      <3> QED
        BY <3>1, <3>2
    <2>2. main' \in MainRecord
      BY <1>1, <1>10, <2>1, RecordTypes DEF MainLoops, MainDecrements, MainPeeks, TypeOK
    <2>3. sem' \in Nat
      BY <1>1, <1>10 DEF MainLoops, MainDecrements, MainPeeks, TypeOK
    <2> QED
      BY <1>1, <1>10, <2>2, <2>3
      DEF MainLoops, MainDecrements, MainPeeks, MainKeeps, TypeOK, runnableVars, ownerVars
  <1>11. ASSUME MainLooks \/ MainSleeps \/ MainTimesOut PROVE TypeOK'
    <2>1. main' \in MainRecord
      BY <1>1, <1>11, RecordTypes
      DEF MainLooks, MainSleeps, MainTimesOut, MainGoes, TypeOK
    <2> QED
      BY <1>1, <1>11, <2>1
      DEF MainLooks, MainSleeps, MainTimesOut, MainGoes, MainKeeps, TypeOK, runnableVars,
          ownerVars
  <1>12. ASSUME MainRaises PROVE TypeOK'
    <2>1. main.curr \in Timer /\ Found(main.curr) = main.curr
      BY <1>2, <1>12 DEF MainRaises
    <2>2. timers' \in [Timer -> TimerRecord]
      BY <1>1, <1>12, <2>1, RecordTypes DEF MainRaises, TypeOK
    <2>3. queue' \in Seq(Timer) /\ rsem' \in Nat
      BY <1>1, <1>12, <2>1 DEF MainRaises, TypeOK
    <2>4. main' \in MainRecord
      BY <1>12, RecordTypes DEF MainRaises
    <2> QED
      BY <1>1, <1>12, <2>2, <2>3, <2>4 DEF MainRaises, MainKeeps, TypeOK, ownerVars
  <1>13. ASSUME MainDrops PROVE TypeOK'
    <2>1. timers' \in [Timer -> TimerRecord]
      BY <1>1, <1>2, <1>13, RecordTypes DEF MainDrops, TypeOK
    <2>2. main' \in MainRecord
      BY <1>13, RecordTypes DEF MainDrops
    <2> QED
      BY <1>1, <1>13, <2>1, <2>2 DEF MainDrops, MainKeeps, TypeOK, runnableVars, ownerVars
  <1>14. ASSUME WorkerBegins \/ WorkerLoops \/ WorkerEnds PROVE TypeOK'
    <2>1. main' \in MainRecord
      BY <1>1, <1>14, RecordTypes DEF WorkerBegins, WorkerLoops, WorkerEnds, TypeOK
    <2>2. rsem' \in Nat
      BY <1>1, <1>14 DEF WorkerBegins, WorkerLoops, WorkerEnds, TypeOK
    <2> QED
      BY <1>1, <1>14, <2>1, <2>2
      DEF WorkerBegins, WorkerLoops, WorkerEnds, WorkerKeeps, TypeOK, ownerVars
  <1>15. ASSUME WorkerCalls PROVE TypeOK'
    <2>1. timers' \in [Timer -> TimerRecord]
      BY ZenonT(40), <1>1, <1>15, RecordTypes DEF WorkerCalls, TypeOK
    <2>2. queue' \in Seq(Timer)
      <3>1. queue \in Seq(Timer)
        BY <1>1 DEF TypeOK
      <3>2. CASE queue = <<>>
        BY <1>15, <3>1, <3>2 DEF WorkerCalls
      <3>3. CASE queue # <<>>
        <4>1. Tail(queue) \in Seq(Timer)
          BY <3>1, <3>3
        <4> QED
          BY <1>15, <3>3, <4>1 DEF WorkerCalls
      <3> QED
        BY <3>2, <3>3
    <2>3. rsem' \in Nat
      <3>1. rsem \in Nat
        BY <1>1 DEF TypeOK
      <3>2. rsem > 0 /\ rsem' = rsem - 1
        BY <1>15 DEF WorkerCalls
      <3> QED
        BY <3>1, <3>2
    <2> QED
      BY <1>1, <1>15, <2>1, <2>2, <2>3 DEF WorkerCalls, WorkerKeeps, TypeOK, ownerVars
  <1>16. ASSUME Start PROVE TypeOK'
    BY <1>1, <1>16 DEF Start, OwnerKeeps, TypeOK
  <1>17. ASSUME Stop \/ StopMain PROVE TypeOK'
    <2>1. rsem' \in Nat /\ running' \in BOOLEAN
      <3>1. rsem \in Nat /\ running \in BOOLEAN
        BY <1>1 DEF TypeOK
      <3>2. CASE Stop
        <4>1. rsem' = rsem + 1
          BY <3>2 DEF Stop
        <4>2. rsem' \in Nat
          BY <3>1, <4>1
        <4>3. running' = FALSE
          BY <3>2 DEF Stop
        <4>4. running' \in BOOLEAN
          BY <4>3
        <4> QED
          BY <4>2, <4>4
      <3>3. CASE StopMain
        BY <3>1, <3>3 DEF StopMain, runnableVars
      <3> QED
        BY <1>17, <3>2, <3>3
    <2>2. owner' \in {"off", "joiningWorker"}
      BY <1>17 DEF Stop, StopMain
    <2>3. UNCHANGED <<now, timers, uniqueId, pushes, callers, sem, main, worker, queue, starts>>
      BY <1>17 DEF Stop, StopMain, OwnerKeeps, runnableVars
    <2> QED
      BY <1>1, <2>1, <2>2, <2>3 DEF TypeOK
  <1>18. ASSUME StopWorker PROVE TypeOK'
    <2>1. timers' \in [Timer -> TimerRecord]
      BY <1>1, <1>18, RecordTypes DEF StopWorker, TypeOK
    <2> QED
      BY <1>1, <1>18, <2>1 DEF StopWorker, OwnerKeeps, TypeOK
  <1>19. ASSUME StopSignals PROVE TypeOK'
    BY <1>1, <1>3, <1>19 DEF StopSignals, OwnerKeeps, TypeOK, runnableVars
  <1>20. ASSUME Tick PROVE TypeOK'
    BY <1>1, <1>20 DEF Tick, TypeOK, callerVars, runnableVars, ownerVars
  <1> QED
    BY <1>4, <1>5, <1>6, <1>7, <1>8, <1>9, <1>10, <1>11, <1>12, <1>13, <1>14, <1>15,
       <1>16, <1>17, <1>18, <1>19, <1>20 DEF Next

\* A cancellation marks a timer of the list.
LEMMA CancelsListed ==
    ASSUME IndInv, NEW c \in Caller, NEW t \in Timer, Cancel(c, t)
    PROVE  \E item \in Listed : timers' = [timers EXCEPT ![item].canceled = TRUE]
  <1> DEFINE same == {u \in Listed : timers[u].id = timers[t].id}
  <1>1. same # {} /\ timers' = [timers EXCEPT ![HeadOf(same)].canceled = TRUE]
    BY DEF Cancel
  <1>2. HeadOf(same) \in Listed
    <2>1. timers \in [Timer -> TimerRecord] /\ ListIsOrdered
      BY DEF IndInv, TypeOK
    <2>2. same \subseteq Listed
      OBVIOUS
    <2> HIDE DEF same
    <2>3. IsFirst(HeadOf(same), same)
      BY <1>1, <2>1, <2>2, ListHasHead
    <2> QED
      BY <2>2, <2>3 DEF IsFirst
  <1> QED
    BY <1>1, <1>2

\* How a step moves a timer along: what each of the fields goes through once the
\* timer has been created.
Moves(t) ==
    /\ timers[t].status # timers'[t].status =>
          <<timers[t].status, timers'[t].status>> \in
             {<<"free", "new">>, <<"new", "listed">>, <<"listed", "queued">>,
              <<"listed", "lost">>, <<"listed", "dropped">>, <<"queued", "called">>,
              <<"queued", "lost">>}
    /\ timers[t].status # "free" => timers'[t].timeout = timers[t].timeout
    /\ timers[t].status \notin {"free", "new"} => timers'[t].order = timers[t].order
    /\ timers'[t].timeout = timers[t].timeout \/ timers'[t].timeout <= MaxTime
    /\ timers[t].canceled => timers'[t].canceled
    /\ timers'[t].canceled => timers[t].canceled \/ timers[t].status = "listed"
    /\ timers[t].status = "new" /\ timers'[t].status = "listed" =>
          pushes' = pushes + 1 /\ timers'[t].order = pushes

\* Every step moves every timer along its statuses, or leaves it.
LEMMA TimersMove ==
    ASSUME IndInv, Next, NEW t \in Timer
    PROVE  Moves(t)
  <1>1. TypeOK /\ CallersFollow /\ MainFollows /\ QueueFollows
    BY DEF IndInv
  <1>2. timers \in [Timer -> TimerRecord] /\ timers[t] \in TimerRecord
    BY <1>1 DEF TypeOK
  <1>3. ASSUME UNCHANGED timers PROVE Moves(t)
    BY <1>3 DEF Moves
  <1>4. ASSUME NEW c \in Caller, Schedule(c) PROVE Moves(t)
    <2>1. PICK u \in Timer, delay \in 0..MaxTime :
             /\ timers[u].status = "free" /\ now + delay <= MaxTime
             /\ timers' = [timers EXCEPT ![u].status = "new", ![u].id = uniqueId,
                                         ![u].timeout = now + delay]
      BY <1>4 DEF Schedule
    <2> QED
      BY <1>2, <2>1 DEF Moves, TimerRecord
  <1>5. ASSUME NEW c \in Caller, Push(c) PROVE Moves(t)
    <2>1. PICK u \in Timer :
             /\ timers[u].status = "new" /\ pushes' = pushes + 1
             /\ timers' = [timers EXCEPT ![u].status = "listed", ![u].order = pushes]
      BY <1>1, <1>5, TimersInHand DEF Push, CallersFollow
    <2> QED
      BY <1>2, <2>1 DEF Moves, TimerRecord
  <1>6. ASSUME NEW c \in Caller, NEW u \in Timer, Cancel(c, u) PROVE Moves(t)
    <2>1. PICK item \in Listed : timers' = [timers EXCEPT ![item].canceled = TRUE]
      BY <1>6, CancelsListed
    <2> QED
      BY <1>2, <2>1 DEF Moves, TimerRecord, Listed
  <1>7. ASSUME MainRaises \/ MainDrops PROVE Moves(t)
    <2>1. /\ main.curr \in Timer /\ Found(main.curr) = main.curr
          /\ timers[main.curr].status = "listed"
      BY <1>1, <1>7, TimersInHand DEF MainRaises, MainDrops, MainFollows, Leads, Listed
    <2>2. PICK x \in {"queued", "lost", "dropped"} :
             timers' = [timers EXCEPT ![main.curr] =
                           [timers[main.curr] EXCEPT !.status = x]]
      BY <1>2, <1>7, <2>1 DEF MainRaises, MainDrops, TimerRecord
    <2> QED
      BY <1>2, <2>1, <2>2 DEF Moves, TimerRecord
  <1>8. ASSUME WorkerCalls PROVE Moves(t)
    <2>1. CASE queue = <<>>
      BY <1>3, <1>8, <2>1 DEF WorkerCalls
    <2>2. CASE queue # <<>>
      <3>1. timers[Head(queue)].status = "queued" /\ Head(queue) \in Timer
        BY <1>1, <2>2 DEF QueueFollows, TypeOK
      <3>2. timers' = [timers EXCEPT ![Head(queue)].status = "called"]
        BY <1>8, <2>2 DEF WorkerCalls
      <3> QED
        BY <1>2, <3>1, <3>2 DEF Moves, TimerRecord
    <2> QED
      BY <2>1, <2>2
  <1>9. ASSUME StopWorker PROVE Moves(t)
    BY <1>2, <1>9 DEF StopWorker, Moves, TimerRecord
  <1>10. ASSUME NEW c \in Caller, Number(c) \/ Signal(c) \/ Count(c) PROVE Moves(t)
    BY <1>3, <1>10 DEF Number, Signal, Count
  <1>11. ASSUME MainLoops \/ MainDecrements \/ MainPeeks \/ MainLooks \/ MainSleeps
                \/ MainTimesOut
         PROVE  Moves(t)
    BY <1>3, <1>11
    DEF MainLoops, MainDecrements, MainPeeks, MainLooks, MainSleeps, MainTimesOut,
        MainGoes
  <1>12. ASSUME WorkerBegins \/ WorkerLoops \/ WorkerEnds PROVE Moves(t)
    BY <1>3, <1>12 DEF WorkerBegins, WorkerLoops, WorkerEnds
  <1>13. ASSUME Start \/ Stop \/ StopSignals \/ StopMain \/ Tick PROVE Moves(t)
    BY <1>3, <1>13 DEF Start, Stop, StopSignals, StopMain, Tick, callerVars
  <1> HIDE DEF Moves
  <1> QED
    BY <1>4, <1>5, <1>6, <1>7, <1>8, <1>9, <1>10, <1>11, <1>12, <1>13 DEF Next

\* The list grows by the timer a caller pushes, shrinks by the one the main thread
\* looks at, and stays as it is otherwise.
LEMMA ListGrows ==
    ASSUME IndInv, NEW c \in Caller, Push(c)
    PROVE  /\ callers[c].timer \in Timer /\ callers[c].timer \notin Listed
           /\ Listed' = Listed \cup {callers[c].timer}
           /\ timers'[callers[c].timer].order = pushes
  <1>1. TypeOK /\ CallersFollow /\ MainFollows
    BY DEF IndInv
  <1>2. callers[c].timer \in Timer /\ timers[callers[c].timer].status = "new"
    BY <1>1, TimersInHand DEF Push, CallersFollow
  <1>3. timers' = [timers EXCEPT ![callers[c].timer] =
                      [timers[callers[c].timer] EXCEPT !.status = "listed", !.order = pushes]]
    BY <1>1, <1>2 DEF Push, TypeOK, TimerRecord
  <1>4. timers \in [Timer -> TimerRecord]
    BY <1>1 DEF TypeOK
  <1> QED
    BY <1>2, <1>3, <1>4 DEF Listed, TimerRecord

\* The main thread takes the first timer from the list.
LEMMA ListShrinks ==
    ASSUME IndInv, MainRaises \/ MainDrops
    PROVE  /\ main.curr \in Listed
           /\ Listed' = Listed \ {main.curr}
  <1>1. TypeOK /\ CallersFollow /\ MainFollows
    BY DEF IndInv
  <1>2. main.curr \in Timer /\ Found(main.curr) = main.curr /\ main.curr \in Listed
    BY <1>1, TimersInHand DEF MainRaises, MainDrops, MainFollows, Leads
  <1>3. timers \in [Timer -> TimerRecord]
    BY <1>1 DEF TypeOK
  <1>4. PICK x \in {"queued", "lost", "dropped"} :
           timers' = [timers EXCEPT ![main.curr] = [timers[main.curr] EXCEPT !.status = x]]
    BY <1>2, <1>3 DEF MainRaises, MainDrops, TimerRecord
  <1> QED
    BY <1>2, <1>3, <1>4 DEF Listed, TimerRecord

\* What neither schedules nor takes a timer leaves the list.
LEMMA ListRests ==
    ASSUME IndInv,
           \/ UNCHANGED timers
           \/ \E c \in Caller : Schedule(c) \/ \E t \in Timer : Cancel(c, t)
           \/ WorkerCalls \/ StopWorker
    PROVE  Listed' = Listed
  <1>1. timers \in [Timer -> TimerRecord]
    BY DEF IndInv, TypeOK
  <1>2. CASE UNCHANGED timers
    BY <1>2 DEF Listed
  <1>3. ASSUME NEW c \in Caller, Schedule(c) PROVE Listed' = Listed
    <2>1. PICK u \in Timer, delay \in 0..MaxTime :
             /\ timers[u].status = "free"
             /\ timers' = [timers EXCEPT ![u].status = "new", ![u].id = uniqueId,
                                         ![u].timeout = now + delay]
      BY <1>3 DEF Schedule
    <2> QED
      BY <1>1, <2>1 DEF Listed, TimerRecord
  <1>4. ASSUME NEW c \in Caller, NEW t \in Timer, Cancel(c, t) PROVE Listed' = Listed
    <2>1. PICK item : timers' = [timers EXCEPT ![item].canceled = TRUE]
      BY <1>4 DEF Cancel
    <2> QED
      BY <1>1, <2>1 DEF Listed, TimerRecord
  <1>5. CASE WorkerCalls /\ queue # <<>>
    <2>1. timers[Head(queue)].status = "queued" /\ Head(queue) \in Timer
      BY <1>5 DEF IndInv, QueueFollows, TypeOK
    <2>2. timers' = [timers EXCEPT ![Head(queue)].status = "called"]
      BY <1>5 DEF WorkerCalls
    <2> QED
      BY <1>1, <2>1, <2>2 DEF Listed, TimerRecord
  <1>6. CASE WorkerCalls /\ queue = <<>>
    BY <1>2, <1>6 DEF WorkerCalls
  <1>7. CASE StopWorker
    BY <1>1, <1>7 DEF StopWorker, Listed, TimerRecord
  <1> QED
    BY <1>2, <1>3, <1>4, <1>5, <1>6, <1>7

\* Every step keeps the callers' timers their own.
LEMMA CallersStep ==
    ASSUME IndInv, Next
    PROVE  CallersFollow'
  <1>1. TypeOK /\ CallersFollow /\ MainFollows
    BY DEF IndInv
  <1>2. \A t \in Timer : Moves(t)
    BY TimersMove
  <1>3. \A c \in Caller : callers[c].timer \in Timer \cup {NoTimer}
                          /\ (callers[c].pc # "idle" => callers[c].timer \in Timer)
    BY <1>1, TimersInHand DEF TypeOK, CallerRecord
  <1>4. callers \in [Caller -> CallerRecord] /\ NoTimer \notin Timer /\ pushes \in Nat
    BY <1>1, TimersAssumption DEF TypeOK
  <1>5. ASSUME UNCHANGED <<callers, pushes>> PROVE CallersFollow'
    <2>1. \A t \in Timer : timers[t].status = "new" => timers'[t].status = "new"
      BY <1>2, <1>4, <1>5 DEF Moves
    <2>2. \A t \in Timer : timers[t].status \notin {"free", "new"} =>
                              timers'[t].status \notin {"free", "new"}
      BY <1>2 DEF Moves
    <2> QED
      BY <1>1, <1>3, <1>5, <2>1, <2>2 DEF CallersFollow
  <1>6. ASSUME NEW c \in Caller, Schedule(c) PROVE CallersFollow'
    <2>1. PICK t \in Timer, delay \in 0..MaxTime :
             /\ timers[t].status = "free"
             /\ timers' = [timers EXCEPT ![t].status = "new", ![t].id = uniqueId,
                                         ![t].timeout = now + delay]
             /\ callers' = [callers EXCEPT ![c] = [pc |-> "number", timer |-> t]]
      BY <1>6 DEF Schedule
    <2>2. \A d \in Caller : callers[d].timer # t
      BY <1>1, <1>3, <1>4, <2>1 DEF CallersFollow, CallerRecord
    <2>3. timers'[t].status = "new" /\ \A u \in Timer \ {t} : timers'[u] = timers[u]
      BY <1>1, <2>1 DEF TypeOK, TimerRecord
    <2>4. \A d \in Caller \ {c} : callers'[d] = callers[d]
      BY <1>4, <2>1
    <2>5. callers'[c].pc = "number" /\ callers'[c].timer = t
      BY <1>4, <2>1
    <2> QED
      BY <1>1, <1>3, <1>4, <2>2, <2>3, <2>4, <2>5 DEF CallersFollow
  <1>7. ASSUME NEW c \in Caller, Push(c) PROVE CallersFollow'
    <2>1. /\ callers'[c].pc = "signal" /\ callers'[c].timer = callers[c].timer
          /\ \A d \in Caller \ {c} : callers'[d] = callers[d]
      BY <1>4, <1>7 DEF Push, CallerRecord
    <2>2. /\ timers'[callers[c].timer].status = "listed"
          /\ \A u \in Timer \ {callers[c].timer} : timers'[u] = timers[u]
      BY <1>1, <1>3, <1>7 DEF Push, TypeOK, TimerRecord
    <2>3. callers[c].timer \in Timer
      BY <1>3, <1>7 DEF Push
    <2>4. \A d \in Caller \ {c} : callers[d].timer # callers[c].timer
      BY <1>1, <1>4, <2>3 DEF CallersFollow
    <2> QED
      BY <1>1, <1>3, <1>4, <2>1, <2>2, <2>3, <2>4 DEF CallersFollow
  <1>8. ASSUME NEW c \in Caller, Number(c) PROVE CallersFollow'
    <2>1. /\ callers'[c].pc = "push" /\ callers'[c].timer = callers[c].timer
          /\ \A d \in Caller \ {c} : callers'[d] = callers[d]
          /\ UNCHANGED timers /\ callers[c].pc = "number"
      BY <1>4, <1>8 DEF Number, CallerRecord
    <2> QED
      BY <1>1, <2>1 DEF CallersFollow
  <1>9. ASSUME NEW c \in Caller, Signal(c) PROVE CallersFollow'
    <2>1. /\ callers'[c].pc = "count" /\ callers'[c].timer = callers[c].timer
          /\ \A d \in Caller \ {c} : callers'[d] = callers[d]
          /\ UNCHANGED timers /\ callers[c].pc = "signal"
      BY <1>4, <1>9 DEF Signal, CallerRecord
    <2> QED
      BY <1>1, <2>1 DEF CallersFollow
  <1>10. ASSUME NEW c \in Caller, Count(c) PROVE CallersFollow'
    <2>1. /\ callers'[c].pc = "idle" /\ callers'[c].timer = NoTimer
          /\ \A d \in Caller \ {c} : callers'[d] = callers[d]
          /\ UNCHANGED timers
      BY <1>4, <1>10 DEF Count
    <2> QED
      BY <1>1, <2>1 DEF CallersFollow
  <1>11. ASSUME NEW c \in Caller, NEW t \in Timer, Cancel(c, t) PROVE CallersFollow'
    BY <1>5, <1>11 DEF Cancel
  <1>12. ASSUME MainStep PROVE CallersFollow'
    BY <1>5, <1>12
    DEF MainStep, MainLoops, MainDecrements, MainPeeks, MainLooks, MainRaises, MainDrops,
        MainSleeps, MainTimesOut, MainGoes, MainKeeps
  <1>13. ASSUME WorkerBegins \/ WorkerLoops \/ WorkerCalls \/ WorkerEnds
         PROVE  CallersFollow'
    BY <1>5, <1>13 DEF WorkerBegins, WorkerLoops, WorkerCalls, WorkerEnds, WorkerKeeps
  <1>14. ASSUME Start \/ Stop \/ StopWorker \/ StopSignals \/ StopMain \/ Tick
         PROVE  CallersFollow'
    BY <1>5, <1>14
    DEF Start, Stop, StopWorker, StopSignals, StopMain, OwnerKeeps, Tick, callerVars
  <1> QED
    BY <1>6, <1>7, <1>8, <1>9, <1>10, <1>11, <1>12, <1>13, <1>14 DEF Next, MainStep

\* Every step keeps the timers that are not in the list yet as they were made.
LEMMA FreshStep ==
    ASSUME IndInv, Next
    PROVE  TimersAreFresh'
  <1>1. TimersAreFresh /\ \A t \in Timer : Moves(t)
    BY TimersMove DEF IndInv
  <1> QED
    BY <1>1 DEF TimersAreFresh, Moves

\* Every step keeps the places of the timers of the list apart.
LEMMA ListStep ==
    ASSUME IndInv, Next
    PROVE  ListIsOrdered'
  <1>1. TypeOK /\ ListIsOrdered
    BY DEF IndInv
  <1>2. /\ pushes \in Nat /\ Listed \subseteq Timer
        /\ \A t \in Timer : timers[t].order \in Nat
        /\ \A t \in Timer : timers[t].status = "listed" <=> t \in Listed
    BY <1>1 DEF TypeOK, TimerRecord, Listed
  <1>3. \A t \in Listed : timers'[t].order = timers[t].order
    BY <1>2, TimersMove DEF Moves
  <1>4. ASSUME Listed' \subseteq Listed, UNCHANGED pushes PROVE ListIsOrdered'
    BY <1>1, <1>3, <1>4 DEF ListIsOrdered
  <1>5. ASSUME NEW c \in Caller, Push(c) PROVE ListIsOrdered'
    <2>1. /\ callers[c].timer \notin Listed
          /\ Listed' = Listed \cup {callers[c].timer}
          /\ timers'[callers[c].timer].order = pushes
      BY <1>5, ListGrows
    <2>2. pushes' = pushes + 1
      BY <1>5 DEF Push
    <2> QED
      BY <1>1, <1>2, <1>3, <2>1, <2>2 DEF ListIsOrdered
  <1>6. ASSUME MainRaises \/ MainDrops PROVE ListIsOrdered'
    BY <1>4, <1>6, ListShrinks DEF MainRaises, MainDrops, MainKeeps
  <1>7. ASSUME NEW c \in Caller, Schedule(c) \/ \E t \in Timer : Cancel(c, t)
        PROVE  ListIsOrdered'
    BY <1>4, <1>7, ListRests DEF Schedule, Cancel
  <1>8. ASSUME NEW c \in Caller, Number(c) \/ Signal(c) \/ Count(c) PROVE ListIsOrdered'
    BY <1>4, <1>8, ListRests DEF Number, Signal, Count
  <1>9. ASSUME MainLoops \/ MainDecrements \/ MainPeeks \/ MainLooks \/ MainSleeps
               \/ MainTimesOut
        PROVE  ListIsOrdered'
    BY <1>4, <1>9, ListRests
    DEF MainLoops, MainDecrements, MainPeeks, MainLooks, MainSleeps, MainTimesOut,
        MainGoes, MainKeeps
  <1>10. ASSUME WorkerBegins \/ WorkerLoops \/ WorkerCalls \/ WorkerEnds
         PROVE  ListIsOrdered'
    BY <1>4, <1>10, ListRests
    DEF WorkerBegins, WorkerLoops, WorkerCalls, WorkerEnds, WorkerKeeps
  <1>11. ASSUME Start \/ Stop \/ StopWorker \/ StopSignals \/ StopMain \/ Tick
         PROVE  ListIsOrdered'
    BY <1>4, <1>11, ListRests
    DEF Start, Stop, StopWorker, StopSignals, StopMain, OwnerKeeps, Tick, callerVars
  <1> QED
    BY <1>5, <1>6, <1>7, <1>8, <1>9, <1>10, <1>11 DEF Next

\* Every step keeps the worker's queue of queued timers.
LEMMA QueueStep ==
    ASSUME IndInv, Next
    PROVE  QueueFollows'
  <1>1. TypeOK /\ QueueFollows
    BY DEF IndInv
  <1>2. queue \in Seq(Timer) /\ timers \in [Timer -> TimerRecord]
    BY <1>1 DEF TypeOK
  <1>3. ASSUME UNCHANGED queue,
               \A t \in Timer : timers[t].status = "queued" => timers'[t].status = "queued"
        PROVE  QueueFollows'
    BY <1>1, <1>2, <1>3 DEF QueueFollows
  <1>4. ASSUME UNCHANGED queue, UNCHANGED timers PROVE QueueFollows'
    BY <1>1, <1>4 DEF QueueFollows
  <1>5. ASSUME NEW c \in Caller, Schedule(c) PROVE QueueFollows'
    <2>1. PICK u \in Timer, delay \in 0..MaxTime :
             /\ timers[u].status = "free"
             /\ timers' = [timers EXCEPT ![u].status = "new", ![u].id = uniqueId,
                                         ![u].timeout = now + delay]
      BY <1>5 DEF Schedule
    <2> QED
      BY <1>2, <1>3, <1>5, <2>1 DEF Schedule, runnableVars, TimerRecord
  <1>6. ASSUME NEW c \in Caller, Push(c) PROVE QueueFollows'
    <2>1. callers[c].timer \in Timer /\ timers[callers[c].timer].status = "new"
      BY <1>6, TimersInHand DEF Push, IndInv, CallersFollow
    <2> QED
      BY <1>2, <1>3, <1>6, <2>1 DEF Push, runnableVars
  <1>7. ASSUME NEW c \in Caller, NEW t \in Timer, Cancel(c, t) PROVE QueueFollows'
    <2>1. PICK item : timers' = [timers EXCEPT ![item].canceled = TRUE]
      BY <1>7 DEF Cancel
    <2> QED
      BY <1>2, <1>3, <1>7, <2>1 DEF Cancel, runnableVars, TimerRecord
  <1>8. ASSUME NEW c \in Caller, Number(c) \/ Signal(c) \/ Count(c) PROVE QueueFollows'
    BY <1>4, <1>8 DEF Number, Signal, Count, runnableVars
  <1>9. ASSUME MainLoops \/ MainDecrements \/ MainPeeks \/ MainLooks \/ MainSleeps
               \/ MainTimesOut
        PROVE  QueueFollows'
    BY <1>4, <1>9
    DEF MainLoops, MainDecrements, MainPeeks, MainLooks, MainSleeps, MainTimesOut,
        MainGoes, runnableVars
  <1>10. ASSUME MainRaises PROVE QueueFollows'
    <2>1. main.curr \in Timer /\ Found(main.curr) = main.curr
          /\ timers[main.curr].status = "listed"
      BY <1>10, TimersInHand DEF MainRaises, IndInv, MainFollows, Leads, Listed
    <2>2. PICK x \in {"queued", "lost"} :
             /\ timers' = [timers EXCEPT ![main.curr] =
                              [timers[main.curr] EXCEPT !.status = x]]
             /\ \/ queue' = queue
                \/ queue' = Append(queue, main.curr) /\ x = "queued"
      BY <1>2, <1>10, <2>1 DEF MainRaises, TimerRecord
    <2>3. /\ timers'[main.curr].status = x
          /\ \A t \in Timer \ {main.curr} : timers'[t] = timers[t]
      BY <1>2, <2>1, <2>2 DEF TimerRecord
    <2>4. \A i \in 1..Len(queue) : queue[i] \in Timer \ {main.curr}
      BY <1>1, <1>2, <2>1 DEF QueueFollows
    <2>5. CASE queue' = queue
      BY <1>1, <2>3, <2>4, <2>5 DEF QueueFollows
    <2>6. CASE queue' = Append(queue, main.curr) /\ x = "queued"
      <3>1. /\ Len(queue') = Len(queue) + 1 /\ Len(queue) \in Nat
            /\ queue'[Len(queue) + 1] = main.curr
            /\ \A i \in 1..Len(queue) : queue'[i] = queue[i]
        BY <1>2, <2>1, <2>6
      <3>2. \A i \in 1..Len(queue') : i \in 1..Len(queue) \/ i = Len(queue) + 1
        BY <3>1
      <3> QED
        BY <1>1, <2>3, <2>4, <2>6, <3>1, <3>2 DEF QueueFollows
    <2> QED
      BY <2>2, <2>5, <2>6
  <1>11. ASSUME MainDrops PROVE QueueFollows'
    <2>1. main.curr \in Timer /\ Found(main.curr) = main.curr
          /\ timers[main.curr].status = "listed"
      BY <1>11, TimersInHand DEF MainDrops, IndInv, MainFollows, Leads, Listed
    <2> QED
      BY <1>2, <1>3, <1>11, <2>1 DEF MainDrops, runnableVars
  <1>12. ASSUME WorkerBegins \/ WorkerLoops \/ WorkerEnds PROVE QueueFollows'
    BY <1>4, <1>12 DEF WorkerBegins, WorkerLoops, WorkerEnds
  <1>13. ASSUME WorkerCalls PROVE QueueFollows'
    <2>1. CASE queue = <<>>
      BY <1>4, <1>13, <2>1 DEF WorkerCalls
    <2>2. CASE queue # <<>>
      <3>1. timers' = [timers EXCEPT ![queue[1]].status = "called"] /\ queue' = Tail(queue)
        BY <1>2, <1>13, <2>2 DEF WorkerCalls
      <3>2. /\ Len(queue) \in Nat /\ Len(queue) > 0 /\ Len(queue') = Len(queue) - 1
            /\ \A i \in 1..Len(queue') : queue'[i] = queue[i + 1]
            /\ \A i \in 1..Len(queue) : queue[i] \in Timer
        BY <1>2, <2>2, <3>1
      <3>3. \A t \in Timer \ {queue[1]} : timers'[t] = timers[t]
        BY <1>2, <3>1
      <3>4. \A i \in 1..Len(queue') : i + 1 \in 1..Len(queue) /\ queue[i + 1] # queue[1]
        BY <1>1, <3>2 DEF QueueFollows
      <3> QED
        BY SMTT(30), <1>1, <3>2, <3>3, <3>4 DEF QueueFollows
    <2> QED
      BY <2>1, <2>2
  <1>14. ASSUME Start \/ StopWorker PROVE QueueFollows'
    <2>1. queue' = <<>>
      BY <1>14 DEF Start, StopWorker
    <2> QED
      BY <2>1 DEF QueueFollows
  <1>15. ASSUME Stop \/ StopSignals \/ StopMain \/ Tick PROVE QueueFollows'
    BY <1>4, <1>15 DEF Stop, StopSignals, StopMain, Tick, callerVars, runnableVars
  <1> QED
    BY <1>5, <1>6, <1>7, <1>8, <1>9, <1>10, <1>11, <1>12, <1>13, <1>14, <1>15 DEF Next

\* Every step keeps the phases of the threads.
LEMMA PhasesStep ==
    ASSUME IndInv, Next
    PROVE  PhasesFollow'
  <1>1. TypeOK /\ PhasesFollow
    BY DEF IndInv
  <1>2. main \in MainRecord /\ running \in BOOLEAN
    BY <1>1 DEF TypeOK
  <1>3. Signalled.pc = "off" <=> main.pc = "off"
    BY <1>2 DEF Signalled, MainRecord
  <1>4. ASSUME UNCHANGED <<owner, worker, running>>, main'.pc = "off" <=> main.pc = "off"
        PROVE  PhasesFollow'
    BY <1>1, <1>4 DEF PhasesFollow
  <1>5. ASSUME NEW c \in Caller,
               \/ Schedule(c) \/ Number(c) \/ Push(c) \/ Signal(c) \/ Count(c)
               \/ \E t \in Timer : Cancel(c, t)
        PROVE  PhasesFollow'
    BY <1>3, <1>4, <1>5
    DEF Schedule, Number, Push, Signal, Count, Cancel, runnableVars, ownerVars
  <1>6. ASSUME MainStep PROVE PhasesFollow'
    <2>1. UNCHANGED owner
      BY <1>6
      DEF MainStep, MainLoops, MainDecrements, MainPeeks, MainLooks, MainRaises, MainDrops,
          MainSleeps, MainTimesOut, MainGoes, MainKeeps, ownerVars
    <2>2. UNCHANGED <<worker, running>>
      BY <1>6
      DEF MainStep, MainLoops, MainDecrements, MainPeeks, MainLooks, MainRaises, MainDrops,
          MainSleeps, MainTimesOut, MainGoes, runnableVars
    <2>3. main.pc # "off"
      BY <1>6
      DEF MainStep, MainLoops, MainDecrements, MainPeeks, MainLooks, MainRaises, MainDrops,
          MainSleeps, MainTimesOut
    <2>4. main'.pc = "off" => ~running
      BY <1>2, <1>6
      DEF MainStep, MainLoops, MainDecrements, MainPeeks, MainLooks, MainRaises, MainDrops,
          MainSleeps, MainTimesOut, MainGoes, MainRecord
    <2> QED
      BY <1>1, <2>1, <2>2, <2>3, <2>4 DEF PhasesFollow
  <1>7. ASSUME WorkerBegins PROVE PhasesFollow'
    BY <1>1, <1>7 DEF WorkerBegins, WorkerKeeps, ownerVars, PhasesFollow
  <1>8. ASSUME WorkerLoops \/ WorkerCalls \/ WorkerEnds PROVE PhasesFollow'
    BY <1>1, <1>8
    DEF WorkerLoops, WorkerCalls, WorkerEnds, WorkerKeeps, ownerVars, PhasesFollow
  <1>9. ASSUME Start \/ Stop \/ StopWorker \/ StopMain PROVE PhasesFollow'
    BY <1>1, <1>9 DEF Start, Stop, StopWorker, StopMain, runnableVars, PhasesFollow
  <1>10. ASSUME StopSignals PROVE PhasesFollow'
    BY <1>1, <1>3, <1>10 DEF StopSignals, runnableVars, PhasesFollow
  <1>11. ASSUME Tick PROVE PhasesFollow'
    BY <1>4, <1>11 DEF Tick, runnableVars, ownerVars
  <1> QED
    BY <1>5, <1>6, <1>7, <1>8, <1>9, <1>10, <1>11 DEF Next, MainStep

\* A timer that leads goes on to lead as long as it is in the list.
LEMMA LeadersStay ==
    ASSUME IndInv, Next, NEW t, Leads(t), t \in Listed'
    PROVE  \A u \in Listed' \ {t} :
              timers'[u].timeout = timers'[t].timeout => timers'[t].order < timers'[u].order
  <1>1. TypeOK /\ ListIsOrdered
    BY DEF IndInv
  <1>2. /\ timers \in [Timer -> TimerRecord] /\ pushes \in Nat
        /\ t \in Listed /\ t \in Timer /\ timers[t].order \in Nat
    BY <1>1 DEF TypeOK, Leads, Listed, TimerRecord
  <1>3. /\ timers'[t].timeout = timers[t].timeout /\ timers'[t].order = timers[t].order
        /\ timers[t].order < pushes
    BY <1>1, <1>2, TimersMove DEF Moves, Listed, ListIsOrdered
  <1>4. ASSUME NEW u \in Listed' \ {t}, timers'[u].timeout = timers'[t].timeout
        PROVE  timers'[t].order < timers'[u].order
    <2>1. u \in Timer /\ timers'[u].status = "listed" /\ Moves(u)
      BY <1>4, TimersMove DEF Listed
    <2>2. CASE u \in Listed
      BY <1>2, <1>3, <1>4, <2>1, <2>2 DEF Leads, Moves, Listed
    <2>3. CASE u \notin Listed
      <3>1. timers[u].status = "new"
        BY <2>1, <2>3 DEF Moves, Listed
      <3> QED
        BY <1>3, <2>1, <3>1 DEF Moves
    <2> QED
      BY <2>2, <2>3
  <1> QED
    BY <1>4

\* Every step keeps the main thread in step with the list.
LEMMA MainStepKeeps ==
    ASSUME IndInv, Next
    PROVE  MainFollows'
  <1>1. TypeOK /\ CallersFollow /\ ListIsOrdered /\ MainFollows
    BY DEF IndInv
  <1>2. /\ main \in MainRecord /\ now \in Nat /\ timers \in [Timer -> TimerRecord]
        /\ NoTimer \notin Timer
    BY <1>1, TimersAssumption, BoundsAssumption DEF TypeOK
  <1>3. main.curr # NoTimer =>
           /\ main.curr \in Timer /\ main.curr \in Listed
           /\ timers'[main.curr].timeout = timers[main.curr].timeout
           /\ timers[main.curr].timeout \in Nat
           /\ timers[main.curr].canceled => timers'[main.curr].canceled
    BY <1>1, <1>2, TimersMove DEF Moves, MainFollows, Leads, Listed, TimerRecord
  <1>4. ASSUME main'.curr = main.curr, Listed \subseteq Listed',
               main'.pc \in {"raise", "drop", "sleep", "wait"} => main'.pc = main.pc,
               now' \in Nat, now' >= now
        PROVE  MainFollows'
    <2>1. main.curr # NoTimer => Leads(main.curr)'
      BY <1>1, <1>3, <1>4, LeadersStay DEF MainFollows, Leads
    <2> QED
      BY <1>1, <1>2, <1>3, <1>4, <2>1 DEF MainFollows
  <1>5. ASSUME main'.curr = NoTimer, main'.pc \in {"off", "loop"} PROVE MainFollows'
    BY <1>5 DEF MainFollows
  <1>6. Signalled.curr = main.curr /\ Signalled.pc \in {main.pc, "peek"}
    BY <1>2 DEF Signalled, MainRecord
  <1>7. ASSUME NEW c \in Caller, Schedule(c) \/ \E t \in Timer : Cancel(c, t)
        PROVE  MainFollows'
    <2>1. Listed' = Listed
      BY <1>7, ListRests
    <2>2. main' \in {main, Signalled} /\ now' = now
      BY <1>7 DEF Schedule, Cancel
    <2> QED
      BY <1>2, <1>4, <1>6, <2>1, <2>2
  <1>8. ASSUME NEW c \in Caller, Number(c) \/ Signal(c) \/ Count(c) PROVE MainFollows'
    <2>1. Listed' = Listed
      BY <1>8, ListRests DEF Number, Signal, Count
    <2>2. main' \in {main, Signalled} /\ now' = now
      BY <1>8 DEF Number, Signal, Count
    <2> QED
      BY <1>2, <1>4, <1>6, <2>1, <2>2
  <1>9. ASSUME NEW c \in Caller, Push(c) PROVE MainFollows'
    <2>1. Listed \subseteq Listed' /\ main' = main /\ now' = now
      BY <1>9, ListGrows DEF Push
    <2> QED
      BY <1>2, <1>4, <2>1
  <1>10. ASSUME MainLoops \/ MainDecrements \/ MainTimesOut PROVE MainFollows'
    <2>1. Listed' = Listed /\ now' = now
      BY <1>10, ListRests DEF MainLoops, MainDecrements, MainTimesOut, MainGoes, MainKeeps
    <2>2. main'.curr = main.curr /\ main'.pc \in {"sem", "off", "peek"}
      BY <1>2, <1>10 DEF MainLoops, MainDecrements, MainTimesOut, MainGoes, MainRecord
    <2> QED
      BY <1>2, <1>4, <2>1, <2>2
  <1>11. ASSUME MainPeeks PROVE MainFollows'
    <2>1. UNCHANGED timers
      BY <1>11 DEF MainPeeks
    <2>2. CASE running /\ Listed # {}
      <3>1. HeadOf(Listed) \in Timer /\ Leads(HeadOf(Listed))
        BY <1>1, <1>2, <2>2, HeadLeads
      <3>2. main'.pc = "look" /\ main'.curr = HeadOf(Listed)
        BY <1>11, <2>2 DEF MainPeeks
      <3>3. Leads(main.curr)'
        BY <2>1, <3>1, <3>2 DEF Leads, Listed
      <3> QED
        BY <3>2, <3>3 DEF MainFollows
    <2>3. CASE ~running \/ Listed = {}
      <3>1. main'.pc \in {"look", "off"} /\ main'.curr = NoTimer
        BY <1>11, <2>3 DEF MainPeeks, HeadOf
      <3> QED
        BY <3>1 DEF MainFollows
    <2> QED
      BY <2>2, <2>3
  <1>12. ASSUME MainLooks \/ MainSleeps PROVE MainFollows'
    <2>1. UNCHANGED <<timers, now>>
      BY <1>12 DEF MainLooks, MainSleeps, MainGoes, MainKeeps
    <2>2. main'.curr = main.curr
      BY <1>2, <1>12 DEF MainLooks, MainSleeps, MainGoes, MainRecord
    <2>3. /\ main'.pc \in {"raise", "drop", "sleep", "wait"} => main.curr # NoTimer
          /\ main'.pc = "raise" => now >= timers[main.curr].timeout
          /\ main'.pc = "drop" => timers[main.curr].canceled
      BY <1>1, <1>2, <1>12 DEF MainLooks, MainSleeps, MainGoes, MainRecord, MainFollows
    <2> QED
      BY <1>1, <2>1, <2>2, <2>3 DEF MainFollows, Leads, Listed
  <1>13. ASSUME MainRaises \/ MainDrops \/ WorkerBegins PROVE MainFollows'
    BY <1>5, <1>13 DEF MainRaises, MainDrops, WorkerBegins
  <1>14. ASSUME WorkerLoops \/ WorkerCalls \/ WorkerEnds PROVE MainFollows'
    <2>1. Listed' = Listed /\ main' = main /\ now' = now
      BY <1>14, ListRests DEF WorkerLoops, WorkerCalls, WorkerEnds, WorkerKeeps
    <2> QED
      BY <1>2, <1>4, <2>1
  <1>15. ASSUME Start \/ Stop \/ StopWorker \/ StopSignals \/ StopMain PROVE MainFollows'
    <2>1. Listed' = Listed /\ now' = now
      BY <1>15, ListRests DEF Start, Stop, StopWorker, StopSignals, StopMain, OwnerKeeps
    <2>2. main' \in {main, Signalled}
      BY <1>15 DEF Start, Stop, StopWorker, StopSignals, StopMain
    <2> QED
      BY <1>2, <1>4, <1>6, <2>1, <2>2
  <1>16. ASSUME Tick PROVE MainFollows'
    <2>1. Listed' = Listed /\ main' = main /\ now' = now + 1
      BY <1>16, ListRests DEF Tick, callerVars
    <2> QED
      BY <1>2, <1>4, <2>1
  <1> QED
    BY <1>7, <1>8, <1>9, <1>10, <1>11, <1>12, <1>13, <1>14, <1>15, <1>16 DEF Next

\* The callers that are about to add a permit: a push makes its caller one of them,
\* the increment of the semaphore ends that.
LEMMA InFlightMoves ==
    ASSUME IndInv, NEW c \in Caller
    PROVE  /\ Push(c) => c \notin InFlight /\ InFlight' = InFlight \cup {c}
           /\ Count(c) => c \in InFlight /\ InFlight' = InFlight \ {c}
           /\ Schedule(c) \/ Number(c) \/ Signal(c) => InFlight' = InFlight
  <1>1. callers \in [Caller -> CallerRecord]
    BY DEF IndInv, TypeOK
  <1>2. Push(c) => c \notin InFlight /\ InFlight' = InFlight \cup {c}
    BY <1>1 DEF Push, InFlight, CallerRecord
  <1>3. Count(c) => c \in InFlight /\ InFlight' = InFlight \ {c}
    BY <1>1 DEF Count, InFlight, CallerRecord
  <1>4. Schedule(c) => InFlight' = InFlight
    <2> SUFFICES ASSUME Schedule(c) PROVE InFlight' = InFlight
      OBVIOUS
    <2>1. PICK t : callers' = [callers EXCEPT ![c] = [pc |-> "number", timer |-> t]]
      BY DEF Schedule
    <2>2. callers[c].pc = "idle"
      BY DEF Schedule
    <2> QED
      BY <1>1, <2>1, <2>2 DEF InFlight, CallerRecord
  <1>5. Number(c) \/ Signal(c) => InFlight' = InFlight
    BY <1>1 DEF Number, Signal, InFlight, CallerRecord
  <1> QED
    BY <1>2, <1>3, <1>4, <1>5

\* The sets that are counted are finite.
LEMMA Countable ==
    ASSUME IndInv
    PROVE  /\ IsFiniteSet(Listed) /\ Cardinality(Listed) \in Nat
           /\ IsFiniteSet(InFlight) /\ Cardinality(InFlight) \in Nat
  <1>1. Listed \subseteq Timer /\ InFlight \subseteq Caller
    BY DEF Listed, InFlight
  <1> QED
    BY <1>1, TimersAssumption, CallersAssumption, FS_Subset, FS_CardinalityType

\* The numbers that are balanced.
Surpluses == IF Surplus THEN 1 ELSE 0
Held == IF HoldsPermit THEN 1 ELSE 0

\* Every step keeps the permits in balance with the timers of the list.
LEMMA PermitsStep ==
    ASSUME IndInv, Next
    PROVE  PermitsBalance'
  <1> DEFINE L == Cardinality(Listed)
             F == Cardinality(InFlight)
  <1>1. TypeOK /\ PhasesFollow /\ MainFollows /\ PermitsBalance
    BY DEF IndInv
  <1>0. sem \in Nat
    BY <1>1 DEF TypeOK
  <1>2. main \in MainRecord /\ running \in BOOLEAN /\ NoTimer \notin Timer
    BY <1>1, TimersAssumption DEF TypeOK
  <1>3. L \in Nat /\ F \in Nat /\ IsFiniteSet(Listed) /\ IsFiniteSet(InFlight)
    BY Countable
  <1>4. /\ Held = 0 \/ Held = 1
        /\ Surpluses = 0 \/ Surpluses = 1
        /\ Held' = 0 \/ Held' = 1
        /\ Surpluses' = 0 \/ Surpluses' = 1
    BY DEF Held, Surpluses
  <1>5. L + Surpluses <= sem + F + Held
    BY <1>1 DEF PermitsBalance, Held, Surpluses
  <1>6. L' + Surpluses' <= sem' + F' + Held' => PermitsBalance'
    BY DEF PermitsBalance, Held, Surpluses
  <1> HIDE DEF L, F
  <1>7. ASSUME L' = L, F' = F, sem' = sem, Surpluses' + Held <= Surpluses + Held'
        PROVE  PermitsBalance'
    <2>1. L' + Surpluses' <= sem' + F' + Held'
      BY <1>0, <1>3, <1>4, <1>5, <1>7
    <2> QED
      BY <1>6, <2>1
  <1>8. /\ Signalled.curr = main.curr
        /\ Signalled.pc = main.pc \/ (main.pc = "wait" /\ Signalled.pc = "peek")
    <2>1. CASE main.pc = "wait"
      BY <1>2, <2>1 DEF Signalled, MainRecord
    <2>2. CASE main.pc # "wait"
      BY <2>2 DEF Signalled
    <2> QED
      BY <2>1, <2>2
  <1>9. ASSUME UNCHANGED owner, main' \in {main, Signalled}
        PROVE  Held' = Held /\ Surpluses' = Surpluses
    <2>1. HoldsPermit' <=> HoldsPermit
      BY <1>8, <1>9 DEF HoldsPermit
    <2>2. Surplus' <=> Surplus
      BY <1>8, <1>9 DEF Surplus
    <2> QED
      BY <2>1, <2>2 DEF Held, Surpluses
  <1>10. Listed' = Listed => L' = L
    BY DEF L
  <1>11. InFlight' = InFlight => F' = F
    BY DEF F
  <1>12. UNCHANGED callers => F' = F
    BY DEF F, InFlight
  <1>13. ASSUME NEW c \in Caller, Schedule(c) \/ Number(c) \/ Signal(c)
         PROVE  PermitsBalance'
    <2>1. L' = L /\ F' = F
      BY <1>10, <1>11, <1>13, ListRests, InFlightMoves DEF Number, Signal
    <2>2. sem' = sem /\ main' \in {main, Signalled} /\ owner' = owner
      BY <1>13 DEF Schedule, Number, Signal, ownerVars
    <2>3. Held' = Held /\ Surpluses' = Surpluses
      BY <1>9, <2>2
    <2> QED
      BY <1>4, <1>7, <2>1, <2>2, <2>3
  <1>14. ASSUME NEW c \in Caller, NEW t \in Timer, Cancel(c, t) PROVE PermitsBalance'
    <2>1. L' = L /\ F' = F
      BY <1>10, <1>12, <1>14, ListRests DEF Cancel
    <2>2. sem' = sem /\ main' \in {main, Signalled} /\ owner' = owner
      BY <1>14 DEF Cancel, ownerVars
    <2>3. Held' = Held /\ Surpluses' = Surpluses
      BY <1>9, <2>2
    <2> QED
      BY <1>4, <1>7, <2>1, <2>2, <2>3
  <1>15. ASSUME NEW c \in Caller, Push(c) PROVE PermitsBalance'
    <2>1. L' = L + 1
      <3>1. callers[c].timer \notin Listed /\ Listed' = Listed \cup {callers[c].timer}
        BY <1>15, ListGrows
      <3> QED
        BY <1>3, <3>1, FS_AddElement DEF L
    <2>2. F' = F + 1
      <3>1. c \notin InFlight /\ InFlight' = InFlight \cup {c}
        BY <1>15, InFlightMoves
      <3> QED
        BY <1>3, <3>1, FS_AddElement DEF F
    <2>3. sem' = sem /\ main' = main /\ owner' = owner
      BY <1>15 DEF Push, ownerVars
    <2>4. Held' = Held /\ Surpluses' = Surpluses
      BY <1>9, <2>3
    <2> QED
      BY <1>0, <1>3, <1>4, <1>5, <1>6, <2>1, <2>2, <2>3, <2>4
  <1>16. ASSUME NEW c \in Caller, Count(c) PROVE PermitsBalance'
    <2>1. L' = L
      BY <1>10, <1>16, ListRests DEF Count
    <2>2. F' = F - 1
      <3>1. c \in InFlight /\ InFlight' = InFlight \ {c}
        BY <1>16, InFlightMoves
      <3> QED
        BY <1>3, <3>1, FS_RemoveElement DEF F
    <2>3. sem' = sem + 1 /\ main' = main /\ owner' = owner
      BY <1>16 DEF Count, ownerVars
    <2>4. Held' = Held /\ Surpluses' = Surpluses
      BY <1>9, <2>3
    <2> QED
      BY <1>0, <1>3, <1>4, <1>5, <1>6, <2>1, <2>2, <2>3, <2>4
  <1>17. ASSUME MainLoops PROVE PermitsBalance'
    <2>1. L' = L /\ F' = F /\ sem' = sem /\ owner' = owner
      BY <1>10, <1>12, <1>17, ListRests DEF MainLoops, MainKeeps, ownerVars
    <2>2. main.pc = "loop" /\ main'.pc = (IF running THEN "sem" ELSE "off")
      BY <1>2, <1>17 DEF MainLoops, MainRecord
    <2>3. CASE running
      <3>1. ~HoldsPermit' /\ ~HoldsPermit /\ (Surplus' <=> Surplus)
        BY <2>1, <2>2, <2>3 DEF HoldsPermit, Surplus
      <3> QED
        BY <1>4, <1>7, <2>1, <3>1 DEF Held, Surpluses
    <2>4. CASE ~running
      <3>1. owner \in {"joiningWorker", "signal", "joiningMain"}
        BY <1>1, <2>2, <2>4 DEF PhasesFollow, TypeOK
      <3>2. /\ ~HoldsPermit /\ ~Surplus'
            /\ HoldsPermit' <=> owner = "joiningWorker"
            /\ Surplus <=> owner # "joiningWorker"
        BY <2>1, <2>2, <2>4, <3>1 DEF HoldsPermit, Surplus
      <3> QED
        BY <1>4, <1>7, <2>1, <3>2 DEF Held, Surpluses
    <2> QED
      BY <2>3, <2>4
  <1>18. ASSUME MainDecrements PROVE PermitsBalance'
    <2>1. L' = L /\ F' = F /\ sem' = sem - 1 /\ owner' = owner
      BY <1>10, <1>12, <1>18, ListRests DEF MainDecrements, MainKeeps, ownerVars
    <2>2. main.pc = "sem" /\ main'.pc = "peek"
      BY <1>2, <1>18 DEF MainDecrements, MainRecord
    <2>3. ~HoldsPermit /\ HoldsPermit' /\ (Surplus' <=> Surplus)
      BY <2>1, <2>2 DEF HoldsPermit, Surplus
    <2>4. Held = 0 /\ Held' = 1 /\ Surpluses' = Surpluses
      BY <2>3 DEF Held, Surpluses
    <2> QED
      BY <1>0, <1>3, <1>4, <1>5, <1>6, <2>1, <2>4
  <1>19. ASSUME MainPeeks PROVE PermitsBalance'
    <2>1. L' = L /\ F' = F /\ sem' = sem /\ owner' = owner
      BY <1>10, <1>12, <1>19, ListRests DEF MainPeeks, MainKeeps, ownerVars
    <2>2. main.pc = "peek" /\ HoldsPermit
      BY <1>19 DEF MainPeeks, HoldsPermit
    <2>3. CASE running /\ Listed # {}
      <3>1. HeadOf(Listed) # NoTimer
        BY <1>1, <1>2, <2>3, HeadLeads DEF IndInv, TypeOK
      <3>2. main'.pc = "look" /\ main'.curr # NoTimer
        BY <1>19, <2>3, <3>1 DEF MainPeeks
      <3>3. HoldsPermit' /\ (Surplus' <=> Surplus)
        BY <2>1, <2>2, <3>2 DEF HoldsPermit, Surplus
      <3> QED
        BY <1>4, <1>7, <2>1, <2>2, <3>3 DEF Held, Surpluses
    <2>4. CASE running /\ Listed = {}
      <3>1. owner \in {"on", "joiningWorker"}
        BY <1>1, <2>4 DEF PhasesFollow
      <3>2. L = 0
        BY <2>4, FS_EmptySet DEF L
      <3>3. ~Surplus'
        BY <2>1, <3>1 DEF Surplus
      <3>4. Surpluses' = 0
        BY <3>3 DEF Surpluses
      <3> QED
        BY <1>0, <1>3, <1>4, <1>6, <2>1, <3>2, <3>4
    <2>5. CASE ~running
      <3>1. owner \in {"joiningWorker", "signal", "joiningMain"}
        BY <1>1, <2>2, <2>5 DEF PhasesFollow, TypeOK
      <3>2. main'.pc = "off"
        BY <1>19, <2>5 DEF MainPeeks
      <3>3. /\ ~Surplus'
            /\ HoldsPermit' <=> owner = "joiningWorker"
            /\ Surplus <=> owner # "joiningWorker"
        BY <2>1, <2>2, <3>1, <3>2 DEF HoldsPermit, Surplus
      <3> QED
        BY <1>4, <1>7, <2>1, <2>2, <3>3 DEF Held, Surpluses
    <2> QED
      BY <1>2, <2>3, <2>4, <2>5
  <1>20. ASSUME MainLooks \/ MainSleeps \/ MainTimesOut PROVE PermitsBalance'
    <2>1. L' = L /\ F' = F /\ sem' = sem /\ owner' = owner
      BY <1>10, <1>12, <1>20, ListRests
      DEF MainLooks, MainSleeps, MainTimesOut, MainGoes, MainKeeps, ownerVars
    <2>2. main'.pc # "off" /\ main.pc # "off"
      BY <1>2, <1>20 DEF MainLooks, MainSleeps, MainTimesOut, MainGoes, MainRecord
    <2>3. HoldsPermit => HoldsPermit'
      BY <1>2, <1>20
      DEF MainLooks, MainSleeps, MainTimesOut, MainGoes, MainRecord, HoldsPermit
    <2>4. Surplus' <=> Surplus
      BY <2>1, <2>2 DEF Surplus
    <2> QED
      BY <1>4, <1>7, <2>1, <2>3, <2>4 DEF Held, Surpluses
  <1>21. ASSUME MainRaises \/ MainDrops PROVE PermitsBalance'
    <2>1. L' = L - 1
      <3>1. main.curr \in Listed /\ Listed' = Listed \ {main.curr}
        BY <1>21, ListShrinks
      <3> QED
        BY <1>3, <3>1, FS_RemoveElement DEF L
    <2>2. F' = F /\ sem' = sem /\ owner' = owner
      BY <1>12, <1>21 DEF MainRaises, MainDrops, MainKeeps, ownerVars
    <2>3. main.pc \in {"raise", "drop"} /\ main'.pc = "loop"
      BY <1>21 DEF MainRaises, MainDrops
    <2>4. HoldsPermit /\ ~HoldsPermit' /\ (Surplus' <=> Surplus)
      BY <2>2, <2>3 DEF HoldsPermit, Surplus
    <2>5. Held = 1 /\ Held' = 0 /\ Surpluses' = Surpluses
      BY <2>4 DEF Held, Surpluses
    <2> QED
      BY <1>0, <1>3, <1>4, <1>5, <1>6, <2>1, <2>2, <2>5
  <1>22. ASSUME WorkerBegins PROVE PermitsBalance'
    <2>1. L' = L /\ F' = F /\ sem' = sem /\ owner' = owner
      BY <1>10, <1>12, <1>22, ListRests DEF WorkerBegins, WorkerKeeps, ownerVars
    <2>2. owner = "on"
      BY <1>1, <1>22 DEF WorkerBegins, PhasesFollow
    <2>3. main.pc = "off" /\ main'.pc = "loop"
      BY <1>1, <1>22, <2>2 DEF WorkerBegins, PhasesFollow
    <2>4. ~HoldsPermit /\ ~HoldsPermit' /\ ~Surplus /\ ~Surplus'
      BY <2>1, <2>2, <2>3 DEF HoldsPermit, Surplus
    <2> QED
      BY <1>4, <1>7, <2>1, <2>4 DEF Held, Surpluses
  <1>23. ASSUME WorkerLoops \/ WorkerCalls \/ WorkerEnds PROVE PermitsBalance'
    <2>1. L' = L /\ F' = F /\ sem' = sem /\ owner' = owner /\ main' = main
      BY <1>10, <1>12, <1>23, ListRests
      DEF WorkerLoops, WorkerCalls, WorkerEnds, WorkerKeeps, ownerVars
    <2> QED
      BY <1>4, <1>7, <1>9, <2>1
  <1>24. ASSUME Start \/ Stop \/ StopMain PROVE PermitsBalance'
    <2>1. L' = L /\ F' = F /\ sem' = sem /\ main' = main
      BY <1>10, <1>12, <1>24, ListRests DEF Start, Stop, StopMain, OwnerKeeps
    <2>2. owner = "off" => main.pc = "off"
      BY <1>1 DEF PhasesFollow
    <2>3. (HoldsPermit => HoldsPermit') /\ (Surplus' => Surplus)
      BY <1>24, <2>1, <2>2 DEF Start, Stop, StopMain, HoldsPermit, Surplus
    <2> QED
      BY <1>4, <1>7, <2>1, <2>3 DEF Held, Surpluses
  <1>25. ASSUME StopWorker PROVE PermitsBalance'
    <2>1. L' = L /\ F' = F /\ sem' = sem + 1 /\ main' = main
      BY <1>10, <1>12, <1>25, ListRests DEF StopWorker, OwnerKeeps
    <2>2. owner = "joiningWorker" /\ owner' = "signal"
      BY <1>25 DEF StopWorker
    <2>3. CASE main.pc = "off"
      <3>1. HoldsPermit /\ ~Surplus' /\ ~Surplus
        BY <2>1, <2>2, <2>3 DEF HoldsPermit, Surplus
      <3>2. Held = 1 /\ Surpluses = 0 /\ Surpluses' = 0
        BY <3>1 DEF Held, Surpluses
      <3> QED
        BY <1>0, <1>3, <1>4, <1>5, <1>6, <2>1, <3>2
    <2>4. CASE main.pc # "off"
      <3>1. (HoldsPermit' <=> HoldsPermit) /\ ~Surplus
        BY <2>1, <2>2, <2>4 DEF HoldsPermit, Surplus
      <3>2. Held' = Held /\ Surpluses = 0
        BY <3>1 DEF Held, Surpluses
      <3> QED
        BY <1>0, <1>3, <1>4, <1>5, <1>6, <2>1, <3>2
    <2> QED
      BY <2>3, <2>4
  <1>26. ASSUME StopSignals PROVE PermitsBalance'
    <2>1. L' = L /\ F' = F /\ sem' = sem /\ main' = Signalled
      BY <1>10, <1>12, <1>26, ListRests DEF StopSignals, OwnerKeeps
    <2>2. owner = "signal" /\ owner' = "joiningMain"
      BY <1>26 DEF StopSignals
    <2>3. (HoldsPermit' <=> HoldsPermit) /\ (Surplus' <=> Surplus)
      BY <1>8, <2>1, <2>2 DEF HoldsPermit, Surplus
    <2> QED
      BY <1>4, <1>7, <2>1, <2>3 DEF Held, Surpluses
  <1>27. ASSUME Tick PROVE PermitsBalance'
    <2>1. L' = L /\ F' = F /\ sem' = sem /\ owner' = owner /\ main' = main
      BY <1>10, <1>12, <1>27, ListRests DEF Tick, callerVars, ownerVars
    <2> QED
      BY <1>4, <1>7, <1>9, <2>1
  <1> QED
    BY <1>13, <1>14, <1>15, <1>16, <1>17, <1>18, <1>19, <1>20, <1>21, <1>22, <1>23, <1>24,
       <1>25, <1>26, <1>27 DEF Next
------------------------------------------------------------------------------

\* A new manager satisfies the invariant.
LEMMA IndInvInit == Init => IndInv
  <1> SUFFICES ASSUME Init PROVE IndInv
    OBVIOUS
  <1>1. TypeOK
    <2>1. timers \in [Timer -> TimerRecord]
      BY DEF Init, TimerRecord
    <2>2. callers \in [Caller -> CallerRecord] /\ main \in MainRecord
      BY DEF Init, CallerRecord, MainRecord
    <2>3. now \in 0..MaxTime /\ starts \in 0..MaxStarts
      BY BoundsAssumption DEF Init
    <2>4. uniqueId \in Nat /\ pushes \in Nat /\ sem \in Nat /\ rsem \in Nat
      BY DEF Init
    <2>5. running \in BOOLEAN
      BY DEF Init
    <2>6. queue \in Seq(Timer)
      BY DEF Init
    <2>7. worker = "off" /\ owner = "off"
      BY DEF Init
    <2> QED
      BY <2>1, <2>2, <2>3, <2>4, <2>5, <2>6, <2>7 DEF TypeOK
  <1>2. Listed = {} /\ InFlight = {}
    BY DEF Init, Listed, InFlight
  <1>3. TimersAreFresh /\ CallersFollow /\ MainFollows /\ QueueFollows /\ PhasesFollow
    BY BoundsAssumption
    DEF Init, TimersAreFresh, CallersFollow, MainFollows, QueueFollows, PhasesFollow
  <1>4. ListIsOrdered
    BY <1>2 DEF ListIsOrdered
  <1>5. PermitsBalance
    <2>1. Cardinality(Listed) = 0 /\ Cardinality(InFlight) = 0
      BY <1>2, FS_EmptySet
    <2>2. ~Surplus /\ ~HoldsPermit /\ sem = 0
      BY DEF Init, Surplus, HoldsPermit
    <2> QED
      BY <2>1, <2>2 DEF PermitsBalance
  <1> QED
    BY <1>1, <1>3, <1>4, <1>5 DEF IndInv

\* Every step keeps it.
LEMMA IndInvStep == IndInv /\ [Next]_vars => IndInv'
  <1> SUFFICES ASSUME IndInv, [Next]_vars PROVE IndInv'
    OBVIOUS
  <1>1. CASE Next
    BY <1>1, TypeStep, FreshStep, CallersStep, ListStep, MainStepKeeps, QueueStep, PhasesStep,
       PermitsStep
    DEF IndInv
  <1>2. CASE UNCHANGED vars
    <2>1. UNCHANGED <<now, timers, uniqueId, pushes, callers, sem, main, worker, running,
                      queue, rsem, owner, starts>>
      BY <1>2 DEF vars, callerVars, runnableVars, ownerVars
    <2> QED
      BY <2>1
      DEF IndInv, TypeOK, TimersAreFresh, CallersFollow, ListIsOrdered, MainFollows, QueueFollows,
          PhasesFollow, PermitsBalance, Leads, Listed, InFlight, HoldsPermit, Surplus
  <1> QED
    BY <1>1, <1>2

\* The inductive invariant holds in every state the manager reaches.
THEOREM Invariance == Spec => []IndInv
  BY IndInvInit, IndInvStep, PTL DEF Spec

\* Every variable stays in its range.
THEOREM TypeCorrectness == Spec => []TypeOK
  <1>1. IndInv => TypeOK
    BY DEF IndInv
  <1> QED
    BY <1>1, Invariance, PTL

\* What the main thread takes out of the list, by a search for the timeout, is the
\* timer it looked at: no other vanishes.
THEOREM OnlyTheServedVanish == Spec => []RemovesTheServed
  <1>1. IndInv => RemovesTheServed
    BY TakesTheServed DEF IndInv
  <1> QED
    BY <1>1, Invariance, PTL

\* The main thread does not sleep on the semaphore over a timer of the list.
THEOREM PermitsSuffice == Spec => []NoTimerWithoutPermit
  <1>1. IndInv => NoTimerWithoutPermit
    <2> SUFFICES ASSUME IndInv, main.pc = "sem", sem = 0, Listed # {}
                 PROVE  \E c \in Caller : callers[c].pc \in {"signal", "count"}
      BY DEF NoTimerWithoutPermit
    <2>1. ~HoldsPermit
      BY DEF HoldsPermit
    <2>2. Cardinality(Listed) # 0 /\ Cardinality(Listed) \in Nat
          /\ Cardinality(InFlight) \in Nat
      BY Countable, FS_EmptySet
    <2>3. Cardinality(InFlight) # 0
      <3>1. Cardinality(Listed) <= Cardinality(InFlight)
        BY <2>1, <2>2 DEF IndInv, PermitsBalance
      <3> QED
        BY <2>2, <3>1
    <2>4. InFlight # {}
      BY <2>3, FS_EmptySet
    <2> QED
      BY <2>4 DEF InFlight
  <1> QED
    BY <1>1, Invariance, PTL
------------------------------------------------------------------------------
(* The manager implements the service.                                     *)

\* A timer is the same in the service when neither its fields nor whether it is
\* being raised change.
LEMMA SameInService ==
    ASSUME NEW t \in Timer,
           timers'[t].status = timers[t].status, timers'[t].canceled = timers[t].canceled,
           timers[t].status = "listed" => (Raising(t)' <=> Raising(t))
    PROVE  StatusInService'[t] = StatusInService[t]
  BY DEF StatusInService

\* Deadlines are given when timers are pushed, and never changed.
LEMMA DeadlinesStay ==
    ASSUME IndInv, Next, UNCHANGED pushes
    PROVE  UNCHANGED DeadlineInService
  <1>1. pushes \in Nat
    BY DEF IndInv, TypeOK
  <1>2. ASSUME NEW t \in Timer PROVE DeadlineInService'[t] = DeadlineInService[t]
    <2>1. Moves(t)
      BY TimersMove
    <2>2. timers[t].status \in {"free", "new"} <=> timers'[t].status \in {"free", "new"}
      BY <1>1, <2>1 DEF Moves
    <2>3. timers[t].status \notin {"free", "new"} =>
             timers'[t].timeout = timers[t].timeout
      BY <2>1 DEF Moves
    <2> QED
      BY <2>2, <2>3 DEF DeadlineInService
  <1> QED
    BY <1>2 DEF DeadlineInService

\* A step that moves one timer of the service, or none.
LEMMA OneMoves ==
    ASSUME NEW t \in Timer, NEW to, StatusInService'[t] = to,
           \A u \in Timer \ {t} : StatusInService'[u] = StatusInService[u]
    PROVE  StatusInService' = [StatusInService EXCEPT ![t] = to]
  BY DEF StatusInService

\* A step that moves no timer of the service.
LEMMA NoneMoves ==
    ASSUME \A u \in Timer : StatusInService'[u] = StatusInService[u]
    PROVE  UNCHANGED StatusInService
  BY DEF StatusInService

\* A step of a caller is a step of the service, or none.
LEMMA CallerInService ==
    ASSUME IndInv, Next, NEW c \in Caller,
           \/ Schedule(c) \/ Number(c) \/ Push(c) \/ Signal(c) \/ Count(c)
           \/ \E t \in Timer : Cancel(c, t)
    PROVE  [Service!Next]_(Service!vars)
  <1>1. /\ timers \in [Timer -> TimerRecord] /\ main \in MainRecord
        /\ now \in Nat
    BY BoundsAssumption DEF IndInv, TypeOK
  <1>2. Signalled.curr = main.curr /\ (Signalled.pc = "raise" <=> main.pc = "raise")
    BY <1>1 DEF Signalled, MainRecord
  <1>3. ASSUME main' \in {main, Signalled}
        PROVE  \A t \in Timer : Raising(t)' <=> Raising(t)
    BY <1>2, <1>3 DEF Raising
  <1>4. CASE Number(c) \/ Signal(c) \/ Count(c)
    <2>1. UNCHANGED <<timers, pushes, now>> /\ main' \in {main, Signalled}
      BY <1>4 DEF Number, Signal, Count
    <2>2. UNCHANGED StatusInService
      BY <1>3, <2>1, SameInService, NoneMoves
    <2>3. UNCHANGED DeadlineInService
      BY <2>1, DeadlinesStay
    <2> QED
      BY <2>1, <2>2, <2>3 DEF Service!vars
  <1>5. CASE Schedule(c)
    <2>1. PICK t \in Timer, delay \in 0..MaxTime :
             /\ timers[t].status = "free"
             /\ timers' = [timers EXCEPT ![t].status = "new", ![t].id = uniqueId,
                                         ![t].timeout = now + delay]
      BY <1>5 DEF Schedule
    <2>2. UNCHANGED <<pushes, now, main>>
      BY <1>5 DEF Schedule
    <2>3. /\ timers'[t].status = "new"
          /\ \A u \in Timer \ {t} : timers'[u] = timers[u]
      BY <1>1, <2>1 DEF TimerRecord
    <2>4. StatusInService'[t] = StatusInService[t]
      BY <2>1, <2>3 DEF StatusInService
    <2>5. \A u \in Timer \ {t} : StatusInService'[u] = StatusInService[u]
      BY <1>3, <2>2, <2>3, SameInService
    <2>6. UNCHANGED StatusInService
      BY <2>4, <2>5, NoneMoves
    <2>7. UNCHANGED DeadlineInService
      BY <2>2, DeadlinesStay
    <2> QED
      BY <2>2, <2>6, <2>7 DEF Service!vars
  <1>6. CASE Push(c)
    <2>1. PICK t \in Timer : t = callers[c].timer
      BY <1>6, ListGrows
    <2>2. /\ timers[t].status = "new" /\ ~timers[t].canceled
          /\ timers[t].timeout \in 0..MaxTime
      BY <1>1, <1>6, <2>1
      DEF Push, IndInv, CallersFollow, TimersAreFresh, TimerRecord
    <2>3. /\ timers' = [timers EXCEPT ![t].status = "listed", ![t].order = pushes]
          /\ UNCHANGED <<now, main>>
      BY <1>6, <2>1 DEF Push
    <2>4. /\ timers'[t].status = "listed" /\ ~timers'[t].canceled
          /\ timers'[t].timeout = timers[t].timeout
          /\ \A u \in Timer \ {t} : timers'[u] = timers[u]
      BY <1>1, <2>2, <2>3 DEF TimerRecord
    <2>5. ~Raising(t)'
      <3>1. main.curr # t
        BY <2>2, TimersAssumption DEF IndInv, MainFollows, Leads, Listed
      <3> QED
        BY <2>3, <3>1 DEF Raising
    <2>6. StatusInService[t] = "idle" /\ StatusInService'[t] = "armed"
      BY <2>2, <2>4, <2>5 DEF StatusInService
    <2>7. \A u \in Timer \ {t} : StatusInService'[u] = StatusInService[u]
      BY <1>3, <2>3, <2>4, SameInService
    <2>8. StatusInService' = [StatusInService EXCEPT ![t] = "armed"]
      BY <2>6, <2>7, OneMoves
    <2>9. DeadlineInService' = [DeadlineInService EXCEPT ![t] = timers[t].timeout]
      BY <2>4 DEF DeadlineInService
    <2>10. Service!Arm(t)
      BY <2>2, <2>3, <2>6, <2>8, <2>9 DEF Service!Arm, Service!Move
    <2> QED
      BY <2>10 DEF Service!Next
  <1>7. ASSUME NEW u \in Timer, Cancel(c, u) PROVE [Service!Next]_(Service!vars)
    <2>1. PICK item \in Listed : timers' = [timers EXCEPT ![item].canceled = TRUE]
      BY <1>7, CancelsListed
    <2>2. UNCHANGED <<pushes, now>> /\ main' \in {main, Signalled}
      BY <1>7 DEF Cancel
    <2>3. item \in Timer /\ timers[item].status = "listed"
      BY <2>1 DEF Listed
    <2>4. /\ timers'[item].status = "listed" /\ timers'[item].canceled
          /\ \A t \in Timer \ {item} : timers'[t] = timers[t]
      BY <1>1, <2>1, <2>3 DEF TimerRecord
    <2>5. \A t \in Timer \ {item} : StatusInService'[t] = StatusInService[t]
      BY <1>3, <2>2, <2>4, SameInService
    <2>6. UNCHANGED DeadlineInService
      BY <2>2, DeadlinesStay
    <2>7. CASE Raising(item) \/ timers[item].canceled
      <3>1. StatusInService'[item] = StatusInService[item]
        BY <1>3, <2>2, <2>3, <2>4, <2>7 DEF StatusInService
      <3>2. UNCHANGED StatusInService
        BY <2>5, <3>1, NoneMoves
      <3> QED
        BY <2>2, <2>6, <3>2 DEF Service!vars
    <2>8. CASE ~Raising(item) /\ ~timers[item].canceled
      <3>1. StatusInService[item] = "armed" /\ StatusInService'[item] = "cancelled"
        BY <1>3, <2>2, <2>3, <2>4, <2>8 DEF StatusInService
      <3>2. StatusInService' = [StatusInService EXCEPT ![item] = "cancelled"]
        BY <2>3, <2>5, <3>1, OneMoves
      <3>3. Service!CancelArmed(item)
        BY <2>2, <2>6, <3>1, <3>2 DEF Service!CancelArmed, Service!Move
      <3> QED
        BY <2>3, <3>3 DEF Service!Next
    <2> QED
      BY <2>7, <2>8
  <1> QED
    BY <1>4, <1>5, <1>6, <1>7

\* A step of the main thread is a step of the service, or none.
LEMMA MainInService ==
    ASSUME IndInv, Next, MainStep
    PROVE  [Service!Next]_(Service!vars)
  <1>1. /\ timers \in [Timer -> TimerRecord] /\ main \in MainRecord
        /\ NoTimer \notin Timer
    BY TimersAssumption DEF IndInv, TypeOK
  <1>2. UNCHANGED <<now, pushes>>
    BY DEF MainStep, MainLoops, MainDecrements, MainPeeks, MainLooks, MainRaises, MainDrops,
           MainSleeps, MainTimesOut, MainGoes, MainKeeps
  <1>3. UNCHANGED DeadlineInService
    BY <1>2, DeadlinesStay
  <1>4. ASSUME UNCHANGED timers, main.pc # "raise", main'.pc # "raise"
        PROVE  UNCHANGED Service!vars
    <2>1. UNCHANGED StatusInService
      BY <1>4, SameInService, NoneMoves DEF Raising
    <2> QED
      BY <1>2, <1>3, <2>1 DEF Service!vars
  <1>5. CASE MainLoops \/ MainDecrements \/ MainPeeks \/ MainSleeps \/ MainTimesOut
    <2>1. UNCHANGED timers /\ main.pc # "raise"
      BY <1>5
      DEF MainLoops, MainDecrements, MainPeeks, MainSleeps, MainTimesOut, MainGoes
    <2>2. main'.pc # "raise"
      BY <1>1, <1>5
      DEF MainLoops, MainDecrements, MainPeeks, MainSleeps, MainTimesOut, MainGoes,
          MainRecord
    <2> QED
      BY <1>4, <2>1, <2>2
  <1>6. CASE MainLooks
    <2>1. UNCHANGED timers /\ main.pc = "look" /\ main'.curr = main.curr
      BY <1>1, <1>6 DEF MainLooks, MainGoes, MainRecord
    <2>2. CASE main'.pc # "raise"
      BY <1>4, <2>1, <2>2
    <2>3. CASE main'.pc = "raise"
      <3>1. PICK t \in Timer : t = main.curr /\ timers[t].status = "listed"
        BY <1>1, <1>6, <2>3
        DEF MainLooks, MainGoes, MainRecord, IndInv, MainFollows, Leads, Listed
      <3>2. ~timers[t].canceled /\ now >= timers[t].timeout
        BY <1>1, <1>6, <2>3, <3>1 DEF MainLooks, MainGoes, MainRecord
      <3>3. Raising(t)' /\ ~Raising(t) /\ \A u \in Timer \ {t} : ~Raising(u)' /\ ~Raising(u)
        BY <2>1, <2>3, <3>1 DEF Raising
      <3>4. StatusInService[t] = "armed" /\ StatusInService'[t] = "due"
        BY <2>1, <3>1, <3>2, <3>3 DEF StatusInService
      <3>5. \A u \in Timer \ {t} : StatusInService'[u] = StatusInService[u]
        BY <2>1, <3>3, SameInService
      <3>6. StatusInService' = [StatusInService EXCEPT ![t] = "due"]
        BY <3>4, <3>5, OneMoves
      <3>7. DeadlineInService[t] = timers[t].timeout
        BY <3>1 DEF DeadlineInService
      <3>8. Service!FallDue(t)
        BY <1>2, <1>3, <3>2, <3>4, <3>6, <3>7 DEF Service!FallDue, Service!Move
      <3> QED
        BY <3>8 DEF Service!Next
    <2> QED
      BY <2>2, <2>3
  <1>7. CASE MainRaises \/ MainDrops
    <2>1. PICK t \in Timer : t = main.curr
      BY <1>7, TimersInHand DEF MainRaises, MainDrops, IndInv
    <2>2. /\ timers[t].status = "listed" /\ Found(t) = t
          /\ main.pc = "drop" => timers[t].canceled
      BY <1>1, <1>7, <2>1, TimersInHand DEF IndInv, MainFollows, Leads, Listed
    <2>3. main'.pc = "loop"
      BY <1>7 DEF MainRaises, MainDrops
    <2>4. PICK x \in {"queued", "lost", "dropped"} :
             /\ timers' = [timers EXCEPT ![t] = [timers[t] EXCEPT !.status = x]]
             /\ x = "dropped" <=> main.pc = "drop"
      BY <1>1, <1>7, <2>1, <2>2 DEF MainRaises, MainDrops, TimerRecord
    <2>5. /\ timers'[t].status = x /\ timers'[t].canceled = timers[t].canceled
          /\ \A u \in Timer \ {t} : timers'[u] = timers[u]
      BY <1>1, <2>4 DEF TimerRecord
    <2>6. \A u \in Timer \ {t} : ~Raising(u)' /\ ~Raising(u)
      BY <2>1, <2>3 DEF Raising
    <2>7. \A u \in Timer \ {t} : StatusInService'[u] = StatusInService[u]
      BY <2>5, <2>6, SameInService
    <2>8. CASE x = "dropped"
      <3>1. ~Raising(t)
        BY <2>4, <2>8 DEF Raising
      <3>2. StatusInService[t] = "cancelled" /\ StatusInService'[t] = "cancelled"
        BY <2>2, <2>4, <2>5, <2>8, <3>1 DEF StatusInService
      <3>3. UNCHANGED StatusInService
        BY <2>7, <3>2, NoneMoves
      <3> QED
        BY <1>2, <1>3, <3>3 DEF Service!vars
    <2>9. CASE x # "dropped"
      <3>1. Raising(t)
        BY <1>7, <2>1, <2>4, <2>9 DEF MainRaises, MainDrops, Raising
      <3>2. StatusInService[t] = "due"
        BY <2>2, <3>1 DEF StatusInService
      <3>3. CASE x = "queued"
        <4>1. StatusInService'[t] = "due"
          BY <2>5, <3>3 DEF StatusInService
        <4>2. UNCHANGED StatusInService
          BY <2>7, <3>2, <4>1, NoneMoves
        <4> QED
          BY <1>2, <1>3, <4>2 DEF Service!vars
      <3>4. CASE x = "lost"
        <4>1. StatusInService'[t] = "lost"
          BY <2>5, <3>4 DEF StatusInService
        <4>2. StatusInService' =
                 [u \in Timer |-> IF u \in {t} THEN "lost" ELSE StatusInService[u]]
          BY <2>7, <4>1 DEF StatusInService
        <4>3. Service!Lose({t})
          BY <1>2, <1>3, <3>2, <4>2 DEF Service!Lose
        <4> QED
          BY <4>3 DEF Service!Next
      <3> QED
        BY <2>4, <2>9, <3>3, <3>4
    <2> QED
      BY <2>8, <2>9
  <1> QED
    BY <1>5, <1>6, <1>7 DEF MainStep

\* A step of the worker, of the owner or of the clock is a step of the service, or
\* none.
LEMMA OthersInService ==
    ASSUME IndInv, Next,
           \/ WorkerBegins \/ WorkerLoops \/ WorkerCalls \/ WorkerEnds
           \/ Start \/ Stop \/ StopWorker \/ StopSignals \/ StopMain \/ Tick
    PROVE  [Service!Next]_(Service!vars)
  <1>1. /\ timers \in [Timer -> TimerRecord] /\ main \in MainRecord /\ queue \in Seq(Timer)
        /\ NoTimer \notin Timer
    BY TimersAssumption DEF IndInv, TypeOK
  <1>2. Signalled.curr = main.curr /\ (Signalled.pc = "raise" <=> main.pc = "raise")
    BY <1>1 DEF Signalled, MainRecord
  <1>3. ASSUME main' \in {main, Signalled}
        PROVE  \A t \in Timer : Raising(t)' <=> Raising(t)
    BY <1>2, <1>3 DEF Raising
  <1>4. UNCHANGED pushes
    BY DEF WorkerBegins, WorkerLoops, WorkerCalls, WorkerEnds, WorkerKeeps, Start, Stop,
           StopWorker, StopSignals, StopMain, OwnerKeeps, Tick, callerVars
  <1>5. UNCHANGED DeadlineInService
    BY <1>4, DeadlinesStay
  <1>6. CASE WorkerBegins
    <2>1. UNCHANGED <<timers, now>> /\ main'.pc = "loop"
      BY <1>6 DEF WorkerBegins, WorkerKeeps
    <2>2. main.pc = "off"
      BY <1>6 DEF WorkerBegins, IndInv, PhasesFollow
    <2>3. UNCHANGED StatusInService
      BY <2>1, <2>2, SameInService, NoneMoves DEF Raising
    <2> QED
      BY <1>5, <2>1, <2>3 DEF Service!vars
  <1>7. CASE WorkerLoops \/ WorkerEnds \/ Start \/ Stop \/ StopSignals \/ StopMain
    <2>1. UNCHANGED <<timers, now>> /\ main' \in {main, Signalled}
      BY <1>7 DEF WorkerLoops, WorkerEnds, WorkerKeeps, Start, Stop, StopSignals, StopMain,
                  OwnerKeeps
    <2>2. UNCHANGED StatusInService
      BY <1>3, <2>1, SameInService, NoneMoves
    <2> QED
      BY <1>5, <2>1, <2>2 DEF Service!vars
  <1>8. CASE WorkerCalls
    <2>1. UNCHANGED <<now, main>>
      BY <1>8 DEF WorkerCalls, WorkerKeeps
    <2>2. CASE queue = <<>>
      <3>1. UNCHANGED timers
        BY <1>8, <2>2 DEF WorkerCalls
      <3>2. UNCHANGED StatusInService
        BY <1>3, <2>1, <3>1, SameInService, NoneMoves
      <3> QED
        BY <1>5, <2>1, <3>2 DEF Service!vars
    <2>3. CASE queue # <<>>
      <3>1. PICK t \in Timer : t = Head(queue) /\ timers[t].status = "queued"
        BY <1>1, <2>3 DEF IndInv, QueueFollows
      <3>2. timers' = [timers EXCEPT ![t].status = "called"]
        BY <1>8, <2>3, <3>1 DEF WorkerCalls
      <3>3. /\ timers'[t].status = "called"
            /\ \A u \in Timer \ {t} : timers'[u] = timers[u]
        BY <1>1, <3>2 DEF TimerRecord
      <3>4. StatusInService[t] = "due" /\ StatusInService'[t] = "called"
        BY <3>1, <3>3 DEF StatusInService
      <3>5. \A u \in Timer \ {t} : StatusInService'[u] = StatusInService[u]
        BY <1>3, <2>1, <3>3, SameInService
      <3>6. StatusInService' = [StatusInService EXCEPT ![t] = "called"]
        BY <3>4, <3>5, OneMoves
      <3>7. Service!Call(t)
        BY <1>5, <2>1, <3>4, <3>6 DEF Service!Call, Service!Move
      <3> QED
        BY <3>7 DEF Service!Next
    <2> QED
      BY <2>2, <2>3
  <1>9. CASE StopWorker
    <2> DEFINE T == {t \in Timer : timers[t].status = "queued"}
    <2>1. UNCHANGED <<now, main>>
      BY <1>9 DEF StopWorker, OwnerKeeps
    <2>2. \A t \in T : timers'[t].status = "lost" /\ timers[t].status = "queued"
      BY <1>1, <1>9 DEF StopWorker, TimerRecord
    <2>3. \A t \in Timer \ T : timers'[t] = timers[t]
      BY <1>9 DEF StopWorker
    <2>4. T \subseteq Timer
      OBVIOUS
    <2> HIDE DEF T
    <2>5. \A t \in T : StatusInService[t] = "due" /\ StatusInService'[t] = "lost"
      BY <2>2, <2>4 DEF StatusInService
    <2>6. \A t \in Timer \ T : StatusInService'[t] = StatusInService[t]
      BY <1>3, <2>1, <2>3, SameInService
    <2>7. StatusInService' = [t \in Timer |-> IF t \in T THEN "lost" ELSE StatusInService[t]]
      BY <2>5, <2>6 DEF StatusInService
    <2>8. Service!Lose(T)
      BY <1>5, <2>1, <2>5, <2>7 DEF Service!Lose
    <2> QED
      BY <2>4, <2>8 DEF Service!Next
  <1>10. CASE Tick
    <2>1. UNCHANGED <<timers, main>> /\ now' = now + 1
      BY <1>10 DEF Tick, callerVars
    <2>2. UNCHANGED StatusInService
      BY <1>3, <2>1, SameInService, NoneMoves
    <2>3. Service!Tick
      BY <1>5, <2>1, <2>2 DEF Service!Tick
    <2> QED
      BY <2>3 DEF Service!Next
  <1> QED
    BY <1>6, <1>7, <1>8, <1>9, <1>10

\* No timer is called back twice, before its timeout, or once it was seen cancelled.
THEOREM Implementation == Spec => ImplementsService
  <1>1. Init => Service!Init
    <2> SUFFICES ASSUME Init PROVE Service!Init
      OBVIOUS
    <2>1. \A t \in Timer : timers[t].status = "free"
      BY DEF Init
    <2>2. /\ StatusInService = [t \in Timer |-> "idle"]
          /\ DeadlineInService = [t \in Timer |-> 0]
      BY <2>1 DEF StatusInService, DeadlineInService
    <2>3. now = 0
      BY DEF Init
    <2> QED
      BY <2>2, <2>3 DEF Service!Init
  <1>2. IndInv /\ [Next]_vars => [Service!Next]_(Service!vars)
    <2> SUFFICES ASSUME IndInv, [Next]_vars PROVE [Service!Next]_(Service!vars)
      OBVIOUS
    <2>1. CASE UNCHANGED vars
      <3>1. UNCHANGED <<now, timers, main>>
        BY <2>1 DEF vars, callerVars
      <3>2. UNCHANGED StatusInService /\ UNCHANGED DeadlineInService
        BY <3>1 DEF StatusInService, DeadlineInService, Raising
      <3> QED
        BY <3>1, <3>2 DEF Service!vars
    <2>2. ASSUME Next, NEW c \in Caller,
                 \/ Schedule(c) \/ Number(c) \/ Push(c) \/ Signal(c) \/ Count(c)
                 \/ \E t \in Timer : Cancel(c, t)
          PROVE  [Service!Next]_(Service!vars)
      BY <2>2, CallerInService
    <2>3. CASE Next /\ MainStep
      BY <2>3, MainInService
    <2>4. CASE /\ Next
               /\ \/ WorkerBegins \/ WorkerLoops \/ WorkerCalls \/ WorkerEnds
                  \/ Start \/ Stop \/ StopWorker \/ StopSignals \/ StopMain \/ Tick
      BY <2>4, OthersInService
    <2> QED
      BY <2>1, <2>2, <2>3, <2>4 DEF Next, MainStep
  <1> QED
    BY <1>1, <1>2, Invariance, PTL DEF Spec, ImplementsService, Service!Spec
=============================================================================
