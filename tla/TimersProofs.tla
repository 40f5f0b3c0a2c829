----------------------------- MODULE TimersProofs -----------------------------
(* What the timer operators of module Timers return and preserve.          *)
EXTENDS Timers, TLAPS

\* Scheduling, cancelling and queueing keep a set of timers of the same names.
LEMMA TimersType ==
    ASSUME NEW Name, NEW timers \in SUBSET TimerOf(Name)
    PROVE  /\ \A name \in Name, missed \in BOOLEAN :
                Schedule(timers, name, missed) \in SUBSET TimerOf(Name)
           /\ \A names : Cancel(timers, names) \in SUBSET TimerOf(Name)
           /\ \A t \in timers : Due(timers, t) \in SUBSET TimerOf(Name)
           /\ \A t : timers \ {t} \in SUBSET TimerOf(Name)
  <1>1. \A name \in Name, missed \in BOOLEAN :
           Schedule(timers, name, missed) \in SUBSET TimerOf(Name)
    <2> TAKE name \in Name, missed \in BOOLEAN
    <2>1. {[t EXCEPT !.current = FALSE] : t \in {u \in timers : u.name = name}}
            \subseteq TimerOf(Name)
      BY DEF TimerOf
    <2>2. (~missed) \in BOOLEAN
      OBVIOUS
    <2>3. [name |-> name, current |-> ~missed, queued |-> FALSE] \in TimerOf(Name)
      BY <2>2, Zenon DEF TimerOf
    <2> QED
      BY <2>1, <2>3 DEF Schedule
  <1>2. \A names : Cancel(timers, names) \in SUBSET TimerOf(Name)
    BY DEF Cancel
  <1>3. \A t \in timers : Due(timers, t) \in SUBSET TimerOf(Name)
    BY DEF Due, TimerOf
  <1> QED
    BY <1>1, <1>2, <1>3

\* A timer scheduled in time is pending, and so is every other timer that was.
LEMMA ScheduledIsPending ==
    ASSUME NEW Name, NEW timers \in SUBSET TimerOf(Name),
           NEW name \in Name, NEW missed \in BOOLEAN
    PROVE  /\ ~missed => IsPending(Schedule(timers, name, missed), name)
           /\ \A other \in Name : other # name /\ IsPending(timers, other)
                => IsPending(Schedule(timers, name, missed), other)
  <1>1. ~missed => IsPending(Schedule(timers, name, missed), name)
    <2> DEFINE new == [name |-> name, current |-> ~missed, queued |-> FALSE]
    <2>1. new \in Schedule(timers, name, missed)
      BY DEF Schedule
    <2>2. new.name = name /\ (new.current <=> ~missed)
      BY Zenon
    <2> HIDE DEF new
    <2> QED
      BY <2>1, <2>2 DEF IsPending
  <1>2. ASSUME NEW other \in Name, other # name, IsPending(timers, other)
        PROVE  IsPending(Schedule(timers, name, missed), other)
    <2>1. PICK t \in timers : t.name = other /\ t.current
      BY <1>2 DEF IsPending
    <2>2. t \in Schedule(timers, name, missed)
      BY <1>2, <2>1 DEF Schedule
    <2> QED
      BY <2>1, <2>2 DEF IsPending
  <1> QED
    BY <1>1, <1>2

\* A pending timer stays pending when others are cancelled, when it becomes due,
\* and when another timer is taken from the queue.
LEMMA PendingKept ==
    ASSUME NEW Name, NEW timers \in SUBSET TimerOf(Name), NEW name \in Name,
           IsPending(timers, name)
    PROVE  /\ \A names : name \notin names => IsPending(Cancel(timers, names), name)
           /\ \A t \in timers : IsPending(Due(timers, t), name)
           /\ \A t \in timers : t.name # name \/ ~t.current
                => IsPending(timers \ {t}, name)
  <1>1. PICK p \in timers : p.name = name /\ p.current
    BY DEF IsPending
  <1>2. \A names : name \notin names => IsPending(Cancel(timers, names), name)
    BY <1>1 DEF IsPending, Cancel
  <1>3. ASSUME NEW t \in timers
        PROVE  IsPending(Due(timers, t), name)
    <2>1. CASE t = p
      <3>1. [t EXCEPT !.queued = TRUE] \in Due(timers, t)
        BY DEF Due
      <3> QED
        BY <1>1, <2>1, <3>1 DEF IsPending, TimerOf
    <2>2. CASE t # p
      BY <1>1, <2>2 DEF IsPending, Due
    <2> QED
      BY <2>1, <2>2
  <1>4. \A t \in timers : t.name # name \/ ~t.current => IsPending(timers \ {t}, name)
    BY <1>1 DEF IsPending
  <1> QED
    BY <1>2, <1>3, <1>4
==============================================================================
