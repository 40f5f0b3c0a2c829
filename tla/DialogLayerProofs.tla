-------------------------- MODULE DialogLayerProofs --------------------------
(* The walks of tsip_dialog_layer_shutdownAll, whatever the dialogs are and *)
(* do meanwhile.                                                            *)
EXTENDS DialogLayer, TLAPS

\* Asked to end, or gone.
Reached(d) == d \in asked \/ d \notin listed \/ state[d] = "Over"
Gone(d) == d \notin listed \/ state[d] = "Over"

Audible == Others \ silent      \* the dialogs of phase 1
Settled == \A d \in present \cap Audible : Gone(d)

\* A dialog that was in the list has begun, and is not put there again.
ListedOnce == \A d \in listed \cup present : state[d] # "None"

\* What a walk has not reached is ahead of it.
WalkReaches ==
    /\ pc = "phase1" => \A d \in present \cap Audible : Reached(d) \/ d \in ahead
    /\ pc \notin {"idle", "called", "phase1"} =>
          \A d \in present \cap Audible : Reached(d)
    /\ pc = "phase2" => \A d \in present \cap Registers : Reached(d) \/ d \in ahead
    /\ pc \in {"closing2", "waiting2", "phase3", "done"} =>
          \A d \in present \cap Registers : Reached(d)

\* Why phase 2 may begin: phase 1 did not have to wait, was told that its dialogs
\* are gone, or waited for the timeout.
PhaseOneFirst ==
    /\ pc \in {"idle", "called"} => asked = {}
    /\ pc \in {"idle", "called", "phase1", "closing1", "waiting1", "next"}
          => asked \cap Registers = {}
    /\ pc \in {"phase1", "closing1"} /\ ~wait => \A d \in asked : state[d] = "Over"
    /\ pc = "waiting1" /\ woken => Settled
    /\ pc \in {"next", "phase2", "closing2", "waiting2", "phase3", "done"} => late \/ Settled

IndInv ==
    /\ TypeOK
    /\ ListedOnce
    /\ WalkReaches
    /\ PhaseOneFirst
------------------------------------------------------------------------------

\* Before the layer is asked anything the invariant holds.
LEMMA IndInvInit == Init => IndInv
  <1> SUFFICES ASSUME Init PROVE IndInv
    OBVIOUS
  <1>1. TypeOK
    BY DEF Init, TypeOK, States, Places, Locked
  <1>2. ListedOnce /\ WalkReaches /\ PhaseOneFirst
    BY DEF Init, ListedOnce, WalkReaches, PhaseOneFirst
  <1> QED
    BY <1>1, <1>2 DEF IndInv

\* The dialogs and the other threads: nobody that was reached, or is gone, comes
\* back.
LEMMA DialogSteps ==
    ASSUME IndInv, NEW d \in Dialogs, New(d) \/ Lives(d) \/ Removes(d)
    PROVE  IndInv'
  <1> USE DEF IndInv
  <1>1. /\ UNCHANGED <<silent, pc, wait, late, present, asked>>
        /\ state' \in [Dialogs -> States]
        /\ present \subseteq Dialogs /\ asked \subseteq Dialogs /\ listed \subseteq Dialogs
    BY DEF TypeOK, New, Lives, Removes, States, walk
  <1>2. \A e \in present : Gone(e) => Gone(e)'
    BY <1>1 DEF TypeOK, ListedOnce, New, Lives, Removes, Gone, States, walk
  <1>3. \A e \in present : Reached(e) => Reached(e)'
    BY <1>1, <1>2 DEF Reached, Gone
  <1>4. TypeOK'
    BY <1>1 DEF TypeOK, New, Lives, Removes, Locked, walk
  <1>5. ListedOnce'
    BY <1>1 DEF TypeOK, ListedOnce, New, Lives, Removes, States, walk
  <1>6. pc \in {"phase1", "phase2"} => ahead \subseteq ahead'
    BY DEF New, Lives, Removes, Locked, walk
  <1>7. WalkReaches'
    BY <1>1, <1>3, <1>6 DEF WalkReaches, Audible
  <1>8. Settled => Settled'
    BY <1>1, <1>2 DEF Settled, Audible
  <1>9. pc = "waiting1" /\ woken' => Settled'
    <2> SUFFICES ASSUME pc = "waiting1", woken', ~woken
                 PROVE  Settled'
      BY <1>8 DEF PhaseOneFirst
    <2>1. listed' \cap Others = {}
      BY DEF New, Lives, Removes, Broadcasts, InPhase2, walk
    <2> QED
      BY <1>1, <2>1 DEF Settled, Audible, Gone
  <1>10. \A e \in asked : state[e] = "Over" => state'[e] = "Over"
    BY <1>1 DEF TypeOK, New, Lives, Removes
  <1>11. PhaseOneFirst'
    BY <1>1, <1>8, <1>9, <1>10 DEF PhaseOneFirst
  <1> QED
    BY <1>4, <1>5, <1>7, <1>11

\* The walk comes to a dialog, asks it or passes it by.
LEMMA WalkSteps ==
    ASSUME IndInv, Phase1 \/ Phase2 \/ Phase3
    PROVE  IndInv'
  <1> USE DEF IndInv
  <1>0. PICK d \in ahead :
          \/ /\ Asks(d)
             /\ \/ pc = "phase1" /\ d \in Audible
                \/ pc = "phase2" /\ d \in Registers
                \/ pc = "phase3" /\ d \in silent
          \/ /\ \/ pc = "phase1" /\ d \notin Audible
                \/ pc = "phase2" /\ d \notin Registers
                \/ pc = "phase3"
             /\ ahead' = ahead \ {d}
             /\ UNCHANGED <<state, silent, listed, pc, wait, woken, late, present, asked, cut>>
    BY DEF Phase1, Phase2, Phase3, Walks, Audible
  <1>1. d \in Dialogs /\ pc \in {"phase1", "phase2", "phase3"}
    BY <1>0 DEF TypeOK
  <1>2. CASE /\ ahead' = ahead \ {d}
             /\ \/ pc = "phase1" /\ d \notin Audible
                \/ pc = "phase2" /\ d \notin Registers
                \/ pc = "phase3"
             /\ UNCHANGED <<state, silent, listed, pc, wait, woken, late, present, asked, cut>>
    <2>1. TypeOK' /\ ListedOnce'
      BY <1>2 DEF TypeOK, ListedOnce, Locked
    <2>2. WalkReaches'
      BY <1>2 DEF WalkReaches, Audible, Reached
    <2>3. PhaseOneFirst'
      BY <1>2 DEF PhaseOneFirst, Settled, Audible, Gone
    <2> QED
      BY <2>1, <2>2, <2>3
  <1>3. CASE /\ Asks(d)
             /\ \/ pc = "phase1" /\ d \in Audible
                \/ pc = "phase2" /\ d \in Registers
                \/ pc = "phase3" /\ d \in silent
    <2>1. PICK to \in AfterShutdown(d) :
            LET ended == to = "Over" /\ state[d] # "Over"
            IN  /\ state' = [state EXCEPT ![d] = to]
                /\ listed' = IF ended THEN listed \ {d} ELSE listed
                /\ ahead' = IF ended THEN listed' ELSE ahead \ {d}
      BY <1>3 DEF Asks
    <2>2. /\ UNCHANGED <<silent, pc, woken, late, present>>
          /\ asked' = asked \cup {d}
          /\ wait' = (wait \/ state[d] # "Over")
          /\ cut' \subseteq cut \cup {d}
      BY <1>3 DEF Asks
    <2>3. to \in States /\ (to = "None" <=> state[d] = "None")
                        /\ (state[d] = "Over" => to = "Over")
      BY <1>1, <2>1 DEF AfterShutdown, TypeOK, States
    <2>4. listed' \subseteq listed /\ ahead' \subseteq Dialogs
      BY <2>1 DEF TypeOK
    <2>5. TypeOK'
      <3>1. state' \in [Dialogs -> States]
        BY <1>1, <2>1, <2>3 DEF TypeOK
      <3>2. pc \in {"phase1", "phase2"} => ahead' \subseteq listed'
        BY <2>1 DEF TypeOK, Locked
      <3> QED
        BY <1>1, <2>2, <2>4, <3>1, <3>2 DEF TypeOK, Locked
    <2>6. ListedOnce'
      BY <1>1, <2>1, <2>2, <2>3, <2>4 DEF ListedOnce, TypeOK
    <2>7. \A e \in present : Gone(e) => Gone(e)'
      BY <1>1, <2>1, <2>3, <2>4 DEF Gone, TypeOK
    <2>8. \A e \in present : Reached(e) => Reached(e)'
      BY <2>2, <2>7 DEF Reached, Gone
    <2>9. \A e \in present : Reached(e) \/ e \in ahead => Reached(e)' \/ e \in ahead'
      BY <2>1, <2>2, <2>8 DEF Reached
    <2>10. WalkReaches'
      BY <1>1, <2>2, <2>8, <2>9 DEF WalkReaches, Audible
    <2>11. Settled => Settled'
      BY <2>2, <2>7 DEF Settled, Audible
    <2>12. pc = "phase1" => asked' \cap Registers = {}
      BY <1>3, <2>2, DialogsAssumption DEF PhaseOneFirst, Audible
    <2>13. pc = "phase1" /\ ~wait' => \A e \in asked' : state'[e] = "Over"
      BY <1>1, <2>1, <2>2, <2>3 DEF PhaseOneFirst, TypeOK
    <2>14. PhaseOneFirst'
      BY <1>1, <2>2, <2>11, <2>12, <2>13 DEF PhaseOneFirst
    <2> QED
      BY <2>5, <2>6, <2>10, <2>14
  <1> QED
    BY <1>0, <1>2, <1>3

\* The steps of shutdownAll between the walks.
LEMMA ShutdownSteps ==
    ASSUME IndInv,
           \/ Call \/ Start \/ Again
           \/ Unlocks("phase1", "closing1") \/ Unlocks("phase2", "closing2")
           \/ Unlocks("phase3", "done")
           \/ Waits("closing1", "waiting1", "next") \/ Waits("closing2", "waiting2", "phase3")
           \/ Returns("waiting1", "next") \/ Returns("waiting2", "phase3")
    PROVE  IndInv'
  <1> USE DEF IndInv
  <1>1. /\ UNCHANGED <<state, silent, listed, asked, cut>>
        /\ listed \subseteq Dialogs /\ present \subseteq Dialogs
        /\ pc' \in Places
    BY DEF Call, Start, Again, Unlocks, Waits, Returns, Goes, Places, walk, TypeOK
  <1>2. TypeOK'
    BY <1>1 DEF Call, Start, Again, Unlocks, Waits, Returns, Goes, walk, TypeOK, Locked
  <1>3. ListedOnce'
    BY <1>1 DEF Call, Start, Again, Unlocks, Waits, Returns, walk, ListedOnce
  <1>4. CASE Call
    BY <1>1, <1>2, <1>3, <1>4 DEF Call, Goes, walk, WalkReaches, PhaseOneFirst
  <1>5. CASE Start
    <2>1. present' = listed /\ ahead' = listed /\ pc = "called" /\ UNCHANGED <<wait, woken, late>>
      BY <1>5 DEF Start, Goes
    <2>2. CASE pc' = "phase1"
      <3>1. WalkReaches'
        BY <1>1, <2>1, <2>2 DEF WalkReaches
      <3>2. PhaseOneFirst'
        BY <1>1, <2>1, <2>2, <1>5 DEF PhaseOneFirst
      <3> QED
        BY <1>2, <1>3, <3>1, <3>2
    <2>3. CASE pc' # "phase1"
      <3>1. listed \cap Others = {} /\ pc' \in {"phase2", "done"}
            /\ (pc' = "done" => listed = {})
        BY <1>1, <1>5, <2>3 DEF Start, Goes, Dialogs
      <3>2. WalkReaches'
        BY <1>1, <2>1, <3>1 DEF WalkReaches, Audible
      <3>3. Settled'
        BY <1>1, <2>1, <3>1 DEF Settled, Audible
      <3>4. PhaseOneFirst'
        BY <1>1, <3>1, <3>3 DEF PhaseOneFirst
      <3> QED
        BY <1>2, <1>3, <3>2, <3>4
    <2> QED
      BY <2>2, <2>3
  <1>6. CASE Again
    <2>1. pc = "next" /\ pc' = "phase2" /\ ahead' = listed /\ UNCHANGED <<woken, late, present>>
      BY <1>6 DEF Again, Goes
    <2>2. WalkReaches'
      BY <1>1, <2>1 DEF WalkReaches, Audible, Reached
    <2>3. PhaseOneFirst'
      BY <1>1, <2>1 DEF PhaseOneFirst, Settled, Audible, Gone
    <2> QED
      BY <1>2, <1>3, <2>2, <2>3
  <1>7. CASE \/ Unlocks("phase1", "closing1") \/ Unlocks("phase2", "closing2")
             \/ Unlocks("phase3", "done")
    <2>1. ahead = {} /\ UNCHANGED walk
          /\ \/ pc = "phase1" /\ pc' = "closing1"
             \/ pc = "phase2" /\ pc' = "closing2"
             \/ pc = "phase3" /\ pc' = "done"
      BY <1>7 DEF Unlocks, Goes
    <2>2. WalkReaches'
      BY <1>1, <2>1 DEF WalkReaches, Audible, Reached, walk
    <2>3. PhaseOneFirst'
      BY <1>1, <2>1 DEF PhaseOneFirst, Settled, Audible, Gone, walk
    <2> QED
      BY <1>2, <1>3, <2>2, <2>3
  <1>8. CASE Waits("closing1", "waiting1", "next")
    <2>1. pc = "closing1" /\ pc' = (IF wait THEN "waiting1" ELSE "next")
          /\ woken' = FALSE /\ UNCHANGED <<wait, late, present, ahead>>
      BY <1>8 DEF Waits, Goes
    <2>2. WalkReaches'
      BY <1>1, <2>1 DEF WalkReaches, Audible, Reached
    <2>3. ~wait => Settled
      BY <2>1 DEF WalkReaches, PhaseOneFirst, Settled, Reached, Gone
    <2>4. PhaseOneFirst'
      BY <1>1, <2>1, <2>3 DEF PhaseOneFirst, Settled, Audible, Gone
    <2> QED
      BY <1>2, <1>3, <2>2, <2>4
  <1>9. CASE Returns("waiting1", "next")
    <2>1. pc = "waiting1" /\ pc' = "next" /\ late' = (late \/ ~woken)
          /\ UNCHANGED <<wait, woken, present, ahead>>
      BY <1>9 DEF Returns, Goes
    <2>2. WalkReaches'
      BY <1>1, <2>1 DEF WalkReaches, Audible, Reached
    <2>3. PhaseOneFirst'
      BY <1>1, <2>1 DEF PhaseOneFirst, Settled, Audible, Gone
    <2> QED
      BY <1>2, <1>3, <2>2, <2>3
  <1>10. CASE Waits("closing2", "waiting2", "phase3") \/ Returns("waiting2", "phase3")
    <2>1. /\ pc \in {"closing2", "waiting2"} /\ pc' \in {"waiting2", "phase3"}
          /\ (late => late') /\ UNCHANGED <<wait, present>>
      <3>1. CASE Waits("closing2", "waiting2", "phase3")
        BY <3>1 DEF Waits, Goes
      <3>2. CASE Returns("waiting2", "phase3")
        BY <3>2 DEF Returns, Goes
      <3> QED
        BY <1>10, <3>1, <3>2
    <2>2. WalkReaches'
      BY <1>1, <2>1 DEF WalkReaches, Audible, Reached
    <2>3. PhaseOneFirst'
      BY <1>1, <2>1 DEF PhaseOneFirst, Settled, Audible, Gone
    <2> QED
      BY <1>2, <1>3, <2>2, <2>3
  <1> QED
    BY <1>4, <1>5, <1>6, <1>7, <1>8, <1>9, <1>10

\* Every step keeps it.
LEMMA IndInvStep == IndInv /\ [Next]_vars => IndInv'
  <1> SUFFICES ASSUME IndInv, [Next]_vars PROVE IndInv'
    OBVIOUS
  <1>1. CASE UNCHANGED vars
    BY <1>1 DEF vars, walk, IndInv, TypeOK, Locked, ListedOnce, WalkReaches, Reached,
                PhaseOneFirst, Settled, Gone, Audible
  <1>2. CASE Next
    BY <1>2, DialogSteps, WalkSteps, ShutdownSteps DEF Next, ShutdownAll
  <1> QED
    BY <1>1, <1>2

\* What follows from what is invariant.
LEMMA IndInvMeans == IndInv => EveryoneAsked /\ RegistersLast
  <1> SUFFICES ASSUME IndInv PROVE EveryoneAsked /\ RegistersLast
    OBVIOUS
  <1>1. EveryoneAsked
    BY DEF IndInv, TypeOK, WalkReaches, Reached, EveryoneAsked, Audible, Dialogs
  <1>2. RegistersLast
    BY DEF IndInv, TypeOK, PhaseOneFirst, Settled, Gone, RegistersLast, Audible, Dialogs, Places
  <1> QED
    BY <1>1, <1>2
------------------------------------------------------------------------------
\* What the walks have reached, and why phase 2 may begin.
THEOREM Invariance == Spec => []IndInv
  BY IndInvInit, IndInvStep, PTL DEF Spec

\* The type invariant, and a walk under the lock points into the list.
THEOREM TypeCorrectness == Spec => []TypeOK
  <1>1. IndInv => TypeOK
    BY DEF IndInv
  <1> QED
    BY <1>1, Invariance, PTL

\* No dialog is passed over, whatever ends while the list is walked.
THEOREM NobodyPassedOver == Spec => []EveryoneAsked
  BY IndInvMeans, Invariance, PTL

\* REGISTER dialogs are asked to end after the others ended or the timeout.
THEOREM RegistersAreLast == Spec => []RegistersLast
  BY IndInvMeans, Invariance, PTL
=============================================================================
