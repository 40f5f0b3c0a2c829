----------------------------- MODULE DialogLayer -----------------------------
(***************************************************************************)
(* The dialog layer, tsip_dialog_layer.c: the list of dialogs, and the     *)
(* thread that stops the stack and walks it in three phases,               *)
(* tsip_dialog_layer_shutdownAll, while the dialogs go on living in the    *)
(* other threads.                                                          *)
(*                                                                         *)
(* A dialog is seen from the layer only: how far it is and whether it ends *)
(* inside tsip_dialog_shutdown, which then removes it from the list that   *)
(* is being walked.  The list is a set, and a walk is the set of the       *)
(* dialogs it has still to come to: the order of the list is any order.    *)
(***************************************************************************)
EXTENDS Naturals, FiniteSets

CONSTANTS Registers,    \* the dialogs of type tsip_dialog_REGISTER
          Others        \* the dialogs of every other type
ASSUME DialogsAssumption == Registers \cap Others = {}

VARIABLES
    state,      \* how far each dialog is
    silent,     \* those whose session has silent_hangup
    listed,     \* dialogs
    pc,         \* where the thread in shutdownAll is, "idle" before it is called
    ahead,      \* the dialogs that its walk has still to come to
    wait,       \* its variable wait
    woken,      \* the condition variable was broadcast while it was waiting
    late,       \* it has waited for the timeout
    present,    \* the dialogs that were in the list as it took the lock first
    asked,      \* the dialogs that it called tsip_dialog_shutdown for
    cut         \* the dialogs that it called it for again, and that ended of it

walk == <<ahead, wait, woken, late, present, asked, cut>>
vars == <<state, silent, listed, pc, walk>>

Dialogs == Registers \cup Others
\* "Busy" has its first request, or a refresh, in progress; "Leaving" waits for
\* the answer to its last one; "Over" is the final state.
States == {"None", "Started", "Busy", "Connected", "Leaving", "Over"}
Places == {"idle", "called", "phase1", "closing1", "waiting1", "next", "phase2",
           "closing2", "waiting2", "phase3", "done"}

\* The places where shutdownAll holds the lock, and its variable shutdown.phase2.
Locked == pc \in {"phase1", "phase2"}
InPhase2 == pc \in {"phase2", "closing2", "waiting2", "phase3", "done"}

Init ==
    /\ state \in [Dialogs -> {"None", "Started", "Busy", "Connected"}]
    /\ silent \in SUBSET Dialogs
    /\ listed = {d \in Dialogs : state[d] # "None"}
    /\ pc = "idle"
    /\ ahead = {}
    /\ wait = FALSE
    /\ woken = FALSE
    /\ late = FALSE
    /\ present = {}
    /\ asked = {}
    /\ cut = {}
------------------------------------------------------------------------------
\* tsip_dialog_layer_new and the end of tsip_dialog_layer_handle_incoming_msg
\* take no lock.  A walk in progress comes to the new dialog at its end.
New(d) ==
    /\ state[d] = "None"
    /\ state' = [state EXCEPT ![d] = "Started"]
    /\ listed' = listed \cup {d}
    /\ ahead' = IF pc \in {"phase1", "phase2", "phase3"} THEN ahead \cup {d} ELSE ahead
    /\ UNCHANGED <<silent, pc, wait, woken, late, present, asked, cut>>

\* What a dialog does by itself, in any thread.
Lives(d) ==
    /\ \E to \in CASE state[d] = "Started" -> {"Busy", "Over"}
                   [] state[d] = "Busy" -> {"Connected", "Over"}
                   [] state[d] = "Connected" -> {"Busy", "Leaving", "Over"}
                   [] state[d] = "Leaving" -> {"Over"}
                   [] OTHER -> {} :
          state' = [state EXCEPT ![d] = to]
    /\ UNCHANGED <<silent, listed, pc, walk>>

\* A slip: phase 1 is over as the last REGISTER dialog is gone.
BroadcastsEarly(left) ==
    /\ pc # "idle"
    /\ left \cap Registers = {}

\* tsip_dialog_layer_remove: the last dialog of the kind that the phase waits for
\* wakes the thread, silent or not.
Broadcasts(left) ==
    /\ pc # "idle"
    /\ left \cap (IF InPhase2 THEN Registers ELSE Others) = {}

\* A slip: the lock is not taken.
RemovesUnlocked(d) ==
    /\ state[d] = "Over" /\ d \in listed
    /\ listed' = listed \ {d}
    /\ woken' = (woken \/ (pc \in {"waiting1", "waiting2"} /\ Broadcasts(listed')))
    /\ UNCHANGED <<state, silent, pc, ahead, wait, late, present, asked, cut>>

\* The walk of phase 3 does not hold the lock: what it reads from an item that
\* was freed is undefined, and it may go on with any dialog, or with none.
Removes(d) ==
    /\ state[d] = "Over" /\ d \in listed /\ ~Locked
    /\ listed' = listed \ {d}
    /\ woken' = (woken \/ (pc \in {"waiting1", "waiting2"} /\ Broadcasts(listed')))
    /\ ahead' \in IF pc = "phase3" THEN SUBSET listed' ELSE {ahead}
    /\ UNCHANGED <<state, silent, pc, wait, late, present, asked, cut>>
------------------------------------------------------------------------------
\* What tsip_dialog_shutdown leaves a dialog in.  One that has not begun
\* swallows the event.  For a REGISTER dialog a request in progress is abandoned,
\* be it the one by which it leaves; the others do the same (SUBSCRIBE, PUBLISH,
\* MESSAGE, INFO), go on (OPTIONS) or ask the peer (INVITE, silent or not).
AfterShutdown(d) ==
    CASE state[d] \in {"Busy", "Leaving"} ->
            IF d \in Registers THEN {"Over"} ELSE {"Over", "Leaving", state[d]}
      [] state[d] = "Connected" ->
            IF d \notin silent THEN {"Leaving"}
            ELSE IF d \in Registers THEN {"Over"} ELSE {"Over", "Leaving"}
      [] OTHER -> {state[d]}

\* A slip: the walk goes on past a dialog that was removed.
AsksAndStops(d) ==
    /\ asked' = asked \cup {d}
    /\ wait' = (wait \/ state[d] # "Over")
    /\ \E to \in AfterShutdown(d) :
          LET ended == to = "Over" /\ state[d] # "Over"
          IN  /\ state' = [state EXCEPT ![d] = to]
              /\ listed' = IF ended THEN listed \ {d} ELSE listed
              /\ ahead' = IF ended THEN {} ELSE ahead \ {d}
    /\ UNCHANGED <<silent, pc, woken, late, present, cut>>

\* The walk comes to d.  When the dialog was removed in the call, it starts over.
Asks(d) ==
    /\ asked' = asked \cup {d}
    /\ wait' = (wait \/ state[d] # "Over")
    /\ \E to \in AfterShutdown(d) :
          LET ended == to = "Over" /\ state[d] # "Over"
          IN  /\ state' = [state EXCEPT ![d] = to]
              /\ listed' = IF ended THEN listed \ {d} ELSE listed
              /\ ahead' = IF ended THEN listed' ELSE ahead \ {d}
              /\ cut' = IF ended /\ state[d] = "Leaving" /\ d \in asked
                        THEN cut \cup {d} ELSE cut
    /\ UNCHANGED <<silent, pc, woken, late, present>>

Walks(where, targets) ==
    /\ pc = where
    /\ \E d \in ahead :
          \/ d \in targets /\ Asks(d)
          \/ /\ d \notin targets
             /\ ahead' = ahead \ {d}
             /\ UNCHANGED <<state, silent, listed, pc, wait, woken, late, present, asked, cut>>

Phase1 == Walks("phase1", Others \ silent)
Phase2 == Walks("phase2", Registers)
Phase3 == Walks("phase3", silent)

Goes(from, to) ==
    /\ pc = from
    /\ pc' = to
    /\ UNCHANGED <<state, silent, listed>>

\* The stack is stopped.
Call ==
    /\ Goes("idle", "called")
    /\ UNCHANGED walk

\* The first lock, and the choice of the phase to start with.
Start ==
    /\ Goes("called", IF listed \cap Others # {} THEN "phase1"
                      ELSE IF listed \cap Registers # {} THEN "phase2" ELSE "done")
    /\ ahead' = listed
    /\ present' = listed
    /\ UNCHANGED <<wait, woken, late, asked, cut>>

\* The end of a walk, and the unlock.
Unlocks(from, to) ==
    /\ Goes(from, to)
    /\ ahead = {}
    /\ UNCHANGED walk

\* A broadcast before this is lost, also the thread's own.
Waits(from, waiting, next) ==
    /\ Goes(from, IF wait THEN waiting ELSE next)
    /\ woken' = FALSE
    /\ ahead' = IF ~wait /\ next = "phase3" THEN listed ELSE ahead
    /\ UNCHANGED <<wait, late, present, asked, cut>>

\* A slip: the wait has no timeout.
ReturnsWoken(from, to) ==
    /\ woken
    /\ Goes(from, to)
    /\ ahead' = IF to = "phase3" THEN listed ELSE ahead
    /\ UNCHANGED <<wait, woken, late, present, asked, cut>>

\* tsk_condwait_timedwait returns after TSIP_DIALOG_SHUTDOWN_TIMEOUT at the latest.
Returns(from, to) ==
    /\ Goes(from, to)
    /\ late' = (late \/ ~woken)
    /\ ahead' = IF to = "phase3" THEN listed ELSE ahead
    /\ UNCHANGED <<wait, woken, present, asked, cut>>

\* The lock is taken again for phase 2.
Again ==
    /\ Goes("next", "phase2")
    /\ ahead' = listed
    /\ wait' = FALSE
    /\ UNCHANGED <<woken, late, present, asked, cut>>

ShutdownAll ==
    \/ Start
    \/ Phase1 \/ Unlocks("phase1", "closing1")
    \/ Waits("closing1", "waiting1", "next") \/ Returns("waiting1", "next")
    \/ Again
    \/ Phase2 \/ Unlocks("phase2", "closing2")
    \/ Waits("closing2", "waiting2", "phase3") \/ Returns("waiting2", "phase3")
    \/ Phase3 \/ Unlocks("phase3", "done")
------------------------------------------------------------------------------
Next == Call \/ ShutdownAll \/ \E d \in Dialogs : New(d) \/ Lives(d) \/ Removes(d)

Spec == Init /\ [][Next]_vars

\* The thread in shutdownAll runs; a dialog may be as slow as it likes.
FairSpec == Spec /\ WF_vars(ShutdownAll)
------------------------------------------------------------------------------
\* The type invariant, in which a walk under the lock points into the list.
TypeOK ==
    /\ state \in [Dialogs -> States]
    /\ silent \subseteq Dialogs
    /\ listed \subseteq Dialogs
    /\ pc \in Places
    /\ ahead \subseteq Dialogs
    /\ Locked => ahead \subseteq listed
    /\ {wait, woken, late} \subseteq BOOLEAN
    /\ present \subseteq Dialogs
    /\ asked \subseteq Dialogs
    /\ cut \subseteq Dialogs

\* No dialog is passed over by a walk that starts over and shares the list with
\* the other threads: after the phases under the lock, each dialog that was there
\* was asked to end, or has ended.  (Phase 3 is for the silent ones among Others.)
EveryoneAsked ==
    pc \in {"closing2", "waiting2", "phase3", "done"} =>
        \A d \in present \ (Others \cap silent) :
            d \in asked \/ d \notin listed \/ state[d] = "Over"

\* "Hangup all dialogs starting by non-REGISTER": a REGISTER dialog is asked to
\* end when the others that are not silent have ended, or had two seconds to.
RegistersLast ==
    asked \cap Registers # {} =>
        \/ late
        \/ \A d \in present \ (Registers \cup silent) : d \notin listed \/ state[d] = "Over"

\* A broadcast that comes too early, and dialogs that ignore the event or never
\* end, do not keep the stack from being stopped.
ShutdownReturns == pc = "called" ~> pc = "done"

\* "wait until phase-2 is completed" (tsip_dialog_layer.c:229): a dialog that was
\* asked to leave ends by what it is answered, or by its own timer.
LeaversAreLeftAlone == cut = {}
=============================================================================
