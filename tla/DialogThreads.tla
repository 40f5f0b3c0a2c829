---------------------------- MODULE DialogThreads ----------------------------
(***************************************************************************)
(* One SUBSCRIBE dialog whose first request is in progress, its            *)
(* transactions and the three threads that act on them, lock by lock: the  *)
(* thread of the user, the thread of the transport and the thread of the   *)
(* timers.  A dialog and a transaction each have a state machine           *)
(* (tsk_fsm.c) with a recursive lock that tsk_fsm_act holds while it       *)
(* executes a row; the rows call each other's machines, and the two        *)
(* layers, which have locks of their own.                                  *)
(*                                                                         *)
(* todo[t] is what thread t has still to do, next step first: the rest of  *)
(* the functions it is in.  ret[t] is what the last of them returned.      *)
(*                                                                         *)
(* What a thread does under the lock of a layer and calls no machine from  *)
(* is one step, which waits for the lock and leaves it free again.         *)
(*                                                                         *)
(* Left out: the objects' reference counts but those of transactions       *)
(* (destroyed as their last reference goes); provisional responses and     *)
(* retransmissions, which take the same locks as the rest; sends that      *)
(* fail; the dialog's own timers, so that it is neither refreshed nor      *)
(* ended two seconds into a shutdown (RefreshDialog has them).             *)
(***************************************************************************)
EXTENDS Naturals, FiniteSets, Sequences, SequencesExt

CONSTANT Clients    \* the client transactions there may be
ASSUME ClientsAssumption ==
    /\ Clients # {}
    /\ Clients \cap {"server", "dialog", "transac_layer", "dialog_layer"} = {}

First == CHOOSE x \in Clients : TRUE    \* that of the first request

VARIABLES
    fsm,          \* the current state of each machine
    listed,       \* tsip_transac_layer_t.transactions
    dialogListed, \* the dialog is in tsip_dialog_layer_t.dialogs
    established,  \* tsip_dialog_t.state is tsip_established
    leaving,      \* tsip_dialog_subscribe_t.unsubscribing
    due,          \* the timers scheduled, by transaction and action
    locks,        \* who holds each lock, and how many times
    todo, ret,
    user,         \* what the user asks for, "shutdown" being of the whole stack
    asked,        \* he has
    wire,         \* what the transport is going to pass up
    ended,        \* how many times a machine's callback_term was called
    missed        \* the transactions whose last timer elapsed unheard

vars == <<fsm, listed, dialogListed, established, leaving, due, locks, todo,
          ret, user, asked, wire, ended, missed>>

Threads == {"user", "transport", "timer"}
Transactions == Clients \cup {"server"}
Machines == Transactions \cup {"dialog"}
Locks == Machines \cup {"transac_layer", "dialog_layer"}
States == {"Unused", "Started", "Trying", "Connected", "Completed", "Terminated"}
Responses == {"2xx", "401", "rejected"}
Free == [by |-> "nobody", times |-> 0]
------------------------------------------------------------------------------
\* A step to do: its name, the object it is about, and an action or an index.
DoAt(what, on, with, at) == [what |-> what, on |-> on, with |-> with, at |-> at]
Do(what, on, with) == DoAt(what, on, with, 0)
Act(m, action) == Do("act", m, action)
Lock(l) == Do("lock", l, "none")
Unlock(l) == Do("unlock", l, "none")

\* A row of a state machine: its body is what its exec function does.
Row(from, action, to, body) ==
    [from |-> from, action |-> action, to |-> to, body |-> body]

\* tsip_dialog_request_send and tsip_dialog_response_send.
RequestSend == <<Do("create", "client", "send")>>
ResponseSend == <<Do("find", "server", "send_200")>>

\* tsip_transac_layer_cancel_by_dialog.
CancelByDialog ==
    <<Lock("transac_layer"), DoAt("scan", "none", "none", 0), Unlock("transac_layer")>>

DialogRows ==
    { Row("Trying", "2xx", IF leaving THEN "Terminated" ELSE "Connected", <<>>),
      Row("Trying", "401", "Trying", RequestSend),
      Row("Trying", "cancel", "Terminated", CancelByDialog),
      Row("Trying", "notify", "Trying", ResponseSend),
      Row("Trying", "hangup", "Terminated", <<>>),
      Row("Trying", "shutdown", "Terminated", <<>>),
      Row("Connected", "notify", "Connected", ResponseSend),
      Row("Connected", "notify", "Terminated", ResponseSend) }
    \cup { Row(from, action, "Trying", RequestSend) :
             from \in {"Connected", "Terminated"}, action \in {"hangup", "shutdown"} }
    \cup { Row(from, action, "Terminated", <<>>) :
             from \in {"Trying", "Connected", "Terminated"},
             action \in {"transporterror", "rejected"} }

\* Every machine of a transaction has Started -> (Any) -> Started before its
\* Any -> (cancel) -> Terminated.
TransactionRows(x) ==
    { Row("Started", "cancel", "Started", <<>>) }
    \cup { Row(from, "cancel", "Terminated", <<>>) :
             from \in {"Trying", "Completed", "Terminated"} }

\* A slip: timer K is for unreliable transports only.
ClientRowsUntimed(x) ==
    { Row("Started", "send", "Trying", <<Do("schedule", x, "timerF")>>),
      Row("Trying", "timerF", "Terminated", <<Act("dialog", "transporterror")>>),
      Row("Completed", "timerK", "Terminated", <<>>) }
    \cup { Row("Trying", response, "Completed", <<Act("dialog", response)>>) :
             response \in Responses }

ClientRows(x) ==
    { Row("Started", "send", "Trying", <<Do("schedule", x, "timerF")>>),
      Row("Trying", "timerF", "Terminated", <<Act("dialog", "transporterror")>>),
      Row("Completed", "timerK", "Terminated", <<>>) }
    \cup { Row("Trying", response, "Completed",
               <<Act("dialog", response), Do("schedule", x, "timerK")>>) :
             response \in Responses }

ServerRows ==
    { Row("Started", "request", "Trying", <<Act("dialog", "notify")>>),
      Row("Trying", "send_200", "Completed", <<Do("schedule", "server", "timerJ")>>),
      Row("Completed", "timerJ", "Terminated", <<>>) }

Rows(m) ==
    CASE m = "dialog" -> DialogRows
      [] m = "server" -> ServerRows \cup TransactionRows(m)
      [] OTHER -> ClientRows(m) \cup TransactionRows(m)

\* Only the row in which a server transaction passes a request to its dialog
\* returns what it was returned; the others return zero.
PassesOn(m, action) == m = "server" /\ action = "request"
------------------------------------------------------------------------------
Init ==
    /\ fsm = [m \in Machines |-> IF m \in {"dialog", First} THEN "Trying" ELSE "Unused"]
    /\ listed = <<First>>
    /\ due = {<<First, "timerF">>}
    /\ dialogListed = TRUE
    /\ established = FALSE
    /\ leaving = FALSE
    /\ locks = [l \in Locks |-> Free]
    /\ todo = [t \in Threads |-> <<>>]
    /\ ret = [t \in Threads |-> "ok"]
    /\ user \in {"hangup", "shutdown"}
    /\ asked = FALSE
    /\ \E response \in Responses : wire = {response, "request"}
    /\ ended = [m \in Machines |-> 0]
    /\ missed = {}

\* A transaction is destroyed when it is in no list and no thread refers to it.
Held(x, list, pending) ==
    Contains(list, x) \/ \E t \in Threads : Do("unref", x, "none") \in Range(pending[t])
Exists(m) == m = "dialog" \/ Held(m, listed, todo)

\* Its destructor cancels its timers.
Survive(x, timers, list, pending) ==
    IF Held(x, list, pending) THEN timers ELSE {d \in timers : d[1] # x}

\* A thread has this step to do, now or later.
Pends(what, on, with) == \E t \in Threads : Do(what, on, with) \in ToSet(todo[t])

Ready(t, what) == todo[t] # <<>> /\ Head(todo[t]).what = what
On(t) == Head(todo[t]).on
With(t) == Head(todo[t]).with
Then(t, steps) == [todo EXCEPT ![t] = steps \o Tail(@)]

Available(t, l) == locks[l].by \in {t, "nobody"}
Take(t, l) ==
    /\ Available(t, l)
    /\ locks' = [locks EXCEPT ![l] = [by |-> t, times |-> @.times + 1]]
Release(l) ==
    locks' = [locks EXCEPT ![l] = IF @.times = 1 THEN Free
                                  ELSE [by |-> @.by, times |-> @.times - 1]]
------------------------------------------------------------------------------
\* tsk_fsm_act up to its lock.  The timer thread has a bare pointer: what it
\* finds in a destroyed transaction is undefined, and taken here to be what the
\* destructor leaves, a transaction without a state machine.
Test(t) ==
    /\ Ready(t, "act")
    /\ LET m == On(t)
           refused == fsm[m] = "Terminated" \/ ~Exists(m)
       IN  /\ todo' = Then(t, IF refused THEN <<>> ELSE <<Do("enter", m, With(t))>>)
           /\ ret' = [ret EXCEPT ![t] = IF refused THEN "failed" ELSE @]
    /\ UNCHANGED <<fsm, listed, dialogListed, established, leaving, due, locks,
                   user, asked, wire, ended, missed>>

\* A slip: an event without a row is unlocked for twice.
EnterUnlocksTwice(t) ==
    /\ Ready(t, "enter")
    /\ Take(t, On(t))
    /\ LET m == On(t)
           rows == {r \in Rows(m) : r.from = fsm[m] /\ r.action = With(t)}
       IN  \/ /\ rows = {}
              /\ todo' = Then(t, <<Unlock(m), Unlock(m)>>)
              /\ ret' = [ret EXCEPT ![t] = "ok"]
              /\ UNCHANGED <<fsm, established, leaving, due>>
           \/ \E r \in rows :
                 /\ fsm' = [fsm EXCEPT ![m] = r.to]
                 /\ todo' = Then(t, Append(r.body, Do("leave", m, With(t))))
                 /\ UNCHANGED <<ret, established, leaving, due>>
    /\ UNCHANGED <<listed, dialogListed, user, asked, wire, ended, missed>>

\* Under the lock a row is looked for in the current state, whatever it became.
Enter(t) ==
    /\ Ready(t, "enter")
    /\ Take(t, On(t))
    /\ LET m == On(t)
           rows == {r \in Rows(m) : r.from = fsm[m] /\ r.action = With(t)}
       IN  \/ /\ rows = {}
              /\ todo' = Then(t, <<Unlock(m)>>)
              /\ ret' = [ret EXCEPT ![t] = "ok"]
              /\ UNCHANGED <<fsm, established, leaving, due>>
           \/ \E r \in rows :
                 /\ fsm' = [fsm EXCEPT ![m] = r.to]
                 /\ todo' = Then(t, Append(r.body, Do("leave", m, With(t))))
                 /\ established' = (established \/ (m = "dialog" /\ r.action = "2xx"))
                 /\ leaving' = (leaving \/ (m = "dialog" /\ r.body # <<>>
                                           /\ r.action \in {"hangup", "shutdown"}))
                 /\ due' = IF r.to = "Completed" THEN due \ {<<m, "timerF">>} ELSE due
                 /\ UNCHANGED ret
    /\ UNCHANGED <<listed, dialogListed, user, asked, wire, ended, missed>>

\* A slip: callback_term is called before the unlock.
LeaveLocked(t) ==
    /\ Ready(t, "leave")
    /\ LET m == On(t)
           r == IF PassesOn(m, With(t)) THEN ret[t] ELSE "ok"
           terminates == r = "failed" \/ fsm[m] = "Terminated"
       IN  /\ ret' = [ret EXCEPT ![t] = r]
           /\ todo' = Then(t, IF terminates THEN <<Do("over", m, "none"), Unlock(m)>>
                              ELSE <<Unlock(m)>>)
    /\ UNCHANGED <<fsm, listed, dialogListed, established, leaving, due, locks,
                   user, asked, wire, ended, missed>>

\* The end of the row, and the unlock.
Leave(t) ==
    /\ Ready(t, "leave")
    /\ Release(On(t))
    /\ LET m == On(t)
           r == IF PassesOn(m, With(t)) THEN ret[t] ELSE "ok"
           terminates == r = "failed" \/ fsm[m] = "Terminated"
       IN  /\ ret' = [ret EXCEPT ![t] = r]
           /\ todo' = Then(t, IF terminates THEN <<Do("over", m, "none")>> ELSE <<>>)
    /\ UNCHANGED <<fsm, listed, dialogListed, established, leaving, due, user,
                   asked, wire, ended, missed>>

\* The final state, and callback_term, which tells the user of a dialog.
Over(t) ==
    /\ Ready(t, "over")
    /\ fsm' = [fsm EXCEPT ![On(t)] = "Terminated"]
    /\ ended' = [ended EXCEPT ![On(t)] = @ + 1]
    /\ todo' = Then(t, <<Do("remove", On(t), "none")>>)
    /\ UNCHANGED <<listed, dialogListed, established, leaving, due, locks, ret,
                   user, asked, wire, missed>>

TakesLock(t) ==
    /\ Ready(t, "lock")
    /\ Take(t, On(t))
    /\ todo' = Then(t, <<>>)
    /\ UNCHANGED <<fsm, listed, dialogListed, established, leaving, due, ret,
                   user, asked, wire, ended, missed>>

ReleasesLock(t) ==
    /\ Ready(t, "unlock")
    /\ Release(On(t))
    /\ todo' = Then(t, <<>>)
    /\ UNCHANGED <<fsm, listed, dialogListed, established, leaving, due, ret,
                   user, asked, wire, ended, missed>>
------------------------------------------------------------------------------
\* tsip_transac_layer_new under the layer's lock; the transaction is started
\* after it, by the thread that got a reference to it.
Create(t) ==
    /\ Ready(t, "create")
    /\ Available(t, "transac_layer")
    /\ \E x \in (IF On(t) = "server" THEN {"server"} ELSE Clients) :
          /\ fsm[x] = "Unused"
          /\ fsm' = [fsm EXCEPT ![x] = "Started"]
          /\ listed' = Append(listed, x)
          /\ todo' = Then(t, <<Act(x, With(t)), Do("unref", x, "none")>>)
    /\ UNCHANGED <<dialogListed, established, leaving, due, locks, ret, user,
                   asked, wire, ended, missed>>

\* A slip: find returns a transaction without a reference to it.
FindUnreferenced(t) ==
    /\ Ready(t, "find")
    /\ Available(t, "transac_layer")
    /\ LET x == On(t)
       IN  todo' = Then(t, IF Contains(listed, x)
                           THEN <<Act(x, With(t))>>
                           ELSE <<>>)
    /\ UNCHANGED <<fsm, listed, dialogListed, established, leaving, due, locks,
                   ret, user, asked, wire, ended, missed>>

\* tsip_transac_layer_find_client and tsip_transac_layer_find_server under the
\* lock, and what is done with the reference they return.
Find(t) ==
    /\ Ready(t, "find")
    /\ Available(t, "transac_layer")
    /\ LET x == On(t)
       IN  todo' = Then(t, IF Contains(listed, x)
                           THEN <<Act(x, With(t)), Do("unref", x, "none")>>
                           ELSE <<>>)
    /\ UNCHANGED <<fsm, listed, dialogListed, established, leaving, due, locks,
                   ret, user, asked, wire, ended, missed>>

Unref(t) ==
    /\ Ready(t, "unref")
    /\ todo' = Then(t, <<>>)
    /\ due' = Survive(On(t), due, listed, todo')
    /\ UNCHANGED <<fsm, listed, dialogListed, established, leaving, locks, ret,
                   user, asked, wire, ended, missed>>

\* TRANSAC_TIMER_SCHEDULE: the timer runs before its identifier is stored in the
\* transaction.
Schedule(t) ==
    /\ Ready(t, "schedule")
    /\ due' = due \cup {<<On(t), With(t)>>}
    /\ todo' = Then(t, <<Do("store", On(t), With(t))>>)
    /\ UNCHANGED <<fsm, listed, dialogListed, established, leaving, locks, ret,
                   user, asked, wire, ended, missed>>

Store(t) ==
    /\ Ready(t, "store")
    /\ todo' = Then(t, <<>>)
    /\ UNCHANGED <<fsm, listed, dialogListed, established, leaving, due, locks,
                   ret, user, asked, wire, ended, missed>>

\* tsip_transac_layer_remove and tsip_dialog_layer_remove, under their locks.
RemovesIt(t) ==
    /\ Ready(t, "remove")
    /\ Available(t, IF On(t) = "dialog" THEN "dialog_layer" ELSE "transac_layer")
    /\ todo' = Then(t, <<>>)
    /\ listed' = RemoveFirst(listed, On(t))
    /\ dialogListed' = (dialogListed /\ On(t) # "dialog")
    /\ due' = Survive(On(t), due, listed', todo')
    /\ UNCHANGED <<fsm, established, leaving, locks, ret, user, asked, wire,
                   ended, missed>>

\* The loop of cancel_by_dialog: it starts over when a transaction took the event.
Scan(t) ==
    /\ Ready(t, "scan")
    /\ LET at == Head(todo[t]).at
           i == IF at = 0 \/ ret[t] = "ok" THEN 1 ELSE at + 1
       IN  todo' = Then(t, IF i > Len(listed) THEN <<>>
                           ELSE <<Act(listed[i], "cancel"), DoAt("scan", "none", "none", i)>>)
    /\ UNCHANGED <<fsm, listed, dialogListed, established, leaving, due, locks,
                   ret, user, asked, wire, ended, missed>>
------------------------------------------------------------------------------
\* The user ends the dialog, or the stack: the first looks for the dialog and
\* releases the layer, tsip_dialog_layer_shutdownAll keeps it locked.
Asks ==
    /\ ~asked
    /\ asked' = TRUE
    /\ todo' = [todo EXCEPT !["user"] = <<Do("look", "dialog", user)>>]
    /\ UNCHANGED <<fsm, listed, dialogListed, established, leaving, due, locks,
                   ret, user, wire, ended, missed>>

\* The transport passes up a response to the first request, or a NOTIFY.
Receives ==
    /\ todo["transport"] = <<>>
    /\ \E m \in wire :
          /\ wire' = wire \ {m}
          /\ todo' = [todo EXCEPT !["transport"] =
                        IF m = "request"
                        THEN <<Do("look", "dialog", "request")>>
                        ELSE <<Do("find", First, m)>>]
    /\ UNCHANGED <<fsm, listed, dialogListed, established, leaving, due, locks,
                   ret, user, asked, ended, missed>>

\* The timer thread calls a transaction back, which knows the identifier.
Expires ==
    /\ todo["timer"] = <<>>
    /\ \E d \in due :
          /\ ~Pends("store", d[1], d[2])
          /\ due' = due \ {d}
          /\ todo' = [todo EXCEPT !["timer"] = <<Act(d[1], d[2])>>]
    /\ UNCHANGED <<fsm, listed, dialogListed, established, leaving, locks, ret,
                   user, asked, wire, ended, missed>>

\* It calls back before the identifier is stored: the callback compares without
\* a lock, finds none that matches, and the timer is gone.  Timers J and K, whose
\* delay over a reliable transport is zero, may be as early as that.
ExpiresUnheard ==
    /\ todo["timer"] = <<>>
    /\ \E d \in due :
          /\ d[2] \in {"timerJ", "timerK"} /\ Pends("store", d[1], d[2])
          /\ due' = due \ {d}
          /\ missed' = missed \cup {d[1]}
    /\ UNCHANGED <<fsm, listed, dialogListed, established, leaving, locks, todo,
                   ret, user, asked, wire, ended>>

\* The dialog layer is looked through; without the dialog a NOTIFY is rejected.
Look(t) ==
    /\ Ready(t, "look")
    /\ Available(t, "dialog_layer")
    /\ LET found ==
              CASE With(t) = "hangup" -> <<Do("hangup", "dialog", "none")>>
                [] With(t) = "shutdown" ->
                      <<Lock("dialog_layer"), Act("dialog", "shutdown"), Unlock("dialog_layer")>>
                [] OTHER -> <<Do("create", "server", "request")>>
       IN  todo' = Then(t, IF dialogListed THEN found ELSE <<>>)
    /\ UNCHANGED <<fsm, listed, dialogListed, established, leaving, due, locks,
                   ret, user, asked, wire, ended, missed>>

\* tsip_dialog_hangup reads the state of the dialog without its lock.
Hangup(t) ==
    /\ Ready(t, "hangup")
    /\ todo' = Then(t, <<Act("dialog", IF established THEN "hangup" ELSE "cancel")>>)
    /\ UNCHANGED <<fsm, listed, dialogListed, established, leaving, due, locks,
                   ret, user, asked, wire, ended, missed>>
------------------------------------------------------------------------------
Step(t) ==
    \/ Test(t) \/ Enter(t) \/ Leave(t) \/ Over(t) \/ TakesLock(t) \/ ReleasesLock(t)
    \/ Create(t) \/ Find(t) \/ Unref(t) \/ Schedule(t) \/ Store(t)
    \/ RemovesIt(t) \/ Scan(t) \/ Look(t) \/ Hangup(t)

Next == Asks \/ Receives \/ Expires \/ ExpiresUnheard \/ \E t \in Threads : Step(t)

Spec == Init /\ [][Next]_vars

\* A thread that can go on does: one that waits for a lock need not get it from
\* a thread that keeps taking it again.
FairSpec == Spec /\ \A t \in Threads : WF_vars(Step(t))
------------------------------------------------------------------------------
Timers == {"timerF", "timerJ", "timerK"}
Actions == Responses \cup Timers
    \cup {"send", "request", "send_200", "cancel", "hangup", "shutdown", "notify",
          "transporterror"}
Steps ==
    [what : {"act", "enter", "leave"}, on : Machines, with : Actions, at : {0}]
    \cup [what : {"over", "remove"}, on : Machines, with : {"none"}, at : {0}]
    \cup [what : {"lock"}, on : Locks \ Machines, with : {"none"}, at : {0}]
    \cup [what : {"unlock"}, on : Locks, with : {"none"}, at : {0}]
    \cup {Do("create", "client", "send"), Do("create", "server", "request")}
    \cup [what : {"find"}, on : Transactions, with : Actions, at : {0}]
    \cup [what : {"unref"}, on : Transactions, with : {"none"}, at : {0}]
    \cup [what : {"schedule", "store"}, on : Transactions, with : Timers, at : {0}]
    \cup [what : {"scan"}, on : {"none"}, with : {"none"}, at : Nat]
    \cup {Do("look", "dialog", for) : for \in {"hangup", "shutdown", "request"}}
    \cup {Do("hangup", "dialog", "none")}

\* The type invariant.
TypeOK ==
    /\ fsm \in [Machines -> States]
    /\ listed \in Seq(Transactions)
    /\ {dialogListed, established, leaving, asked} \subseteq BOOLEAN
    /\ due \subseteq Transactions \X Timers
    /\ locks \in [Locks -> [by : Threads \cup {"nobody"}, times : Nat]]
    /\ todo \in [Threads -> Seq(Steps)]
    /\ ret \in [Threads -> {"ok", "failed"}]
    /\ user \in {"hangup", "shutdown"}
    /\ wire \subseteq Responses \cup {"request"}
    /\ ended \in [Machines -> Nat]
    /\ missed \subseteq Transactions

\* A transaction that the transport or the user's thread is about to act on has
\* not been destroyed (the reference find and new return; the layer's lock in
\* cancel_by_dialog).  The timer thread has no reference, and is left out.
ReferencesHold ==
    \A t \in {"user", "transport"} : \A i \in DOMAIN todo[t] :
        todo[t][i].what \in {"act", "enter", "leave", "over", "schedule", "store"}
            => Exists(todo[t][i].on)

\* When no thread is at work, no lock is held, a transaction in the list waits
\* for a timer that is scheduled, and a dialog or a transaction that ended has
\* left its list, however the three threads came across each other.  Excepted are
\* a NOTIFY for which the dialog had no row, because it ended between the test
\* and the lock of tsk_fsm_act, which is never answered nor forgotten; and a
\* transaction in Completed whose timer J or K, without a delay, called back
\* before its identifier was stored: it stays in the list for ever.
QuietIsClean ==
    (\A t \in Threads : todo[t] = <<>>) =>
        /\ \A l \in Locks : locks[l] = Free
        /\ \A x \in ToSet(listed) :
              /\ fsm[x] # "Terminated"
              /\ \/ \E d \in due : d[1] = x
                 \/ x \in missed /\ fsm[x] = "Completed"
                 \/ x = "server" /\ fsm[x] = "Trying" /\ ended["dialog"] > 0
        /\ fsm["dialog"] = "Terminated" => ~dialogListed

------------------------------------------------------------------------------
\* Why these hold: the inductive invariant of the proofs, part by part.

StatesOf(m) == IF m = "dialog" THEN {"Trying", "Connected", "Terminated"}
               ELSE States \ {"Connected"}

\* Each machine is in a state of its own; a user who asked nothing does nothing.
StatesOfTheirOwn ==
    /\ \A m \in Machines : fsm[m] \in StatesOf(m)
    /\ ~asked => todo["user"] = <<>>

\* A lock is waited for before all else.  The loop of cancel_by_dialog goes on
\* under the layer's lock, after a transaction that a thread cancels in it.
Cancelling(step) ==
    /\ step.on \in Transactions
    /\ \/ step.what \in {"act", "enter", "leave"} /\ step.with = "cancel"
       \/ step.what \in {"unlock", "over", "remove"}
WellNested(s) == \A i \in DOMAIN s :
    /\ s[i].what = "lock" => i = 1
    /\ s[i].what = "scan" =>
          /\ i < Len(s) /\ s[i + 1] = Unlock("transac_layer")
          /\ i = 1 \/ (i = 2 /\ (s[1] = Lock("transac_layer") \/ Cancelling(s[1])))

\* A server transaction passes its request to the dialog inside a row of its own.
NotifyIsPassedOn(s) == \A i \in DOMAIN s :
    s[i] \in {Act("dialog", "notify"), Do("enter", "dialog", "notify")} =>
        i < Len(s) /\ s[i + 1] = Do("leave", "server", "request")

\* No row of the dialog is executed inside another.
Inner(step) ==
    /\ step.what \notin {"look", "hangup"}
    /\ step.what \in {"act", "enter", "create", "find"} =>
          step.on # "dialog" /\ step.with \in {"send", "send_200", "cancel"}
RowsAreNotNested(s) == \A j \in DOMAIN s :
    s[j].what = "leave" /\ s[j].on = "dialog" => \A i \in 1..(j - 1) : Inner(s[i])

WellFormed == \A t \in Threads :
    WellNested(todo[t]) /\ NotifyIsPassedOn(todo[t]) /\ RowsAreNotNested(todo[t])

\* A thread is going to release a lock as often as it took it, or waits for it.
Releasing(step, l) == step.what \in {"unlock", "leave"} /\ step.on = l
Releases(s, l) == {i \in DOMAIN s : Releasing(s[i], l)}
Holds(t, l) == IF locks[l].by = t THEN locks[l].times ELSE 0
WaitsFor(t, l) == todo[t] # <<>> /\ Head(todo[t]) = Lock(l)
LocksAreBalanced == \A l \in Locks :
    /\ locks[l].by = "nobody" <=> locks[l].times = 0
    /\ \A t \in Threads :
          Cardinality(Releases(todo[t], l)) = Holds(t, l) + (IF WaitsFor(t, l) THEN 1 ELSE 0)

\* What a thread is about to act on it will release, or is still in the list,
\* which the thread has locked.
Guarded(s, i) ==
    \/ \E j \in DOMAIN s : j > i /\ s[j] = Do("unref", s[i].on, "none")
    \/ /\ i = 1 /\ Len(s) >= 2 /\ s[2].what = "scan"
       /\ s[i].on \in ToSet(listed)
ReferencesAreGuarded ==
    \A t \in {"user", "transport"} : \A i \in DOMAIN todo[t] :
        /\ todo[t][i].what \in {"act", "enter", "leave", "over", "schedule", "store"}
        /\ todo[t][i].on # "dialog"
        => Guarded(todo[t], i)

Leaving(m) == \E a \in Actions : Pends("leave", m, a)
Comes(x, action) ==
    \/ <<x, action>> \in due
    \/ \E what \in {"act", "enter", "schedule"} : Pends(what, x, action)

\* The action that takes a transaction out of the state it is in.
Awaited(x) ==
    CASE fsm[x] = "Started" -> IF x = "server" THEN "request" ELSE "send"
      [] fsm[x] = "Trying" -> IF x = "server" THEN "send_200" ELSE "timerF"
      [] OTHER -> IF x = "server" THEN "timerJ" ELSE "timerK"

\* The answer to a NOTIFY is on its way, or its transaction is about to fail,
\* or the dialog is over.
NotifyIsTended ==
    \/ Comes("server", "send_200")
    \/ Pends("find", "server", "send_200")
    \/ Comes("dialog", "notify")
    \/ Pends("over", "server", "none")
    \/ \E t \in Threads : /\ ret[t] = "failed" /\ todo[t] # <<>>
                          /\ Head(todo[t]) = Do("leave", "server", "request")
    \/ Pends("over", "dialog", "none") \/ ended["dialog"] > 0

\* No transaction is twice in the list.
ListedOnce == \A i, j \in DOMAIN listed : listed[i] = listed[j] => i = j

\* A transaction in the list leaves it, or has something come to it, or missed it.
Served(x) ==
    /\ fsm[x] # "Unused"
    /\ fsm[x] = "Terminated" =>
          Leaving(x) \/ Pends("over", x, "none") \/ Pends("remove", x, "none")
    /\ (fsm[x] = "Started" \/ (fsm[x] = "Trying" /\ x # "server"))
          => Comes(x, Awaited(x))
    /\ fsm[x] = "Completed" => Comes(x, Awaited(x)) \/ x \in missed
    /\ fsm[x] = "Trying" /\ x = "server" => NotifyIsTended
ListedAreServed == ListedOnce /\ \A x \in ToSet(listed) : Served(x)

\* A dialog in the final state has ended, or will have when a row is left.
DialogEnds ==
    fsm["dialog"] = "Terminated" =>
        /\ Leaving("dialog") \/ Pends("over", "dialog", "none") \/ ended["dialog"] > 0
        /\ dialogListed => \/ Leaving("dialog") \/ Pends("over", "dialog", "none")
                           \/ Pends("remove", "dialog", "none")

IndInv ==
    /\ TypeOK /\ StatesOfTheirOwn /\ WellFormed /\ LocksAreBalanced
    /\ ReferencesAreGuarded /\ ListedAreServed /\ DialogEnds
------------------------------------------------------------------------------
\* Whatever the threads call returns, when the user ends the stack and not the
\* dialog: the machines and the layers are locked in an order that closes no
\* circle without tsip_transac_layer_cancel_by_dialog.  (What there is to be
\* received and to expire is finite here.)
CallsReturn == user = "shutdown" => <>[](\A t \in Threads : todo[t] = <<>>)

\* The user's request to end the dialog returns: "cancel all transactions
\* related to this dialog" (tsip_transac_layer.c:109) ends.
HangupReturns == (user = "hangup" /\ todo["user"] # <<>>) ~> (todo["user"] = <<>>)

\* A machine is in the final state once: "Callback function called by the state
\* machine manager to signal that the final state has been reached"
\* (tsip_dialog_subscribe.client.c:699).
FinalStateOnce == ended["dialog"] <= 1

\* Who hangs up ends the dialog: when the call has returned, the dialog is over
\* or asks the server to end the subscription.
HangupHeard ==
    (user = "hangup" /\ asked /\ todo["user"] = <<>> /\ dialogListed)
        => leaving \/ fsm["dialog"] = "Terminated"
=============================================================================
