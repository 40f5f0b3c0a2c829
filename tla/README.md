# Verification of the SIP core of YunTong

YunTong ("CloudCall") is an iOS telephone client. Its protocol core is the doubango
library under `src/ngnstack`, in C; Objective-C service classes (`src/common-ngn-stack`,
`src/ios-ngn-stack`) and the application (`src/ios-cloudcall`, with vendored SDKs) use
it. This project models the parts of that core whose behaviour depends on the order of
events: the SIP transactions, the dialogs and the dialog layer of tinySIP, the threads
and locks that run them, and the timer manager of tinySAK that drives them.

Contents: the inventory of the system, the modules and how they correspond to the code,
what the runs check, the bounds and the fairness, the proofs, the slips that show what
the properties notice, the disagreements found, what is left out, and the plan.

## 1. Inventory

### Components and their state

Paths are under `src/ngnstack`; dialogs are in `tinySIP/src/dialogs`.

| Component | Code | State | Operations | Modelled by |
| --- | --- | --- | --- | --- |
| INVITE client transaction | `tinySIP/src/transactions/tsip_transac_ict.c` | state of the machine, identifiers of timers A, B, D, M | send, 1xx, 2xx, 300-699, timers, cancel | `Ict` |
| INVITE server transaction | `tsip_transac_ist.c` | state, last response, identifiers of G, H, I, L, what its dialog was told | INVITE, 1xx, 2xx, 300-699, ACK, timers, cancel | `Ist` |
| non-INVITE client | `tsip_transac_nict.c` | state, identifiers of E, F, K | send, 1xx, final, timers, cancel | `Nict` |
| non-INVITE server | `tsip_transac_nist.c` | state, last response, identifier of J | request, 1xx, final, timer, cancel | `Nist` |
| Transaction layer | `tsip_transac_layer.c` | the list of transactions | new, remove, find client or server, cancel by dialog | `TransacLayer`, `DialogThreads` |
| State machine engine | `tinySAK/src/tsk_fsm.c` | current and terminal state, the table of rows | act | `DialogThreads`; one step of a transaction elsewhere |
| Timer manager | `tinySAK/src/tsk_timer.c`, `tsk_runnable.c`, `tsk_condwait.c` | ordered list of timers, semaphore, condition variable, queue of the runnable | schedule, cancel, start, stop, and the loops of two threads | `TimerManager` |
| Transport layer | `tinySIP/src/transports/tsip_transport_layer.c` | transports, sockets | send, hand on what arrives | `Transport`, `DialogThreads`, in part |
| Dialog layer | `tsip_dialog_layer.c` | the list of dialogs | new, find, remove, shutdownAll, handle unmatched messages | `DialogLayer` |
| Registration dialog | `tsip_dialog_register*.c` | state, refresh and shutdown timers, `unregistering` | register, refresh, challenge, 423, unregister, shutdown | `RefreshDialog` (client) |
| Subscription, publication | `tsip_dialog_subscribe*.c`, `_publish*.c` | the same, and NOTIFY | the same | `RefreshDialog`, `DialogThreads` |
| Invite dialog | `tsip_dialog_invite*.c` | state, pending requests, the INVITE to answer, timers | invite, ring, answer, hold, refresh, PRACK, CANCEL, BYE | `InviteDialog`, in part |
| Common dialog | `tsip_dialog.c` | `state`, CSeq, challenges | send, update, hangup, shutdown | the three above |
| Other dialogs | MESSAGE, INFO, OPTIONS | state | send, one answer | `DialogLayer`, what a shutdown finds of them |
| Stack | `tsip.c`, `tsip_ssession.c` | layers, sessions, a runnable of events | start, stop | its stop, in `DialogLayer` and `DialogThreads` |
| Media | tinyMEDIA, tinyDAV, tinyRTP | sessions, codecs, jitter buffers | negotiate, send, receive | not modelled: results depend on sample data |
| Other libraries | tinyNET, tinySDP, tinyMSRP, tinyHTTP, tinySIGCOMP, tinyXCAP, tinySMS, tinyIPSec | parsers, sockets | | not modelled: generated parsers and I/O |
| Services and application | Objective-C | call state shown to the user | | not modelled: consumers of events |

### How they interact

A dialog creates a client transaction and starts it; the transaction sends through the
transport layer, schedules timers with the global timer manager, and calls the dialog
back with responses, timeouts and errors. An incoming message goes from the transport
layer to the transaction layer, which finds the transaction; if none takes it, or if the
one that takes it returns an error, the transport layer hands the same message to the
dialog layer, which finds or creates a dialog and creates a server transaction for a
request (`tsip_transport_layer_handle_incoming_msg`). The timer manager calls
transactions and dialogs back from a thread of its own. A dialog that terminates has the
transaction layer cancel its transactions, often while one of them is calling it. The
user's calls (`tsip_api_*`) run dialogs in the user's thread; stopping the stack asks
every dialog to end (`tsip_dialog_layer_shutdownAll`) and waits a while for it.

So three threads act on one dialog: the user's, the transport's and the timers'. Each
machine has a recursive lock that is held while a row executes, each layer has one of its
own, and the rows call each other across them.

### What is hard

- The network loses, repeats and reorders messages, and the two ends retransmit.
- A timer that is due sits in the runnable's queue before it is called back; it can then
  be neither cancelled nor recognised except by its identifier, which is stored after
  the timer was scheduled and overwritten without a cancellation.
- The same message reaches the dialog layer when a transaction fails on it.
- Failures of one step of several: an ACK that cannot be sent, a dialog that refuses a
  response, a dialog that terminates inside the callback.
- The timer manager's main thread looks at the list, unlocks, and acts on what it saw;
  callers, the other thread and a stop come in between.
- The engine checks for the terminal state before it locks; dialogs, the layer and
  transactions take their locks in both orders.
- A shutdown, a hangup or a refresh finds a request in progress, or a challenge for it
  on its way back.
- `shutdownAll` walks a list from which the dialogs it asks remove themselves, shares it
  with the other threads, and waits on a condition variable that may be broadcast early.
- A CANCEL or a BYE crosses the answer, the offer or the BYE of the other end.

`PROJECT.json` lists each hazard at its line, with the properties that would notice it.

### What makes each component right

- Transactions: the sender is told one outcome; it is the receiver's answer, or a
  failure of the sender's own; a server gives one answer; retransmissions do not start a
  second call; every state that ends by itself has the timer that ends it.
- Timer manager: a timer is called back once at most, not early, not after its
  cancellation was seen; every timer of the list is served; no timer vanishes in
  another's place; a stop returns.
- Engine and threads: nothing is used after it was destroyed, nothing is left behind when
  the threads are done, and what the user calls returns.
- Dialog layer: a shutdown asks everyone, the registrations last, and returns.
- Dialogs with a binding: one request at a time; what the dialog and the user believe of
  the binding is true of the server; a binding that is held is refreshed; a shutdown ends.
- Invite dialog: an INVITE is answered once; a call that one end leaves ends at both.

## 2. Modules

```
RequestExchange            abstract: what the transactions of one request promise
Timers  Transport          operators and variables the transactions share
   Ict   Nict              client transactions
   TransacLayer            finding and creating server transactions
     Ist   Nist            server transactions
InviteTransac              Ict + Ist + network      implements RequestExchange
NonInviteTransac           Nict + Nist + network    implements RequestExchange
TimersProofs, InviteTransacProofs, NonInviteTransacProofs

TimerService               abstract: what the timer manager promises
TimerManager               tsk_timer.c over tsk_runnable.c   implements TimerService
TimerManagerProofs

DialogThreads              machines, layers and locks under three threads
DialogThreadsProofs
DialogLayer                shutdownAll beside the dialogs
DialogLayerProofs
RefreshDialog              REGISTER, SUBSCRIBE or PUBLISH against a server
RefreshDialogProofs
InviteDialog               a call between two phones
InviteDialogProofs
```

`MCInviteTransac`, `MCNonInviteTransac`, `MCTimerManager`, `MCDialogThreads`,
`MCDialogLayer`, `MCRefreshDialog` and `MCInviteDialog` are the root modules of the runs.
The dialogs take their transactions at what the transaction modules show of them, and
`DialogThreads` goes below all of them, to the locks. Operators commented "A slip" are
plausible mistakes, kept next to the definition they would replace; `PROJECT.json` pairs
each with the property that notices it. No action uses them.

### Transactions (`Ict`, `Ist`, `Nict`, `Nist`)

One action is one call of `tsip_transac_fsm_act`, which runs under the machine's
recursive lock from the selection of a row to the end of its function. Its guard is the
state and event of the row; its effect is the function's: what is sent (`net`), which
timers are scheduled and cancelled, what the dialog is told, the new state. `IctEnd`,
`IstEnd`, `NictEnd` and `NistEnd` are the end of `tsk_fsm_act`: a function that fails
terminates the machine, and a terminated transaction leaves the layer, where its
destructor cancels the timers it can still name.

Data is cut to what the properties tell apart: a message is its class (`"1xx"`, `"2xx"`,
`"300_699"`, `"ACK_2xx"`, ...), the request itself is one, and a server transaction is
the record of its state, its timers, the class of its last response and what its dialog
was told. Nondeterministic choices: whether a send succeeds, whether the dialog's
callback returns an error (`tuOk`) or terminates the dialog (`tuStays`), whether a
zero-delay timer overtakes the store of its identifier (`missed`), and when the dialog
responds or cancels.

`Timers` is the timer manager as a transaction sees it. A timer has the transaction's
identifier (`current`) or has lost it to a rescheduling, and is `queued` once the main
thread found it due. `Cancel` takes away only timers that are neither queued nor
renamed. Time is left out: an armed timer may fall due at any moment, so nothing here
depends on the values of T1, T2 and T4. `TimerService`, which `TimerManager` implements,
has the same life of a timer with its deadline: `armed` is a timer that is not queued,
`due` one that is, and `CancelArmed` is possible in the first only.

`Transport` is the network: the set of messages that were sent. Over an unreliable
transport a message stays in the set when it is read, so it may arrive again, late or in
another order, and nothing obliges anyone to read it; over a reliable one reading takes
it away. `reliable` is chosen once, in the initial state.

`TransacLayer` has the lookups of the layer for one request. An INVITE or a request that
no living server transaction takes is passed to the dialog layer, which creates the next
one. `IstRecvInviteFails` is the case of one found whose resend fails: it terminates, the
error comes back through the layer, and the same INVITE creates another.

### Timer manager (`TimerManager`)

The actors are the callers of `tsk_timer_manager_schedule` and
`tsk_timer_manager_cancel`, the main thread, the runnable's thread (worker), and the
owner, who starts and stops the manager. An action is what a thread does up to the next
point at which another may change what it goes on to use:

| Code | Actions |
| --- | --- |
| `tsk_timer_ctor`, the static counter | `Schedule` reads it, `Number` writes it |
| the push under the lock, the signal, the semaphore | `Push`, `Signal`, `Count` |
| `tsk_timer_manager_cancel` | `Cancel` |
| `__tsk_timer_manager_mainthread` | `MainLoops`, `MainDecrements`, `MainPeeks`, `MainLooks`, then `MainRaises`, `MainDrops`, or `MainSleeps` and `MainTimesOut` |
| `run` with `TSK_RUNNABLE_RUN_BEGIN` and `_END` | `WorkerBegins`, `WorkerLoops`, `WorkerCalls`, `WorkerEnds` |
| `tsk_timer_manager_start`, `tsk_runnable_start` | `Start` |
| `tsk_timer_manager_stop`, `tsk_runnable_stop` | `Stop`, `StopWorker`, `StopSignals`, `StopMain` |
| the clock | `Tick` |

The list is the set `Listed` with the order `Before` (by timeout, a new timer behind
those with the same, as `tsk_list_push_ascending_data` puts it). `Found` is the search
of `tsk_list_remove_item_by_data`, which compares timeouts and not timers. A signal of
the condition variable wakes the main thread only if it waits (`Signalled`).

### Dialogs that keep a binding (`RefreshDialog`)

The machines of REGISTER, SUBSCRIBE and PUBLISH have the same rows but for a few, which a
condition on `kind` guards; `InProgress` stands for `Trying` in the last two. One action
is one row, or the call that raises its event:

| Code | Actions |
| --- | --- |
| `*_Started_2_InProgress_X_oREGISTER` and its like | `Begin` |
| `*_Connected_2_InProgress`, the refresh timer | `Refresh` |
| `*_event_callback` and the rows for responses | `Recv1xx`, `Recv2xxConnected`, `Recv2xxLeaving`, `RecvChallenge`, `Recv423`, `RecvError`, `RecvTooLate` |
| `tsip_transac_timedout` | `TimesOut` |
| `tsip_dialog_hangup` | `Hangup` if the dialog is established, else `CancelRequests` |
| `tsip_dialog_shutdown`, its timer | `Shutdown`, `ShutdownTimesOut` |
| `process_i_notify` | `RecvNotify` (`Notification` says what it tells: a subscription that goes on, one that is granted so briefly that the refresh delay is zero, or its end) |

`fsm` is the state of the machine, `state` that of `tsip_dialog_t`: the code keeps both
and asks the second in `tsip_dialog_hangup`. They come apart: a 1xx of a refresh makes an
established registration early (`tsip_dialog_update`), and a hangup is then a cancel. The
server is external: it ignores a request that is not newer than the last it processed,
and answers the rest as it likes. It may let the binding lapse.

### Threads and locks (`DialogThreads`)

One subscription, its client transactions, the server transaction of a NOTIFY, the two
layers, and three threads. `todo[t]` is the rest of the functions thread `t` is in; a step
runs to the next lock, unlock or test that another thread can come between. A row of a
machine is a record with the steps of its function (`DialogRows`, `ClientRows`,
`ServerRows`).

| Code | Steps |
| --- | --- |
| `tsk_fsm_act` | `Test` (the check before the lock), `Enter` (lock, search of the row), `Leave` (new state, unlock), `Over` (the callback of the final state) |
| `tsip_transac_layer_*` | `Create`, `Find`, `Unref`, `RemovesIt`, `Scan` for the loop of `cancel_by_dialog` |
| `tsip_dialog_layer_*` | `TakesLock`, `ReleasesLock`, `RemovesIt` |
| `tsip_transac_timer_schedule` (`tsip_transac.h:33-34`), two steps | `Schedule`, `Store` |
| the timers' thread | `Expires`, `ExpiresUnheard` |
| the transport's thread | `Receives`, `Look` |
| the user's calls | `Asks`, `Hangup` |

A transaction lives as long as the list or a thread has a reference (`Exists`); its
destructor cancels its timers (`Survive`). A callback whose transaction was destroyed
finds no state machine: what it reads there is undefined, and is left out.

`Schedule` gives the timer to the manager and leaves `Store`, which stores its
identifier. A timer without delay (J and K over a reliable transport) may be called back
in between, and the comparison of identifiers, which takes no lock, ignores it
(`ExpiresUnheard`). The transaction is then in `missed`: it stays in Completed with no
timer until the dialog cancels it.

The head of the module lists what it leaves out: provisional responses and
retransmissions, sends that fail, and the dialog's own timers, which are in
`RefreshDialog`.

### Dialog layer (`DialogLayer`)

`New`, `Lives` and `Removes` are what the other threads do to a dialog; `Call`, `Start`,
`Phase1`, `Phase2`, `Phase3`, `Unlocks`, `Waits`, `Returns` and `Again` are the steps of
`tsip_dialog_layer_shutdownAll`, each the part between two points at which another thread
may act. A walk starts over after a dialog that ended inside it (`AfterShutdown`); a
REGISTER dialog, which ends later, is asked again then. Phase 3 walks without the lock,
as the code does.

### A call (`InviteDialog`)

Two ends of this code. A user's request is an action (`Calls`, `Refreshes`, `Holds`,
`Accepts`, `Rejects`, `Cancels`, `HangsUp`, `ShutsDown`), an incoming request is one by
method and state (`RecvFirstInvite`, `RecvOffer`, `RecvOfferTooLate`, `RecvBye`,
`RecvCancel`, `RecvPrack`, `Refuses`), an incoming response one by class and the
transaction it belongs to (`Recv1xx`, `Recv2xxOffer`, `RecvFailureOffer`, `RecvLast`,
`RecvIgnored`, `RecvChallengedBye`, `RecvAgain`, `RecvFails`), and timers are
`TimesOut`, `Timer100rel`, `ShutdownTimesOut`. `Found` is the lookup of the dialog
layer: a request may come before the end knows the dialog. `Challenges`, of any request
but a CANCEL, and `Loses` are the network's. `faults` remembers what went wrong, for the
properties that hold only without it.

What the model follows and a reader may not expect:

- The callee's dialog is established when the INVITE comes, so its hangup there is a BYE
  or a rejection by the row of its state, and `tsip_atype_reject` has the rows of hangup.
- A dialog that rejects ends and cancels the server transaction: the rejection is sent
  once.
- A CANCEL that crosses the 2xx is not answered; the caller ends by the timeout of that
  transaction, sends no BYE, and the callee stays in the call (the fault `gaveUp`).
- A ringing callee refuses the BYE of a caller that saw no 1xx, whose tag it lacks.
- If both ends hold at once neither INVITE has a row; both wait until someone hangs up.
- A 2xx whose processing fails ends the caller's dialog without ACK or BYE.
- A challenged INVITE is sent again as an INVITE, an UPDATE as an UPDATE, or as an INVITE
  after a 422 (`RecvAgain`). No row takes the challenge of a BYE or a PRACK: a BYE is over
  and the dialog stays where it is (`RecvChallengedBye`, the fault `challenged`). A dialog
  that sent two BYEs waits for the other one still.
- A PRACK whose RAck does not match is answered, by mistake, in the place of the INVITE
  (`tsip_dialog_invite.c:675-676`). Two phones of this code cannot bring it about.
- timer100rel, when it gives up, ends the dialog without answering the INVITE; a PRACK
  received outside Ringing does not stop it.

### Abstract specifications and refinement mappings

`RequestExchange`: servers decide on an answer once, the sender learns one that some
server gave or a failure, and a server is confirmed only when the sender knows an
answer. The mapping reads the outcome from `passedUp` and `timedOut` (`told` for the
non-INVITE sender), a server's answer from its last response, and the confirmed servers
from the state Confirmed (there are none without INVITE).

`TimerService`: a timer is armed, falls due at or after its deadline, is called; an
armed one may be cancelled, a due one lost to a stop. The mapping makes a listed timer
armed, or cancelled once it is marked, or due from the moment the main thread, having
found it not cancelled and its time come, goes on to raise it; a queued timer is due.

## 3. Runs

| Run | Result | Distinct states | Bounds | Shows |
| --- | --- | --- | --- | --- |
| `invite` | passes | 129 332 | 2 server transactions | safety and progress of the INVITE exchange, and that it implements `RequestExchange` |
| `noninvite` | passes | 3 665 | 2 server transactions | the same of the other exchange |
| `timer_manager` | passes | 185 604 | 1 caller, 2 timers, clock to 1, 2 starts | safety, refinement and progress of the timer manager |
| `refresh` | passes | 581 532 | 3 requests | what a dialog believes of its binding is true, and it ends |
| `threads` | passes | 320 819 | 3 client transactions | references, no remains, no circle of locks but one |
| `layer` | passes | 583 256 | 2 registrations, 1 other dialog | everyone is asked, the registrations last, the call returns |
| `call` | passes | 152 417 | 2 offers, challenges of the first, 1 loss | one answer to an INVITE, both ends leave a call |
| `noninvite_proceeding` | violation of `ProceedingTimesOut` | | 1 | see section 6 |
| `timer_late` | violation of `NoneSleptOver` | | 1 caller, 2 timers | |
| `timer_stop` | violation of `StopReturns` | | 1 caller | |
| `threads_hangup` | violation of `HangupReturns` | | 3 client transactions | |
| `call_lost` | violation of `AcceptedCallConnects` | | 1 offer, 1 loss | |

Further configurations reproduce the rest of section 6.

### The properties

INVITE exchange, `invite`:

- `OutcomeIsUnique`: the caller's dialog is not told of both a 2xx and a 300-699, nor of
  a timeout after anything else, although timers already queued fire late and two server
  transactions may answer differently.
- `OneServerTransaction`: at most one lives at a time.
- `LiveTransactionsAreTimed`: Calling, Accepted and Completed at the client, Completed,
  Accepted and Confirmed at the server have the timer that ends them, and under the
  identifier the callback will compare. With zero delays (Completed and Confirmed over a
  reliable transport) the code does not guarantee it, see `ReliableCompletedEnds`.
- `ConfirmedImpliesCallerKnows`: a server stops retransmitting a rejection because of an
  ACK only if the caller knows a final response, perhaps another server's.
- `ReliableAlertsOnce`: over a reliable transport one INVITE is announced to one dialog.
- `ImplementsExchange`: the refinement of `RequestExchange`.
- `ClientEnds`, `ServerEnds`: leads-to forms of the above under fairness.

Non-INVITE exchange, `noninvite`: the same with `ReliableHandsOnce` for the hand-over of
the request and `TransactionsEnd` for progress.

Timer manager, `timer_manager`:

- `NoTimerWithoutPermit`: the main thread does not wait for the semaphore while the list
  has a timer that nobody is about to count. Cancelled timers, timers served out of turn
  and the additional increment of a stop all pass through this count.
- `RemovesTheServed`: the search by timeout finds the timer the main thread looked at.
- `ImplementsService`: the refinement of `TimerService`.
- `TimersAreServed`: a listed timer leaves the list and a queued one is called back,
  unless the owner stops the manager.

Dialogs with a binding, `refresh`:

- `OneRequestOutstanding`: a dialog that waits has one request outstanding, its last,
  although the timer, the user, a challenge, a 423 and a shutdown each send one.
- `ConnectedIsBound`: a Connected dialog has a binding unless the server let it lapse.
- `UnboundWhenTold`: once the user is told the binding was given up, the server holds
  none, whatever is still in transit.
- `ConnectedIsRefreshed`: a Connected dialog has a refresh timer under the identifier its
  callback compares, unless the server granted so little, in a 2xx or a NOTIFY, that the
  delay was zero and the timer could be called back before its identifier was stored.
- `ShutdownEnds`: a dialog the stack shuts down ends, whatever the network does.
- `RequestsEnd`: a request is answered, times out, or waits behind a 1xx, which is all
  that `ProceedingTimesOut` leaves.

Threads, `threads`:

- `ReferencesHold`: no transaction that the transport's or the user's thread is about to
  act on was destroyed by another. The timers' thread has a bare pointer, no reference.
- `QuietIsClean`: when no thread is at work no lock is held, each listed transaction has
  a timer, and a dialog that ended is not listed. Two transactions are excepted: that of
  a NOTIFY passed to a dialog that ended between the test and the lock of `tsk_fsm_act`,
  which stays in Trying, unanswered, for ever; and one whose zero timer J or K was called
  back before its identifier was stored, which stays in Completed. The property is about
  what is left behind. It says nothing of a final state that is reported twice
  (`FinalStateOnce`, section 6), nor of a callback into a destroyed transaction.
- `CallsReturn`: if the user stops the stack, every call returns: without
  `cancel_by_dialog` from outside, the locks close no circle.

Dialog layer, `layer`: `EveryoneAsked` (a walk that starts over, over a list that others
change, passes over nobody), `RegistersLast` (a registration is asked when the others
ended or two seconds passed), `ShutdownReturns` (broadcasts that come too early and
dialogs that never end do not keep it).

Call, `call`:

- `OneFinalAnswer`: the user, a CANCEL, the stack and timer100rel may each end the
  ringing; an INVITE has one final answer.
- `NobodyLeftWaiting`: no end waits for a peer that ended, unless a fault of `faults`
  happened: who leaves tells the other, through every crossing.
- `HangupEnds`: a dialog in Cancelling or Trying ends. Three things are excepted: the
  answer to its INVITE was lost, the INVITE was sent again after a challenge, or its BYE
  was challenged. The last is `AnsweredByeEnds` of section 6.

`OutcomeIsUnique` bounds what the caller is told from above: a caller that is told
nothing, because the ACK of a rejection cannot be sent, is `RejectionPassedUp`.

### Bounds

- `MaxServers` bounds the server transactions created for one request. Two are enough to
  have one answer from each of two, an ACK reach the wrong one, and a second creation
  after a failure; the proofs lift the bound from the safety properties of both
  exchanges and from their refinement of `RequestExchange`.
- The network is a set of message classes: repeated sends of one class are one element,
  which over an unreliable transport is received any number of times anyway. Over a
  reliable transport two messages of one class in flight together become one; the classes
  that can be in flight twice there are provisional responses and repeated 2xx or ACKs,
  where the second is received in the state the first left, an action of its own.
- `MaxTime` is one tick: timers are due at once or later, and two of them come in either
  order, which is all the main thread distinguishes. Nothing is scheduled past it.
- `MaxStarts` is two: a start, a stop that leaves timers and permits behind, a restart.
- Two timers have all the relative places a search and a list can confuse; each is
  scheduled once. One caller interleaves with the manager's threads and the owner; two
  callers matter to the identifiers (`timer_ids.cfg`), and the proofs of the other safety
  properties hold for any number.
- `MaxRequests` bounds the sequence numbers of a dialog. Three are a request, its
  challenged repetition or a refresh, and the request that gives the binding up. The
  guard of `Sends` stops at the bound; the proofs lift it from the safety properties.
- `Clients` are three transactions: the first request, its repetition after a challenge
  or a refresh, and the unSUBSCRIBE; the proofs of the invariants hold for any number.
  Each incoming message comes once, and a timer as often as it is scheduled.
- Two registrations (one may end while the walk is at the other) and one dialog of
  another type; the proofs of `EveryoneAsked` and `RegistersLast` hold for any sets.
- `MaxOffers` counts the INVITEs and UPDATEs of both ends: the first INVITE and one more
  from either, which may be a hold, a refresh, the INVITE sent again after a challenge or
  one that finds no dialog. Requests are challenged while the call has no more than
  `MaxChallenges` offers, one or none; a BYE is challenged once at most, and an answer
  lost once at most (`MaxLost`), each only as the first thing that goes wrong (the guards
  of `Challenges` and `Loses`). An UPDATE that is challenged and sent again needs three
  offers: the proofs of the safety properties, which lift the bounds on offers and
  challenges, cover it, the runs do not.

`CHECK_DEADLOCK FALSE` is stated in every cfg: all transactions may have terminated, all
timers been served, all dialogs have ended, with nothing left to do. That threads do not
stop in a circle of locks is `CallsReturn`.

### Fairness

- Transactions: weak fairness of each timer, to fall due and be called back. The code
  justifies it by the timer manager's threads, which `TimersAreServed` is about. No
  fairness for messages, sends or dialogs: a peer may be silent for ever.
- Timer manager: weak fairness of the main thread, the worker, each caller inside a call,
  the owner inside a stop, and the clock. Nobody has to schedule, cancel, start or stop.
- `RefreshDialog`: the timers only (timer F of a request without 1xx, the timer of the
  shutdown, the refresh). The network, the server and the user owe nothing.
- `DialogThreads`: each thread that can go on does. A waiter need not get a lock that
  another keeps taking again: a mutex is not fair.
- `DialogLayer`: the thread in `shutdownAll`. A dialog may be as slow as it likes.
- `InviteDialog`: some timer of a transaction that may time out does, some shutdown timer
  does, and some message that is not lost is received, but for provisional responses.
  Three conditions over both ends ask less than the timers' thread and the transport of
  each end give. The users owe nothing.

## 4. Proofs

Checked by TLAPS for every value of the constants, under the assumptions named in the
modules: `MaxServersAssumption` (a positive number), `TimersAssumption` and
`CallersAssumption` (finite sets, the null pointer is no timer), `ClientsAssumption` (there
is a client transaction, and none has the name of another machine or of a layer),
`BoundsAssumption` of `TimerManager` and `MaxRequestsAssumption` (natural numbers),
`DialogsAssumption` (no dialog is of both kinds), `BoundsAssumption` of `InviteDialog`
(natural numbers; at most one answer lost). Every safety property and every refinement
that a passing run checks is proved.

### `InviteTransacProofs`

Theorems: `TypeCorrectness`, `CallerLearnsOneOutcome` (`OutcomeIsUnique`),
`NoTwoServerTransactions` (`OneServerTransaction`), `LiveTransactionsStayTimed`
(`LiveTransactionsAreTimed`), `AcknowledgedIsKnown` (`ConfirmedImpliesCallerKnows`),
`ReliableAlertsAreUnique` (`ReliableAlertsOnce`), and `Implementation`
(`Spec => ImplementsExchange`), from `Invariance`: `Spec => []IndInv`.

`IndInv` (in `InviteTransac`) adds to the properties:

- `LastFollowsState`: the response kept for retransmission is that of the state. Without
  it a retransmission could send "no response", and a server in Completed a 2xx.
- `ToldFollowsState`: what the caller was told is what the client's state says, so a
  final response in Calling or Proceeding is the first.
- `NetIsCaused`: a final response in the network was some server's, an ACK in the network
  followed a final response at the caller.
- `ReliableSendsOnce`: over a reliable transport there is no timer A and one INVITE; it
  is in the network, or in one server transaction.

The proof states the effect of a step once per party (client, dialog's ACK, server) and
derives each part of the invariant from the effects. `TimersProofs` has the lemmas about
scheduling and cancelling: a timer rescheduled under a name is pending under it, a queued
timer survives every cancellation, the others' identifiers are untouched.

`Implementation` maps every step to one of `RequestExchange` or to a stutter. A step of
the caller tells it a first outcome or none (`IctStepTells`); that the answer it learns
was some server's is `NetIsCaused` (`LearntIsPassedUp`). A step of the callee changes one
server (`OneServerActs`), which decides, is confirmed or is forgotten; that a confirmed
one talks to a caller who knows an answer is `ConfirmedImpliesCallerKnows`.

### `NonInviteTransacProofs`

Theorems: `TypeCorrectness`, `SenderLearnsOneOutcome` (`OutcomeIsUnique`),
`NoTwoServerTransactions` (`OneServerTransaction`), `LiveTransactionsStayTimed`
(`LiveTransactionsAreTimed`), `ReliableHandsAreUnique` (`ReliableHandsOnce`), and
`Implementation` (`Spec => ImplementsExchange`), from `Invariance`: `Spec => []IndInv`.

The parts of `IndInv` are those of the INVITE pair without the ACK: `LastFollowsState`
(the repeated response is that of the state), `ToldFollowsState`, `NetIsCaused` (a final
response in the network was some server's), `ReliableSendsOnce` (over a reliable
transport there is no timer E, and the request is in the network or in one server
transaction). `LastFollowsState` is what makes the answer of the refinement stable: a
server that was handed the request again after it answered would decide twice.

### `TimerManagerProofs`

Theorems: `TypeCorrectness`, `OnlyTheServedVanish` (`RemovesTheServed`), `PermitsSuffice`
(`NoTimerWithoutPermit`), `Implementation` (`Spec => ImplementsService`), from
`Invariance`: `Spec => []IndInv`.

The parts of its `IndInv`:

- `TimersAreFresh`, `CallersFollow`: a timer on its way into the list is its caller's
  alone and not cancelled.
- `ListIsOrdered`, `MainFollows`: no two listed timers have one place; the timer the main
  thread looks at is listed, ahead of all that have its timeout. A push goes behind those
  with the same timeout, and only the main thread takes timers out, so both survive the
  gap between the two critical sections. `OnlyTheServedVanish` is a consequence; with the
  opposite rule for equal timeouts it would fail, and a timer pushed in the gap would be
  lost.
- `QueueFollows`: the runnable's queue has queued timers, each once.
- `PhasesFollow`: how far each thread may be, by the phase of the owner.
- `PermitsBalance`: listed timers are at most the permits of the semaphore, plus the
  callers between push and increment, plus one if the main thread holds one. A stop's
  increment makes up for the permit with which the main thread ends: `HoldsPermit` and
  `Surplus` say when it is owed. This is the part that makes restarts work.

The proof has a lemma per part with one step per action. `Moves` is the effect of any
step on a timer, `ListGrows`, `ListShrinks` and `ListRests` the effect on the list;
`LeastNatural`, proved from the well-foundedness of the naturals, gives the
list its first timer. `Implementation` shows that a caller's, the main thread's
and the others' steps are steps of the service or stutter.

### `RefreshDialogProofs`

Theorems: `TypeCorrectness`, `OneRequestAtATime` (`OneRequestOutstanding`),
`ConnectedMeansBound` (`ConnectedIsBound`), `ToldMeansUnbound` (`UnboundWhenTold`),
`ConnectedMeansRefreshed` (`ConnectedIsRefreshed`), from `Invariance`: `Spec => []IndInv`,
for any number of requests and each kind of dialog.

What is believed of the server is proved from what is in transit. `RequestsAreOwn`: the
server has seen no more than was sent, and the last request asks for what the dialog now
wants. `AnswersAreTrue`: a final answer means that the server saw the request, and a 2xx
to the last request tells how the binding stands. `GrantStands`: so it does until the
dialog sends again. They hold together because the server drops requests that are not
newer than the last it processed and the dialog has one outstanding, its last: nothing
that the server may still see is newer than the answer the dialog takes. `SendsKeeps` is
this for a new request, `SilenceKeeps` for a step that sends
none; `UserSteps`, `AnswerSteps` and `PeerSteps` have one step per action.

### `DialogLayerProofs`

Theorems: `TypeCorrectness`, `NobodyPassedOver` (`EveryoneAsked`), `RegistersAreLast`
(`RegistersLast`), from `Invariance`, for any sets of dialogs. `IndInv` says that inside a
walk every dialog the phase is for, and that was present, is still ahead, was asked, or
has left; it survives a restart of the walk because a restart only puts dialogs back
ahead (`WalkReaches`). `PhaseOneFirst` is why phase 2 may begin: phase 1 did not have to
wait, was told that its dialogs are gone, or waited for the timeout.

### `InviteDialogProofs`

Theorems: `TypeCorrectness`, `CallIsAnsweredOnce` (`OneFinalAnswer`) and `LeaverTells`
(`NobodyLeftWaiting`), from `Invariance`: `Spec => []IndInv`, for any number of offers
and challenges. The parts of `IndInv`:

- `AnswersAreAwaited`: an answer in transit has a transaction that waits for it, and the
  challenge of a BYE is in `faults`.
- `InvitesAreNumbered`, `InvitesAreFresh`: an INVITE in transit to the callee has a
  number that no answer, no ringing and no other INVITE has, and its caller waits for it.
  This is why the callee cannot answer twice what it takes once, and why a callee that
  ends on its first INVITE is heard: the failure it sends finds a transaction.
- `RolesAreKept`, `RingingIsAwaited`: while the phone rings nobody has accepted, and a
  caller that goes on waits for the INVITE, to which nothing final is on its way.
- `ByesAreAwaited`: a BYE comes from an end that is gone or waits for its answer.

and, as long as `faults` is empty:

- `LastAnswersComeFromLeavers`: an answer that ends a dialog was sent by an end that is
  gone, so nobody ends on it whose peer goes on.
- `UnacceptedIsNotEstablished`, `CallerComesFirst`: before a 2xx the caller is in Outgoing,
  Cancelling or its timed shutdown, and it does not leave a phone that rings.
- `LeftBehindIsTold`: an end whose peer is gone is leaving too, or it is a caller whose
  INVITE, challenge or rejection is in transit. `NobodyLeftWaiting` follows, since with
  only heard INVITEs pending and provisional answers in transit neither is the case.

`NobodyLeftWaiting` is not inductive because it begins only when the last message to
the end is gone; `LeftBehindIsTold` says what that message was. A step's effect is
stated once (`PendingEffect` on the transactions, `NetEffect` on the messages,
`StateEffect` and `CalleeEffect` on the ends), with one case per action in the lemmas
`User...` and `Message...`; the parts of `IndInv` follow from the effects. `Departure`
says why an end leaves, `UserTellingStays` and `MessageTellingStays` why what is to tell
the caller stays in transit or is replaced.

### `DialogThreadsProofs`

Theorems: `TypeCorrectness`, `NoDanglingReference` (`ReferencesHold`), `CleanWhenQuiet`
(`QuietIsClean`) and `BalancedLocks` (`LocksAreBalanced`), from `Invariance`: `Spec =>
[]IndInv`, for any number of client transactions, so for any number of challenges, and
for timers that elapse before their identifier is stored. The parts of `IndInv`, which
TLC finds to hold in all states of `threads`:

- `WellFormed`, of what each thread has still to do: a layer is waited for before all
  else and the loop of `cancel_by_dialog` goes on under the layer's lock, with at most the
  transaction it cancels before it (`WellNested`); a request is passed to the dialog
  inside the row of its server transaction (`NotifyIsPassedOn`); and no row of the dialog
  is executed inside another, although its lock is recursive (`RowsAreNotNested`).
- `LocksAreBalanced`: a thread releases each lock as often as it took it, plus once for
  the layer it waits for. So who has a row to leave has the lock (`Holding`), and who
  enters the dialog finds nobody in a row of it (`NobodyInside`).
- `ReferencesAreGuarded`: a thread that is going to act on a transaction is going to
  release a reference to it later; in the loop of `cancel_by_dialog`, which takes none,
  the transaction is still in the list, which the loop has locked.
- `ListedAreServed`: no transaction is twice in the list, and one in the list has the
  timer, the message or the step on its way that takes it to its next state, or a row to
  leave in the final state, or its timer elapsed unheard (`missed`). That of a NOTIFY
  waits for the dialog's answer (`NotifyIsTended`): the request, the answer or the
  failure is in some thread's hands, or the dialog is over. `missed` and the dialog that
  is over are the exceptions in `QuietIsClean`.
- `DialogEnds`: a dialog in the final state ended, and leaves its layer, unless a thread
  is still in one of its rows. This is why the event that finds no row because the dialog
  ended first (`NoRowServes`) is accounted for: with the dialog's lock free nobody is in
  a row, so its end was reported or is about to be.

`QuietIsClean` speaks of the moment when nothing is left to do, and says nothing of how it
is reached; what its parts become while threads are at work is what the invariant adds.

Every step of a thread replaces the first thing it has to do by a few others
(`StepIsTurn`, `Replaces`), and leaves the rest as it is (`Splicing`, `SplicedPlaces`).
The parts about one thread (`NestingKept`, `PassingKept`, `InsideKept`) and the counts of
the locks (`ReplacementWeight`) follow from that alone, with one case per kind of step.
`ListedAreServed` and `DialogEnds` relate all threads, and have a lemma per action
(`TestServes`, `RowServes`, `LeaveServes`, `RemoveServes`, ...).

### Only model-checked

Liveness (`ClientEnds`, `ServerEnds`, `TransactionsEnd`, `TimersAreServed`,
`ShutdownEnds`, `RequestsEnd`, `CallsReturn`, `ShutdownReturns`, `HangupEnds`) is beyond
the prover. So are the disagreements of section 6, which are counterexamples.

## 5. Slips

Each property of a passing run is paired in `PROJECT.json` with a slip that breaks it:
timer B honoured in every state, timer B or F forgotten, timer A or E on every transport,
a lookup that sees only transactions in Proceeding, an ACK without a callback, a second
answer, a missing row for M or I, a 1xx after the final response, timers with equal
timeouts in reverse order, a semaphore counted for the first timer only, a cancellation
looked at too late, a worker that waits with a timer already queued; a refresh that is
sent while a request is in progress, a 2xx that connects a dialog which is leaving, a
hangup that sends while a request is in progress, a refresh timer armed once, a shutdown
without its timer, a timeout no one listens to; a transaction found without a reference,
a timer K for unreliable transports only, a machine that unlocks twice, a callback of the
final state under the lock; a removal without the lock, a walk that stops at a dialog
that ends, phase 1 ended by the last REGISTER dialog, a wait without a timeout; a
rejection that goes on ringing, a CANCEL that is answered and not the INVITE, a dialog
that ends and leaves its transactions, a shutdown of a call without its timer.

## 6. Disagreements between the code and its comments

Checked by the runs that expect a violation:

1. `ProceedingTimesOut` (`noninvite_proceeding`): the comment at
   `tsip_transac_nict.c:504-505` has timer F fire in Proceeding; the code cancels it on
   the first 1xx.
2. `NoneSleptOver` (`timer_late`): a signal between the look and the wait is lost, and
   the main thread sleeps past an earlier timer.
3. `StopReturns` (`timer_stop`): `running` is set twice by the starting thread; a stop in
   between is undone and never returns.
4. `HangupReturns` (`threads_hangup`): `cancel_by_dialog` starts over as long as a
   transaction takes the event, and one in Started takes it and stays
   (`tsip_transac_nist.c:205`). A hangup between the creation of the server transaction of
   a NOTIFY and its first event spins with the layer and the dialog locked; if the
   transport's thread takes the transaction's lock between two rounds, each waits for the
   other.
5. `AcceptedCallConnects` (`call_lost`): "INVITE dialog is responsible for reliability of
   the 2xx response" (`tsip_transac_ist.c:591`); the dialog sends it once. If it is lost
   after a provisional response the callee is in a call and the caller waits for ever.

Further counterexamples, found with `tlc -config <cfg> <module>`:

| Configuration, module | Property | Quoted, and what happens |
| --- | --- | --- |
| `invite_accepted.cfg`, `MCInviteTransac` | `AcceptedStopsRetransmitting` | "Cancel timers A and B" (`tsip_transac_ict.c:530`): they are scheduled, find no row in Accepted and are wasted |
| `invite_ack.cfg`, `MCInviteTransac` | `AckIsForTheAnswer` | the rule at `tsip_transac_layer.c:205` matches by branch; an ACK is matched by Call-ID and CSeq (231-235), so the ACK of a rejection reaches a dialog that accepted |
| `invite_rejected.cfg`, `MCInviteTransac` | `RejectionPassedUp` | "MUST pass the received response up to the TU" (`tsip_transac_ict.c:447-448`): not if the ACK cannot be sent |
| `invite_timer_d.cfg`, `MCInviteTransac` | `ReliableCompletedEnds` | a timer without delay may run before its identifier is stored; Completed then lasts until the dialog cancels |
| `timer_ids.cfg`, `MCTimerManager` | `IdsAreUnique` | "Unique timer identifier" (`tsk_timer.c:55`) is an unlocked increment |
| `refresh_hangup.cfg`, `MCRefreshDialog` | `HangupUnbinds` | a hangup "will send an unREGISTER or unSUBSCRIBE or unPUBLISH" (`tsip_api_common.c:94`): not while a request is in progress |
| `threads_final.cfg`, `MCDialogThreads` | `FinalStateOnce` | the callback of the final state (`tsip_dialog_subscribe.client.c:699`) runs twice when two threads pass the test of `tsk_fsm_act` |
| `threads_heard.cfg`, `MCDialogThreads` | `HangupHeard` | `tsip_dialog_hangup` reads the dialog's state unlocked; a response in between makes it raise an event without effect |
| `layer_leave.cfg`, `MCDialogLayer` | `LeaversAreLeftAlone` | "wait until phase-2 is completed" (`tsip_dialog_layer.c:229`): a walk that starts over asks a registration again, which ends it before its unREGISTER is answered |
| `call_challenged.cfg`, `MCInviteDialog` | `AnsweredByeEnds` | "Any -> (i3xx-i6xx BYE) -> Terminated" (`tsip_dialog_invite.c:338`): a 401 or 407 raises `i401_i407` (180-181), which has rows for INVITE and UPDATE only (368-371); the BYE is over, is not sent again, and the dialog of who hung up stays in Trying with no timer |
| `call_resent.cfg`, `MCInviteDialog` | `NotPlacedAgain` | a challenge that crosses a CANCEL has the INVITE sent again (`tsip_dialog_invite.c:695`) |

Read in the code, without a property: `tsip.c:840` has a shutdown start with REGISTER,
`tsip_dialog_layer.c` ends with it; the CANCEL is sent before any provisional response,
against `tsip_dialog_invite.c:1133-1137`; a silent dialog that is not a REGISTER
suppresses the broadcast of phase 1, which costs the full wait; OPTIONS has no row for
the shutdown; the cancellation in `tsip_dialog_deinit` finds no transaction, since each
holds a reference to its dialog.

## 7. Not modelled

- The events transporterror and error of the transactions: no code raises them.
- Failures of POSIX calls and spurious wakeups of the condition variable (after which the
  main thread peeks again, as after a signal).
- A queue of the runnable that is freed while the main thread pushes into it, the
  unlocked counts of the global timer manager, and a list that another thread reads while
  it is being linked (`tsip_dialog_layer.c:458`): undefined behaviour whose outcomes are
  not those of the program. They are hazards of `PROJECT.json`.
- The memory a timer's callback reads when its transaction was destroyed.
- Of the invite dialog: preconditions (InProgress, UPDATE before the answer), transfer
  (ECT), INFO, OPTIONS, DTMF, MSRP, the ACK, session intervals and who refreshes.
- The server side of REGISTER, which accepts what it is sent.
- The start of the stack and the stop of its runnable and transports.
- Media, parsers, transports, DNS, compression, and the Objective-C layers. They are most
  of the repository's lines (bindings generated by SWIG, parsers generated by Ragel,
  vendored SDKs, tables and user interface), have no protocol state of their own, and
  most have no behaviour that depends on an order of events. The share of the repository
  that this project models is small for that reason.

## 8. Plan

1. The counts of the global timer manager with several owners, and the runnable of events
   of the stack, which drains its queue when it stops.
2. Preconditions of QoS, with InProgress and the UPDATE before the answer, as an
   extension of `InviteDialog`.
