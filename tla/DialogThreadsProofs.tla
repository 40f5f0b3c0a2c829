------------------------ MODULE DialogThreadsProofs -------------------------
(* What holds however the three threads come across each other, for every  *)
(* number of client transactions.                                          *)
EXTENDS DialogThreads, SequenceTheorems, FiniteSetTheorems, TLAPS

\* The dialog, its transactions and the locks have names of their own.
LEMMA Names ==
    /\ First \in Clients /\ First \in Transactions
    /\ "dialog" \notin Transactions /\ "server" \notin Clients
    /\ "dialog" \in Machines /\ "server" \in Transactions
    /\ Clients \subseteq Transactions /\ Transactions \subseteq Machines
    /\ \A x \in Transactions : x \in Clients \/ x = "server"
    /\ \A m \in Machines : m \in Transactions \/ m = "dialog"
    /\ Machines \subseteq Locks
    /\ "transac_layer" \in Locks \ Machines /\ "dialog_layer" \in Locks \ Machines
    /\ Locks \ Machines = {"transac_layer", "dialog_layer"}
  BY ClientsAssumption DEF First, Transactions, Machines, Locks

\* The parts of a step.
LEMMA StepFields ==
    \A what, on, with : /\ Do(what, on, with).what = what /\ Do(what, on, with).on = on
                        /\ Do(what, on, with).with = with
  BY DEF DoAt, Do

\* A step put after a few others.
LEMMA Appending ==
    ASSUME NEW x, NEW y, NEW z, NEW w
    PROVE  /\ Append(<<>>, w) = <<w>> /\ Append(<<x>>, w) = <<x, w>>
           /\ Append(<<x, y>>, w) = <<x, y, w>> /\ Append(<<x, y, z>>, w) = <<x, y, z, w>>
  <1> DEFINE S == {x, y, z, w}
  <1>1. ASSUME NEW s \in Seq(S), NEW n \in Seq(S), Len(n) = Len(s) + 1, n[Len(n)] = w,
               \A i \in 1..Len(s) : n[i] = s[i]
        PROVE  Append(s, w) = n
    <2>1. Append(s, w) \in Seq(S) /\ Len(Append(s, w)) = Len(s) + 1 /\ Len(s) \in Nat
          /\ \A i \in 1..Len(s) : Append(s, w)[i] = s[i]
          /\ Append(s, w)[Len(s) + 1] = w
      BY AppendProperties, LenProperties
    <2>2. \A i \in 1..Len(n) : Append(s, w)[i] = n[i]
      BY <2>1, <1>1
    <2> QED BY <2>1, <2>2, <1>1, SeqEqual
  <1>2. <<>> \in Seq(S) /\ <<w>> \in Seq(S) /\ <<x>> \in Seq(S) /\ <<x, w>> \in Seq(S) /\ <<x, y>> \in Seq(S)
        /\ <<x, y, w>> \in Seq(S) /\ <<x, y, z>> \in Seq(S) /\ <<x, y, z, w>> \in Seq(S)
    OBVIOUS
  <1> HIDE DEF S
  <1>3. Append(<<>>, w) = <<w>>
    BY <1>1, <1>2
  <1>4. Append(<<x>>, w) = <<x, w>>
    <2>1. /\ Len(<<x, w>>) = Len(<<x>>) + 1 /\ <<x, w>>[Len(<<x, w>>)] = w
          /\ \A i \in 1..Len(<<x>>) : <<x, w>>[i] = <<x>>[i]
      OBVIOUS
    <2>2. QED
      BY <1>1, <1>2, <2>1
  <1>5. Append(<<x, y>>, w) = <<x, y, w>>
    <2>1. /\ Len(<<x, y, w>>) = Len(<<x, y>>) + 1 /\ <<x, y, w>>[Len(<<x, y, w>>)] = w
          /\ \A i \in 1..Len(<<x, y>>) : <<x, y, w>>[i] = <<x, y>>[i]
      OBVIOUS
    <2>2. QED
      BY <1>1, <1>2, <2>1
  <1>6. Append(<<x, y, z>>, w) = <<x, y, z, w>>
    <2>1. /\ Len(<<x, y, z, w>>) = Len(<<x, y, z>>) + 1 /\ <<x, y, z, w>>[Len(<<x, y, z, w>>)] = w
          /\ \A i \in 1..Len(<<x, y, z>>) : <<x, y, z, w>>[i] = <<x, y, z>>[i]
      OBVIOUS
    <2>2. QED
      BY <1>1, <1>2, <2>1
  <1>7. QED
    BY <1>3, <1>4, <1>5, <1>6

\* Short sequences of steps.
LEMMA Short ==
    ASSUME NEW S, NEW x \in S, NEW y \in S, NEW z \in S, NEW w \in S
    PROVE  {<<>>, <<x>>, <<x, y>>, <<x, y, z>>, <<x, y, z, w>>} \subseteq Seq(S)
  OBVIOUS

\* n is s after its first step was replaced by the steps of a.
Spliced(s, a, n) ==
    /\ DOMAIN s = 1..Len(s) /\ DOMAIN n = 1..Len(n) /\ DOMAIN a = 1..Len(a)
    /\ Len(a) \in Nat /\ Len(s) \in Nat \ {0} /\ Len(n) = Len(a) + Len(s) - 1
    /\ \A i \in 1..Len(a) : n[i] = a[i]
    /\ \A i \in 2..Len(s) : n[Len(a) + i - 1] = s[i]
    /\ \A k \in (Len(a) + 1)..Len(n) : k - Len(a) + 1 \in 2..Len(s) /\ n[k] = s[k - Len(a) + 1]

\* What is left when a thread did its first step.
LEMMA Splicing ==
    ASSUME NEW S, NEW s \in Seq(S), s # <<>>, NEW a \in Seq(S)
    PROVE  a \o Tail(s) \in Seq(S) /\ Spliced(s, a, a \o Tail(s))
  <1>1. /\ Tail(s) \in Seq(S) /\ Len(Tail(s)) = Len(s) - 1
        /\ \A i \in 1..Len(Tail(s)) : Tail(s)[i] = s[i + 1]
    BY HeadTailProperties
  <1>2. Len(s) \in Nat \ {0} /\ Len(a) \in Nat /\ DOMAIN s = 1..Len(s) /\ DOMAIN a = 1..Len(a)
    BY LenProperties, EmptySeq
  <1>3. /\ a \o Tail(s) \in Seq(S) /\ Len(a \o Tail(s)) = Len(a) + Len(Tail(s))
        /\ \A i \in 1..(Len(a) + Len(Tail(s))) :
              (a \o Tail(s))[i] = IF i <= Len(a) THEN a[i] ELSE Tail(s)[i - Len(a)]
    BY <1>1, ConcatProperties
  <1>4. DOMAIN (a \o Tail(s)) = 1..Len(a \o Tail(s))
    BY <1>3, LenProperties
  <1>5. \A i \in 1..Len(a) : (a \o Tail(s))[i] = a[i]
    BY <1>1, <1>2, <1>3
  <1>6. ASSUME NEW i \in 2..Len(s)
        PROVE  (a \o Tail(s))[Len(a) + i - 1] = s[i]
    <2>1. Len(a) + i - 1 \in 1..(Len(a) + Len(Tail(s))) /\ ~(Len(a) + i - 1 <= Len(a))
      BY <1>1, <1>2
    <2>2. (Len(a) + i - 1) - Len(a) = i - 1 /\ i - 1 \in 1..Len(Tail(s)) /\ (i - 1) + 1 = i
      BY <1>1, <1>2
    <2>3. QED
      BY <1>1, <1>3, <2>1, <2>2
  <1>7. ASSUME NEW k \in (Len(a) + 1)..Len(a \o Tail(s))
        PROVE  k - Len(a) + 1 \in 2..Len(s) /\ (a \o Tail(s))[k] = s[k - Len(a) + 1]
    <2>1. k - Len(a) + 1 \in 2..Len(s) /\ Len(a) + (k - Len(a) + 1) - 1 = k
      BY <1>1, <1>2, <1>3
    <2>2. QED
      BY <1>6, <2>1
  <1>8. QED
    BY <1>1, <1>2, <1>3, <1>4, <1>5, <1>6, <1>7 DEF Spliced

\* Where the steps after the first one are then.
LEMMA SplicedPlaces ==
    ASSUME NEW s, NEW a, NEW n, Spliced(s, a, n)
    PROVE  /\ \A i \in DOMAIN s : i # 1 =>
                 Len(a) + i - 1 \in DOMAIN n /\ n[Len(a) + i - 1] = s[i]
           /\ \A k \in (Len(a) + 1)..Len(n) : \E i \in DOMAIN s :
                 /\ i \in 2..Len(s) /\ k = Len(a) + i - 1 /\ n[k] = s[i]
                 /\ \A j \in DOMAIN s : j > i => j # 1 /\ Len(a) + j - 1 > k
  <1>1. DOMAIN s = 1..Len(s) /\ DOMAIN n = 1..Len(n) /\ Len(a) \in Nat
        /\ Len(s) \in Nat \ {0} /\ Len(n) = Len(a) + Len(s) - 1
    BY DEF Spliced
  <1>2. ASSUME NEW i \in DOMAIN s, i # 1
        PROVE  Len(a) + i - 1 \in DOMAIN n /\ n[Len(a) + i - 1] = s[i]
    <2>1. i \in 2..Len(s) /\ Len(a) + i - 1 \in DOMAIN n
      BY <1>1, <1>2
    <2>2. QED
      BY <2>1, Zenon DEF Spliced
  <1>3. ASSUME NEW k \in (Len(a) + 1)..Len(n)
        PROVE  \E i \in DOMAIN s :
                 /\ i \in 2..Len(s) /\ k = Len(a) + i - 1 /\ n[k] = s[i]
                 /\ \A j \in DOMAIN s : j > i => j # 1 /\ Len(a) + j - 1 > k
    <2>1. PICK i : i = k - Len(a) + 1
      OBVIOUS
    <2>2. i \in 2..Len(s) /\ i \in DOMAIN s /\ k = Len(a) + i - 1
      BY <1>1, <1>3, <2>1
    <2>3. n[k] = s[i]
      BY <2>1, Zenon DEF Spliced
    <2>4. \A j \in DOMAIN s : j > i => j # 1 /\ Len(a) + j - 1 > k
      BY <1>1, <2>2
    <2>5. QED
      BY <2>2, <2>3, <2>4
  <1>4. QED
    BY <1>2, <1>3

------------------------------------------------------------------------------
\* The rows of the machines: where they lead, and what is done in them.
BodyOf(m, action, body) ==
    \/ body = <<>>
    \/ m = "dialog" /\ action \in {"401", "hangup", "shutdown"} /\ body = RequestSend
    \/ m = "dialog" /\ action = "notify" /\ body = ResponseSend
    \/ m = "dialog" /\ action = "cancel" /\ body = CancelByDialog
    \/ m = "server" /\ action = "request" /\ body = <<Act("dialog", "notify")>>
    \/ m = "server" /\ action = "send_200" /\ body = <<Do("schedule", m, "timerJ")>>
    \/ m \in Clients /\ action = "send" /\ body = <<Do("schedule", m, "timerF")>>
    \/ m \in Clients /\ action = "timerF" /\ body = <<Act("dialog", "transporterror")>>
    \/ /\ m \in Clients /\ action \in Responses
       /\ body = <<Act("dialog", action), Do("schedule", m, "timerK")>>

\* A row leads to a state of its machine and does one of few things.
LEMMA RowShape ==
    ASSUME NEW m \in Machines, NEW r \in Rows(m)
    PROVE  r.from \in StatesOf(m) /\ r.to \in StatesOf(m) /\ BodyOf(m, r.action, r.body)
  <1>1. CASE m = "dialog"
    BY <1>1 DEF Rows, DialogRows, Row, StatesOf, BodyOf
  <1>2. CASE m = "server"
    BY <1>2, Names DEF Rows, ServerRows, TransactionRows, Row, StatesOf, States, BodyOf
  <1>3. CASE m \in Clients
    <2>1. r \in ClientRows(m) \cup TransactionRows(m)
      BY <1>3, Names DEF Rows
    <2>2. CASE r \in TransactionRows(m)
      BY <1>3, <2>2, Names DEF TransactionRows, Row, StatesOf, States, BodyOf
    <2>3. CASE r \in ClientRows(m)
      BY <1>3, <2>3, Names DEF ClientRows, Row, StatesOf, States, BodyOf, Responses
    <2>4. QED
      BY <2>1, <2>2, <2>3
  <1>4. QED
    BY <1>1, <1>2, <1>3, Names

\* What a thread does instead of a step it has done.
Replaces(step, a) ==
    \/ step.what \in {"lock", "unlock", "unref", "store", "remove"} /\ a = <<>>
    \/ step.what = "schedule" /\ a = <<Do("store", step.on, step.with)>>
    \/ step.what = "act" /\ a \in {<<>>, <<Do("enter", step.on, step.with)>>}
    \/ step.what = "enter" /\ a = <<Unlock(step.on)>>
    \/ /\ step.what = "enter"
       /\ \E body : /\ BodyOf(step.on, step.with, body)
                    /\ a = Append(body, Do("leave", step.on, step.with))
    \/ step.what = "leave" /\ a \in {<<>>, <<Do("over", step.on, "none")>>}
    \/ step.what = "over" /\ a = <<Do("remove", step.on, "none")>>
    \/ /\ step.what = "create"
       /\ \E x \in Transactions : a = <<Act(x, step.with), Do("unref", x, "none")>>
    \/ /\ step.what = "find"
       /\ a \in {<<>>, <<Act(step.on, step.with), Do("unref", step.on, "none")>>}
    \/ step.what = "scan" /\ a = <<>>
    \/ /\ step.what = "scan"
       /\ \E x \in Transactions, i \in Nat : a = <<Act(x, "cancel"), DoAt("scan", "none", "none", i)>>
    \/ /\ step.what = "look"
       /\ a \in {<<>>, <<Do("hangup", "dialog", "none")>>, <<Do("create", "server", "request")>>,
                 <<Lock("dialog_layer"), Act("dialog", "shutdown"), Unlock("dialog_layer")>>}
    \/ step.what = "hangup" /\ \E w \in {"hangup", "cancel"} : a = <<Act("dialog", w)>>

\* The rows, as what is left to do in them.
InRow(m, action, a) ==
    LET last == Do("leave", m, action)
    IN  \/ a = <<last>>
        \/ m = "dialog" /\ action \in {"401", "hangup", "shutdown"} /\ a = <<Do("create", "client", "send"), last>>
        \/ m = "dialog" /\ action = "notify" /\ a = <<Do("find", "server", "send_200"), last>>
        \/ /\ m = "dialog" /\ action = "cancel"
           /\ a = <<Lock("transac_layer"), DoAt("scan", "none", "none", 0), Unlock("transac_layer"), last>>
        \/ m = "server" /\ action = "request" /\ a = <<Act("dialog", "notify"), last>>
        \/ m = "server" /\ action = "send_200" /\ a = <<Do("schedule", m, "timerJ"), last>>
        \/ m \in Clients /\ action = "send" /\ a = <<Do("schedule", m, "timerF"), last>>
        \/ m \in Clients /\ action = "timerF" /\ a = <<Act("dialog", "transporterror"), last>>
        \/ /\ m \in Clients /\ action \in Responses
           /\ a = <<Act("dialog", action), Do("schedule", m, "timerK"), last>>

\* A row's body and its end.
LEMMA BodyInRow ==
    ASSUME NEW m, NEW action, NEW body, BodyOf(m, action, body)
    PROVE  InRow(m, action, Append(body, Do("leave", m, action)))
  <1> DEFINE last == Do("leave", m, action)
  <1>1. \A x, y, z : /\ Append(<<>>, last) = <<last>> /\ Append(<<x>>, last) = <<x, last>>
                     /\ Append(<<x, y>>, last) = <<x, y, last>>
                     /\ Append(<<x, y, z>>, last) = <<x, y, z, last>>
    BY Appending
  <1> HIDE DEF last
  <1>2. InRow(m, action, Append(body, last))
    BY <1>1 DEF BodyOf, InRow, RequestSend, ResponseSend, CancelByDialog, last
  <1>3. QED
    BY <1>2 DEF last

\* The steps of each kind.
LEMMA StepKinds ==
    ASSUME NEW step \in Steps
    PROVE  /\ step.what \in {"act", "enter", "leave"} => step.on \in Machines /\ step.with \in Actions
           /\ step.what \in {"over", "remove"} => step.on \in Machines
           /\ step.what = "lock" => step.on \in Locks \ Machines
           /\ step.what = "unlock" => step.on \in Locks
           /\ step.what = "create" => \/ step.on = "client" /\ step.with = "send"
                                      \/ step.on = "server" /\ step.with = "request"
           /\ step.what = "find" => step.on \in Transactions /\ step.with \in Actions
           /\ step.what = "unref" => step.on \in Transactions
           /\ step.what \in {"schedule", "store"} => step.on \in Transactions /\ step.with \in Timers
           /\ step.what = "scan" => step.at \in Nat
           /\ step.what = "look" => step.with \in {"hangup", "shutdown", "request"}
           /\ step.what \in {"act", "enter", "leave", "find", "schedule", "store", "create"} =>
                 step = Do(step.what, step.on, step.with)
           /\ step.what \in {"over", "remove", "lock", "unlock", "unref"} =>
                 step = Do(step.what, step.on, "none")
  <1>1. CASE step \in [what : {"act", "enter", "leave"}, on : Machines, with : Actions, at : {0}]
    BY <1>1 DEF Do, DoAt
  <1>2. CASE step \in [what : {"over", "remove"}, on : Machines, with : {"none"}, at : {0}]
    BY <1>2 DEF Do, DoAt
  <1>3. CASE step \in [what : {"lock"}, on : Locks \ Machines, with : {"none"}, at : {0}]
    BY <1>3 DEF Do, DoAt
  <1>4. CASE step \in [what : {"unlock"}, on : Locks, with : {"none"}, at : {0}]
    BY <1>4 DEF Do, DoAt
  <1>5. CASE step \in {Do("create", "client", "send"), Do("create", "server", "request")}
    <2>1. PICK on, with : /\ step = Do("create", on, with)
                          /\ \/ on = "client" /\ with = "send"
                             \/ on = "server" /\ with = "request"
      BY <1>5
    <2>2. step.what = "create" /\ step.on = on /\ step.with = with
      BY <2>1, StepFields
    <2>3. QED
      BY <2>1, <2>2
  <1>6. CASE step \in [what : {"find"}, on : Transactions, with : Actions, at : {0}]
    BY <1>6 DEF Do, DoAt
  <1>7. CASE step \in [what : {"unref"}, on : Transactions, with : {"none"}, at : {0}]
    BY <1>7 DEF Do, DoAt
  <1>8. CASE step \in [what : {"schedule", "store"}, on : Transactions, with : Timers, at : {0}]
    BY <1>8 DEF Do, DoAt
  <1>9. CASE step \in [what : {"scan"}, on : {"none"}, with : {"none"}, at : Nat]
    BY <1>9 DEF Do, DoAt
  <1>10. CASE step \in {Do("look", "dialog", for) : for \in {"hangup", "shutdown", "request"}}
    <2>1. PICK with \in {"hangup", "shutdown", "request"} : step = Do("look", "dialog", with)
      BY <1>10
    <2>2. step.what = "look" /\ step.with = with
      BY <2>1, StepFields
    <2>3. QED
      BY <2>2
  <1>11. CASE step \in {Do("hangup", "dialog", "none")}
    <2>1. step = Do("hangup", "dialog", "none")
      BY <1>11
    <2>2. step.what = "hangup"
      BY <2>1, StepFields
    <2>3. QED
      BY <2>2
  <1>12. QED
    BY <1>1, <1>2, <1>3, <1>4, <1>5, <1>6, <1>7, <1>8, <1>9, <1>10, <1>11 DEF Steps

\* The steps a thread may have to do.
LEMMA StepType ==
    /\ \A m \in Machines, w \in Actions : /\ Act(m, w) \in Steps /\ Do("enter", m, w) \in Steps
                                         /\ Do("leave", m, w) \in Steps
    /\ \A m \in Machines : Do("over", m, "none") \in Steps /\ Do("remove", m, "none") \in Steps
    /\ \A l \in Locks : Unlock(l) \in Steps
    /\ \A l \in Locks \ Machines : Lock(l) \in Steps
    /\ Do("create", "client", "send") \in Steps /\ Do("create", "server", "request") \in Steps
    /\ \A x \in Transactions, w \in Actions : Do("find", x, w) \in Steps
    /\ \A x \in Transactions : Do("unref", x, "none") \in Steps
    /\ \A x \in Transactions, w \in Timers : /\ Do("schedule", x, w) \in Steps
                                             /\ Do("store", x, w) \in Steps
    /\ \A i \in Nat : DoAt("scan", "none", "none", i) \in Steps
    /\ \A w \in {"hangup", "shutdown", "request"} : Do("look", "dialog", w) \in Steps
    /\ Do("hangup", "dialog", "none") \in Steps
  BY DEF Steps, Do, DoAt, Act, Lock, Unlock

\* What takes the place of a step is steps.
LEMMA ReplacementType ==
    ASSUME NEW step \in Steps, NEW a, Replaces(step, a)
    PROVE  a \in Seq(Steps)
  <1> DEFINE what == step.what
             on == step.on
             with == step.with
  <1>1. \A x, y, z, w \in Steps :
           {<<>>, <<x>>, <<x, y>>, <<x, y, z>>, <<x, y, z, w>>} \subseteq Seq(Steps)
    BY Short
  <1>2. <<>> \in Seq(Steps)
    OBVIOUS
  <1>3. CASE what \in {"act", "leave", "over"}
    <2>1. on \in Machines /\ (what # "over" => with \in Actions)
      BY <1>3, StepKinds
    <2>2. \/ a = <<>>
          \/ \E x \in Steps : a = <<x>>
      BY <1>3, <2>1, StepType DEF Replaces
    <2>3. QED
      BY <1>1, <1>2, <2>2
  <1>4. CASE what = "enter"
    <2>1. on \in Machines /\ with \in Actions
      BY <1>4, StepKinds
    <2>2. CASE a = <<Unlock(on)>>
      BY <1>1, <2>1, <2>2, StepType, Names
    <2>3. CASE InRow(on, with, a)
      <3> DEFINE last == Do("leave", on, with)
      <3>1. last \in Steps
        BY <2>1, StepType
      <3>2. /\ Do("find", "server", "send_200") \in Steps
            /\ Lock("transac_layer") \in Steps /\ Unlock("transac_layer") \in Steps
            /\ DoAt("scan", "none", "none", 0) \in Steps
            /\ \A w \in Responses \cup {"notify", "transporterror"} : Act("dialog", w) \in Steps
            /\ \A x \in Transactions, w \in Timers : Do("schedule", x, w) \in Steps
            /\ Do("create", "client", "send") \in Steps
        BY StepType, Names DEF Actions
      <3> HIDE DEF last
      <3>3. \/ a = <<last>>
            \/ \E x \in Steps : a = <<x, last>>
            \/ \E x, y \in Steps : a = <<x, y, last>>
            \/ \E x, y, z \in Steps : a = <<x, y, z, last>>
        BY <2>3, <3>2, Names DEF InRow, last, Timers
      <3>4. QED
        BY <1>1, <3>1, <3>3
    <2>4. QED
      BY <1>4, <2>2, <2>3, BodyInRow DEF Replaces
  <1>5. CASE what \in {"create", "find"}
    <2>1. with \in Actions /\ (what = "find" => on \in Transactions)
      BY <1>5, StepKinds DEF Actions
    <2>2. a = <<>> \/ \E x, y \in Steps : a = <<x, y>>
      BY <1>5, <2>1, StepType, Names DEF Replaces
    <2>3. QED
      BY <1>1, <1>2, <2>2
  <1>6. CASE what \in {"scan", "look", "hangup"}
    <2>1. {"cancel", "shutdown", "hangup"} \subseteq Actions
      BY DEF Actions
    <2>2. \/ a = <<>>
          \/ \E x \in Steps : a = <<x>>
          \/ \E x, y \in Steps : a = <<x, y>>
          \/ \E x, y, z \in Steps : a = <<x, y, z>>
      BY <1>6, <2>1, StepType, Names DEF Replaces
    <2>3. QED
      BY <1>1, <1>2, <2>2
  <1>7. CASE what = "schedule"
    <2>1. Do("store", on, with) \in Steps
      BY <1>7, StepKinds, StepType
    <2>2. a = <<Do("store", on, with)>>
      BY <1>7 DEF Replaces
    <2>3. QED
      BY <1>1, <2>1, <2>2
  <1>8. QED
    BY <1>2, <1>3, <1>4, <1>5, <1>6, <1>7 DEF Replaces

------------------------------------------------------------------------------
\* What a row leaves to do, by the names of its steps.
LEMMA InRowNames ==
    ASSUME NEW m \in Machines, NEW action \in Actions, NEW a, InRow(m, action, a)
    PROVE  \/ Len(a) = 1 /\ a[1].what = "leave"
           \/ Len(a) = 2 /\ a[1].what \in {"create", "find", "act", "schedule"} /\ a[2].what = "leave"
           \/ Len(a) = 3 /\ a[1].what = "act" /\ a[2].what = "schedule" /\ a[3].what = "leave"
           \/ /\ Len(a) = 4 /\ a[1] = Lock("transac_layer") /\ a[2].what = "scan"
              /\ a[3] = Unlock("transac_layer") /\ a[4].what = "leave"
  BY DEF InRow, Do, DoAt, Act, Lock, Unlock

\* A transaction is cancelled in a row that does nothing else.
LEMMA CancelRow ==
    ASSUME NEW x \in Transactions, NEW a, InRow(x, "cancel", a)
    PROVE  a = <<Do("leave", x, "cancel")>>
  BY Names DEF InRow, Responses

\* How a step and what replaces it are nested.
Nests(step, a) ==
    /\ \A i \in 1..Len(a) : a[i].what = "lock" => i = 1
    /\ \A i \in 1..Len(a) : a[i].what = "scan" =>
          /\ i = 2
          /\ \/ Len(a) >= 3 /\ a[3] = Unlock("transac_layer") /\ a[1] = Lock("transac_layer")
             \/ Len(a) = 2 /\ step.what = "scan" /\ Cancelling(a[1])
    /\ step.what = "lock" => Len(a) = 0
    /\ Cancelling(step) => Len(a) = 0 \/ (Len(a) = 1 /\ Cancelling(a[1]))

\* A step is replaced by steps that are well nested.
LEMMA ReplacementNests ==
    ASSUME NEW step \in Steps, NEW a, Replaces(step, a)
    PROVE  Nests(step, a)
  <1>1. CASE a = <<>>
    BY <1>1 DEF Nests
  <1>2. CASE step.what = "act" /\ a = <<Do("enter", step.on, step.with)>>
    BY <1>2, StepFields DEF Nests, Cancelling
  <1>3. CASE step.what = "enter"
    <2>1. step.on \in Machines /\ step.with \in Actions
      BY <1>3, StepKinds
    <2>2. CASE a = <<Unlock(step.on)>>
      BY <1>3, <2>2 DEF Nests, Cancelling, Unlock, Do, DoAt
    <2>3. CASE InRow(step.on, step.with, a)
      <3>1. Cancelling(step) => Len(a) = 1 /\ Cancelling(a[1])
        <4>1. SUFFICES ASSUME Cancelling(step)
                       PROVE  Len(a) = 1 /\ Cancelling(a[1])
          OBVIOUS
        <4>2. step.on \in Transactions /\ step.with = "cancel"
          BY <1>3, <4>1 DEF Cancelling
        <4>3. a = <<Do("leave", step.on, "cancel")>>
          BY <2>3, <4>2, CancelRow
        <4>4. QED
          BY <4>2, <4>3 DEF Cancelling, Do, DoAt
      <3>2. QED
        <4>1. \/ Len(a) = 1 /\ a[1].what = "leave"
              \/ Len(a) = 2 /\ a[1].what \in {"create", "find", "act", "schedule"} /\ a[2].what = "leave"
              \/ Len(a) = 3 /\ a[1].what = "act" /\ a[2].what = "schedule" /\ a[3].what = "leave"
              \/ /\ Len(a) = 4 /\ a[1] = Lock("transac_layer") /\ a[2].what = "scan"
                 /\ a[3] = Unlock("transac_layer") /\ a[4].what = "leave"
          BY <2>1, <2>3, InRowNames
        <4>2. \A l : Lock(l).what = "lock" /\ Unlock(l).what = "unlock"
          BY DEF Lock, Unlock, Do, DoAt
        <4>3. \A i \in 1..Len(a) : a[i].what = "lock" => i = 1
          BY <4>1, <4>2
        <4>4. \A i \in 1..Len(a) : a[i].what = "scan" =>
                 i = 2 /\ Len(a) >= 3 /\ a[3] = Unlock("transac_layer") /\ a[1] = Lock("transac_layer")
          BY <4>1, <4>2
        <4>5. QED
          BY <1>3, <3>1, <4>3, <4>4 DEF Nests
    <2>4. QED
      BY <1>3, <2>2, <2>3, BodyInRow DEF Replaces
  <1>4. CASE step.what = "leave" /\ a = <<Do("over", step.on, "none")>>
    BY <1>4, StepFields DEF Nests, Cancelling
  <1>5. CASE step.what = "over" /\ a = <<Do("remove", step.on, "none")>>
    BY <1>5, StepFields DEF Nests, Cancelling
  <1>6. CASE step.what = "create"
    BY <1>6 DEF Replaces, Nests, Cancelling, Act, Do, DoAt
  <1>7. CASE step.what = "find"
    BY <1>7 DEF Replaces, Nests, Cancelling, Act, Do, DoAt
  <1>8. CASE step.what = "scan"
    BY <1>8 DEF Replaces, Nests, Cancelling, Act, Do, DoAt
  <1>9. CASE step.what = "look"
    <2>1. \/ a = <<>> \/ \E x : a = <<x>> /\ x.what \notin {"lock", "scan"}
          \/ \E x, y, z : a = <<x, y, z>> /\ x.what = "lock" /\ y.what = "act" /\ z.what = "unlock"
      BY <1>9, StepFields DEF Replaces, Act, Lock, Unlock
    <2>2. ~Cancelling(step)
      BY <1>9 DEF Cancelling
    <2>3. CASE a = <<>>
      BY <2>3 DEF Nests
    <2>4. CASE \E x : a = <<x>> /\ x.what \notin {"lock", "scan"}
      <3>1. Len(a) = 1 /\ a[1].what \notin {"lock", "scan"}
        BY <2>4
      <3>2. QED
        BY <1>9, <2>2, <3>1 DEF Nests
    <2>5. CASE \E x, y, z : a = <<x, y, z>> /\ x.what = "lock" /\ y.what = "act" /\ z.what = "unlock"
      <3>1. Len(a) = 3 /\ a[1].what = "lock" /\ a[2].what = "act" /\ a[3].what = "unlock"
        BY <2>5
      <3>2. \A i \in 1..Len(a) : a[i].what # "scan" /\ (a[i].what = "lock" => i = 1)
        BY <3>1
      <3>3. QED
        BY <1>9, <2>2, <3>2 DEF Nests
    <2>6. QED
      BY <2>1, <2>3, <2>4, <2>5
  <1>10. CASE step.what = "hangup"
    BY <1>10 DEF Replaces, Nests, Cancelling, Act, Do, DoAt
  <1>11. CASE step.what = "schedule"
    <2>1. a = <<Do("store", step.on, step.with)>> /\ ~Cancelling(step)
      BY <1>11 DEF Replaces, Cancelling
    <2>2. Len(a) = 1 /\ a[1].what = "store"
      BY <2>1, StepFields
    <2>3. QED
      BY <1>11, <2>1, <2>2 DEF Nests
  <1>12. QED
    BY <1>1, <1>2, <1>3, <1>4, <1>5, <1>6, <1>7, <1>8, <1>9, <1>10, <1>11 DEF Replaces

\* A thread stays well nested.
LEMMA NestingKept ==
    ASSUME NEW s \in Seq(Steps), NEW a \in Seq(Steps), NEW n \in Seq(Steps), s # <<>>,
           Spliced(s, a, n), Nests(s[1], a), WellNested(s)
    PROVE  WellNested(n)
  <1> USE DEF Spliced
  <1>1. ASSUME NEW k \in DOMAIN n, n[k].what = "lock"
        PROVE  k = 1
    <2>1. CASE k \in 1..Len(a)
      BY <1>1, <2>1 DEF Nests
    <2>2. CASE k \in (Len(a) + 1)..Len(n)
      <3> DEFINE i == k - Len(a) + 1
      <3>1. i \in 2..Len(s) /\ s[i].what = "lock"
        BY <1>1, <2>2
      <3>2. QED
        BY <3>1 DEF WellNested
    <2>3. QED
      BY <2>1, <2>2
  <1>2. ASSUME NEW k \in DOMAIN n, n[k].what = "scan"
        PROVE  /\ k < Len(n) /\ n[k + 1] = Unlock("transac_layer")
               /\ k = 1 \/ (k = 2 /\ (n[1] = Lock("transac_layer") \/ Cancelling(n[1])))
    <2>1. CASE k \in 1..Len(a)
      <3>1. k = 2 /\ a[k].what = "scan" /\ n[1] = a[1]
        BY <1>2, <2>1 DEF Nests
      <3>2. CASE Len(a) >= 3 /\ a[3] = Unlock("transac_layer") /\ a[1] = Lock("transac_layer")
        BY <3>1, <3>2
      <3>3. CASE Len(a) = 2 /\ s[1].what = "scan" /\ Cancelling(a[1])
        <4>1. 1 < Len(s) /\ s[2] = Unlock("transac_layer")
          <5>1. 1 \in DOMAIN s
            OBVIOUS
          <5>2. QED
            BY <3>3, <5>1 DEF WellNested
        <4>2. n[3] = s[2] /\ 2 < Len(n)
          BY <3>3, <4>1
        <4>3. QED
          BY <3>1, <3>3, <4>1, <4>2
      <3>4. QED
        BY <2>1, <3>1, <3>2, <3>3 DEF Nests
    <2>2. CASE k \in (Len(a) + 1)..Len(n)
      <3> DEFINE i == k - Len(a) + 1
      <3>1. i \in 2..Len(s) /\ s[i].what = "scan" /\ k = Len(a) + i - 1
        <4>1. i \in 2..Len(s) /\ n[k] = s[i]
          BY <2>2
        <4>2. QED
          BY <1>2, <2>2, <4>1
      <3> HIDE DEF i
      <3>2. /\ i < Len(s) /\ s[i + 1] = Unlock("transac_layer")
            /\ i = 2 /\ (s[1] = Lock("transac_layer") \/ Cancelling(s[1]))
        <4>1. i \in DOMAIN s /\ i # 1
          BY <3>1
        <4>2. /\ i < Len(s) /\ s[i + 1] = Unlock("transac_layer")
              /\ i = 1 \/ (i = 2 /\ (s[1] = Lock("transac_layer") \/ Cancelling(s[1])))
          BY <3>1, <4>1, Zenon DEF WellNested
        <4>3. QED
          BY <4>1, <4>2
      <3>3. n[k + 1] = s[i + 1] /\ k < Len(n)
        <4>1. i + 1 \in 2..Len(s) /\ Len(a) + (i + 1) - 1 = k + 1
          BY <3>1, <3>2
        <4>2. QED
          BY <3>1, <3>2, <4>1
      <3>4. Len(a) = 0 \/ (Len(a) = 1 /\ Cancelling(a[1]))
        BY <3>2 DEF Nests, Lock, Do, DoAt
      <3>5. k = 1 \/ (k = 2 /\ Cancelling(n[1]))
        BY <3>1, <3>2, <3>4
      <3>6. QED
        BY <3>2, <3>3, <3>5
    <2>3. QED
      BY <2>1, <2>2
  <1>3. QED
    BY <1>1, <1>2 DEF WellNested

\* A step that passes a request to the dialog is followed by the end of its row.
Passes(step) == step \in {Act("dialog", "notify"), Do("enter", "dialog", "notify")}
PassesItOn(step, a) == \A i \in 1..Len(a) : Passes(a[i]) =>
    \/ i < Len(a) /\ a[i + 1] = Do("leave", "server", "request")
    \/ Len(a) = 1 /\ Passes(step)

\* The steps that replace one of them keep a request they pass inside its row.
LEMMA ReplacementPasses ==
    ASSUME NEW step \in Steps, NEW a, Replaces(step, a)
    PROVE  PassesItOn(step, a)
  <1>1. \A what, on, with : Passes(Do(what, on, with)) <=>
           what \in {"act", "enter"} /\ on = "dialog" /\ with = "notify"
    BY DEF Passes, Act, Do, DoAt
  <1>2. \A on, with : Act(on, with) = Do("act", on, with)
    BY DEF Act
  <1>3. /\ \A l : ~Passes(Lock(l)) /\ ~Passes(Unlock(l))
        /\ \A i : ~Passes(DoAt("scan", "none", "none", i))
    BY DEF Passes, Act, Do, DoAt, Lock, Unlock
  <1> HIDE DEF Passes
  <1>4. CASE a = <<>>
    BY <1>4 DEF PassesItOn
  <1>5. CASE step.what = "act" /\ a = <<Do("enter", step.on, step.with)>>
    <2>1. step = Do("act", step.on, step.with)
      BY <1>5, StepKinds
    <2>2. Passes(a[1]) => Passes(step)
      BY <1>1, <1>5, <2>1
    <2>3. QED
      BY <1>5, <2>2 DEF PassesItOn
  <1>6. CASE step.what = "enter"
    <2>1. CASE a = <<Unlock(step.on)>>
      BY <1>3, <2>1 DEF PassesItOn
    <2>2. CASE InRow(step.on, step.with, a)
      <3>1. CASE step.on = "server" /\ step.with = "request"
        BY <1>1, <1>2, <2>2, <3>1, Names DEF InRow, PassesItOn
      <3>2. CASE ~(step.on = "server" /\ step.with = "request")
        <4>1. \A w \in Responses \cup {"transporterror"} : w # "notify"
          BY DEF Responses
        <4>2. \A i \in 1..Len(a) : ~Passes(a[i])
          BY <1>1, <1>2, <1>3, <2>2, <3>2, <4>1 DEF InRow
        <4>3. QED
          BY <4>2 DEF PassesItOn
      <3>3. QED
        BY <3>1, <3>2
    <2>3. QED
      BY <1>6, <2>1, <2>2, BodyInRow DEF Replaces
  <1>7. CASE step.what \in {"leave", "over", "schedule"}
    BY <1>1, <1>7 DEF Replaces, PassesItOn
  <1>8. CASE step.what \in {"create", "find"}
    BY <1>1, <1>2, <1>8, StepKinds, Names DEF Replaces, PassesItOn
  <1>9. CASE step.what = "scan"
    BY <1>1, <1>2, <1>3, <1>9, Names DEF Replaces, PassesItOn
  <1>10. CASE step.what \in {"look", "hangup"}
    BY <1>1, <1>2, <1>3, <1>10 DEF Replaces, PassesItOn
  <1>11. QED
    BY <1>4, <1>5, <1>6, <1>7, <1>8, <1>9, <1>10 DEF Replaces

\* A request that is passed to the dialog stays inside its row.
LEMMA PassingKept ==
    ASSUME NEW s \in Seq(Steps), NEW a \in Seq(Steps), NEW n \in Seq(Steps), s # <<>>,
           Spliced(s, a, n), PassesItOn(s[1], a), NotifyIsPassedOn(s)
    PROVE  NotifyIsPassedOn(n)
  <1> USE DEF Spliced
  <1> DEFINE end == Do("leave", "server", "request")
  <1>1. ASSUME NEW i \in DOMAIN s, Passes(s[i])
        PROVE  i < Len(s) /\ s[i + 1] = end
    BY <1>1 DEF NotifyIsPassedOn, Passes
  <1> HIDE DEF end
  <1>2. ASSUME NEW k \in DOMAIN n, Passes(n[k])
        PROVE  k < Len(n) /\ n[k + 1] = end
    <2>1. CASE k \in 1..Len(a)
      <3>1. CASE k < Len(a) /\ a[k + 1] = end
        BY <2>1, <3>1
      <3>2. CASE Len(a) = 1 /\ Passes(s[1])
        <4>1. 1 < Len(s) /\ s[2] = end
          BY <1>1, <3>2
        <4>2. n[2] = s[2]
          BY <3>2, <4>1
        <4>3. QED
          BY <2>1, <3>2, <4>1, <4>2
      <3>3. QED
        BY <1>2, <2>1, <3>1, <3>2 DEF PassesItOn, end
    <2>2. CASE k \in (Len(a) + 1)..Len(n)
      <3> DEFINE i == k - Len(a) + 1
      <3>1. i \in 2..Len(s) /\ s[i] = n[k] /\ k = Len(a) + i - 1
        BY <2>2
      <3> HIDE DEF i
      <3>2. i < Len(s) /\ s[i + 1] = end
        <4>1. i \in DOMAIN s /\ Passes(s[i])
          BY <1>2, <3>1
        <4>2. QED
          BY <1>1, <4>1
      <3>3. i + 1 \in 2..Len(s) /\ Len(a) + (i + 1) - 1 = k + 1
        BY <3>1, <3>2
      <3>4. QED
        BY <3>1, <3>2, <3>3
    <2>3. QED
      BY <2>1, <2>2
  <1>3. QED
    BY <1>2 DEF NotifyIsPassedOn, Passes, end

\* How a step and what replaces it are inside a row of the dialog.
EndsRow(step) == step.what = "leave" /\ step.on = "dialog"
StaysInside(step, a) ==
    /\ Inner(step) => \A i \in 1..Len(a) : Inner(a[i]) /\ ~EndsRow(a[i])
    /\ \A j \in 1..Len(a) : EndsRow(a[j]) => \A i \in 1..(j - 1) : Inner(a[i])

\* What replaces a step inside a row of the dialog is inside it too.
LEMMA ReplacementInside ==
    ASSUME NEW step \in Steps, NEW a, Replaces(step, a)
    PROVE  StaysInside(step, a)
  <1>1. \A what, on, with :
           /\ EndsRow(Do(what, on, with)) <=> what = "leave" /\ on = "dialog"
           /\ Inner(Do(what, on, with)) <=>
                 /\ what \notin {"look", "hangup"}
                 /\ what \in {"act", "enter", "create", "find"} =>
                       on # "dialog" /\ with \in {"send", "send_200", "cancel"}
    BY DEF EndsRow, Inner, Do, DoAt
  <1>2. \A on, with : Act(on, with) = Do("act", on, with)
    BY DEF Act
  <1>3. /\ \A l : /\ Inner(Lock(l)) /\ Inner(Unlock(l))
                  /\ ~EndsRow(Lock(l)) /\ ~EndsRow(Unlock(l))
        /\ \A i : Inner(DoAt("scan", "none", "none", i)) /\ ~EndsRow(DoAt("scan", "none", "none", i))
    BY DEF EndsRow, Inner, Do, DoAt, Lock, Unlock
  <1>4. step.what \in {"look", "hangup"} => ~Inner(step)
    BY DEF Inner
  <1>5. step.what \in {"act", "enter", "create", "find"} /\ Inner(step) =>
           step.on # "dialog" /\ step.with \in {"send", "send_200", "cancel"}
    BY DEF Inner
  <1> HIDE DEF Inner, EndsRow
  <1>6. CASE a = <<>>
    BY <1>6 DEF StaysInside
  <1>7. CASE step.what = "act" /\ a = <<Do("enter", step.on, step.with)>>
    BY <1>1, <1>5, <1>7 DEF StaysInside
  <1>8. CASE step.what = "enter"
    <2>1. CASE a = <<Unlock(step.on)>>
      BY <1>3, <2>1 DEF StaysInside
    <2>2. CASE InRow(step.on, step.with, a)
      <3>1. CASE step.on = "dialog"
        <4>1. ~Inner(step)
          BY <1>5, <1>8, <3>1
        <4>2. \/ Len(a) = 1
              \/ Len(a) = 2 /\ a[1] \in {Do("create", "client", "send"), Do("find", "server", "send_200")}
              \/ /\ Len(a) = 4 /\ a[1] = Lock("transac_layer") /\ a[3] = Unlock("transac_layer")
                 /\ a[2] = DoAt("scan", "none", "none", 0)
          BY <2>2, <3>1, Names DEF InRow
        <4>3. \A j \in 1..Len(a) : j = Len(a) \/ (Inner(a[j]) /\ ~EndsRow(a[j]))
          <5>1. /\ \A x \in {Do("create", "client", "send"), Do("find", "server", "send_200")} :
                      Inner(x) /\ ~EndsRow(x)
                /\ Inner(Lock("transac_layer")) /\ Inner(Unlock("transac_layer"))
                /\ ~EndsRow(Lock("transac_layer")) /\ ~EndsRow(Unlock("transac_layer"))
                /\ Inner(DoAt("scan", "none", "none", 0))
                /\ ~EndsRow(DoAt("scan", "none", "none", 0))
            BY <1>1, <1>3
          <5>2. CASE Len(a) = 1
            BY <5>2
          <5>3. CASE Len(a) = 2
            BY <4>2, <5>1, <5>3
          <5>4. CASE Len(a) = 4
            <6>1. \A j \in 1..Len(a) : j = 4 \/ j = 3 \/ j = 2 \/ j = 1
              BY <5>4
            <6>2. QED
              BY <4>2, <5>1, <5>4, <6>1
          <5>5. QED
            BY <4>2, <5>2, <5>3, <5>4
        <4>4. Len(a) \in Nat
          BY <4>2
        <4>5. QED
          BY <4>1, <4>3, <4>4 DEF StaysInside
      <3>2. CASE step.on # "dialog"
        <4>1. step.on \in Transactions
          BY <1>8, <3>2, StepKinds, Names
        <4>2. \A j \in 1..Len(a) : ~EndsRow(a[j])
          BY <1>1, <1>2, <1>3, <2>2, <3>2 DEF InRow
        <4>3. ASSUME step.with \in {"send", "send_200", "cancel"}
              PROVE  \A j \in 1..Len(a) : Inner(a[j])
          BY <1>1, <1>2, <1>3, <2>2, <3>2, <4>3 DEF InRow, Responses
        <4>4. QED
          BY <1>5, <1>8, <4>2, <4>3 DEF StaysInside
      <3>3. QED
        BY <3>1, <3>2
    <2>3. QED
      BY <1>8, <2>1, <2>2, BodyInRow DEF Replaces
  <1>9. CASE step.what \in {"leave", "over", "schedule"}
    BY <1>1, <1>9 DEF Replaces, StaysInside
  <1>10. CASE step.what \in {"create", "find"}
    BY <1>1, <1>2, <1>5, <1>10, StepKinds, Names DEF Replaces, StaysInside
  <1>11. CASE step.what = "scan"
    BY <1>1, <1>2, <1>3, <1>11, Names DEF Replaces, StaysInside
  <1>12. CASE step.what \in {"look", "hangup"}
    BY <1>1, <1>2, <1>3, <1>4, <1>12 DEF Replaces, StaysInside
  <1>13. QED
    BY <1>6, <1>7, <1>8, <1>9, <1>10, <1>11, <1>12 DEF Replaces

\* No row of the dialog comes to be executed inside another.
LEMMA InsideKept ==
    ASSUME NEW s \in Seq(Steps), NEW a \in Seq(Steps), NEW n \in Seq(Steps), s # <<>>,
           Spliced(s, a, n), StaysInside(s[1], a), RowsAreNotNested(s)
    PROVE  RowsAreNotNested(n)
  <1> USE DEF Spliced
  <1>1. ASSUME NEW k \in DOMAIN n, EndsRow(n[k]), NEW i \in 1..(k - 1)
        PROVE  Inner(n[i])
    <2>1. CASE k \in 1..Len(a)
      <3>1. n[k] = a[k] /\ n[i] = a[i]
        BY <2>1
      <3>2. QED
        BY <1>1, <2>1, <3>1 DEF StaysInside
    <2>2. CASE k \in (Len(a) + 1)..Len(n)
      <3> DEFINE j == k - Len(a) + 1
      <3>1. j \in 2..Len(s) /\ s[j] = n[k]
        BY <2>2
      <3> HIDE DEF j
      <3>2. \A h \in 1..(j - 1) : Inner(s[h])
        <4>1. j \in DOMAIN s /\ s[j].what = "leave" /\ s[j].on = "dialog"
          BY <1>1, <3>1 DEF EndsRow
        <4>2. QED
          BY <4>1 DEF RowsAreNotNested
      <3>3. CASE i \in 1..Len(a)
        <4>1. Inner(s[1])
          BY <3>1, <3>2
        <4>2. QED
          BY <3>3, <4>1 DEF StaysInside
      <3>4. CASE i \in (Len(a) + 1)..Len(n)
        <4>1. i - Len(a) + 1 \in 1..(j - 1) /\ n[i] = s[i - Len(a) + 1]
          BY <2>2, <3>4 DEF j
        <4>2. QED
          BY <3>2, <4>1
      <3>5. QED
        BY <2>2, <3>3, <3>4
    <2>3. QED
      BY <2>1, <2>2
  <1>2. QED
    BY <1>1 DEF RowsAreNotNested, EndsRow

------------------------------------------------------------------------------
\* Thread t does its first step and has a to do instead.
Turn(t, a) ==
    /\ todo[t] # <<>> /\ a \in Seq(Steps) /\ Replaces(todo[t][1], a)
    /\ todo' = [todo EXCEPT ![t] = a \o Tail(@)]

\* Thread t, which had nothing to do, begins with a step.
Begins(t, step) ==
    /\ todo[t] = <<>> /\ todo' = [todo EXCEPT ![t] = <<step>>]
    /\ step \in Steps /\ step.what \in {"look", "find", "act"}
    /\ step.what \in {"find", "act"} => step.on \in Transactions

\* The first step.
LEMMA FirstStep ==
    ASSUME TypeOK, NEW t \in Threads, todo[t] # <<>>
    PROVE  /\ todo[t] \in Seq(Steps) /\ Head(todo[t]) = todo[t][1] /\ todo[t][1] \in Steps
           /\ On(t) = todo[t][1].on /\ With(t) = todo[t][1].with
           /\ DOMAIN todo[t] = 1..Len(todo[t]) /\ Len(todo[t]) \in Nat \ {0}
  <1>1. todo[t] \in Seq(Steps)
    BY DEF TypeOK
  <1>2. Head(todo[t]) = todo[t][1] /\ todo[t][1] \in Steps
    BY <1>1
  <1>3. QED
    BY <1>1, <1>2, LenProperties, EmptySeq DEF On, With

\* What every thread has to do after a turn.
LEMMA TurnFacts ==
    ASSUME TypeOK, NEW t \in Threads, NEW a, Turn(t, a)
    PROVE  /\ todo' \in [Threads -> Seq(Steps)]
           /\ \A u \in Threads \ {t} : todo'[u] = todo[u]
           /\ Spliced(todo[t], a, todo'[t])
           /\ todo[t] \in Seq(Steps) /\ todo'[t] \in Seq(Steps) /\ a \in Seq(Steps)
  <1>1. todo \in [Threads -> Seq(Steps)] /\ todo[t] \in Seq(Steps)
    BY DEF TypeOK
  <1>2. a \o Tail(todo[t]) \in Seq(Steps) /\ Spliced(todo[t], a, a \o Tail(todo[t]))
    BY <1>1, Splicing DEF Turn
  <1>3. QED
    BY <1>1, <1>2 DEF Turn

\* The numbers and the transactions in the list.
LEMMA ListedFacts ==
    ASSUME TypeOK
    PROVE  /\ Len(listed) \in Nat /\ DOMAIN listed = 1..Len(listed)
           /\ \A i \in DOMAIN listed : listed[i] \in Transactions
           /\ ToSet(listed) \subseteq Transactions
           /\ \A x : Contains(listed, x) <=> x \in ToSet(listed)
  <1>1. listed \in Seq(Transactions)
    BY DEF TypeOK
  <1>2. Len(listed) \in Nat /\ DOMAIN listed = 1..Len(listed)
    BY <1>1, LenProperties
  <1>3. \A i \in DOMAIN listed : listed[i] \in Transactions
    BY <1>1, <1>2, ElementOfSeq
  <1>4. ToSet(listed) \subseteq Transactions
    BY <1>3, Zenon DEF ToSet
  <1>5. ASSUME NEW x
        PROVE  Contains(listed, x) <=> x \in ToSet(listed)
    BY <1>2, Zenon DEF Contains, ToSet
  <1>6. QED
    BY <1>2, <1>3, <1>4, <1>5

\* Every step of a thread is a turn.
LEMMA StepIsTurn ==
    ASSUME TypeOK, NEW t \in Threads, Step(t)
    PROVE  \E a : Turn(t, a)
  <1> DEFINE s == todo[t]
             m == On(t)
  <1>1. s # <<>>
    BY DEF Step, Test, Enter, Leave, Over, TakesLock, ReleasesLock, Create, Find, Unref,
           Schedule, Store, RemovesIt, Scan, Look, Hangup, Ready
  <1>2. /\ s \in Seq(Steps) /\ Head(s) = s[1] /\ s[1] \in Steps
        /\ m = s[1].on /\ With(t) = s[1].with
    BY <1>1, FirstStep
  <1>3. SUFFICES \E a : Replaces(s[1], a) /\ todo' = [todo EXCEPT ![t] = a \o Tail(@)]
    BY <1>1, <1>2, ReplacementType DEF Turn
  <1>4. CASE Test(t)
    BY <1>2, <1>4 DEF Test, Then, Ready, Replaces
  <1>5. CASE Enter(t)
    <2>1. s[1].what = "enter" /\ m \in Machines
      BY <1>2, <1>5, StepKinds DEF Enter, Ready
    <2>2. CASE todo' = Then(t, <<Unlock(m)>>)
      BY <1>2, <2>1, <2>2 DEF Then, Replaces
    <2>3. CASE \E r \in Rows(m) : /\ r.action = With(t)
                                  /\ todo' = Then(t, Append(r.body, Do("leave", m, With(t))))
      <3>1. PICK r \in Rows(m) : /\ r.action = With(t)
                                 /\ todo' = Then(t, Append(r.body, Do("leave", m, With(t))))
        BY <2>3
      <3>2. BodyOf(m, r.action, r.body)
        BY <2>1, RowShape
      <3>3. Replaces(s[1], Append(r.body, Do("leave", m, With(t))))
        BY <1>2, <2>1, <3>1, <3>2 DEF Replaces
      <3>4. QED
        BY <3>1, <3>3 DEF Then
    <2>4. QED
      BY <1>5, <2>2, <2>3 DEF Enter
  <1>6. CASE Leave(t)
    BY <1>2, <1>6 DEF Leave, Then, Ready, Replaces
  <1>7. CASE Over(t)
    BY <1>2, <1>7 DEF Over, Then, Ready, Replaces
  <1>8. CASE TakesLock(t) \/ ReleasesLock(t)
    BY <1>2, <1>8 DEF TakesLock, ReleasesLock, Then, Ready, Replaces
  <1>9. CASE Create(t)
    <2>1. PICK x \in Transactions : todo' = Then(t, <<Act(x, With(t)), Do("unref", x, "none")>>)
      BY <1>9, Names DEF Create
    <2>2. QED
      BY <1>2, <1>9, <2>1 DEF Create, Then, Ready, Replaces
  <1>10. CASE Find(t)
    BY <1>2, <1>10 DEF Find, Then, Ready, Replaces
  <1>11. CASE Unref(t) \/ Schedule(t) \/ Store(t) \/ RemovesIt(t)
    BY <1>2, <1>11 DEF Unref, Schedule, Store, RemovesIt, Then, Ready, Replaces
  <1>12. CASE Scan(t)
    <2>1. s[1].what = "scan" /\ s[1].at \in Nat
      BY <1>2, <1>12, StepKinds DEF Scan, Ready
    <2>2. PICK i \in Nat \ {0} :
             todo' = Then(t, IF i > Len(listed) THEN <<>>
                             ELSE <<Act(listed[i], "cancel"), DoAt("scan", "none", "none", i)>>)
      <3> DEFINE j == IF s[1].at = 0 \/ ret[t] = "ok" THEN 1 ELSE s[1].at + 1
      <3>1. j \in Nat \ {0}
        BY <2>1
      <3>2. todo' = Then(t, IF j > Len(listed) THEN <<>>
                             ELSE <<Act(listed[j], "cancel"), DoAt("scan", "none", "none", j)>>)
        BY <1>2, <1>12 DEF Scan
      <3> HIDE DEF j
      <3>3. QED
        BY <3>1, <3>2
    <2>3. CASE i > Len(listed)
      BY <2>1, <2>2, <2>3 DEF Then, Replaces
    <2>4. CASE ~(i > Len(listed))
      <3>1. listed[i] \in Transactions
        BY <2>4, ListedFacts
      <3>2. QED
        BY <2>1, <2>2, <2>4, <3>1 DEF Then, Replaces
    <2>5. QED
      BY <2>3, <2>4
  <1>13. CASE Look(t)
    BY <1>2, <1>13 DEF Look, Then, Ready, Replaces
  <1>14. CASE Hangup(t)
    BY <1>2, <1>14 DEF Hangup, Then, Ready, Replaces
  <1>15. QED
    BY <1>4, <1>5, <1>6, <1>7, <1>8, <1>9, <1>10, <1>11, <1>12, <1>13, <1>14 DEF Step

\* A thread that had nothing to do begins to look for the dialog, to find a
\* transaction, or to act on one.
LEMMA BeginningIsBegins ==
    ASSUME TypeOK, StatesOfTheirOwn, Asks \/ Receives \/ Expires
    PROVE  \E t \in Threads, step \in Steps : Begins(t, step)
  <1>1. CASE Asks
    <2>1. Do("look", "dialog", user) \in Steps
      BY StepType DEF TypeOK
    <2>2. todo["user"] = <<>> /\ "user" \in Threads
      BY <1>1 DEF Asks, StatesOfTheirOwn, Threads
    <2>3. Begins("user", Do("look", "dialog", user))
      BY <1>1, <2>1, <2>2, StepFields DEF Asks, Begins
    <2>4. QED
      BY <2>2, <2>3 DEF Begins
  <1>2. CASE Receives
    <2>1. PICK m \in wire : todo' = [todo EXCEPT !["transport"] =
                                       IF m = "request" THEN <<Do("look", "dialog", "request")>>
                                       ELSE <<Do("find", First, m)>>]
      BY <1>2 DEF Receives
    <2>2. "transport" \in Threads /\ todo["transport"] = <<>>
      BY <1>2 DEF Receives, Threads
    <2>3. CASE m = "request"
      <3>1. Begins("transport", Do("look", "dialog", "request"))
        BY <2>1, <2>2, <2>3, StepFields, StepType DEF Begins
      <3>2. QED
        BY <2>2, <3>1 DEF Begins
    <2>4. CASE m # "request"
      <3>1. m \in Actions
        BY <2>4 DEF TypeOK, Actions
      <3>2. Begins("transport", Do("find", First, m))
        BY <2>1, <2>2, <2>4, <3>1, StepFields, StepType, Names DEF Begins
      <3>3. QED
        BY <2>2, <3>2 DEF Begins
    <2>5. QED
      BY <2>3, <2>4
  <1>3. CASE Expires
    <2>1. PICK d \in due : todo' = [todo EXCEPT !["timer"] = <<Act(d[1], d[2])>>]
      BY <1>3 DEF Expires
    <2>2. d[1] \in Transactions /\ d[2] \in Timers
      BY DEF TypeOK
    <2>3. "timer" \in Threads /\ todo["timer"] = <<>>
      BY <1>3 DEF Expires, Threads
    <2>4. Begins("timer", Act(d[1], d[2]))
      <3>1. Act(d[1], d[2]) \in Steps
        BY <2>2, StepType, Names DEF Actions
      <3>2. Act(d[1], d[2]).what = "act" /\ Act(d[1], d[2]).on = d[1]
        BY DEF Act, Do, DoAt
      <3>3. QED
        BY <2>1, <2>2, <2>3, <3>1, <3>2 DEF Begins
    <2>5. QED
      BY <2>3, <2>4 DEF Begins
  <1>4. QED
    BY <1>1, <1>2, <1>3

\* What every thread has to do after one began.
LEMMA BeginsFacts ==
    ASSUME TypeOK, NEW t \in Threads, NEW step, Begins(t, step)
    PROVE  /\ todo' \in [Threads -> Seq(Steps)]
           /\ \A u \in Threads \ {t} : todo'[u] = todo[u]
           /\ todo'[t] = <<step>> /\ DOMAIN todo'[t] = {1} /\ Len(todo'[t]) = 1
           /\ todo'[t][1] = step
  <1>1. todo \in [Threads -> Seq(Steps)] /\ <<step>> \in Seq(Steps)
    BY DEF TypeOK, Begins
  <1>2. QED
    BY <1>1 DEF Begins

\* A thread that begins is well formed.
LEMMA BeginsFormed ==
    ASSUME TypeOK, WellFormed, NEW t \in Threads, NEW step, Begins(t, step)
    PROVE  WellFormed'
  <1> DEFINE n == todo'[t]
  <1>1. DOMAIN n = {1} /\ n[1] = step /\ step \in Steps
        /\ step.what \in {"look", "find", "act"} /\ (step.what = "act" => step.on \in Transactions)
    BY BeginsFacts DEF Begins
  <1> HIDE DEF n
  <1>2. WellNested(n)
    BY <1>1 DEF WellNested
  <1>3. NotifyIsPassedOn(n)
    <2>1. \A x \in {Act("dialog", "notify"), Do("enter", "dialog", "notify")} :
             x.what \in {"act", "enter"} /\ x.on = "dialog"
      BY DEF Act, Do, DoAt
    <2>2. step \notin {Act("dialog", "notify"), Do("enter", "dialog", "notify")}
      BY <1>1, <2>1, Names
    <2>3. QED
      BY <1>1, <2>2 DEF NotifyIsPassedOn
  <1>4. RowsAreNotNested(n)
    BY <1>1 DEF RowsAreNotNested
  <1>5. QED
    BY <1>2, <1>3, <1>4, BeginsFacts DEF WellFormed, n

\* The threads stay well formed.
LEMMA FormKept ==
    ASSUME TypeOK, StatesOfTheirOwn, WellFormed,
           (\E t \in Threads : Step(t)) \/ Asks \/ Receives \/ Expires
    PROVE  WellFormed'
  <1>1. ASSUME NEW t \in Threads, Step(t)
        PROVE  WellFormed'
    <2>1. PICK a : Turn(t, a)
      BY <1>1, StepIsTurn
    <2>2. /\ \A u \in Threads \ {t} : todo'[u] = todo[u]
          /\ Spliced(todo[t], a, todo'[t])
          /\ todo[t] \in Seq(Steps) /\ todo'[t] \in Seq(Steps) /\ a \in Seq(Steps)
      BY <2>1, TurnFacts
    <2>3. todo[t] # <<>> /\ todo[t][1] \in Steps /\ Replaces(todo[t][1], a)
      BY <2>1, FirstStep DEF Turn
    <2>4. WellNested(todo[t]) /\ NotifyIsPassedOn(todo[t]) /\ RowsAreNotNested(todo[t])
      BY DEF WellFormed
    <2>5. WellNested(todo'[t])
      BY <2>2, <2>3, <2>4, ReplacementNests, NestingKept
    <2>6. NotifyIsPassedOn(todo'[t])
      BY <2>2, <2>3, <2>4, ReplacementPasses, PassingKept
    <2>7. RowsAreNotNested(todo'[t])
      BY <2>2, <2>3, <2>4, ReplacementInside, InsideKept
    <2>8. QED
      BY <2>2, <2>5, <2>6, <2>7 DEF WellFormed
  <1>2. QED
    BY <1>1, BeginningIsBegins, BeginsFormed

------------------------------------------------------------------------------
\* An element is removed from a sequence at a place.
LEMMA Deleting ==
    ASSUME NEW S, NEW s \in Seq(S), NEW p \in 1..Len(s)
    PROVE  /\ RemoveAt(s, p) \in Seq(S) /\ DOMAIN RemoveAt(s, p) = 1..(Len(s) - 1)
           /\ \A i \in 1..(Len(s) - 1) :
                 RemoveAt(s, p)[i] = IF i <= p - 1 THEN s[i] ELSE s[i + 1]
  <1>1. Len(s) \in Nat /\ DOMAIN s = 1..Len(s) /\ \A i \in 1..Len(s) : s[i] \in S
    BY LenProperties, ElementOfSeq
  <1>2. PICK f : f = SubSeq(s, 1, p - 1)
    OBVIOUS
  <1>3. PICK g : g = SubSeq(s, p + 1, Len(s))
    OBVIOUS
  <1>4. f \in Seq(S) /\ Len(f) = p - 1 /\ \A i \in 1..(p - 1) : f[i] = s[i]
    <2>1. \A i \in 1..(p - 1) : s[i] \in S
      BY <1>1
    <2>2. /\ f \in Seq(S) /\ Len(f) = IF 1 <= p - 1 THEN (p - 1) - 1 + 1 ELSE 0
          /\ \A i \in 1..((p - 1) - 1 + 1) : f[i] = s[1 + i - 1]
      BY <1>1, <1>2, <2>1, SubSeqProperties
    <2>3. Len(f) = p - 1 /\ (p - 1) - 1 + 1 = p - 1
      <3>1. p \in Nat \ {0}
        BY <1>1
      <3>2. QED
        BY <2>2, <3>1
    <2>4. ASSUME NEW i \in 1..(p - 1)
          PROVE  f[i] = s[i]
      <3>1. 1 + i - 1 = i
        BY <1>1
      <3>2. QED
        BY <2>2, <2>3, <3>1
    <2>5. QED
      BY <2>2, <2>3, <2>4
  <1>5. g \in Seq(S) /\ Len(g) = Len(s) - p /\ \A i \in 1..(Len(s) - p) : g[i] = s[p + i]
    <2>1. \A i \in (p + 1)..Len(s) : s[i] \in S
      BY <1>1
    <2>2. /\ g \in Seq(S) /\ Len(g) = IF p + 1 <= Len(s) THEN Len(s) - (p + 1) + 1 ELSE 0
          /\ \A i \in 1..(Len(s) - (p + 1) + 1) : g[i] = s[(p + 1) + i - 1]
      BY <1>1, <1>3, <2>1, SubSeqProperties
    <2>3. Len(g) = Len(s) - p /\ Len(s) - (p + 1) + 1 = Len(s) - p
      <3>1. p \in Nat \ {0} /\ Len(s) \in Nat /\ p <= Len(s)
        BY <1>1
      <3>2. QED
        BY <2>2, <3>1
    <2>4. ASSUME NEW i \in 1..(Len(s) - p)
          PROVE  g[i] = s[p + i]
      <3>1. (p + 1) + i - 1 = p + i
        BY <1>1
      <3>2. QED
        BY <2>2, <2>3, <3>1
    <2>5. QED
      BY <2>2, <2>3, <2>4
  <1>6. /\ f \o g \in Seq(S) /\ Len(f \o g) = Len(f) + Len(g)
        /\ \A i \in 1..(Len(f) + Len(g)) :
              (f \o g)[i] = IF i <= Len(f) THEN f[i] ELSE g[i - Len(f)]
    BY <1>4, <1>5, ConcatProperties
  <1>7. Len(f) + Len(g) = Len(s) - 1 /\ DOMAIN (f \o g) = 1..(Len(s) - 1)
    <2>1. Len(f) + Len(g) = Len(s) - 1
      BY <1>1, <1>4, <1>5
    <2>2. DOMAIN (f \o g) = 1..Len(f \o g)
      BY <1>6, LenProperties
    <2>3. QED
      BY <1>6, <2>1, <2>2
  <1>8. ASSUME NEW i \in 1..(Len(s) - 1)
        PROVE  (f \o g)[i] = IF i <= p - 1 THEN s[i] ELSE s[i + 1]
    <2>1. CASE i <= p - 1
      <3>1. i \in 1..(p - 1)
        BY <1>1, <2>1
      <3>2. (f \o g)[i] = f[i]
        BY <1>4, <1>6, <1>7, <2>1
      <3>3. QED
        BY <1>4, <2>1, <3>1, <3>2
    <2>2. CASE ~(i <= p - 1)
      <3>1. i - (p - 1) \in 1..(Len(s) - p) /\ p + (i - (p - 1)) = i + 1
        BY <1>1, <2>2
      <3>2. (f \o g)[i] = g[i - (p - 1)]
        BY <1>4, <1>6, <1>7, <2>2
      <3>3. QED
        BY <1>5, <2>2, <3>1, <3>2
    <2>3. QED
      BY <2>1, <2>2
  <1>9. QED
    BY <1>2, <1>3, <1>6, <1>7, <1>8 DEF RemoveAt

\* No element is in a sequence twice.
Once(s) == \A i, j \in DOMAIN s : s[i] = s[j] => i = j

\* An element is removed from a sequence that holds it once.
LEMMA Removing ==
    ASSUME NEW S, NEW s \in Seq(S), NEW e, Once(s)
    PROVE  /\ RemoveFirst(s, e) \in Seq(S) /\ Once(RemoveFirst(s, e))
           /\ ToSet(RemoveFirst(s, e)) = ToSet(s) \ {e}
           /\ e \notin ToSet(s) => RemoveFirst(s, e) = s
  <1>1. Len(s) \in Nat /\ DOMAIN s = 1..Len(s) /\ \A i \in 1..Len(s) : s[i] \in S
    BY LenProperties, ElementOfSeq
  <1>2. CASE ~\E i \in 1..Len(s) : s[i] = e
    BY <1>1, <1>2 DEF RemoveFirst, ToSet
  <1>3. CASE \E i \in 1..Len(s) : s[i] = e
    <2>1. PICK p \in 1..Len(s) : s[p] = e
      BY <1>3
    <2>2. PICK n : n = RemoveAt(s, p)
      OBVIOUS
    <2>3. RemoveFirst(s, e) = n
      <3>1. {i \in 1..Len(s) : s[i] = e} = {p}
        BY <1>1, <2>1 DEF Once
      <3>2. SelectInSeq(s, LAMBDA v : v = e) = p
        <4>1. Min({p}) = p
          BY DEF Min
        <4>2. QED
          BY <3>1, <4>1 DEF SelectInSeq
      <3>3. RemoveFirst(s, e) = RemoveAt(s, SelectInSeq(s, LAMBDA v : v = e))
        BY <1>3 DEF RemoveFirst
      <3>4. QED
        BY <2>2, <3>2, <3>3
    <2>6. /\ n \in Seq(S) /\ DOMAIN n = 1..(Len(s) - 1)
          /\ \A i \in 1..(Len(s) - 1) : n[i] = IF i <= p - 1 THEN s[i] ELSE s[i + 1]
      BY <2>2, Deleting
    <2>7. ToSet(n) = ToSet(s) \ {e}
      <3>1. ASSUME NEW i \in DOMAIN n
            PROVE  n[i] \in ToSet(s) \ {e}
        <4>1. PICK k : k = IF i <= p - 1 THEN i ELSE i + 1
          OBVIOUS
        <4>2. k \in DOMAIN s /\ k # p /\ n[i] = s[k]
          BY <1>1, <2>6, <4>1
        <4>3. s[k] # s[p] /\ p \in DOMAIN s
          BY <1>1, <4>2, Zenon DEF Once
        <4>4. QED
          BY <2>1, <4>2, <4>3, Zenon DEF ToSet
      <3>2. ASSUME NEW i \in DOMAIN s, s[i] # e
            PROVE  s[i] \in ToSet(n)
        <4>1. CASE i < p
          BY <1>1, <2>6, <4>1 DEF ToSet
        <4>2. CASE i > p
          <5>1. i - 1 \in DOMAIN n /\ n[i - 1] = s[i]
            BY <1>1, <2>6, <4>2
          <5>2. QED
            BY <5>1 DEF ToSet
        <4>3. QED
          BY <1>1, <2>1, <3>2, <4>1, <4>2
      <3>3. QED
        BY <3>1, <3>2 DEF ToSet
    <2>8. Once(n)
      <3> SUFFICES ASSUME NEW i \in DOMAIN n, NEW j \in DOMAIN n, n[i] = n[j]
                   PROVE  i = j
        BY DEF Once
      <3>1. \A q \in DOMAIN n : \E k \in DOMAIN s :
               k = (IF q <= p - 1 THEN q ELSE q + 1) /\ n[q] = s[k]
        BY <1>1, <2>6
      <3>2. PICK k \in DOMAIN s : k = (IF i <= p - 1 THEN i ELSE i + 1) /\ n[i] = s[k]
        BY <3>1
      <3>3. PICK h \in DOMAIN s : h = (IF j <= p - 1 THEN j ELSE j + 1) /\ n[j] = s[h]
        BY <3>1
      <3>4. k = h
        BY <3>2, <3>3 DEF Once
      <3>5. QED
        <4>1. i \in Nat /\ j \in Nat /\ p \in Nat
          BY <1>1, <2>6
        <4>2. QED
          BY <3>2, <3>3, <3>4, <4>1
    <2>9. e \in ToSet(s)
      BY <1>1, <2>1 DEF ToSet
    <2>10. QED
      BY <2>3, <2>6, <2>7, <2>8, <2>9
  <1>4. QED
    BY <1>2, <1>3
------------------------------------------------------------------------------
\* How often a lock is going to be released, after a step was replaced.
LEMMA Counting ==
    ASSUME NEW s \in Seq(Steps), NEW a \in Seq(Steps), NEW n \in Seq(Steps), s # <<>>,
           Spliced(s, a, n), NEW l
    PROVE  /\ Cardinality(Releases(s, l)) \in Nat /\ Cardinality(Releases(a, l)) \in Nat
           /\ Cardinality(Releases(n, l)) = Cardinality(Releases(a, l)) +
                 (Cardinality(Releases(s, l)) - (IF Releasing(s[1], l) THEN 1 ELSE 0))
  <1> DEFINE A == Releases(a, l)
             R == Releases(s, l)
             Q == R \ {1}
             T == {k \in Releases(n, l) : k > Len(a)}
  <1>1. /\ DOMAIN s = 1..Len(s) /\ DOMAIN n = 1..Len(n) /\ DOMAIN a = 1..Len(a)
        /\ Len(a) \in Nat /\ Len(s) \in Nat \ {0} /\ Len(n) \in Nat
        /\ Len(n) = Len(a) + Len(s) - 1
    BY DEF Spliced
  <1>2. IsFiniteSet(A) /\ IsFiniteSet(R) /\ IsFiniteSet(Q) /\ IsFiniteSet(T)
    <2>1. /\ IsFiniteSet(1..Len(a)) /\ IsFiniteSet(1..Len(s)) /\ IsFiniteSet(1..Len(n))
      BY <1>1, FS_Interval
    <2>2. A \in SUBSET (1..Len(a)) /\ R \in SUBSET (1..Len(s)) /\ Q \in SUBSET (1..Len(s))
          /\ T \in SUBSET (1..Len(n))
      BY <1>1 DEF Releases
    <2>3. QED
      BY <2>1, <2>2, FS_Subset
  <1>3. Cardinality(A) \in Nat /\ Cardinality(R) \in Nat
    BY <1>2, FS_CardinalityType
  <1>4. Cardinality(T) = Cardinality(Q)
    <2> DEFINE f == [i \in Q |-> Len(a) + i - 1]
    <2>1. ASSUME NEW i \in Q
          PROVE  f[i] \in T
      BY <1>1 DEF Releases, Spliced
    <2>2. ASSUME NEW k \in T
          PROVE  \E i \in Q : f[i] = k
      <3> DEFINE i == k - Len(a) + 1
      <3>1. i \in 2..Len(s) /\ n[k] = s[i] /\ Len(a) + i - 1 = k
        BY <1>1 DEF Releases, Spliced
      <3>2. i \in Q
        BY <1>1, <3>1 DEF Releases
      <3>3. QED
        BY <3>1, <3>2
    <2>3. ASSUME NEW i \in Q, NEW j \in Q, f[i] = f[j]
          PROVE  i = j
      BY <1>1, <2>3 DEF Releases
    <2>4. f \in Bijection(Q, T)
      BY <2>1, <2>2, <2>3 DEF Bijection, Injection, IsInjective, Surjection
    <2>5. QED
      BY <1>2, <2>4, FS_Bijection DEF ExistsBijection
  <1>5. Cardinality(Q) = Cardinality(R) - (IF Releasing(s[1], l) THEN 1 ELSE 0)
    <2>1. 1 \in R <=> Releasing(s[1], l)
      BY <1>1 DEF Releases
    <2>2. QED
      BY <1>2, <1>3, <2>1, FS_RemoveElement
  <1>6. Cardinality(Releases(n, l)) = Cardinality(A) + Cardinality(T)
    <2>1. Releases(n, l) = A \cup T
      <3>1. ASSUME NEW k \in 1..Len(a)
            PROVE  k \in Releases(n, l) <=> k \in A
        BY <1>1 DEF Releases, Spliced
      <3>2. A \subseteq 1..Len(a) /\ Releases(n, l) \subseteq 1..Len(n)
        BY <1>1 DEF Releases
      <3>3. \A k \in 1..Len(n) : k \in 1..Len(a) \/ k > Len(a)
        BY <1>1
      <3>4. 1..Len(a) \subseteq 1..Len(n)
        BY <1>1
      <3>5. QED
        BY <3>1, <3>2, <3>3, <3>4
    <2>2. A \cap T = {}
      BY <1>1 DEF Releases
    <2>3. Cardinality(A \cap T) = 0
      BY <2>2, FS_EmptySet
    <2>4. Cardinality(T) \in Nat
      BY <1>2, FS_CardinalityType
    <2>5. QED
      <3>1. Cardinality(A \cup T) = Cardinality(A) + Cardinality(T) - Cardinality(A \cap T)
        BY <1>2, FS_Union
      <3> HIDE DEF A, T
      <3>2. QED
        BY <1>3, <2>1, <2>3, <2>4, <3>1
  <1>7. QED
    BY <1>3, <1>4, <1>5, <1>6

\* One if it is so, else zero.
Bit(b) == IF b THEN 1 ELSE 0
Weight(step, l) == Bit(Releasing(step, l))

\* One step more.
LEMMA CountMore ==
    ASSUME NEW l, NEW S, IsFiniteSet(S), NEW k, k \notin S, NEW step,
           NEW T, T = IF Releasing(step, l) THEN S \cup {k} ELSE S
    PROVE  IsFiniteSet(T) /\ Cardinality(T) = Cardinality(S) + Weight(step, l)
  <1>1. Cardinality(S) \in Nat
    BY FS_CardinalityType
  <1>2. CASE Releasing(step, l)
    BY <1>1, <1>2, FS_AddElement DEF Weight, Bit
  <1>3. CASE ~Releasing(step, l)
    BY <1>1, <1>3 DEF Weight, Bit
  <1>4. QED
    BY <1>2, <1>3

\* The releases in nothing, and in one to four steps.
LEMMA CountNone ==
    ASSUME NEW l
    PROVE  IsFiniteSet(Releases(<<>>, l)) /\ Cardinality(Releases(<<>>, l)) = 0
  <1>1. Releases(<<>>, l) = {}
    BY DEF Releases
  <1>2. QED
    BY <1>1, FS_EmptySet

\* In one step.
LEMMA CountOne ==
    ASSUME NEW l, NEW x
    PROVE  IsFiniteSet(Releases(<<x>>, l)) /\ Cardinality(Releases(<<x>>, l)) = Weight(x, l)
  <1>1. Releases(<<x>>, l) = IF Releasing(x, l) THEN Releases(<<>>, l) \cup {1} ELSE Releases(<<>>, l)
    BY DEF Releases
  <1>2. 1 \notin Releases(<<>>, l)
    BY DEF Releases
  <1>3. /\ IsFiniteSet(Releases(<<x>>, l))
        /\ Cardinality(Releases(<<x>>, l)) = Cardinality(Releases(<<>>, l)) + Weight(x, l)
    BY <1>1, <1>2, CountNone, CountMore
  <1>4. QED
    BY <1>3, CountNone DEF Weight, Bit

\* In two.
LEMMA CountTwo ==
    ASSUME NEW l, NEW x, NEW y
    PROVE  /\ IsFiniteSet(Releases(<<x, y>>, l))
           /\ Cardinality(Releases(<<x, y>>, l)) = Weight(x, l) + Weight(y, l)
  <1>1. Releases(<<x, y>>, l) =
           IF Releasing(y, l) THEN Releases(<<x>>, l) \cup {2} ELSE Releases(<<x>>, l)
    BY DEF Releases
  <1>2. 2 \notin Releases(<<x>>, l)
    BY DEF Releases
  <1>3. QED
    BY <1>1, <1>2, CountOne, CountMore

\* In three.
LEMMA CountThree ==
    ASSUME NEW l, NEW x, NEW y, NEW z
    PROVE  /\ IsFiniteSet(Releases(<<x, y, z>>, l))
           /\ Cardinality(Releases(<<x, y, z>>, l)) = Weight(x, l) + Weight(y, l) + Weight(z, l)
  <1>1. Releases(<<x, y, z>>, l) =
           IF Releasing(z, l) THEN Releases(<<x, y>>, l) \cup {3} ELSE Releases(<<x, y>>, l)
    BY DEF Releases
  <1>2. 3 \notin Releases(<<x, y>>, l)
    BY DEF Releases
  <1>3. QED
    BY <1>1, <1>2, CountTwo, CountMore

\* In four.
LEMMA CountFour ==
    ASSUME NEW l, NEW x, NEW y, NEW z, NEW w
    PROVE  Cardinality(Releases(<<x, y, z, w>>, l)) =
              Weight(x, l) + Weight(y, l) + Weight(z, l) + Weight(w, l)
  <1>1. Releases(<<x, y, z, w>>, l) =
           IF Releasing(w, l) THEN Releases(<<x, y, z>>, l) \cup {4} ELSE Releases(<<x, y, z>>, l)
    BY DEF Releases
  <1>2. 4 \notin Releases(<<x, y, z>>, l)
    BY DEF Releases
  <1>3. QED
    BY <1>1, <1>2, CountThree, CountMore

\* What replaces a step releases a lock once if the step takes it, or waits for it.
LEMMA ReplacementWeight ==
    ASSUME NEW step \in Steps, NEW a, Replaces(step, a), NEW l \in Locks
    PROVE  Cardinality(Releases(a, l)) = Bit(step.what = "enter" /\ l = step.on)
                                         + Bit(a # <<>> /\ a[1] = Lock(l))
  <1>1. \A what, on, with : /\ Weight(Do(what, on, with), l) = Bit(what \in {"unlock", "leave"} /\ on = l)
                            /\ Do(what, on, with) = Lock(l) => what = "lock" /\ on = l
    BY DEF Weight, Releasing, Lock, Do, DoAt
  <1>2. \A on, with : Weight(Act(on, with), l) = 0 /\ Act(on, with) # Lock(l)
    BY DEF Weight, Releasing, Lock, Act, Do, DoAt, Bit
  <1>3. \A k : /\ Weight(Unlock(k), l) = Bit(k = l) /\ Unlock(k) # Lock(l)
               /\ Weight(Lock(k), l) = 0 /\ (Lock(k) = Lock(l) <=> k = l)
    BY DEF Weight, Releasing, Lock, Unlock, Do, DoAt, Bit
  <1>4. \A i : Weight(DoAt("scan", "none", "none", i), l) = 0 /\ DoAt("scan", "none", "none", i) # Lock(l)
    BY DEF Weight, Releasing, Lock, Do, DoAt, Bit
  <1>5. /\ Cardinality(Releases(<<>>, l)) = 0
        /\ \A x : Cardinality(Releases(<<x>>, l)) = Weight(x, l)
        /\ \A x, y : Cardinality(Releases(<<x, y>>, l)) = Weight(x, l) + Weight(y, l)
        /\ \A x, y, z : Cardinality(Releases(<<x, y, z>>, l)) =
                           Weight(x, l) + Weight(y, l) + Weight(z, l)
        /\ \A x, y, z, w : Cardinality(Releases(<<x, y, z, w>>, l)) =
                              Weight(x, l) + Weight(y, l) + Weight(z, l) + Weight(w, l)
    <2>1. Cardinality(Releases(<<>>, l)) = 0
      BY CountNone
    <2>2. ASSUME NEW x PROVE Cardinality(Releases(<<x>>, l)) = Weight(x, l)
      BY CountOne
    <2>3. ASSUME NEW x, NEW y
          PROVE  Cardinality(Releases(<<x, y>>, l)) = Weight(x, l) + Weight(y, l)
      BY CountTwo
    <2>4. ASSUME NEW x, NEW y, NEW z
          PROVE  Cardinality(Releases(<<x, y, z>>, l)) = Weight(x, l) + Weight(y, l) + Weight(z, l)
      BY CountThree
    <2>5. ASSUME NEW x, NEW y, NEW z, NEW w
          PROVE  Cardinality(Releases(<<x, y, z, w>>, l)) =
                    Weight(x, l) + Weight(y, l) + Weight(z, l) + Weight(w, l)
      BY CountFour
    <2>6. QED
      BY <2>1, <2>2, <2>3, <2>4, <2>5
  <1>6. CASE a = <<>>
    <2>1. step.what = "enter" => a = <<Unlock(step.on)>> \/ InRow(step.on, step.with, a)
      BY BodyInRow DEF Replaces
    <2>2. step.what # "enter"
      <3>1. a # <<Unlock(step.on)>>
        BY <1>6
      <3>2. ~InRow(step.on, step.with, a)
        BY <1>6 DEF InRow
      <3>3. QED
        BY <2>1, <3>1, <3>2
    <2>3. QED
      BY <1>5, <1>6, <2>2 DEF Bit
  <1>7. CASE step.what = "enter"
    <2>1. CASE a = <<Unlock(step.on)>>
      BY <1>3, <1>5, <1>7, <2>1 DEF Bit
    <2>2. CASE InRow(step.on, step.with, a)
      <3> DEFINE last == Do("leave", step.on, step.with)
      <3>1. Weight(last, l) = Bit(l = step.on) /\ last # Lock(l)
        BY <1>1 DEF Bit
      <3> HIDE DEF last
      <3>2. CASE a = <<last>>
        BY <1>5, <1>7, <3>1, <3>2 DEF Bit
      <3>3. CASE \E what, on, with : what # "lock" /\ what \notin {"unlock", "leave"} /\ a = <<Do(what, on, with), last>>
        BY <1>1, <1>5, <1>7, <3>1, <3>3 DEF Bit
      <3>4. CASE a = <<Lock("transac_layer"), DoAt("scan", "none", "none", 0), Unlock("transac_layer"), last>>
        BY <1>3, <1>4, <1>5, <1>7, <3>1, <3>4 DEF Bit
      <3>5. CASE \E on, with : a = <<Act(on, with), last>>
        BY <1>2, <1>5, <1>7, <3>1, <3>5 DEF Bit
      <3>6. CASE \E on, with, x, w : a = <<Act(on, with), Do("schedule", x, w), last>>
        BY <1>1, <1>2, <1>5, <1>7, <3>1, <3>6 DEF Bit
      <3>7. QED
        BY <2>2, <3>2, <3>3, <3>4, <3>5, <3>6 DEF InRow, last
    <2>3. QED
      BY <1>7, <2>1, <2>2, BodyInRow DEF Replaces
  <1>8. CASE step.what \in {"act", "leave", "over", "schedule"} /\ a # <<>>
    BY <1>1, <1>5, <1>8 DEF Replaces, Bit
  <1>9. CASE step.what \in {"create", "find"} /\ a # <<>>
    BY <1>1, <1>2, <1>5, <1>9 DEF Replaces, Bit
  <1>10. CASE step.what \in {"scan", "hangup"} /\ a # <<>>
    BY <1>2, <1>4, <1>5, <1>10 DEF Replaces, Bit
  <1>11. CASE step.what = "look" /\ a # <<>>
    <2>1. CASE a = <<Lock("dialog_layer"), Act("dialog", "shutdown"), Unlock("dialog_layer")>>
      BY <1>2, <1>3, <1>5, <1>11, <2>1 DEF Bit
    <2>2. CASE a \in {<<Do("hangup", "dialog", "none")>>, <<Do("create", "server", "request")>>}
      BY <1>1, <1>5, <1>11, <2>2 DEF Bit
    <2>3. QED
      BY <1>11, <2>1, <2>2 DEF Replaces
  <1>12. QED
    BY <1>6, <1>7, <1>8, <1>9, <1>10, <1>11 DEF Replaces

\* Who is going to release a lock that he does not wait for holds it.
LEMMA Holding ==
    ASSUME TypeOK, LocksAreBalanced, NEW t \in Threads, NEW l \in Locks,
           NEW i \in DOMAIN todo[t], Releasing(todo[t][i], l), ~WaitsFor(t, l)
    PROVE  locks[l].by = t /\ locks[l].times \in Nat \ {0}
  <1>1. todo[t] \in Seq(Steps)
    BY DEF TypeOK
  <1>2. Releases(todo[t], l) # {}
    BY DEF Releases
  <1>3. IsFiniteSet(Releases(todo[t], l))
    <2>1. DOMAIN todo[t] = 1..Len(todo[t]) /\ Len(todo[t]) \in Nat
      BY <1>1, LenProperties
    <2>2. IsFiniteSet(1..Len(todo[t])) /\ Releases(todo[t], l) \in SUBSET (1..Len(todo[t]))
      BY <2>1, FS_Interval DEF Releases
    <2>3. QED
      BY <2>2, FS_Subset
  <1>4. Cardinality(Releases(todo[t], l)) # 0
    BY <1>2, <1>3, FS_EmptySet
  <1>5. Cardinality(Releases(todo[t], l)) = Holds(t, l) + 0
    BY DEF LocksAreBalanced
  <1>6. locks[l].times \in Nat
    BY DEF TypeOK
  <1>7. QED
    BY <1>4, <1>5, <1>6 DEF Holds

\* Whether a thread waits after a turn.
LEMMA WaitingAfter ==
    ASSUME TypeOK, WellFormed, NEW t \in Threads, NEW a, Turn(t, a), NEW l
    PROVE  WaitsFor(t, l)' <=> a # <<>> /\ a[1] = Lock(l)
  <1> DEFINE s == todo[t]
             n == todo'[t]
  <1>1. /\ Spliced(s, a, n) /\ s \in Seq(Steps) /\ n \in Seq(Steps) /\ a \in Seq(Steps)
    BY TurnFacts
  <1>2. \A i \in DOMAIN s : s[i].what = "lock" => i = 1
    BY DEF WellFormed, WellNested
  <1>3. Lock(l).what = "lock"
    BY DEF Lock, Do, DoAt
  <1>4. WaitsFor(t, l)' <=> n # <<>> /\ n[1] = Lock(l)
    BY <1>1 DEF WaitsFor
  <1> HIDE DEF s, n
  <1>5. CASE a = <<>>
    <2>1. ASSUME n # <<>>, n[1] = Lock(l)
          PROVE  FALSE
      <3>1. Len(n) \in Nat \ {0} /\ Len(a) = 0
        BY <1>1, <1>5, <2>1, EmptySeq
      <3>2. 2 \in DOMAIN s /\ s[2] = n[1]
        BY <1>1, <3>1 DEF Spliced
      <3>3. QED
        BY <1>2, <1>3, <2>1, <3>2
    <2>2. QED
      BY <1>4, <1>5, <2>1
  <1>6. CASE a # <<>>
    <2>1. Len(a) \in Nat \ {0}
      BY <1>1, <1>6, EmptySeq
    <2>2. n[1] = a[1] /\ Len(n) \in Nat \ {0}
      BY <1>1, <2>1 DEF Spliced
    <2>3. n # <<>>
      BY <2>2
    <2>4. QED
      BY <1>4, <1>6, <2>2, <2>3
  <1>7. QED
    BY <1>5, <1>6

\* What a step does to the locks.
Takes(step, l) == step.what \in {"enter", "lock"} /\ step.on = l
LocksChange(t, step) ==
    /\ locks' \in [Locks -> [by : Threads \cup {"nobody"}, times : Nat]]
    /\ \A l \in Locks : /\ locks'[l].by = "nobody" <=> locks'[l].times = 0
                        /\ \A u \in Threads \ {t} : Holds(u, l)' = Holds(u, l)
                        /\ Holds(t, l)' + Weight(step, l) = Holds(t, l) + Bit(Takes(step, l))

\* A lock is taken.
LEMMA TakeEffect ==
    ASSUME TypeOK, LocksAreBalanced, NEW t \in Threads, NEW k \in Locks, Take(t, k),
           NEW step, step.what \in {"enter", "lock"}, step.on = k
    PROVE  LocksChange(t, step)
  <1>1. /\ locks \in [Locks -> [by : Threads \cup {"nobody"}, times : Nat]]
        /\ locks[k].by \in {t, "nobody"}
        /\ locks' = [locks EXCEPT ![k] = [by |-> t, times |-> locks[k].times + 1]]
    BY DEF TypeOK, Take, Available
  <1>2. "nobody" \notin Threads
    BY DEF Threads
  <1>3. \A l \in Locks : locks[l].by = "nobody" <=> locks[l].times = 0
    BY DEF LocksAreBalanced
  <1>4. locks' \in [Locks -> [by : Threads \cup {"nobody"}, times : Nat]]
    BY <1>1
  <1>5. ASSUME NEW l \in Locks, l # k
        PROVE  locks'[l] = locks[l] /\ Weight(step, l) = 0 /\ Bit(Takes(step, l)) = 0
    BY <1>1, <1>5 DEF Weight, Releasing, Takes, Bit
  <1>6. /\ locks'[k].by = t /\ locks'[k].times = locks[k].times + 1 /\ locks[k].times \in Nat
        /\ Weight(step, k) = 0 /\ Bit(Takes(step, k)) = 1
    BY <1>1 DEF Weight, Releasing, Takes, Bit
  <1>7. ASSUME NEW l \in Locks
        PROVE  /\ locks'[l].by = "nobody" <=> locks'[l].times = 0
               /\ \A u \in Threads \ {t} : Holds(u, l)' = Holds(u, l)
               /\ Holds(t, l)' + Weight(step, l) = Holds(t, l) + Bit(Takes(step, l))
    <2>1. CASE l = k
      BY <1>1, <1>2, <1>3, <1>6, <2>1 DEF Holds
    <2>2. CASE l # k
      BY <1>1, <1>3, <1>5, <2>2 DEF Holds
    <2>3. QED
      BY <2>1, <2>2
  <1>8. QED
    BY <1>4, <1>7 DEF LocksChange

\* A lock is released by who holds it.
LEMMA ReleaseEffect ==
    ASSUME TypeOK, LocksAreBalanced, NEW t \in Threads, NEW k \in Locks, Release(k),
           locks[k].by = t, locks[k].times \in Nat \ {0},
           NEW step, step.what \in {"leave", "unlock"}, step.on = k
    PROVE  LocksChange(t, step)
  <1>1. /\ locks \in [Locks -> [by : Threads \cup {"nobody"}, times : Nat]]
        /\ \A l \in Locks \ {k} : locks'[l] = locks[l]
        /\ locks'[k] = IF locks[k].times = 1 THEN Free
                       ELSE [by |-> locks[k].by, times |-> locks[k].times - 1]
        /\ locks' = [locks EXCEPT ![k] = locks'[k]]
    <2>1. locks \in [Locks -> [by : Threads \cup {"nobody"}, times : Nat]]
      BY DEF TypeOK
    <2> DEFINE r == IF locks[k].times = 1 THEN Free
                    ELSE [by |-> locks[k].by, times |-> locks[k].times - 1]
    <2>2. locks' = [locks EXCEPT ![k] = r]
      BY <2>1 DEF Release
    <2>3. locks'[k] = r
      BY <2>1, <2>2
    <2>4. QED
      BY <2>1, <2>2, <2>3
  <1>2. "nobody" \notin Threads
    BY DEF Threads
  <1>3. \A l \in Locks : locks[l].by = "nobody" <=> locks[l].times = 0
    BY DEF LocksAreBalanced
  <1>4. /\ locks'[k] \in [by : Threads \cup {"nobody"}, times : Nat]
        /\ locks'[k].times = locks[k].times - 1
        /\ locks'[k].by = IF locks[k].times = 1 THEN "nobody" ELSE t
    <2>1. locks[k] \in [by : Threads \cup {"nobody"}, times : Nat]
      BY <1>1
    <2>2. CASE locks[k].times = 1
      BY <1>1, <2>2 DEF Free
    <2>3. CASE locks[k].times # 1
      BY <1>1, <2>1, <2>3
    <2>4. QED
      BY <2>2, <2>3
  <1>5. locks' \in [Locks -> [by : Threads \cup {"nobody"}, times : Nat]]
    BY <1>1, <1>4
  <1>6. ASSUME NEW l \in Locks, l # k
        PROVE  locks'[l] = locks[l] /\ Weight(step, l) = 0 /\ Bit(Takes(step, l)) = 0
    BY <1>1, <1>6 DEF Weight, Releasing, Takes, Bit
  <1>7. Weight(step, k) = 1 /\ Bit(Takes(step, k)) = 0
    BY DEF Weight, Releasing, Takes, Bit
  <1>8. ASSUME NEW l \in Locks
        PROVE  /\ locks'[l].by = "nobody" <=> locks'[l].times = 0
               /\ \A u \in Threads \ {t} : Holds(u, l)' = Holds(u, l)
               /\ Holds(t, l)' + Weight(step, l) = Holds(t, l) + Bit(Takes(step, l))
    <2>1. CASE l = k
      BY <1>2, <1>4, <1>7, <2>1 DEF Holds
    <2>2. CASE l # k
      BY <1>1, <1>3, <1>6, <2>2 DEF Holds
    <2>3. QED
      BY <2>1, <2>2
  <1>9. QED
    BY <1>5, <1>8 DEF LocksChange

\* What each step does to the locks.
LEMMA StepLocks ==
    ASSUME TypeOK, LocksAreBalanced, NEW t \in Threads, Step(t)
    PROVE  LocksChange(t, todo[t][1])
  <1> DEFINE step == todo[t][1]
  <1>1. todo[t] # <<>> /\ \E a : Turn(t, a)
    BY StepIsTurn DEF Turn
  <1>2. /\ Head(todo[t]) = step /\ step \in Steps /\ On(t) = step.on /\ 1 \in DOMAIN todo[t]
    BY <1>1, FirstStep
  <1> HIDE DEF step
  <1>3. CASE Enter(t) \/ TakesLock(t)
    <2>1. step.what \in {"enter", "lock"} /\ Take(t, step.on)
      BY <1>2, <1>3 DEF Enter, TakesLock, Ready
    <2>2. step.on \in Locks
      BY <1>2, <2>1, StepKinds, Names
    <2>3. QED
      BY <2>1, <2>2, TakeEffect DEF step
  <1>4. CASE Leave(t) \/ ReleasesLock(t)
    <2>1. step.what \in {"leave", "unlock"} /\ Release(step.on)
      BY <1>2, <1>4 DEF Leave, ReleasesLock, Ready
    <2>2. step.on \in Locks
      BY <1>2, <2>1, StepKinds, Names
    <2>3. Releasing(todo[t][1], step.on)
      BY <2>1 DEF Releasing, step
    <2>4. ~WaitsFor(t, step.on)
      BY <1>2, <2>1 DEF WaitsFor, Lock, Do, DoAt
    <2>5. locks[step.on].by = t /\ locks[step.on].times \in Nat \ {0}
      BY <1>2, <2>2, <2>3, <2>4, Holding
    <2>6. QED
      BY <2>1, <2>2, <2>5, ReleaseEffect DEF step
  <1>5. CASE \/ Test(t) \/ Over(t) \/ Create(t) \/ Find(t) \/ Unref(t) \/ Schedule(t)
             \/ Store(t) \/ RemovesIt(t) \/ Scan(t) \/ Look(t) \/ Hangup(t)
    <2>1. locks' = locks
      BY <1>5 DEF Test, Over, Create, Find, Unref, Schedule, Store, RemovesIt, Scan, Look, Hangup
    <2>2. step.what \notin {"enter", "lock", "leave", "unlock"}
      BY <1>2, <1>5 DEF Test, Over, Create, Find, Unref, Schedule, Store, RemovesIt, Scan, Look,
                        Hangup, Ready
    <2>3. \A l : Weight(step, l) = 0 /\ Bit(Takes(step, l)) = 0
      BY <2>2 DEF Weight, Releasing, Takes, Bit
    <2>4. \A u, l : Holds(u, l)' = Holds(u, l)
      BY <2>1 DEF Holds
    <2>5. \A u, l : l \in Locks => Holds(u, l) \in Nat
      BY DEF Holds, TypeOK
    <2>6. QED
      BY <2>1, <2>3, <2>4, <2>5 DEF LocksChange, TypeOK, LocksAreBalanced, step
  <1>6. QED
    BY <1>3, <1>4, <1>5 DEF Step

\* The locks stay balanced.
LEMMA BalanceKept ==
    ASSUME TypeOK, WellFormed, LocksAreBalanced, NEW t \in Threads, Step(t)
    PROVE  LocksAreBalanced'
  <1> DEFINE step == todo[t][1]
  <1>1. PICK a : Turn(t, a)
    BY StepIsTurn
  <1>2. /\ \A u \in Threads \ {t} : todo'[u] = todo[u]
        /\ Spliced(todo[t], a, todo'[t]) /\ todo[t] # <<>>
        /\ todo[t] \in Seq(Steps) /\ todo'[t] \in Seq(Steps) /\ a \in Seq(Steps)
        /\ Replaces(step, a) /\ step \in Steps /\ Head(todo[t]) = step
    BY <1>1, TurnFacts, FirstStep DEF Turn
  <1>3. LocksChange(t, step)
    BY StepLocks
  <1> HIDE DEF step
  <1>4. ASSUME NEW l \in Locks
        PROVE  Cardinality(Releases(todo'[t], l)) = Holds(t, l)' + (IF WaitsFor(t, l)' THEN 1 ELSE 0)
    <2> DEFINE R == Cardinality(Releases(todo[t], l))
               A == Cardinality(Releases(a, l))
    <2>1. /\ R \in Nat /\ A \in Nat
          /\ Cardinality(Releases(todo'[t], l)) = A + (R - Weight(step, l))
      BY <1>2, Counting DEF Weight, Bit, step
    <2>2. R = Holds(t, l) + Bit(WaitsFor(t, l))
      BY DEF LocksAreBalanced, Bit
    <2>3. A = Bit(step.what = "enter" /\ l = step.on) + Bit(a # <<>> /\ a[1] = Lock(l))
      BY <1>2, ReplacementWeight
    <2>4. WaitsFor(t, l)' <=> a # <<>> /\ a[1] = Lock(l)
      BY <1>1, WaitingAfter
    <2>5. WaitsFor(t, l) <=> step.what = "lock" /\ step.on = l
      <3>1. WaitsFor(t, l) <=> step = Lock(l)
        BY <1>2 DEF WaitsFor
      <3>2. Lock(l).what = "lock" /\ Lock(l).on = l
        BY DEF Lock, Do, DoAt
      <3>3. step.what = "lock" => step = Lock(step.on)
        BY <1>2, StepKinds DEF Lock
      <3>4. QED
        BY <3>1, <3>2, <3>3
    <2>6. Holds(t, l)' + Weight(step, l) = Holds(t, l) + Bit(Takes(step, l))
      BY <1>3 DEF LocksChange
    <2>7. Bit(Takes(step, l)) = Bit(step.what = "enter" /\ l = step.on) + Bit(WaitsFor(t, l))
      BY <2>5 DEF Takes, Bit
    <2>8. /\ Holds(t, l) \in Nat /\ Holds(t, l)' \in Nat /\ Weight(step, l) \in Nat
          /\ Bit(step.what = "enter" /\ l = step.on) \in Nat /\ Bit(WaitsFor(t, l)) \in Nat
          /\ Bit(a # <<>> /\ a[1] = Lock(l)) \in Nat
      BY <1>3 DEF LocksChange, Holds, Weight, Bit, TypeOK
    <2>9. Bit(a # <<>> /\ a[1] = Lock(l)) = IF WaitsFor(t, l)' THEN 1 ELSE 0
      BY <2>4 DEF Bit
    <2>10. ASSUME NEW r \in Nat, NEW c \in Nat, NEW h \in Nat, NEW g \in Nat, NEW w \in Nat,
                  NEW e \in Nat, NEW b \in Nat, NEW d \in Nat,
                  r = h + b, c = e + d, g + w = h + (e + b)
           PROVE  c + (r - w) = g + d
      BY <2>10
    <2> DEFINE H == Holds(t, l)
               G == Holds(t, l)'
               W == Weight(step, l)
               E == Bit(step.what = "enter" /\ l = step.on)
               B == Bit(WaitsFor(t, l))
               D == Bit(a # <<>> /\ a[1] = Lock(l))
    <2>11. A + (R - W) = G + D
      <3>1. R \in Nat /\ A \in Nat /\ H \in Nat /\ G \in Nat /\ W \in Nat /\ E \in Nat
            /\ B \in Nat /\ D \in Nat
        BY <2>1, <2>8
      <3>2. R = H + B /\ A = E + D /\ G + W = H + (E + B)
        BY <2>2, <2>3, <2>6, <2>7
      <3> HIDE DEF R, A, H, G, W, E, B, D
      <3>3. QED
        BY <2>10, <3>1, <3>2
    <2>12. QED
      BY <2>1, <2>9, <2>11
  <1>5. ASSUME NEW l \in Locks, NEW u \in Threads \ {t}
        PROVE  Cardinality(Releases(todo'[u], l)) = Holds(u, l)' + (IF WaitsFor(u, l)' THEN 1 ELSE 0)
    <2>1. todo'[u] = todo[u] /\ Holds(u, l)' = Holds(u, l)
      BY <1>2, <1>3 DEF LocksChange
    <2>2. WaitsFor(u, l)' <=> WaitsFor(u, l)
      BY <2>1 DEF WaitsFor
    <2>3. QED
      BY <2>1, <2>2 DEF LocksAreBalanced
  <1>6. QED
    BY <1>3, <1>4, <1>5 DEF LocksAreBalanced, LocksChange

\* A thread that begins takes and releases nothing.
LEMMA BalanceBegins ==
    ASSUME TypeOK, LocksAreBalanced, NEW t \in Threads, NEW step, Begins(t, step),
           UNCHANGED locks
    PROVE  LocksAreBalanced'
  <1>1. /\ \A u \in Threads \ {t} : todo'[u] = todo[u]
        /\ todo'[t] = <<step>> /\ todo[t] = <<>> /\ step.what \in {"look", "find", "act"}
    BY BeginsFacts DEF Begins
  <1>2. ASSUME NEW l \in Locks
        PROVE  Cardinality(Releases(todo'[t], l)) = Holds(t, l)' + (IF WaitsFor(t, l)' THEN 1 ELSE 0)
    <2>1. Cardinality(Releases(todo'[t], l)) = 0
      <3>1. Cardinality(Releases(<<step>>, l)) = Weight(step, l)
        BY CountOne
      <3>2. Weight(step, l) = 0
        BY <1>1 DEF Weight, Releasing, Bit
      <3>3. QED
        BY <1>1, <3>1, <3>2
    <2>2. ~WaitsFor(t, l)'
      BY <1>1 DEF WaitsFor, Lock, Do, DoAt
    <2>3. Holds(t, l)' = 0
      <3>1. Cardinality(Releases(todo[t], l)) = 0
        BY <1>1, CountNone
      <3>2. Cardinality(Releases(todo[t], l)) = Holds(t, l) + (IF WaitsFor(t, l) THEN 1 ELSE 0)
        BY DEF LocksAreBalanced
      <3>3. Holds(t, l) \in Nat /\ Holds(t, l)' = Holds(t, l)
        BY DEF Holds, TypeOK
      <3>4. ~WaitsFor(t, l)
        BY <1>1 DEF WaitsFor
      <3>5. QED
        BY <3>1, <3>2, <3>3, <3>4
    <2>4. QED
      BY <2>1, <2>2, <2>3
  <1>3. ASSUME NEW l \in Locks, NEW u \in Threads \ {t}
        PROVE  Cardinality(Releases(todo'[u], l)) = Holds(u, l)' + (IF WaitsFor(u, l)' THEN 1 ELSE 0)
    BY <1>1 DEF LocksAreBalanced, Holds, WaitsFor
  <1>4. QED
    BY <1>2, <1>3 DEF LocksAreBalanced

------------------------------------------------------------------------------
\* The timers a transaction leaves when it is destroyed are timers.
LEMMA SurviveFacts ==
    \A x, timers, list, pending :
        /\ Survive(x, timers, list, pending) \subseteq timers
        /\ \A d \in timers : d[1] # x \/ Held(x, list, pending)
              => d \in Survive(x, timers, list, pending)
  BY DEF Survive

\* Every step of a thread keeps the types.
LEMMA TypesKept ==
    ASSUME TypeOK, StatesOfTheirOwn, LocksAreBalanced, ListedOnce,
           NEW t \in Threads, Step(t)
    PROVE  TypeOK' /\ StatesOfTheirOwn'
  <1> DEFINE step == todo[t][1]
  <1>1. PICK a : Turn(t, a)
    BY StepIsTurn
  <1>2. todo' \in [Threads -> Seq(Steps)] /\ \A u \in Threads \ {t} : todo'[u] = todo[u]
    BY <1>1, TurnFacts
  <1>3. /\ todo[t] # <<>> /\ step \in Steps /\ Head(todo[t]) = step
        /\ On(t) = step.on /\ With(t) = step.with
    BY <1>1, FirstStep DEF Turn
  <1>4. locks' \in [Locks -> [by : Threads \cup {"nobody"}, times : Nat]]
    BY StepLocks DEF LocksChange
  <1>5. UNCHANGED <<user, asked, wire, missed>>
    BY DEF Step, Test, Enter, Leave, Over, TakesLock, ReleasesLock, Create, Find, Unref,
           Schedule, Store, RemovesIt, Scan, Look, Hangup
  <1>6. ~asked' => todo'["user"] = <<>>
    BY <1>2, <1>3, <1>5 DEF StatesOfTheirOwn, Threads
  <1> HIDE DEF step
  <1>7. /\ fsm \in [Machines -> States] /\ \A m \in Machines : fsm[m] \in StatesOf(m)
        /\ listed \in Seq(Transactions) /\ due \subseteq Transactions \X Timers
        /\ ret \in [Threads -> {"ok", "failed"}] /\ ended \in [Machines -> Nat]
        /\ dialogListed \in BOOLEAN /\ established \in BOOLEAN /\ leaving \in BOOLEAN
    BY DEF TypeOK, StatesOfTheirOwn
  <1>8. SUFFICES /\ fsm' \in [Machines -> States] /\ \A m \in Machines : fsm'[m] \in StatesOf(m)
                 /\ listed' \in Seq(Transactions) /\ due' \subseteq Transactions \X Timers
                 /\ ret' \in [Threads -> {"ok", "failed"}] /\ ended' \in [Machines -> Nat]
                 /\ dialogListed' \in BOOLEAN /\ established' \in BOOLEAN /\ leaving' \in BOOLEAN
    BY <1>2, <1>4, <1>5, <1>6 DEF TypeOK, StatesOfTheirOwn
  <1>9. ASSUME NEW m \in Machines, NEW to \in StatesOf(m), fsm' = [fsm EXCEPT ![m] = to]
        PROVE  fsm' \in [Machines -> States] /\ \A k \in Machines : fsm'[k] \in StatesOf(k)
    <2>1. to \in States
      BY DEF StatesOf, States
    <2>2. QED
      BY <1>7, <1>9, <2>1
  <1>10. CASE Test(t) \/ Leave(t)
    BY <1>7, <1>10 DEF Test, Leave
  <1>11. CASE Enter(t)
    <2>1. step.on \in Machines
      BY <1>3, <1>11, StepKinds DEF Enter, Ready
    <2>2. CASE UNCHANGED fsm
      BY <1>7, <1>11, <2>2 DEF Enter
    <2>3. CASE \E r \in Rows(step.on) : fsm' = [fsm EXCEPT ![step.on] = r.to]
      <3>1. PICK r \in Rows(step.on) : fsm' = [fsm EXCEPT ![step.on] = r.to]
        BY <2>3
      <3>2. r.to \in StatesOf(step.on)
        BY <2>1, RowShape
      <3>3. fsm' \in [Machines -> States] /\ \A k \in Machines : fsm'[k] \in StatesOf(k)
        BY <1>9, <2>1, <3>1, <3>2
      <3>4. UNCHANGED <<listed, dialogListed, ended>>
        BY <1>11 DEF Enter
      <3>5. /\ due' \subseteq due /\ ret' \in [Threads -> {"ok", "failed"}]
            /\ established' \in BOOLEAN /\ leaving' \in BOOLEAN
        BY <1>7, <1>11 DEF Enter
      <3>6. QED
        BY <1>7, <3>3, <3>4, <3>5
    <2>4. QED
      BY <1>3, <1>11, <2>2, <2>3 DEF Enter
  <1>12. CASE Over(t)
    <2>1. step.on \in Machines
      BY <1>3, <1>12, StepKinds DEF Over, Ready
    <2>2. "Terminated" \in StatesOf(step.on)
      BY DEF StatesOf, States
    <2>3. fsm' \in [Machines -> States] /\ \A k \in Machines : fsm'[k] \in StatesOf(k)
      BY <1>3, <1>9, <1>12, <2>1, <2>2 DEF Over
    <2>4. ended' \in [Machines -> Nat]
      BY <1>3, <1>7, <1>12, <2>1 DEF Over
    <2>5. QED
      BY <1>7, <1>12, <2>3, <2>4 DEF Over
  <1>13. CASE TakesLock(t) \/ ReleasesLock(t)
    BY <1>7, <1>13 DEF TakesLock, ReleasesLock
  <1>14. CASE Create(t)
    <2>1. PICK x \in Transactions : fsm' = [fsm EXCEPT ![x] = "Started"] /\ listed' = Append(listed, x)
      BY <1>14, Names DEF Create
    <2>2. "Started" \in StatesOf(x) /\ x \in Machines
      BY Names DEF StatesOf, States
    <2>3. fsm' \in [Machines -> States] /\ \A k \in Machines : fsm'[k] \in StatesOf(k)
      BY <1>9, <2>1, <2>2
    <2>4. listed' \in Seq(Transactions)
      BY <1>7, <2>1
    <2>5. QED
      BY <1>7, <1>14, <2>3, <2>4 DEF Create
  <1>15. CASE Find(t) \/ Store(t) \/ Scan(t) \/ Look(t) \/ Hangup(t)
    BY <1>7, <1>15 DEF Find, Store, Scan, Look, Hangup
  <1>16. CASE Unref(t)
    BY <1>7, <1>16, SurviveFacts DEF Unref
  <1>17. CASE Schedule(t)
    <2>1. step.on \in Transactions /\ step.with \in Timers
      BY <1>3, <1>17, StepKinds DEF Schedule, Ready
    <2>2. due' \subseteq Transactions \X Timers
      BY <1>3, <1>7, <1>17, <2>1 DEF Schedule
    <2>3. QED
      BY <1>7, <1>17, <2>2 DEF Schedule
  <1>18. CASE RemovesIt(t)
    <2>1. listed' \in Seq(Transactions)
      <3>1. Once(listed)
        BY DEF Once, ListedOnce
      <3>2. QED
        BY <1>7, <1>18, <3>1, Removing DEF RemovesIt
    <2>2. due' \subseteq due
      BY <1>18, SurviveFacts DEF RemovesIt
    <2>3. QED
      BY <1>7, <1>18, <2>1, <2>2 DEF RemovesIt
  <1>19. QED
    BY <1>10, <1>11, <1>12, <1>13, <1>14, <1>15, <1>16, <1>17, <1>18 DEF Step

\* So do the beginnings.
LEMMA BeginningType ==
    ASSUME TypeOK, StatesOfTheirOwn, Asks \/ Receives \/ Expires
    PROVE  TypeOK' /\ StatesOfTheirOwn'
  <1>1. todo' \in [Threads -> Seq(Steps)]
    BY BeginningIsBegins, BeginsFacts
  <1>2. /\ UNCHANGED <<fsm, listed, dialogListed, established, leaving, locks, ret, user, ended,
                       missed>>
        /\ due' \subseteq due /\ wire' \subseteq wire /\ asked' \in BOOLEAN
    BY DEF Asks, Receives, Expires, TypeOK
  <1>3. ~asked' => todo'["user"] = <<>>
    BY DEF Asks, Receives, Expires, StatesOfTheirOwn, TypeOK, Threads
  <1>4. TypeOK'
    <2>1. due' \subseteq Transactions \X Timers /\ wire' \subseteq Responses \cup {"request"}
      BY <1>2 DEF TypeOK
    <2>2. QED
      BY <1>1, <1>2, <2>1 DEF TypeOK
  <1>5. QED
    BY <1>2, <1>3, <1>4 DEF StatesOfTheirOwn

------------------------------------------------------------------------------
\* What thread t has to do when it has a to do instead of its first step.
LEMMA ThenFacts ==
    ASSUME TypeOK, NEW t \in Threads, todo[t] # <<>>, NEW a \in Seq(Steps),
           todo' = Then(t, a)
    PROVE  /\ \A u \in Threads \ {t} : todo'[u] = todo[u]
           /\ Spliced(todo[t], a, todo'[t]) /\ todo'[t] \in Seq(Steps)
  <1>1. todo \in [Threads -> Seq(Steps)] /\ todo[t] \in Seq(Steps)
    BY DEF TypeOK
  <1>2. a \o Tail(todo[t]) \in Seq(Steps) /\ Spliced(todo[t], a, a \o Tail(todo[t]))
    BY <1>1, Splicing
  <1>3. QED
    BY <1>1, <1>2 DEF Then

\* The list after an element is added.
LEMMA Adding ==
    ASSUME NEW S, NEW s \in Seq(S), NEW e \in S
    PROVE  /\ ToSet(Append(s, e)) = ToSet(s) \cup {e}
           /\ Once(s) /\ e \notin ToSet(s) => Once(Append(s, e))
  <1>1. /\ Append(s, e) \in Seq(S) /\ Len(s) \in Nat /\ Len(Append(s, e)) = Len(s) + 1
        /\ DOMAIN s = 1..Len(s) /\ DOMAIN Append(s, e) = 1..(Len(s) + 1)
        /\ \A i \in 1..Len(s) : Append(s, e)[i] = s[i]
        /\ Append(s, e)[Len(s) + 1] = e
    BY AppendProperties, LenProperties
  <1> DEFINE n == Append(s, e)
  <1> HIDE DEF n
  <1>2. \A i \in DOMAIN n : (i \in DOMAIN s /\ n[i] = s[i]) \/ (i = Len(s) + 1 /\ n[i] = e)
    BY <1>1 DEF n
  <1>3. \A i \in DOMAIN s : i \in DOMAIN n /\ n[i] = s[i]
    BY <1>1 DEF n
  <1>4. Len(s) + 1 \in DOMAIN n /\ n[Len(s) + 1] = e
    BY <1>1 DEF n
  <1>5. ToSet(n) = ToSet(s) \cup {e}
    BY <1>2, <1>3, <1>4 DEF ToSet
  <1>6. Once(s) /\ e \notin ToSet(s) => Once(n)
    BY <1>2 DEF Once, ToSet
  <1>7. QED
    BY <1>5, <1>6 DEF n

\* What becomes of the list.
LEMMA ListChange ==
    ASSUME TypeOK, ListedOnce, NEW t \in Threads, Step(t)
    PROVE  \/ listed' = listed
           \/ /\ RemovesIt(t) /\ On(t) \in Machines /\ Once(listed')
              /\ ToSet(listed') = ToSet(listed) \ {On(t)}
           \/ /\ Create(t)
              /\ \E x \in Transactions : /\ fsm[x] = "Unused" /\ listed' = Append(listed, x)
                                         /\ ToSet(listed') = ToSet(listed) \cup {x}
  <1>1. listed \in Seq(Transactions) /\ Once(listed)
    BY DEF TypeOK, ListedOnce, Once
  <1>2. CASE RemovesIt(t)
    <2>1. On(t) \in Machines
      <3>1. todo[t] # <<>>
        BY <1>2 DEF RemovesIt, Ready
      <3>2. QED
        BY <1>2, <3>1, FirstStep, StepKinds DEF RemovesIt, Ready
    <2>2. listed' = RemoveFirst(listed, On(t))
      BY <1>2 DEF RemovesIt
    <2>3. QED
      BY <1>1, <1>2, <2>1, <2>2, Removing
  <1>3. CASE Create(t)
    <2>1. PICK x \in Transactions : fsm[x] = "Unused" /\ listed' = Append(listed, x)
      BY <1>3, Names DEF Create
    <2>2. ToSet(listed') = ToSet(listed) \cup {x}
      BY <1>1, <2>1, Adding
    <2>3. QED
      BY <1>3, <2>1, <2>2
  <1>4. CASE ~RemovesIt(t) /\ ~Create(t)
    BY <1>4 DEF Step, Test, Enter, Leave, Over, TakesLock, ReleasesLock, Find, Unref, Schedule,
                Store, Scan, Look, Hangup
  <1>5. QED
    BY <1>2, <1>3, <1>4

\* A step that refers to a transaction, and what keeps that from its end.
Refers(step) ==
    step.what \in {"act", "enter", "leave", "over", "schedule", "store"} /\ step.on # "dialog"
SafeIn(s, i, list) ==
    \/ \E j \in DOMAIN s : j > i /\ s[j] = Do("unref", s[i].on, "none")
    \/ i = 1 /\ Len(s) >= 2 /\ s[2].what = "scan" /\ s[i].on \in list

\* Who replaces a step refers to what that step refers to, or brings a reference.
ReplacementRefers(step, a) == \A k \in 1..Len(a) : Refers(a[k]) =>
    \/ \E j \in 1..Len(a) : j > k /\ a[j] = Do("unref", a[k].on, "none")
    \/ /\ step.what \in {"act", "enter", "leave", "schedule"} /\ Refers(step) /\ a[k].on = step.on
       /\ Cancelling(step) => Len(a) = 1
    \/ step.what = "scan" /\ k = 1 /\ Len(a) = 2 /\ a[2].what = "scan"

\* That is what the steps do.
LEMMA ReplacementGuard ==
    ASSUME NEW step \in Steps, NEW a, Replaces(step, a)
    PROVE  ReplacementRefers(step, a)
  <1>1. \A what, on, with :
           /\ Refers(Do(what, on, with)) <=>
                 what \in {"act", "enter", "leave", "over", "schedule", "store"} /\ on # "dialog"
           /\ Do(what, on, with).on = on
    BY DEF Refers, Do, DoAt
  <1>2. \A on, with : Act(on, with) = Do("act", on, with)
    BY DEF Act
  <1>3. /\ \A l : ~Refers(Lock(l)) /\ ~Refers(Unlock(l))
        /\ \A i : /\ ~Refers(DoAt("scan", "none", "none", i))
                  /\ DoAt("scan", "none", "none", i).what = "scan"
    BY DEF Refers, Do, DoAt, Lock, Unlock
  <1>4. step.what \in {"act", "enter", "leave", "schedule"} => (Refers(step) <=> step.on # "dialog")
    BY DEF Refers
  <1> HIDE DEF Refers
  <1>5. CASE a = <<>>
    BY <1>5 DEF ReplacementRefers
  <1>6. CASE step.what = "act" /\ a = <<Do("enter", step.on, step.with)>>
    BY <1>1, <1>4, <1>6 DEF ReplacementRefers
  <1>7. CASE step.what = "enter"
    <2>1. CASE a = <<Unlock(step.on)>>
      BY <1>3, <2>1 DEF ReplacementRefers
    <2>2. CASE InRow(step.on, step.with, a)
      <3>1. \A k \in 1..Len(a) : Refers(a[k]) => step.on # "dialog" /\ a[k].on = step.on
        <4>1. CASE step.on = "dialog"
          <5>1. \A k \in 1..Len(a) : ~Refers(a[k])
            BY <1>1, <1>2, <1>3, <2>2, <4>1, Names DEF InRow
          <5>2. QED
            BY <5>1
        <4>2. CASE step.on # "dialog"
          BY <1>1, <1>2, <2>2, <4>2 DEF InRow
        <4>3. QED
          BY <4>1, <4>2
      <3>2. Cancelling(step) => Len(a) = 1
        <4>1. ASSUME Cancelling(step)
              PROVE  a = <<Do("leave", step.on, "cancel")>>
          BY <1>7, <2>2, <4>1, CancelRow DEF Cancelling
        <4>2. QED
          BY <4>1
      <3>3. QED
        BY <1>4, <1>7, <3>1, <3>2 DEF ReplacementRefers
    <2>3. QED
      BY <1>7, <2>1, <2>2, BodyInRow DEF Replaces
  <1>8. CASE step.what = "leave" /\ a # <<>>
    BY <1>1, <1>4, <1>8 DEF Replaces, ReplacementRefers
  <1>9. CASE step.what = "over" /\ a # <<>>
    <2>1. a = <<Do("remove", step.on, "none")>>
      BY <1>9 DEF Replaces
    <2>2. Len(a) = 1 /\ ~Refers(a[1])
      BY <1>1, <2>1
    <2>3. QED
      BY <2>2 DEF ReplacementRefers
  <1>10. CASE step.what \in {"create", "find"} /\ a # <<>>
    <2>1. PICK x, w : a = <<Act(x, w), Do("unref", x, "none")>>
      BY <1>10 DEF Replaces
    <2>2. Len(a) = 2 /\ a[1].on = x /\ a[2] = Do("unref", x, "none") /\ ~Refers(a[2])
      BY <1>1, <1>2, <2>1
    <2>3. QED
      BY <2>2 DEF ReplacementRefers
  <1>11. CASE step.what = "scan" /\ a # <<>>
    BY <1>3, <1>11 DEF Replaces, ReplacementRefers
  <1>12. CASE step.what = "look" /\ a # <<>>
    BY <1>1, <1>2, <1>3, <1>12 DEF Replaces, ReplacementRefers
  <1>13. CASE step.what = "hangup" /\ a # <<>>
    BY <1>1, <1>2, <1>13 DEF Replaces, ReplacementRefers
  <1>14. CASE step.what = "schedule"
    <2>1. a = <<Do("store", step.on, step.with)>> /\ ~Cancelling(step)
      BY <1>14 DEF Replaces, Cancelling
    <2>2. Len(a) = 1 /\ a[1].on = step.on /\ (Refers(a[1]) <=> Refers(step))
      BY <1>1, <1>4, <1>14, <2>1
    <2>3. QED
      BY <1>14, <2>1, <2>2 DEF ReplacementRefers
  <1>15. QED
    BY <1>5, <1>6, <1>7, <1>8, <1>9, <1>10, <1>11, <1>12, <1>13, <1>14 DEF Replaces

\* The same, of the list there is.
LEMMA GuardedIsSafe ==
    /\ \A s, i : Guarded(s, i) <=> SafeIn(s, i, ToSet(listed))
    /\ ReferencesAreGuarded <=>
          \A t \in {"user", "transport"} : \A i \in DOMAIN todo[t] :
             Refers(todo[t][i]) => SafeIn(todo[t], i, ToSet(listed))
  BY DEF Guarded, SafeIn, ReferencesAreGuarded, Refers

\* What a step of one thread leaves of what another thread refers to.
LEMMA GuardOfOthers ==
    ASSUME TypeOK, WellFormed, LocksAreBalanced, ListedOnce, NEW t \in Threads, Step(t),
           NEW u \in Threads \ {t}, NEW i \in DOMAIN todo[u], Refers(todo[u][i]),
           SafeIn(todo[u], i, ToSet(listed))
    PROVE  SafeIn(todo[u], i, ToSet(listed'))
  <1> DEFINE s == todo[u]
  <1>1. CASE \E j \in DOMAIN s : j > i /\ s[j] = Do("unref", s[i].on, "none")
    BY <1>1 DEF SafeIn
  <1>2. CASE i = 1 /\ Len(s) >= 2 /\ s[2].what = "scan" /\ s[i].on \in ToSet(listed)
    <2>1. s \in Seq(Steps) /\ DOMAIN s = 1..Len(s) /\ Len(s) \in Nat
      BY LenProperties DEF TypeOK
    <2>2. 3 \in DOMAIN s /\ s[3] = Unlock("transac_layer")
      <3>1. 2 \in DOMAIN s
        BY <1>2, <2>1
      <3>2. 2 < Len(s) /\ s[2 + 1] = Unlock("transac_layer")
        BY <1>2, <3>1 DEF WellFormed, WellNested
      <3>3. QED
        BY <2>1, <3>2
    <2>3. ~WaitsFor(u, "transac_layer")
      <3>1. s # <<>> /\ Head(s) = s[1]
        BY <1>2, <2>1
      <3>2. s[1].what # "lock" /\ Lock("transac_layer").what = "lock"
        BY <1>2 DEF Refers, Lock, Do, DoAt
      <3>3. QED
        BY <3>1, <3>2 DEF WaitsFor
    <2>4. locks["transac_layer"].by = u
      <3>1. Releasing(s[3], "transac_layer")
        BY <2>2 DEF Releasing, Unlock, Do, DoAt
      <3>2. QED
        BY <2>2, <2>3, <3>1, Holding, Names
    <2>5. s[i].on \in ToSet(listed')
      <3>1. CASE RemovesIt(t) /\ ToSet(listed') = ToSet(listed) \ {On(t)}
        <4>1. On(t) = "dialog"
          <5>1. u # t /\ u # "nobody"
            BY DEF Threads
          <5>2. QED
            BY <2>4, <3>1, <5>1 DEF RemovesIt, Available
        <4>2. s[i].on # "dialog"
          BY DEF Refers
        <4>3. QED
          BY <1>2, <3>1, <4>1, <4>2
      <3>2. CASE \E x \in Transactions : ToSet(listed') = ToSet(listed) \cup {x}
        BY <1>2, <3>2
      <3>3. QED
        BY <1>2, <3>1, <3>2, ListChange
    <2>6. QED
      BY <1>2, <2>5 DEF SafeIn
  <1>3. QED
    BY <1>1, <1>2 DEF SafeIn

\* The loop of cancel_by_dialog cancels what is in the list.
LEMMA ScanListed ==
    ASSUME TypeOK, NEW t \in Threads, Scan(t), todo[t] # <<>>,
           NEW a, Spliced(todo[t], a, todo'[t]), Len(a) = 2
    PROVE  a[1].on \in ToSet(listed)
  <1>1. PICK i \in Nat \ {0} :
           todo' = Then(t, IF i > Len(listed) THEN <<>>
                           ELSE <<Act(listed[i], "cancel"), DoAt("scan", "none", "none", i)>>)
    <2> DEFINE j == IF Head(todo[t]).at = 0 \/ ret[t] = "ok" THEN 1 ELSE Head(todo[t]).at + 1
    <2>1. j \in Nat \ {0}
      <3>1. Head(todo[t]) = todo[t][1] /\ todo[t][1] \in Steps /\ todo[t][1].what = "scan"
        BY FirstStep DEF Scan, Ready
      <3>2. QED
        BY <3>1, StepKinds
    <2>2. todo' = Then(t, IF j > Len(listed) THEN <<>>
                          ELSE <<Act(listed[j], "cancel"), DoAt("scan", "none", "none", j)>>)
      BY DEF Scan
    <2> HIDE DEF j
    <2>3. QED
      BY <2>1, <2>2
  <1>2. Len(listed) \in Nat /\ DOMAIN listed = 1..Len(listed)
        /\ \A k \in DOMAIN listed : listed[k] \in Transactions
    BY ListedFacts
  <1>3. CASE i > Len(listed)
    <2>1. Spliced(todo[t], <<>>, todo'[t])
      <3>1. <<>> \in Seq(Steps)
        OBVIOUS
      <3>2. QED
        BY <1>1, <1>3, <3>1, ThenFacts
    <2>2. Len(todo'[t]) = Len(todo[t]) + 1 /\ Len(todo[t]) \in Nat
      BY DEF Spliced
    <2>3. Len(todo'[t]) = Len(<<>>) + Len(todo[t]) - 1 /\ Len(<<>>) = 0
      BY <2>1 DEF Spliced
    <2>4. QED
      BY <2>2, <2>3
  <1>4. CASE ~(i > Len(listed))
    <2> DEFINE b == <<Act(listed[i], "cancel"), DoAt("scan", "none", "none", i)>>
    <2>1. i \in DOMAIN listed /\ listed[i] \in Transactions
      BY <1>2, <1>4
    <2>2. b \in Seq(Steps) /\ Len(b) = 2 /\ b[1].on = listed[i]
      <3>1. Act(listed[i], "cancel") \in Steps /\ DoAt("scan", "none", "none", i) \in Steps
        BY <2>1, StepType, Names DEF Actions
      <3>2. Act(listed[i], "cancel").on = listed[i]
        BY DEF Act, Do, DoAt
      <3>3. QED
        BY <3>1, <3>2
    <2>3. todo' = Then(t, b)
      BY <1>1, <1>4
    <2> HIDE DEF b
    <2>4. Spliced(todo[t], b, todo'[t])
      BY <2>2, <2>3, ThenFacts
    <2>5. b[1] = todo'[t][1] /\ a[1] = todo'[t][1]
      BY <2>2, <2>4 DEF Spliced
    <2>6. listed[i] \in ToSet(listed)
      BY <2>1 DEF ToSet
    <2>7. QED
      BY <2>2, <2>5, <2>6
  <1>5. QED
    BY <1>3, <1>4

\* What a step of a thread leaves of what it refers to.
LEMMA GuardOfOwn ==
    ASSUME TypeOK, WellFormed, LocksAreBalanced, ListedOnce, NEW t \in Threads, Step(t),
           \A i \in DOMAIN todo[t] : Refers(todo[t][i]) => SafeIn(todo[t], i, ToSet(listed)),
           NEW k \in DOMAIN todo'[t], Refers(todo'[t][k])
    PROVE  SafeIn(todo'[t], k, ToSet(listed'))
  <1> DEFINE s == todo[t]
             n == todo'[t]
  <1>1. PICK a : Turn(t, a)
    BY StepIsTurn
  <1>2. Spliced(s, a, n) /\ s # <<>> /\ s[1] \in Steps /\ Head(s) = s[1] /\ Replaces(s[1], a)
    BY <1>1, TurnFacts, FirstStep DEF Turn
  <1>3. ReplacementRefers(s[1], a)
    BY <1>2, ReplacementGuard
  <1>4. WellNested(s)
    BY DEF WellFormed
  <1>5. \A i \in DOMAIN s : Refers(s[i]) => SafeIn(s, i, ToSet(listed))
    OBVIOUS
  <1>6. k \in DOMAIN n /\ Refers(n[k])
    OBVIOUS
  <1>7. s[1].what \notin {"remove", "create"} => listed' = listed
    <2>1. RemovesIt(t) \/ Create(t) => s[1].what \in {"remove", "create"}
      BY <1>2 DEF RemovesIt, Create, Ready
    <2>2. QED
      BY <2>1, ListChange
  <1>8. s[1].what = "scan" /\ Len(a) = 2 => a[1].on \in ToSet(listed)
    <2>1. ASSUME s[1].what = "scan"
          PROVE  Scan(t)
      BY <1>2, <2>1 DEF Step, Test, Enter, Leave, Over, TakesLock, ReleasesLock, Create, Find,
                        Unref, Schedule, Store, RemovesIt, Look, Hangup, Ready
    <2>2. QED
      BY <1>2, <2>1, ScanListed
  <1> HIDE DEF s, n
  <1>9. CASE k \in (Len(a) + 1)..Len(n)
    <2>1. PICK i \in DOMAIN s :
             /\ i \in 2..Len(s) /\ k = Len(a) + i - 1 /\ n[k] = s[i]
             /\ \A j \in DOMAIN s : j > i => j # 1 /\ Len(a) + j - 1 > k
      <3>1. Spliced(s, a, n)
        BY <1>2
      <3>2. \A q \in (Len(a) + 1)..Len(n) : \E i \in DOMAIN s :
               /\ i \in 2..Len(s) /\ q = Len(a) + i - 1 /\ n[q] = s[i]
               /\ \A j \in DOMAIN s : j > i => j # 1 /\ Len(a) + j - 1 > q
        BY <3>1, SplicedPlaces
      <3>3. QED
        BY <1>9, <3>2, Zenon
    <2>2. SafeIn(s, i, ToSet(listed)) /\ i # 1
      BY <1>5, <1>6, <2>1
    <2>3. PICK j \in DOMAIN s : j > i /\ s[j] = Do("unref", s[i].on, "none")
      BY <2>2 DEF SafeIn
    <2>4. Len(a) + j - 1 \in DOMAIN n /\ Len(a) + j - 1 > k /\ n[Len(a) + j - 1] = s[j]
      BY <1>2, <2>1, <2>3, SplicedPlaces
    <2>5. QED
      BY <2>1, <2>3, <2>4 DEF SafeIn, n
  <1>10. CASE k \in 1..Len(a)
    <2>1. n[k] = a[k] /\ Refers(a[k])
      BY <1>2, <1>6, <1>10 DEF Spliced
    <2>2. CASE \E j \in 1..Len(a) : j > k /\ a[j] = Do("unref", a[k].on, "none")
      <3>1. PICK j \in 1..Len(a) : j > k /\ a[j] = Do("unref", a[k].on, "none")
        BY <2>2
      <3>2. j \in DOMAIN n /\ n[j] = a[j]
        BY <1>2, <3>1 DEF Spliced
      <3>3. QED
        BY <2>1, <3>1, <3>2 DEF SafeIn, n
    <2>3. CASE /\ s[1].what \in {"act", "enter", "leave", "schedule"} /\ Refers(s[1]) /\ a[k].on = s[1].on
               /\ Cancelling(s[1]) => Len(a) = 1
      <3>1. SafeIn(s, 1, ToSet(listed)) /\ 1 \in DOMAIN s
        BY <1>2, <1>5, <2>3 DEF Spliced
      <3>2. CASE \E j \in DOMAIN s : j > 1 /\ s[j] = Do("unref", s[1].on, "none")
        <4>1. PICK j \in DOMAIN s : j > 1 /\ s[j] = Do("unref", s[1].on, "none")
          BY <3>2
        <4>2. Len(a) + j - 1 \in DOMAIN n /\ Len(a) + j - 1 > k /\ n[Len(a) + j - 1] = s[j]
          <5>1. j \in 2..Len(s)
            BY <1>2, <4>1 DEF Spliced
          <5>2. QED
            BY <1>2, <1>10, <5>1 DEF Spliced
        <4>3. QED
          BY <2>1, <2>3, <4>1, <4>2 DEF SafeIn, n
      <3>3. CASE Len(s) >= 2 /\ s[2].what = "scan" /\ s[1].on \in ToSet(listed)
        <4>1. Cancelling(s[1])
          <5>1. 2 \in DOMAIN s
            BY <1>2, <3>3 DEF Spliced
          <5>2. s[1] = Lock("transac_layer") \/ Cancelling(s[1])
            BY <1>4, <3>3, <5>1 DEF WellNested
          <5>3. QED
            BY <2>3, <5>2 DEF Lock, Do, DoAt
        <4>2. Len(a) = 1 /\ k = 1
          <5>1. Len(a) = 1
            BY <2>3, <4>1
          <5>2. QED
            BY <1>10, <5>1
        <4>3. Len(n) >= 2 /\ n[2] = s[2]
          <5>1. Len(n) = Len(s) /\ Len(s) \in Nat /\ 2 \in 2..Len(s) /\ Len(a) + 2 - 1 = 2
            BY <1>2, <3>3, <4>2 DEF Spliced
          <5>2. n[Len(a) + 2 - 1] = s[2]
            BY <1>2, <5>1 DEF Spliced
          <5>3. QED
            BY <3>3, <5>1, <5>2
        <4>4. listed' = listed
          BY <1>7, <2>3
        <4>5. QED
          BY <2>1, <2>3, <3>3, <4>2, <4>3, <4>4 DEF SafeIn, n
      <3>4. QED
        BY <3>1, <3>2, <3>3 DEF SafeIn
    <2>4. CASE s[1].what = "scan" /\ k = 1 /\ Len(a) = 2 /\ a[2].what = "scan"
      <3>1. n[2] = a[2] /\ Len(n) >= 2
        BY <1>2, <2>4 DEF Spliced
      <3>2. a[1].on \in ToSet(listed) /\ listed' = listed
        BY <1>7, <1>8, <2>4
      <3>3. QED
        BY <2>1, <2>4, <3>1, <3>2 DEF SafeIn, n
    <2>5. QED
      BY <1>3, <1>10, <2>1, <2>2, <2>3, <2>4 DEF ReplacementRefers
  <1>11. QED
    BY <1>2, <1>6, <1>9, <1>10 DEF Spliced

\* What the threads refer to stays guarded.
LEMMA GuardsKept ==
    ASSUME TypeOK, WellFormed, LocksAreBalanced, ListedOnce, ReferencesAreGuarded,
           NEW t \in Threads, Step(t)
    PROVE  ReferencesAreGuarded'
  <1>1. \A u \in {"user", "transport"} : \A i \in DOMAIN todo[u] :
           Refers(todo[u][i]) => SafeIn(todo[u], i, ToSet(listed))
    BY GuardedIsSafe
  <1>2. ASSUME NEW u \in {"user", "transport"}, NEW i \in DOMAIN todo'[u], Refers(todo'[u][i])
        PROVE  SafeIn(todo'[u], i, ToSet(listed'))
    <2>1. CASE u = t
      BY <1>1, <1>2, <2>1, GuardOfOwn
    <2>2. CASE u # t
      <3>1. u \in Threads \ {t}
        BY <2>2 DEF Threads
      <3>2. todo'[u] = todo[u]
        BY <3>1, StepIsTurn, TurnFacts
      <3>3. QED
        BY <1>1, <1>2, <3>1, <3>2, GuardOfOthers
    <2>3. QED
      BY <2>1, <2>2
  <1>3. QED
    BY <1>2 DEF Guarded, SafeIn, ReferencesAreGuarded, Refers

\* A thread that begins refers to nothing, but that of the timers.
LEMMA GuardsBegin ==
    ASSUME TypeOK, StatesOfTheirOwn, ReferencesAreGuarded, Asks \/ Receives \/ Expires
    PROVE  ReferencesAreGuarded'
  <1>1. listed' = listed
    BY DEF Asks, Receives, Expires
  <1>2. PICK t \in Threads, step \in Steps : Begins(t, step)
    BY BeginningIsBegins
  <1>3. /\ \A u \in Threads \ {t} : todo'[u] = todo[u]
        /\ todo'[t] = <<step>> /\ DOMAIN todo'[t] = {1} /\ todo'[t][1] = step
    BY <1>2, BeginsFacts
  <1>4. t \in {"user", "transport"} => ~Refers(step)
    <2>1. todo \in [Threads -> Seq(Steps)] /\ t \in Threads /\ todo'[t] # todo[t]
      BY <1>2, <1>3 DEF TypeOK, Begins
    <2>2. CASE Asks \/ Receives
      <3>1. todo'[t][1].what \in {"look", "find"}
        BY <2>1, <2>2 DEF Asks, Receives, Do, DoAt
      <3>2. QED
        BY <1>3, <3>1 DEF Refers
    <2>3. CASE Expires
      BY <2>1, <2>3 DEF Expires
    <2>4. QED
      BY <2>2, <2>3
  <1>5. ASSUME NEW u \in {"user", "transport"}, NEW i \in DOMAIN todo'[u], Refers(todo'[u][i])
        PROVE  SafeIn(todo'[u], i, ToSet(listed'))
    <2>1. u # t
      BY <1>3, <1>4, <1>5
    <2>2. todo'[u] = todo[u]
      BY <1>3, <2>1 DEF Threads
    <2>3. QED
      BY <1>1, <1>5, <2>2, GuardedIsSafe
  <1>6. QED
    BY <1>5 DEF Guarded, SafeIn, ReferencesAreGuarded, Refers
------------------------------------------------------------------------------
\* Thread t does its first step, and has a to do instead.
Does(t, a) == todo[t] # <<>> /\ a \in Seq(Steps) /\ todo' = Then(t, a)

\* All else that was to be done is still, and a is.
LEMMA PendingKept ==
    ASSUME TypeOK, NEW t \in Threads, NEW a, Does(t, a)
    PROVE  /\ \A what, on, with : Pends(what, on, with) /\ todo[t][1] # Do(what, on, with)
                 => Pends(what, on, with)'
           /\ \A what, on, with : (\E i \in 1..Len(a) : a[i] = Do(what, on, with))
                 => Pends(what, on, with)'
           /\ \A what, on, with : Pends(what, on, with) /\ todo[t][1].what # what
                 => Pends(what, on, with)'
  <1>1. /\ \A u \in Threads \ {t} : todo'[u] = todo[u]
        /\ Spliced(todo[t], a, todo'[t])
    BY ThenFacts DEF Does
  <1>2. ASSUME NEW what, NEW on, NEW with, Pends(what, on, with), todo[t][1] # Do(what, on, with)
        PROVE  Pends(what, on, with)'
    <2> DEFINE step == Do(what, on, with)
    <2> HIDE DEF step
    <2>1. PICK u \in Threads : step \in ToSet(todo[u])
      BY <1>2 DEF Pends, step
    <2>2. step \in ToSet(todo'[u])
      <3>1. CASE u # t
        BY <1>1, <2>1, <3>1
      <3>2. CASE u = t
        <4>1. PICK i \in DOMAIN todo[t] : todo[t][i] = step
          BY <2>1, <3>2 DEF ToSet
        <4>2. i # 1
          BY <1>2, <4>1 DEF step
        <4>3. Len(a) + i - 1 \in DOMAIN todo'[t] /\ todo'[t][Len(a) + i - 1] = step
          BY <1>1, <4>1, <4>2, SplicedPlaces
        <4>4. QED
          BY <3>2, <4>3 DEF ToSet
      <3>3. QED
        BY <3>1, <3>2
    <2>3. QED
      BY <2>2 DEF Pends, step
  <1>3. ASSUME NEW what, NEW on, NEW with, NEW i \in 1..Len(a), a[i] = Do(what, on, with)
        PROVE  Pends(what, on, with)'
    <2>1. i \in DOMAIN todo'[t] /\ todo'[t][i] = a[i]
      BY <1>1 DEF Spliced
    <2>2. a[i] \in ToSet(todo'[t])
      BY <2>1 DEF ToSet
    <2>3. QED
      BY <1>3, <2>2 DEF Pends
  <1>4. \A what, on, with : todo[t][1].what # what => todo[t][1] # Do(what, on, with)
    BY StepFields
  <1>5. QED
    BY <1>2, <1>3, <1>4

\* Who was going to leave a machine is still, but who just does.
LEMMA LeavingKept ==
    ASSUME TypeOK, NEW t \in Threads, NEW a, Does(t, a), NEW m, Leaving(m),
           ~(todo[t][1].what = "leave" /\ todo[t][1].on = m)
    PROVE  Leaving(m)'
  <1>1. PICK w \in Actions : Pends("leave", m, w)
    BY DEF Leaving
  <1>2. todo[t][1] # Do("leave", m, w)
    BY StepFields
  <1>3. Pends("leave", m, w)'
    BY <1>1, <1>2, PendingKept
  <1>4. QED
    BY <1>3 DEF Leaving

\* What comes to a transaction still does, but what just did.
LEMMA ComesKept ==
    ASSUME TypeOK, NEW t \in Threads, NEW a, Does(t, a), NEW x, NEW w, Comes(x, w),
           <<x, w>> \in due => <<x, w>> \in due',
           ~(todo[t][1].what \in {"act", "enter", "schedule"} /\ todo[t][1].on = x
                /\ todo[t][1].with = w)
    PROVE  Comes(x, w)'
  <1>1. CASE <<x, w>> \in due
    BY <1>1 DEF Comes
  <1>2. ASSUME NEW what \in {"act", "enter", "schedule"}, Pends(what, x, w)
        PROVE  Comes(x, w)'
    <2>1. todo[t][1] # Do(what, x, w)
      BY <1>2, StepFields
    <2>2. Pends(what, x, w)'
      BY <1>2, <2>1, PendingKept
    <2>3. QED
      BY <2>2 DEF Comes
  <1>3. QED
    BY <1>1, <1>2 DEF Comes

\* A step is about a machine when it may be what the machine waits for.
About(step, m) ==
    step.on = m /\ step.what \in {"act", "enter", "schedule", "leave", "over", "remove"}

\* A transaction that a step is not about is served as before.
LEMMA ServedKept ==
    ASSUME TypeOK, NEW t \in Threads, NEW a, Does(t, a), NEW x, Served(x),
           fsm'[x] = fsm[x], missed' = missed,
           \A w : <<x, w>> \in due => <<x, w>> \in due', ~About(todo[t][1], x),
           x = "server" /\ fsm[x] = "Trying" /\ NotifyIsTended => NotifyIsTended'
    PROVE  Served(x)'
  <1>1. Leaving(x) => Leaving(x)'
    BY LeavingKept DEF About
  <1>2. \A what \in {"over", "remove"} : Pends(what, x, "none") => Pends(what, x, "none")'
    BY PendingKept, StepFields DEF About
  <1>3. \A w : Comes(x, w) => Comes(x, w)'
    BY ComesKept DEF About
  <1>4. Awaited(x)' = Awaited(x)
    BY DEF Awaited
  <1>5. QED
    BY <1>1, <1>2, <1>3, <1>4 DEF Served

\* The steps that tend a NOTIFY.
Tending ==
    { Act("server", "send_200"), Do("enter", "server", "send_200"),
      Do("find", "server", "send_200"), Act("dialog", "notify"),
      Do("enter", "dialog", "notify"), Do("over", "server", "none"),
      Do("leave", "server", "request"), Do("over", "dialog", "none") }

\* Those that enter a machine.
LEMMA TendingEntered ==
    ASSUME NEW step \in Tending, step.what = "enter"
    PROVE  \/ step.on = "server" /\ step.with = "send_200"
           \/ step.on = "dialog" /\ step.with = "notify"
  BY StepFields DEF Tending, Act

\* Any other step, and the end of the row that did not fail, leaves it tended.
LEMMA TendedStill ==
    ASSUME TypeOK, NEW t \in Threads, NEW a, Does(t, a), NotifyIsTended,
           \/ todo[t][1] \notin Tending
           \/ todo[t][1] = Do("leave", "server", "request") /\ ret[t] # "failed",
           \A u \in Threads \ {t} : ret'[u] = ret[u],
           ended["dialog"] > 0 => ended'["dialog"] > 0
    PROVE  NotifyIsTended'
  <1>1. /\ \A what, on, with : Pends(what, on, with) /\ todo[t][1] # Do(what, on, with)
              => Pends(what, on, with)'
        /\ todo[t][1] \in Steps /\ Head(todo[t]) = todo[t][1]
        /\ \A u \in Threads \ {t} : todo'[u] = todo[u]
    BY PendingKept, FirstStep, ThenFacts DEF Does
  <1>2. CASE Comes("server", "send_200")
    <2>1. <<"server", "send_200">> \notin due
      BY DEF TypeOK, Timers
    <2>2. todo[t][1] # Do("schedule", "server", "send_200")
      BY <1>1, StepKinds, StepFields DEF Timers
    <2>3. PICK what \in {"act", "enter", "schedule"} : Pends(what, "server", "send_200")
      BY <1>2, <2>1 DEF Comes
    <2>4. todo[t][1] # Do(what, "server", "send_200")
      BY <2>2, StepFields DEF Tending, Act
    <2>5. Pends(what, "server", "send_200")'
      BY <1>1, <2>3, <2>4
    <2>6. QED
      BY <2>5 DEF Comes, NotifyIsTended
  <1>3. CASE Comes("dialog", "notify")
    <2>1. <<"dialog", "notify">> \notin due
      BY DEF TypeOK, Timers
    <2>2. todo[t][1] # Do("schedule", "dialog", "notify")
      BY <1>1, StepKinds, StepFields DEF Timers
    <2>3. PICK what \in {"act", "enter", "schedule"} : Pends(what, "dialog", "notify")
      BY <1>3, <2>1 DEF Comes
    <2>4. todo[t][1] # Do(what, "dialog", "notify")
      BY <2>2, StepFields DEF Tending, Act
    <2>5. Pends(what, "dialog", "notify")'
      BY <1>1, <2>3, <2>4
    <2>6. QED
      BY <2>5 DEF Comes, NotifyIsTended
  <1>4. CASE Pends("find", "server", "send_200")
    BY <1>1, <1>4, StepFields DEF Tending, NotifyIsTended
  <1>5. CASE Pends("over", "server", "none") \/ Pends("over", "dialog", "none")
    BY <1>1, <1>5, StepFields DEF Tending, NotifyIsTended
  <1>6. CASE \E u \in Threads : /\ ret[u] = "failed" /\ todo[u] # <<>>
                                /\ Head(todo[u]) = Do("leave", "server", "request")
    <2>1. PICK u \in Threads : /\ ret[u] = "failed" /\ todo[u] # <<>>
                               /\ Head(todo[u]) = Do("leave", "server", "request")
      BY <1>6
    <2>2. u # t
      BY <1>1, <2>1 DEF Tending
    <2>3. ret'[u] = "failed" /\ todo'[u] = todo[u]
      BY <1>1, <2>1, <2>2
    <2>4. QED
      BY <2>1, <2>3 DEF NotifyIsTended
  <1>7. CASE ended["dialog"] > 0
    BY <1>7 DEF NotifyIsTended
  <1>8. QED
    BY <1>2, <1>3, <1>4, <1>5, <1>6, <1>7 DEF NotifyIsTended

\* So does any other step.
LEMMA NotifyKept ==
    ASSUME TypeOK, NEW t \in Threads, NEW a, Does(t, a), NotifyIsTended,
           todo[t][1] \notin Tending, \A u \in Threads \ {t} : ret'[u] = ret[u],
           ended["dialog"] > 0 => ended'["dialog"] > 0
    PROVE  NotifyIsTended'
  BY TendedStill

\* A step that does not end the dialog leaves it as it is.
LEMMA DialogKept ==
    ASSUME TypeOK, NEW t \in Threads, NEW a, Does(t, a), DialogEnds,
           fsm'["dialog"] = fsm["dialog"], dialogListed' => dialogListed,
           ended["dialog"] > 0 => ended'["dialog"] > 0,
           todo[t][1].on = "dialog" => todo[t][1].what \notin {"leave", "over", "remove"}
    PROVE  DialogEnds'
  <1>1. Leaving("dialog") => Leaving("dialog")'
    BY LeavingKept
  <1>2. \A what \in {"over", "remove"} : Pends(what, "dialog", "none") => Pends(what, "dialog", "none")'
    BY PendingKept, StepFields
  <1>3. QED
    BY <1>1, <1>2 DEF DialogEnds

\* Before the lock of a machine is waited for.
LEMMA TestServes ==
    ASSUME TypeOK, WellFormed, ListedAreServed, DialogEnds, NEW t \in Threads, Test(t)
    PROVE  (\A x \in ToSet(listed) : Served(x)') /\ DialogEnds'
  <1>0. PICK step, m, w : step = todo[t][1] /\ m = step.on /\ w = step.with
    OBVIOUS
  <1> DEFINE refused == fsm[m] = "Terminated" \/ ~Exists(m)
             a == IF refused THEN <<>> ELSE <<Do("enter", m, w)>>
  <1>1. /\ todo[t] # <<>> /\ step.what = "act" /\ Head(todo[t]) = step /\ step \in Steps
        /\ On(t) = m /\ With(t) = w /\ m \in Machines /\ w \in Actions /\ step = Do("act", m, w)
    <2>1. todo[t] # <<>> /\ Head(todo[t]).what = "act"
      BY DEF Test, Ready
    <2>2. QED
      BY <1>0, <2>1, FirstStep, StepKinds
  <1>2. Does(t, a)
    <2>1. a \in Seq(Steps)
      <3>1. <<>> \in Seq(Steps) /\ <<Do("enter", m, w)>> \in Seq(Steps)
        BY <1>1, StepType
      <3>2. QED
        BY <3>1
    <2>2. todo' = Then(t, a)
      BY <1>1 DEF Test
    <2> HIDE DEF a
    <2>3. QED
      BY <1>1, <2>1, <2>2 DEF Does
  <1>3. /\ UNCHANGED <<fsm, listed, due, dialogListed, ended, missed>>
        /\ ret' = [ret EXCEPT ![t] = IF refused THEN "failed" ELSE @]
    BY <1>1 DEF Test
  <1>4. \A x \in ToSet(listed) : Exists(x)
    BY ListedFacts DEF Exists, Held
  <1>5. ~refused => Pends("enter", m, w)'
    <2>1. SUFFICES ASSUME ~refused
                   PROVE  Pends("enter", m, w)'
      OBVIOUS
    <2>2. Len(a) = 1 /\ a[1] = Do("enter", m, w)
      BY <2>1
    <2> HIDE DEF a, refused
    <2>3. \E i \in 1..Len(a) : a[i] = Do("enter", m, w)
      BY <2>2
    <2>4. QED
      BY <1>2, <2>3, PendingKept
  <1>6. refused => Spliced(todo[t], <<>>, todo'[t])
    BY <1>2, ThenFacts DEF Does
  <1> HIDE DEF a
  <1>7. ASSUME "server" \in ToSet(listed), fsm["server"] = "Trying", NotifyIsTended
        PROVE  NotifyIsTended'
    <2>1. CASE step \notin Tending
      <3>1. \A u \in Threads \ {t} : ret'[u] = ret[u]
        BY <1>3 DEF TypeOK
      <3>2. ended'["dialog"] = ended["dialog"]
        BY <1>3
      <3>3. QED
        BY <1>0, <1>2, <1>7, <2>1, <3>1, <3>2, NotifyKept
    <2>2. CASE step = Act("server", "send_200")
      <3>1. m = "server" /\ w = "send_200"
        BY <1>0, <2>2, StepFields DEF Act
      <3>2. ~refused
        BY <1>4, <1>7, <3>1
      <3>3. Pends("enter", "server", "send_200")'
        BY <1>5, <3>1, <3>2
      <3>4. QED
        BY <3>3 DEF Comes, NotifyIsTended
    <2>3. CASE step = Act("dialog", "notify")
      <3>1. m = "dialog" /\ w = "notify"
        BY <1>0, <2>3, StepFields DEF Act
      <3>2. CASE ~refused
        <4>1. Pends("enter", "dialog", "notify")'
          BY <1>5, <3>1, <3>2
        <4>2. QED
          BY <4>1 DEF Comes, NotifyIsTended
      <3>3. CASE refused
        <4>1. /\ 1 < Len(todo[t]) /\ todo[t][2] = Do("leave", "server", "request")
              /\ DOMAIN todo[t] = 1..Len(todo[t]) /\ Len(todo[t]) \in Nat
          <5>1. 1 \in DOMAIN todo[t] /\ DOMAIN todo[t] = 1..Len(todo[t]) /\ Len(todo[t]) \in Nat
            BY <1>1, FirstStep
          <5>2. 1 < Len(todo[t]) /\ todo[t][1 + 1] = Do("leave", "server", "request")
            BY <1>0, <2>3, <5>1 DEF WellFormed, NotifyIsPassedOn
          <5>3. QED
            BY <5>1, <5>2
        <4>2. todo'[t] \in Seq(Steps) /\ Len(todo'[t]) \in Nat \ {0} /\ todo'[t][1] = todo[t][2]
          <5>1. Spliced(todo[t], <<>>, todo'[t]) /\ Len(<<>>) = 0
            BY <1>6, <3>3
          <5>2. Len(todo'[t]) = Len(todo[t]) - 1 /\ todo'[t][0 + 2 - 1] = todo[t][2]
            BY <4>1, <5>1 DEF Spliced
          <5>3. QED
            BY <1>2, <4>1, <5>2, ThenFacts DEF Does
        <4>3. todo'[t] # <<>> /\ Head(todo'[t]) = Do("leave", "server", "request")
          BY <4>1, <4>2
        <4>4. ret'[t] = "failed"
          BY <1>3, <3>3 DEF TypeOK
        <4>5. QED
          BY <4>3, <4>4 DEF NotifyIsTended
      <3>4. QED
        BY <3>2, <3>3
    <2>4. QED
      BY <1>1, <2>1, <2>2, <2>3, StepFields DEF Tending
  <1>8. ASSUME NEW x \in ToSet(listed)
        PROVE  Served(x)'
    <2>1. Served(x)
      BY DEF ListedAreServed
    <2>2. Leaving(x) => Leaving(x)'
      BY <1>0, <1>1, <1>2, LeavingKept
    <2>3. \A what \in {"over", "remove"} : Pends(what, x, "none") => Pends(what, x, "none")'
      BY <1>0, <1>1, <1>2, PendingKept, StepFields
    <2>4. Awaited(x)' = Awaited(x)
      BY <1>3 DEF Awaited
    <2>5. fsm[x] # "Terminated" /\ Comes(x, Awaited(x)) => Comes(x, Awaited(x))'
      <3>1. CASE m = x /\ w = Awaited(x)
        <4>1. fsm[x] # "Terminated" => Pends("enter", x, w)'
          BY <1>4, <1>5, <3>1
        <4>2. QED
          BY <2>4, <3>1, <4>1 DEF Comes
      <3>2. CASE ~(m = x /\ w = Awaited(x))
        <4>1. Comes(x, Awaited(x)) => \A v : v = Awaited(x) => Comes(x, v)'
          BY <1>0, <1>2, <1>3, <3>2, ComesKept
        <4>2. QED
          BY <2>4, <4>1 DEF Comes
      <3>3. QED
        BY <3>1, <3>2
    <2>6. QED
      BY <1>3, <1>7, <2>1, <2>2, <2>3, <2>5 DEF Served
  <1>9. DialogEnds'
    BY <1>0, <1>1, <1>2, <1>3, DialogKept
  <1>10. QED
    BY <1>8, <1>9

\* What a transaction waits for has a row.
LEMMA AwaitedRow ==
    ASSUME NEW x \in Transactions, fsm[x] \in {"Started", "Trying", "Completed"}
    PROVE  \E r \in Rows(x) : r.from = fsm[x] /\ r.action = Awaited(x)
  <1>1. CASE x = "server"
    <2>1. \/ fsm[x] = "Started" /\ Awaited(x) = "request"
          \/ fsm[x] = "Trying" /\ Awaited(x) = "send_200"
          \/ fsm[x] = "Completed" /\ Awaited(x) = "timerJ"
      BY <1>1 DEF Awaited
    <2>2. ServerRows \subseteq Rows(x)
      BY <1>1 DEF Rows
    <2>3. \E r \in ServerRows : r.from = fsm[x] /\ r.action = Awaited(x)
      BY <2>1 DEF ServerRows, Row
    <2>4. QED
      BY <2>2, <2>3
  <1>2. CASE x \in Clients
    <2>1. x # "server" /\ x # "dialog"
      BY <1>2, Names
    <2>2. \/ fsm[x] = "Started" /\ Awaited(x) = "send"
          \/ fsm[x] = "Trying" /\ Awaited(x) = "timerF"
          \/ fsm[x] = "Completed" /\ Awaited(x) = "timerK"
      BY <2>1 DEF Awaited
    <2>3. ClientRows(x) \subseteq Rows(x)
      BY <2>1 DEF Rows
    <2>4. \E r \in ClientRows(x) : r.from = fsm[x] /\ r.action = Awaited(x)
      <3>1. \A from, action, to, body : /\ Row(from, action, to, body).from = from
                                       /\ Row(from, action, to, body).action = action
        BY DEF Row
      <3>2. /\ \E body : Row("Started", "send", "Trying", body) \in ClientRows(x)
            /\ \E body : Row("Trying", "timerF", "Terminated", body) \in ClientRows(x)
            /\ \E body : Row("Completed", "timerK", "Terminated", body) \in ClientRows(x)
        BY DEF ClientRows
      <3>3. QED
        BY <2>2, <3>1, <3>2
    <2>5. QED
      BY <2>3, <2>4
  <1>3. QED
    BY <1>1, <1>2, Names

\* A row that leads to a state brings what the transaction waits for there.
LEMMA RowLeads ==
    ASSUME NEW x \in Transactions, NEW r \in Rows(x)
    PROVE  \/ r.to = "Terminated"
           \/ r.to = "Started" /\ r.from = "Started" /\ r.action = "cancel"
           \/ x \in Clients /\ r.to = "Trying" /\ r.body = <<Do("schedule", x, "timerF")>>
           \/ /\ x \in Clients /\ r.to = "Completed"
              /\ r.body = <<Act("dialog", r.action), Do("schedule", x, "timerK")>>
           \/ x = "server" /\ r.to = "Trying" /\ r.body = <<Act("dialog", "notify")>>
           \/ x = "server" /\ r.to = "Completed" /\ r.body = <<Do("schedule", x, "timerJ")>>
  <1>1. CASE r \in TransactionRows(x)
    BY <1>1 DEF TransactionRows, Row
  <1>2. CASE x = "server" /\ r \in ServerRows
    BY <1>2 DEF ServerRows, Row
  <1>3. CASE x \in Clients /\ r \in ClientRows(x)
    BY <1>3 DEF ClientRows, Row
  <1>4. QED
    BY <1>1, <1>2, <1>3, Names DEF Rows

\* The dialog has a row for a NOTIFY until it is over, and answers it there.
LEMMA NotifyRow ==
    /\ \A state \in {"Trying", "Connected"} :
          \E r \in Rows("dialog") : r.from = state /\ r.action = "notify"
    /\ \A r \in Rows("dialog") : r.action = "notify" => r.body = ResponseSend
  <1>1. Rows("dialog") = DialogRows
    BY DEF Rows
  <1>2. \A state \in {"Trying", "Connected"} :
           \E r \in DialogRows : r.from = state /\ r.action = "notify"
    <2>1. \A state \in {"Trying", "Connected"} : Row(state, "notify", state, ResponseSend) \in DialogRows
      BY DEF DialogRows
    <2>2. QED
      BY <2>1 DEF Row
  <1>3. \A r \in DialogRows : r.action = "notify" => r.body = ResponseSend
    BY DEF DialogRows, Row
  <1>4. QED
    BY <1>1, <1>2, <1>3

\* A row ends where it is left.
LEMMA RowEnds ==
    ASSUME NEW m, NEW w, NEW b, InRow(m, w, b)
    PROVE  \E i \in 1..Len(b) : b[i] = Do("leave", m, w)
  <1> DEFINE last == Do("leave", m, w)
  <1>1. InRow(m, w, b)
    OBVIOUS
  <1>2. \/ b = <<last>>
        \/ \E x : b = <<x, last>>
        \/ \E x, y : b = <<x, y, last>>
        \/ \E x, y, z : b = <<x, y, z, last>>
    BY <1>1 DEF InRow
  <1> HIDE DEF last
  <1>3. CASE b = <<last>>
    <2>1. 1 \in 1..Len(b) /\ b[1] = last
      BY <1>3
    <2>2. QED
      BY <2>1 DEF last
  <1>4. CASE \E x : b = <<x, last>>
    <2>1. 2 \in 1..Len(b) /\ b[2] = last
      BY <1>4
    <2>2. QED
      BY <2>1 DEF last
  <1>5. CASE \E x, y : b = <<x, y, last>>
    <2>1. 3 \in 1..Len(b) /\ b[3] = last
      BY <1>5
    <2>2. QED
      BY <2>1 DEF last
  <1>6. CASE \E x, y, z : b = <<x, y, z, last>>
    <2>1. 4 \in 1..Len(b) /\ b[4] = last
      BY <1>6
    <2>2. QED
      BY <2>1 DEF last
  <1>7. QED
    BY <1>2, <1>3, <1>4, <1>5, <1>6

\* Who enters the dialog finds no other thread in a row of it, and is in none.
LEMMA NobodyInside ==
    ASSUME TypeOK, WellFormed, LocksAreBalanced, NEW t \in Threads,
           todo[t] # <<>>, todo[t][1].what = "enter", todo[t][1].on = "dialog",
           Available(t, "dialog")
    PROVE  ~Leaving("dialog")
  <1>1. SUFFICES ASSUME Leaving("dialog")
                 PROVE  FALSE
    OBVIOUS
  <1>2. PICK w \in Actions, u \in Threads : Do("leave", "dialog", w) \in ToSet(todo[u])
    BY <1>1 DEF Leaving, Pends
  <1>3. PICK j \in DOMAIN todo[u] : todo[u][j] = Do("leave", "dialog", w)
    BY <1>2 DEF ToSet
  <1>4. todo[u][j].what = "leave" /\ todo[u][j].on = "dialog"
    BY <1>3, StepFields
  <1>5. CASE u = t
    <2>1. DOMAIN todo[t] = 1..Len(todo[t]) /\ Len(todo[t]) \in Nat
      BY FirstStep
    <2>2. j # 1
      BY <1>4, <1>5
    <2>3. 1 \in 1..(j - 1)
      BY <1>3, <1>5, <2>1, <2>2
    <2>4. Inner(todo[t][1])
      BY <1>3, <1>4, <1>5, <2>3 DEF WellFormed, RowsAreNotNested
    <2>5. QED
      BY <2>4 DEF Inner
  <1>6. CASE u # t
    <2>1. ~WaitsFor(u, "dialog")
      <3>1. ASSUME WaitsFor(u, "dialog")
            PROVE  FALSE
        <4>1. todo[u] # <<>> /\ Head(todo[u]) = Lock("dialog")
          BY <3>1 DEF WaitsFor
        <4>2. todo[u][1] \in Steps /\ todo[u][1] = Lock("dialog")
          BY <4>1, FirstStep
        <4>3. Lock("dialog").what = "lock" /\ Lock("dialog").on = "dialog"
          BY DEF Lock, Do, DoAt
        <4>4. "dialog" \in Locks \ Machines
          BY <4>2, <4>3, StepKinds
        <4>5. QED
          BY <4>4, Names
      <3>2. QED
        BY <3>1
    <2>2. Releasing(todo[u][j], "dialog") /\ "dialog" \in Locks
      BY <1>4, Names DEF Releasing
    <2>3. locks["dialog"].by = u
      BY <1>3, <2>1, <2>2, Holding
    <2>4. u # "nobody"
      BY DEF Threads
    <2>5. QED
      BY <1>6, <2>3, <2>4 DEF Available
  <1>7. QED
    BY <1>5, <1>6

\* The first step of a thread is about m, with w, and whether it has a row for w.
FirstIs(t, step, m, w) == step = todo[t][1] /\ m = step.on /\ w = step.with
HasRow(m, w) == \E r \in Rows(m) : r.from = fsm[m] /\ r.action = w

\* A machine is entered, and has no row for the event.
LEMMA NoRowServes ==
    ASSUME TypeOK, StatesOfTheirOwn, WellFormed, LocksAreBalanced, ListedAreServed, DialogEnds,
           NEW t \in Threads, Enter(t),
           NEW step, NEW m, NEW w, FirstIs(t, step, m, w), ~HasRow(m, w)
    PROVE  (\A x \in ToSet(listed) : Served(x)') /\ DialogEnds'
  <1>1. /\ todo[t] # <<>> /\ step.what = "enter" /\ Head(todo[t]) = step /\ step \in Steps
        /\ step = todo[t][1] /\ m = step.on /\ w = step.with
        /\ On(t) = m /\ With(t) = w /\ m \in Machines /\ w \in Actions /\ step = Do("enter", m, w)
    <2>1. todo[t] # <<>> /\ Head(todo[t]).what = "enter"
      BY DEF Enter, Ready
    <2>2. QED
      BY <2>1, FirstStep, StepKinds DEF FirstIs
  <1>2. /\ UNCHANGED <<fsm, listed, due, dialogListed, ended, missed>>
        /\ ret' = [ret EXCEPT ![t] = "ok"]
        /\ todo' = Then(t, <<Unlock(m)>>) /\ Available(t, m)
    <2>1. {r \in Rows(m) : r.from = fsm[m] /\ r.action = w} = {}
      BY DEF HasRow
    <2>2. QED
      BY <1>1, <2>1 DEF Enter, Take
  <1>3. Does(t, <<Unlock(m)>>)
    <2>1. <<Unlock(m)>> \in Seq(Steps)
      <3>1. Unlock(m) \in Steps
        BY <1>1, StepType, Names, Zenon
      <3>2. QED
        BY <3>1
    <2>2. QED
      BY <1>1, <1>2, <2>1, Zenon DEF Does
  <1>4. \A x \in Transactions : fsm[x] \in {"Started", "Trying", "Completed"} =>
           ~(m = x /\ w = Awaited(x))
    BY AwaitedRow DEF HasRow
  <1>5. ASSUME "server" \in ToSet(listed), fsm["server"] = "Trying", NotifyIsTended
        PROVE  NotifyIsTended'
    <2>1. CASE step \notin Tending
      <3>1. \A u \in Threads \ {t} : ret'[u] = ret[u]
        BY <1>2 DEF TypeOK
      <3>2. ended'["dialog"] = ended["dialog"]
        BY <1>2
      <3>3. QED
        BY <1>1, <1>3, <1>5, <2>1, <3>1, <3>2, NotifyKept
    <2>2. CASE m = "server" /\ w = "send_200"
      <3>1. Awaited("server") = "send_200"
        BY <1>5 DEF Awaited
      <3>2. QED
        BY <1>4, <1>5, <2>2, <3>1, Names
    <2>3. CASE m = "dialog" /\ w = "notify"
      <3>1. fsm["dialog"] = "Terminated"
        BY <2>3, NotifyRow, Names DEF HasRow, StatesOfTheirOwn, StatesOf
      <3>2. ~Leaving("dialog")
        BY <1>1, <1>2, <2>3, NobodyInside, Zenon
      <3>3. Pends("over", "dialog", "none") \/ ended["dialog"] > 0
        BY <3>1, <3>2 DEF DialogEnds
      <3>4. Pends("over", "dialog", "none") => Pends("over", "dialog", "none")'
        BY <1>1, <1>3, PendingKept, Zenon
      <3>5. QED
        BY <1>2, <3>3, <3>4 DEF NotifyIsTended
    <2>4. QED
      BY <1>1, <2>1, <2>2, <2>3, TendingEntered, Zenon
  <1>6. ASSUME NEW x \in ToSet(listed)
        PROVE  Served(x)'
    <2>1. Served(x) /\ x \in Transactions
      BY ListedFacts DEF ListedAreServed
    <2>2. Leaving(x) => Leaving(x)'
      BY <1>1, <1>3, LeavingKept
    <2>3. \A what \in {"over", "remove"} : Pends(what, x, "none") => Pends(what, x, "none")'
      <3>1. todo[t][1].what # "over" /\ todo[t][1].what # "remove"
        BY <1>1, Zenon
      <3>2. QED
        BY <1>3, <3>1, PendingKept
    <2>4. Awaited(x)' = Awaited(x)
      BY <1>2 DEF Awaited
    <2>5. fsm[x] \in {"Started", "Trying", "Completed"} /\ Comes(x, Awaited(x)) => Comes(x, Awaited(x))'
      <3>1. ASSUME NEW v, v = Awaited(x), ~(m = x /\ w = v), Comes(x, v)
            PROVE  Comes(x, v)'
        BY <1>1, <1>2, <1>3, <3>1, ComesKept, Zenon
      <3>2. QED
        BY <1>4, <2>1, <2>4, <3>1 DEF Comes
    <2>6. QED
      BY <1>2, <1>5, <2>1, <2>2, <2>3, <2>5 DEF Served
  <1>7. DialogEnds'
    BY <1>1, <1>2, <1>3, DialogKept, Zenon
  <1>8. QED
    BY <1>6, <1>7

\* What the row that a thread executes has to do pends.
LEMMA BodyPends ==
    ASSUME TypeOK, NEW t \in Threads, NEW body, NEW end, NEW b, b = Append(body, end), Does(t, b)
    PROVE  /\ \A what, on, with :
                 body = <<Do(what, on, with)>> => Pends(what, on, with)'
           /\ \A before, what, on, with :
                 body = <<before, Do(what, on, with)>> => Pends(what, on, with)'
  <1>1. ASSUME NEW what, NEW on, NEW with, body = <<Do(what, on, with)>>
        PROVE  Pends(what, on, with)'
    <2>1. b = <<Do(what, on, with), end>>
      BY <1>1, Appending, Zenon
    <2>2. 1 \in 1..Len(b) /\ b[1] = Do(what, on, with)
      BY <2>1
    <2>3. QED
      BY <2>2, PendingKept, Zenon
  <1>2. ASSUME NEW before, NEW what, NEW on, NEW with, body = <<before, Do(what, on, with)>>
        PROVE  Pends(what, on, with)'
    <2>1. b = <<before, Do(what, on, with), end>>
      BY <1>2, Appending, Zenon
    <2>2. 2 \in 1..Len(b) /\ b[2] = Do(what, on, with)
      BY <2>1
    <2>3. QED
      BY <2>2, PendingKept, Zenon
  <1>3. QED
    BY <1>1, <1>2, Zenon

\* A machine is entered, and a row is executed.
LEMMA RowServes ==
    ASSUME TypeOK, ListedAreServed, DialogEnds, NEW t \in Threads, Enter(t),
           NEW step, NEW m, NEW w, FirstIs(t, step, m, w), HasRow(m, w)
    PROVE  (\A x \in ToSet(listed) : Served(x)') /\ DialogEnds'
  <1>1. /\ todo[t] # <<>> /\ step.what = "enter" /\ Head(todo[t]) = step /\ step \in Steps
        /\ step = todo[t][1] /\ m = step.on /\ w = step.with
        /\ On(t) = m /\ With(t) = w /\ m \in Machines /\ w \in Actions /\ step = Do("enter", m, w)
    <2>1. todo[t] # <<>> /\ Head(todo[t]).what = "enter"
      BY DEF Enter, Ready
    <2>2. QED
      BY <2>1, FirstStep, StepKinds DEF FirstIs
  <1>2. PICK r \in Rows(m) :
           /\ r.from = fsm[m] /\ r.action = w
           /\ fsm' = [fsm EXCEPT ![m] = r.to]
           /\ todo' = Then(t, Append(r.body, Do("leave", m, w)))
           /\ due' = IF r.to = "Completed" THEN due \ {<<m, "timerF">>} ELSE due
           /\ UNCHANGED <<ret, listed, dialogListed, ended, missed>>
    <2>1. {r \in Rows(m) : r.from = fsm[m] /\ r.action = w} # {}
      BY DEF HasRow
    <2>2. QED
      BY <1>1, <2>1 DEF Enter
  <1>3. PICK b : b = Append(r.body, Do("leave", m, w))
    BY Zenon
  <1>4. BodyOf(m, w, r.body) /\ InRow(m, w, b)
    BY <1>1, <1>2, <1>3, RowShape, BodyInRow, Zenon
  <1>5. Does(t, b)
    <2>1. Replaces(step, b)
      BY <1>1, <1>3, <1>4, Zenon DEF Replaces
    <2>2. QED
      BY <1>1, <1>2, <1>3, <2>1, ReplacementType, Zenon DEF Does
  <1>6. Leaving(m)'
    <2>1. Pends("leave", m, w)'
      BY <1>4, <1>5, RowEnds, PendingKept
    <2>2. QED
      BY <1>1, <2>1 DEF Leaving
  <1>7. \A what, on, with :
           r.body = <<Do(what, on, with)>> => Pends(what, on, with)'
    BY <1>3, <1>5, BodyPends, Zenon
  <1>8. \A before, what, on, with :
           r.body = <<before, Do(what, on, with)>> => Pends(what, on, with)'
    BY <1>3, <1>5, BodyPends, Zenon
  <1>9. /\ fsm'[m] = r.to /\ \A k \in Machines : k # m => fsm'[k] = fsm[k]
        /\ \A x, v : <<x, v>> \in due /\ <<x, v>> # <<m, "timerF">> => <<x, v>> \in due'
    BY <1>1, <1>2, Zenon DEF TypeOK
  <1>10. ASSUME "server" \in ToSet(listed), fsm["server"] = "Trying", m # "server"
         PROVE  NotifyIsTended'
    <2>1. NotifyIsTended
      BY <1>10 DEF ListedAreServed, Served
    <2>2. CASE step \notin Tending
      BY <1>1, <1>2, <1>5, <2>1, <2>2, NotifyKept
    <2>3. CASE m = "dialog" /\ w = "notify"
      <3>1. r.body = <<Do("find", "server", "send_200")>>
        BY <1>2, <2>3, NotifyRow DEF ResponseSend
      <3>2. Pends("find", "server", "send_200")'
        BY <1>7, <3>1, Zenon
      <3>3. QED
        BY <3>2, Zenon DEF NotifyIsTended
    <2>4. QED
      BY <1>1, <1>10, <2>2, <2>3, TendingEntered, Zenon
  <1>11. ASSUME NEW x \in ToSet(listed), x # m
         PROVE  Served(x)'
    <2>1. Served(x) /\ x \in Machines
      BY ListedFacts, Names DEF ListedAreServed
    <2>2. fsm'[x] = fsm[x] /\ \A v : <<x, v>> \in due => <<x, v>> \in due'
      BY <1>9, <1>11, <2>1
    <2>3. Leaving(x) => Leaving(x)'
      BY <1>1, <1>5, LeavingKept
    <2>4. \A what \in {"over", "remove"} : Pends(what, x, "none") => Pends(what, x, "none")'
      <3>1. todo[t][1].what # "over" /\ todo[t][1].what # "remove"
        BY <1>1, Zenon
      <3>2. QED
        BY <1>5, <3>1, PendingKept
    <2>5. \A v : Comes(x, v) => Comes(x, v)'
      BY <1>1, <1>5, <1>11, <2>2, ComesKept
    <2>6. Awaited(x)' = Awaited(x)
      BY <2>2 DEF Awaited
    <2>7. x = "server" /\ fsm[x] = "Trying" => NotifyIsTended'
      BY <1>10, <1>11
    <2>8. QED
      BY <1>2, <2>1, <2>2, <2>3, <2>4, <2>5, <2>6, <2>7 DEF Served
  <1>12. ASSUME NEW x \in ToSet(listed), x = m
         PROVE  Served(x)'
    <2>1. Served(x) /\ x \in Transactions
      BY ListedFacts DEF ListedAreServed
    <2>2. CASE r.to = "Terminated"
      BY <1>6, <1>9, <1>12, <2>2 DEF Served
    <2>3. CASE r.to = "Started" /\ r.from = "Started" /\ r.action = "cancel"
      <3>1. fsm[x] = "Started" /\ fsm'[x] = "Started" /\ w = "cancel"
        BY <1>2, <1>9, <1>12, <2>3
      <3>2. Awaited(x)' = Awaited(x) /\ Awaited(x) \in {"request", "send"}
        BY <3>1 DEF Awaited
      <3>3. due' = due
        BY <1>2, <2>3
      <3>4. ASSUME NEW v, v = Awaited(x), Comes(x, v)
            PROVE  Comes(x, v)'
        BY <1>1, <1>5, <3>1, <3>2, <3>3, <3>4, ComesKept
      <3>5. Comes(x, Awaited(x))'
        BY <2>1, <3>1, <3>2, <3>4 DEF Served, Comes
      <3>6. QED
        BY <3>1, <3>5 DEF Served
    <2>4. CASE x \in Clients /\ r.to = "Trying" /\ r.body = <<Do("schedule", x, "timerF")>>
      <3>1. x # "server" /\ fsm'[x] = "Trying" /\ Awaited(x)' = "timerF"
        BY <1>9, <1>12, <2>4, Names DEF Awaited
      <3>2. Pends("schedule", x, "timerF")'
        BY <1>7, <2>4
      <3>3. Comes(x, Awaited(x))'
        BY <3>1, <3>2 DEF Comes
      <3>4. QED
        BY <3>1, <3>3 DEF Served
    <2>5. CASE /\ x \in Clients /\ r.to = "Completed"
               /\ r.body = <<Act("dialog", r.action), Do("schedule", x, "timerK")>>
      <3>1. x # "server" /\ fsm'[x] = "Completed" /\ Awaited(x)' = "timerK"
        BY <1>9, <1>12, <2>5, Names DEF Awaited
      <3>2. Pends("schedule", x, "timerK")'
        BY <1>8, <2>5
      <3>3. Comes(x, Awaited(x))'
        BY <3>1, <3>2 DEF Comes
      <3>4. QED
        BY <3>1, <3>3 DEF Served
    <2>6. CASE x = "server" /\ r.to = "Trying" /\ r.body = <<Act("dialog", "notify")>>
      <3>1. fsm'[x] = "Trying"
        BY <1>9, <1>12, <2>6
      <3>2. Pends("act", "dialog", "notify")'
        BY <1>7, <2>6 DEF Act
      <3>3. NotifyIsTended'
        BY <3>2 DEF Comes, NotifyIsTended
      <3>4. QED
        BY <2>6, <3>1, <3>3 DEF Served
    <2>7. CASE x = "server" /\ r.to = "Completed" /\ r.body = <<Do("schedule", x, "timerJ")>>
      <3>1. fsm'[x] = "Completed" /\ Awaited(x)' = "timerJ"
        BY <1>9, <1>12, <2>7 DEF Awaited
      <3>2. Pends("schedule", x, "timerJ")'
        BY <1>7, <2>7
      <3>3. Comes(x, Awaited(x))'
        BY <3>1, <3>2 DEF Comes
      <3>4. QED
        BY <3>1, <3>3 DEF Served
    <2>8. QED
      BY <1>12, <2>1, <2>2, <2>3, <2>4, <2>5, <2>6, <2>7, RowLeads
  <1>13. DialogEnds'
    <2>1. CASE m = "dialog"
      BY <1>6, <2>1 DEF DialogEnds
    <2>2. CASE m # "dialog"
      <3>1. fsm'["dialog"] = fsm["dialog"]
        BY <1>9, <2>2, Names
      <3>2. QED
        BY <1>1, <1>2, <1>5, <3>1, DialogKept, Zenon
    <2>3. QED
      BY <2>1, <2>2
  <1>14. QED
    BY <1>11, <1>12, <1>13

\* A turn is what a thread does.
LEMMA TurnDoes ==
    ASSUME TypeOK, NEW t \in Threads, Step(t)
    PROVE  \E a : Does(t, a)
  BY StepIsTurn DEF Turn, Does, Then

\* Steps that are about no machine.
LEMMA AsideServes ==
    ASSUME TypeOK, ListedAreServed, DialogEnds, NEW t \in Threads, NEW a, Does(t, a),
           todo[t][1].what \in {"lock", "unlock", "scan", "look", "hangup", "unref", "find",
                               "store"},
           UNCHANGED <<fsm, dialogListed, ended, ret, missed>>,
           \A x \in ToSet(listed) : \A v : <<x, v>> \in due => <<x, v>> \in due',
           /\ "server" \in ToSet(listed)
           /\ todo[t][1] = Do("find", "server", "send_200")
           => NotifyIsTended'
    PROVE  (\A x \in ToSet(listed) : Served(x)') /\ DialogEnds'
  <1>1. \A m : ~About(todo[t][1], m)
    BY DEF About
  <1>2. ASSUME "server" \in ToSet(listed), NotifyIsTended
        PROVE  NotifyIsTended'
    <2>1. todo[t][1] = Do("find", "server", "send_200") \/ todo[t][1] \notin Tending
      BY StepFields DEF Tending, Act
    <2>2. todo[t][1] \notin Tending => NotifyIsTended'
      BY <1>2, NotifyKept
    <2>3. QED
      BY <1>2, <2>1, <2>2
  <1>3. ASSUME NEW x \in ToSet(listed)
        PROVE  Served(x)'
    <2>1. Served(x)
      BY DEF ListedAreServed
    <2>2. QED
      BY <1>1, <1>2, <2>1, ServedKept
  <1>4. DialogEnds'
    BY DialogKept
  <1>5. QED
    BY <1>3, <1>4

\* A transaction is looked for.
LEMMA FindServes ==
    ASSUME TypeOK, ListedAreServed, DialogEnds, NEW t \in Threads, Find(t)
    PROVE  (\A x \in ToSet(listed) : Served(x)') /\ DialogEnds'
  <1>1. /\ todo[t] # <<>> /\ todo[t][1].what = "find" /\ On(t) = todo[t][1].on
        /\ With(t) = todo[t][1].with
    BY FirstStep DEF Find, Ready
  <1>2. PICK a : Does(t, a)
    BY TurnDoes DEF Step
  <1>3. ASSUME "server" \in ToSet(listed), todo[t][1] = Do("find", "server", "send_200")
        PROVE  NotifyIsTended'
    <2> DEFINE b == <<Act("server", "send_200"), Do("unref", "server", "none")>>
    <2>1. todo[t][1].on = "server" /\ todo[t][1].with = "send_200"
      BY <1>3, StepFields
    <2>2. todo' = Then(t, b)
      BY <1>1, <1>3, <2>1, ListedFacts DEF Find
    <2>3. b \in Seq(Steps)
      BY StepType, Names DEF Actions
    <2>4. Does(t, b)
      BY <1>1, <2>2, <2>3 DEF Does
    <2>5. 1 \in 1..Len(b) /\ b[1] = Do("act", "server", "send_200")
      BY DEF Act
    <2>6. Pends("act", "server", "send_200")'
      BY <2>4, <2>5, PendingKept
    <2>7. QED
      BY <2>6 DEF Comes, NotifyIsTended
  <1>4. UNCHANGED <<fsm, dialogListed, ended, ret, due, missed>>
    BY DEF Find
  <1>5. QED
    BY <1>1, <1>2, <1>3, <1>4, AsideServes

\* The layers are locked or released, looked through, or a reference is given back.
LEMMA OthersServe ==
    ASSUME TypeOK, ListedAreServed, DialogEnds, NEW t \in Threads,
           \/ TakesLock(t) \/ ReleasesLock(t) \/ Unref(t) \/ Store(t)
           \/ Scan(t) \/ Look(t) \/ Hangup(t)
    PROVE  (\A x \in ToSet(listed) : Served(x)') /\ DialogEnds'
  <1>1. todo[t][1].what \in {"lock", "unlock", "scan", "look", "hangup", "unref", "store"}
    BY FirstStep DEF TakesLock, ReleasesLock, Unref, Store, Scan, Look, Hangup, Ready
  <1>2. PICK a : Does(t, a)
    BY TurnDoes DEF Step
  <1>3. UNCHANGED <<fsm, dialogListed, ended, ret, listed, missed>>
    BY DEF TakesLock, ReleasesLock, Unref, Store, Scan, Look, Hangup
  <1>4. ASSUME NEW x \in ToSet(listed), NEW v, <<x, v>> \in due
        PROVE  <<x, v>> \in due'
    <2>1. CASE Unref(t)
      <3>1. \A pending : Held(x, listed, pending)
        BY ListedFacts DEF Held
      <3>2. PICK p : p = todo'
        OBVIOUS
      <3>3. due' = Survive(On(t), due, listed, p)
        BY <2>1, <3>2 DEF Unref
      <3>4. <<x, v>>[1] = x
        OBVIOUS
      <3>5. QED
        BY <1>4, <3>1, <3>3, <3>4 DEF Survive
    <2>2. CASE ~Unref(t)
      BY <1>4, <2>2 DEF TakesLock, ReleasesLock, Store, Scan, Look, Hangup
    <2>3. QED
      BY <2>1, <2>2
  <1>5. todo[t][1] # Do("find", "server", "send_200")
    BY <1>1, StepFields
  <1>6. QED
    BY <1>1, <1>2, <1>3, <1>4, <1>5, AsideServes

\* A row is left.
LEMMA LeaveServes ==
    ASSUME TypeOK, ListedAreServed, DialogEnds, NEW t \in Threads, Leave(t)
    PROVE  (\A x \in ToSet(listed) : Served(x)') /\ DialogEnds'
  <1>0. PICK step, m, w : step = todo[t][1] /\ m = step.on /\ w = step.with
    OBVIOUS
  <1> DEFINE r == IF PassesOn(m, w) THEN ret[t] ELSE "ok"
             terminates == r = "failed" \/ fsm[m] = "Terminated"
             a == IF terminates THEN <<Do("over", m, "none")>> ELSE <<>>
  <1>1. /\ todo[t] # <<>> /\ step.what = "leave" /\ Head(todo[t]) = step /\ step \in Steps
        /\ On(t) = m /\ With(t) = w /\ m \in Machines /\ w \in Actions /\ step = Do("leave", m, w)
    <2>1. todo[t] # <<>> /\ Head(todo[t]).what = "leave"
      BY DEF Leave, Ready
    <2>2. QED
      BY <1>0, <2>1, FirstStep, StepKinds
  <1>2. Does(t, a)
    <2>1. a \in Seq(Steps)
      <3>1. <<>> \in Seq(Steps) /\ <<Do("over", m, "none")>> \in Seq(Steps)
        BY <1>1, StepType
      <3>2. QED
        BY <3>1
    <2>2. todo' = Then(t, a)
      BY <1>1 DEF Leave
    <2> HIDE DEF a
    <2>3. QED
      BY <1>1, <2>1, <2>2 DEF Does
  <1>3. /\ UNCHANGED <<fsm, listed, due, dialogListed, ended, missed>>
        /\ \A u \in Threads \ {t} : ret'[u] = ret[u]
    BY <1>1 DEF Leave, TypeOK
  <1>4. terminates => Pends("over", m, "none")'
    <2>1. SUFFICES ASSUME terminates
                   PROVE  Pends("over", m, "none")'
      OBVIOUS
    <2>2. Len(a) = 1 /\ a[1] = Do("over", m, "none")
      BY <2>1
    <2> HIDE DEF a, terminates, r
    <2>3. \E i \in 1..Len(a) : a[i] = Do("over", m, "none")
      BY <2>2
    <2>4. QED
      BY <1>2, <2>3, PendingKept
  <1>5. ASSUME NotifyIsTended
        PROVE  NotifyIsTended'
    <2>1. CASE step \notin Tending
      <3> HIDE DEF a
      <3>1. QED
        BY <1>0, <1>2, <1>3, <1>5, <2>1, NotifyKept
    <2>2. CASE step = Do("leave", "server", "request")
      <3>1. m = "server" /\ w = "request"
        BY <1>1, <2>2, StepFields
      <3>2. CASE ret[t] = "failed"
        <4>1. Pends("over", m, "none")'
          BY <1>4, <3>1, <3>2 DEF PassesOn
        <4>2. QED
          BY <3>1, <4>1 DEF NotifyIsTended
      <3>3. CASE ret[t] # "failed"
        <4> HIDE DEF a
        <4>1. QED
          BY <1>0, <1>2, <1>3, <1>5, <2>2, <3>3, TendedStill
      <3>4. QED
        BY <3>2, <3>3
    <2>3. QED
      BY <1>1, <2>1, <2>2, StepFields DEF Tending, Act
  <1>6. fsm[m] = "Terminated" => Pends("over", m, "none")'
    BY <1>4
  <1> HIDE DEF a, terminates, r
  <1>7. \A k : k # m /\ Leaving(k) => Leaving(k)'
    BY <1>0, <1>2, LeavingKept
  <1>8. \A k : \A what \in {"over", "remove"} : Pends(what, k, "none") => Pends(what, k, "none")'
    BY <1>0, <1>1, <1>2, PendingKept, StepFields
  <1>9. \A x, v : Comes(x, v) => Comes(x, v)'
    BY <1>0, <1>1, <1>2, <1>3, ComesKept
  <1>10. ASSUME NEW x \in ToSet(listed)
         PROVE  Served(x)'
    <2>1. Served(x)
      BY DEF ListedAreServed
    <2>2. Awaited(x)' = Awaited(x)
      BY <1>3 DEF Awaited
    <2>3. fsm[x] = "Terminated" =>
             Leaving(x)' \/ Pends("over", x, "none")' \/ Pends("remove", x, "none")'
      BY <1>6, <1>7, <1>8, <2>1 DEF Served
    <2>4. QED
      BY <1>3, <1>5, <1>9, <2>1, <2>2, <2>3 DEF Served
  <1>11. DialogEnds'
    BY <1>3, <1>6, <1>7, <1>8 DEF DialogEnds
  <1>12. QED
    BY <1>10, <1>11

\* A machine is over.
LEMMA OverServes ==
    ASSUME TypeOK, ListedAreServed, DialogEnds, NEW t \in Threads, Over(t)
    PROVE  (\A x \in ToSet(listed) : Served(x)') /\ DialogEnds'
  <1>0. PICK step, m : step = todo[t][1] /\ m = step.on
    OBVIOUS
  <1> DEFINE a == <<Do("remove", m, "none")>>
  <1>1. /\ todo[t] # <<>> /\ step.what = "over" /\ Head(todo[t]) = step /\ step \in Steps
        /\ On(t) = m /\ m \in Machines /\ step = Do("over", m, "none")
    <2>1. todo[t] # <<>> /\ Head(todo[t]).what = "over"
      BY DEF Over, Ready
    <2>2. QED
      BY <1>0, <2>1, FirstStep, StepKinds
  <1>2. Does(t, a)
    <2>1. a \in Seq(Steps)
      BY <1>1, StepType
    <2>2. todo' = Then(t, a)
      BY <1>1 DEF Over
    <2> HIDE DEF a
    <2>3. QED
      BY <1>1, <2>1, <2>2 DEF Does
  <1>3. Len(a) = 1 /\ a[1] = Do("remove", m, "none")
    OBVIOUS
  <1> HIDE DEF a
  <1>4. Pends("remove", m, "none")'
    BY <1>2, <1>3, PendingKept
  <1>5. /\ UNCHANGED <<listed, due, dialogListed, ret, missed>>
        /\ fsm'[m] = "Terminated" /\ \A k \in Machines \ {m} : fsm'[k] = fsm[k]
        /\ ended'[m] = ended[m] + 1 /\ \A k \in Machines \ {m} : ended'[k] = ended[k]
    BY <1>1 DEF Over, TypeOK
  <1>6. \A k \in Machines : ended[k] \in Nat /\ (ended[k] > 0 => ended'[k] > 0)
    <2>1. \A k \in Machines : ended[k] \in Nat
      BY DEF TypeOK
    <2>2. ended'[m] > 0 /\ \A k \in Machines : k # m => ended'[k] = ended[k]
      BY <1>1, <1>5, <2>1
    <2>3. QED
      BY <2>1, <2>2
  <1>7. ASSUME NotifyIsTended, fsm'["server"] = "Trying"
        PROVE  NotifyIsTended'
    <2>1. CASE step \notin Tending
      BY <1>0, <1>2, <1>5, <1>6, <1>7, <2>1, NotifyKept, Names
    <2>2. CASE step = Do("over", "server", "none")
      <3>1. m = "server"
        BY <1>1, <2>2, StepFields
      <3>2. QED
        BY <1>5, <1>7, <3>1
    <2>3. CASE step = Do("over", "dialog", "none")
      <3>1. m = "dialog"
        BY <1>1, <2>3, StepFields
      <3>2. ended'["dialog"] > 0
        BY <1>1, <1>5, <1>6, <3>1
      <3>3. QED
        BY <3>2 DEF NotifyIsTended
    <2>4. QED
      BY <1>1, <2>1, <2>2, <2>3, StepFields DEF Tending, Act
  <1>8. ASSUME NEW x \in ToSet(listed)
        PROVE  Served(x)'
    <2>1. Served(x) /\ x \in Machines
      BY ListedFacts, Names DEF ListedAreServed
    <2>2. CASE x = m
      BY <1>4, <1>5, <2>2 DEF Served
    <2>3. CASE x # m
      <3>1. fsm'[x] = fsm[x] /\ \A v : <<x, v>> \in due => <<x, v>> \in due'
        BY <1>5, <2>1, <2>3
      <3>2. ~About(todo[t][1], x)
        BY <1>0, <2>3 DEF About
      <3>3. x = "server" /\ fsm[x] = "Trying" /\ NotifyIsTended => NotifyIsTended'
        BY <1>7, <3>1
      <3>4. QED
        BY <1>2, <1>5, <2>1, <3>1, <3>2, <3>3, ServedKept
    <2>4. QED
      BY <2>2, <2>3
  <1>9. DialogEnds'
    <2>1. CASE m = "dialog"
      <3>1. ended'["dialog"] > 0
        BY <1>1, <1>5, <1>6, <2>1
      <3>2. QED
        BY <1>4, <2>1, <3>1 DEF DialogEnds
    <2>2. CASE m # "dialog"
      <3>1. fsm'["dialog"] = fsm["dialog"] /\ ended'["dialog"] = ended["dialog"]
        BY <1>5, <2>2, Names
      <3>2. QED
        BY <1>0, <1>2, <1>5, <2>2, <3>1, DialogKept
    <2>3. QED
      BY <2>1, <2>2
  <1>10. QED
    BY <1>8, <1>9

\* A transaction is created.
LEMMA CreateServes ==
    ASSUME TypeOK, ListedAreServed, DialogEnds, NEW t \in Threads, Create(t)
    PROVE  ListedOnce' /\ (\A x \in ToSet(listed') : Served(x)') /\ DialogEnds'
  <1>0. PICK step, w : step = todo[t][1] /\ w = step.with
    OBVIOUS
  <1>1. /\ todo[t] # <<>> /\ step.what = "create" /\ Head(todo[t]) = step /\ step \in Steps
        /\ On(t) = step.on /\ With(t) = w
        /\ (step.on = "client" /\ w = "send") \/ (step.on = "server" /\ w = "request")
    <2>1. todo[t] # <<>> /\ Head(todo[t]).what = "create"
      BY DEF Create, Ready
    <2>2. QED
      BY <1>0, <2>1, FirstStep, StepKinds
  <1>2. PICK x : /\ x \in IF On(t) = "server" THEN {"server"} ELSE Clients
                 /\ fsm[x] = "Unused"
                 /\ fsm' = [fsm EXCEPT ![x] = "Started"]
                 /\ listed' = Append(listed, x)
                 /\ todo' = Then(t, <<Act(x, w), Do("unref", x, "none")>>)
    BY <1>1 DEF Create
  <1>3. /\ x \in Transactions /\ x \in Machines /\ x # "dialog"
        /\ (x = "server" /\ w = "request") \/ (x # "server" /\ w = "send")
    BY <1>1, <1>2, Names
  <1> DEFINE a == <<Act(x, w), Do("unref", x, "none")>>
  <1>4. Does(t, a)
    <2>1. a \in Seq(Steps)
      BY <1>3, StepType DEF Actions
    <2>2. todo' = Then(t, a)
      BY <1>2
    <2> HIDE DEF a
    <2>3. QED
      BY <1>1, <2>1, <2>2 DEF Does
  <1>5. 1 \in 1..Len(a) /\ a[1] = Do("act", x, w)
    BY DEF Act
  <1> HIDE DEF a
  <1>6. Pends("act", x, w)'
    BY <1>4, <1>5, PendingKept
  <1>7. /\ UNCHANGED <<due, dialogListed, ended, ret, missed>>
        /\ fsm'[x] = "Started" /\ \A k \in Machines \ {x} : fsm'[k] = fsm[k]
    BY <1>2, <1>3 DEF Create, TypeOK
  <1>8. x \notin ToSet(listed)
    BY <1>2 DEF ListedAreServed, Served
  <1>9. ToSet(listed') = ToSet(listed) \cup {x} /\ Once(listed')
    <2>1. listed \in Seq(Transactions) /\ Once(listed)
      BY DEF TypeOK, ListedAreServed, ListedOnce, Once
    <2>2. QED
      BY <1>2, <1>3, <1>8, <2>1, Adding
  <1>10. step \notin Tending
    BY <1>1, StepFields DEF Tending, Act
  <1>11. ASSUME NEW y \in ToSet(listed')
         PROVE  Served(y)'
    <2>1. CASE y = x
      <3>1. Awaited(y)' = w
        BY <1>3, <1>7, <2>1 DEF Awaited
      <3>2. Comes(y, Awaited(y))'
        BY <1>6, <2>1, <3>1 DEF Comes
      <3>3. QED
        BY <1>7, <2>1, <3>2 DEF Served
    <2>2. CASE y # x
      <3>1. Served(y) /\ y \in Machines
        BY <1>9, <2>2, ListedFacts, Names DEF ListedAreServed
      <3>2. fsm'[y] = fsm[y] /\ \A v : <<y, v>> \in due => <<y, v>> \in due'
        BY <1>7, <2>2, <3>1
      <3>3. ~About(todo[t][1], y)
        BY <1>0, <1>1 DEF About
      <3>4. NotifyIsTended => NotifyIsTended'
        BY <1>0, <1>4, <1>7, <1>10, NotifyKept
      <3>5. QED
        BY <1>4, <1>7, <3>1, <3>2, <3>3, <3>4, ServedKept
    <2>3. QED
      BY <2>1, <2>2
  <1>12. DialogEnds'
    <2>1. fsm'["dialog"] = fsm["dialog"]
      BY <1>3, <1>7, Names
    <2>2. QED
      BY <1>0, <1>1, <1>4, <1>7, <2>1, DialogKept
  <1>13. ListedOnce'
    BY <1>9 DEF ListedOnce, Once
  <1>14. QED
    BY <1>11, <1>12, <1>13

\* A timer is scheduled.
LEMMA ScheduleServes ==
    ASSUME TypeOK, ListedAreServed, DialogEnds, NEW t \in Threads, Schedule(t)
    PROVE  (\A x \in ToSet(listed) : Served(x)') /\ DialogEnds'
  <1>0. PICK step, m, w : step = todo[t][1] /\ m = step.on /\ w = step.with
    OBVIOUS
  <1>1. /\ todo[t] # <<>> /\ step.what = "schedule" /\ On(t) = m /\ With(t) = w
    <2>1. todo[t] # <<>> /\ Head(todo[t]).what = "schedule"
      BY DEF Schedule, Ready
    <2>2. QED
      BY <1>0, <2>1, FirstStep
  <1>2. PICK a : Does(t, a)
    BY TurnDoes DEF Step
  <1>3. UNCHANGED <<fsm, listed, dialogListed, ended, ret, missed>> /\ due' = due \cup {<<m, w>>}
    BY <1>1 DEF Schedule
  <1>4. step \notin Tending
    BY <1>1, StepFields DEF Tending, Act
  <1>5. NotifyIsTended => NotifyIsTended'
    BY <1>0, <1>2, <1>3, <1>4, NotifyKept
  <1>6. ASSUME NEW x, NEW v, Comes(x, v)
        PROVE  Comes(x, v)'
    <2>1. CASE m = x /\ w = v
      BY <1>3, <2>1 DEF Comes
    <2>2. CASE ~(m = x /\ w = v)
      BY <1>0, <1>2, <1>3, <1>6, <2>2, ComesKept
    <2>3. QED
      BY <2>1, <2>2
  <1>7. \A k : Leaving(k) => Leaving(k)'
    BY <1>0, <1>1, <1>2, LeavingKept
  <1>8. \A k : \A what \in {"over", "remove"} : Pends(what, k, "none") => Pends(what, k, "none")'
    BY <1>0, <1>1, <1>2, PendingKept, StepFields
  <1>9. ASSUME NEW x \in ToSet(listed)
        PROVE  Served(x)'
    <2>1. Served(x)
      BY DEF ListedAreServed
    <2>2. Awaited(x)' = Awaited(x)
      BY <1>3 DEF Awaited
    <2>3. QED
      BY <1>3, <1>5, <1>6, <1>7, <1>8, <2>1, <2>2 DEF Served
  <1>10. DialogEnds'
    BY <1>0, <1>1, <1>2, <1>3, DialogKept
  <1>11. QED
    BY <1>9, <1>10

\* A transaction or the dialog is removed from its list.
LEMMA RemoveServes ==
    ASSUME TypeOK, ListedAreServed, DialogEnds, NEW t \in Threads, RemovesIt(t)
    PROVE  ListedOnce' /\ (\A x \in ToSet(listed') : Served(x)') /\ DialogEnds'
  <1>0. PICK step, m : step = todo[t][1] /\ m = step.on
    OBVIOUS
  <1>1. todo[t] # <<>> /\ step.what = "remove" /\ On(t) = m
    <2>1. todo[t] # <<>> /\ Head(todo[t]).what = "remove"
      BY DEF RemovesIt, Ready
    <2>2. QED
      BY <1>0, <2>1, FirstStep
  <1>2. PICK a : Does(t, a)
    BY TurnDoes DEF Step
  <1>3. /\ UNCHANGED <<fsm, ended, ret, missed>> /\ dialogListed' = (dialogListed /\ m # "dialog")
        /\ listed' = RemoveFirst(listed, m)
    BY <1>1 DEF RemovesIt
  <1>4. ToSet(listed') = ToSet(listed) \ {m} /\ Once(listed')
    <2>1. listed \in Seq(Transactions) /\ Once(listed)
      BY DEF TypeOK, ListedAreServed, ListedOnce, Once
    <2>2. QED
      BY <1>3, <2>1, Removing
  <1>5. step \notin Tending
    BY <1>1, StepFields DEF Tending, Act
  <1>6. NotifyIsTended => NotifyIsTended'
    BY <1>0, <1>2, <1>3, <1>5, NotifyKept
  <1>7. ASSUME NEW x, x # m, NEW v, <<x, v>> \in due
        PROVE  <<x, v>> \in due'
    <2>1. PICK list, pending : due' = Survive(m, due, list, pending)
      BY <1>1 DEF RemovesIt
    <2>2. <<x, v>>[1] # m
      BY <1>7
    <2>3. QED
      BY <1>7, <2>1, <2>2, SurviveFacts
  <1>8. ASSUME NEW x \in ToSet(listed')
        PROVE  Served(x)'
    <2>1. Served(x) /\ x # m
      BY <1>4 DEF ListedAreServed
    <2>2. ~About(todo[t][1], x)
      BY <1>0, <2>1 DEF About
    <2>3. QED
      BY <1>2, <1>3, <1>6, <1>7, <2>1, <2>2, ServedKept
  <1>9. DialogEnds'
    <2>1. CASE m = "dialog"
      <3>1. ~dialogListed'
        BY <1>3, <2>1
      <3>2. Leaving("dialog") => Leaving("dialog")'
        BY <1>0, <1>1, <1>2, LeavingKept
      <3>3. Pends("over", "dialog", "none") => Pends("over", "dialog", "none")'
        BY <1>0, <1>1, <1>2, PendingKept, StepFields
      <3>4. QED
        BY <1>3, <3>1, <3>2, <3>3 DEF DialogEnds
    <2>2. CASE m # "dialog"
      BY <1>0, <1>2, <1>3, <2>2, DialogKept
    <2>3. QED
      BY <2>1, <2>2
  <1>10. ListedOnce'
    BY <1>4 DEF ListedOnce, Once
  <1>11. QED
    BY <1>8, <1>9, <1>10

\* What is in the list stays served.
LEMMA ServesKept ==
    ASSUME TypeOK, StatesOfTheirOwn, WellFormed, LocksAreBalanced, ListedAreServed, DialogEnds,
           NEW t \in Threads, Step(t)
    PROVE  ListedAreServed' /\ DialogEnds'
  <1>1. CASE Create(t) \/ RemovesIt(t)
    BY <1>1, CreateServes, RemoveServes DEF ListedAreServed
  <1>2. CASE ~Create(t) /\ ~RemovesIt(t)
    <2>1. listed' = listed
      BY <1>2, ListChange DEF ListedAreServed
    <2>2. (\A x \in ToSet(listed) : Served(x)') /\ DialogEnds'
      <3>1. CASE Test(t)
        BY <3>1, TestServes
      <3>2. CASE Enter(t)
        <4>1. PICK step, m, w : step = todo[t][1] /\ m = step.on /\ w = step.with
          OBVIOUS
        <4>2. FirstIs(t, step, m, w)
          BY <4>1 DEF FirstIs
        <4>3. CASE HasRow(m, w)
          BY <3>2, <4>2, <4>3, RowServes
        <4>4. CASE ~HasRow(m, w)
          BY <3>2, <4>2, <4>4, NoRowServes
        <4>5. QED
          BY <4>3, <4>4
      <3>3. CASE Leave(t)
        BY <3>3, LeaveServes
      <3>4. CASE Over(t)
        BY <3>4, OverServes
      <3>5. CASE Find(t)
        BY <3>5, FindServes
      <3>6. CASE Schedule(t)
        BY <3>6, ScheduleServes
      <3>7. CASE \/ TakesLock(t) \/ ReleasesLock(t) \/ Unref(t) \/ Store(t)
                \/ Scan(t) \/ Look(t) \/ Hangup(t)
        BY <3>7, OthersServe
      <3>8. QED
        BY <1>2, <3>1, <3>2, <3>3, <3>4, <3>5, <3>6, <3>7 DEF Step
    <2>3. QED
      BY <2>1, <2>2 DEF ListedAreServed, ListedOnce
  <1>3. QED
    BY <1>1, <1>2

\* Nothing that was to be done is forgotten when a thread begins.
LEMMA BeginningKeeps ==
    ASSUME TypeOK, NEW t \in Threads, NEW step, Begins(t, step)
    PROVE  \A what, on, with : Pends(what, on, with) => Pends(what, on, with)'
  <1>1. todo[t] = <<>> /\ \A u \in Threads \ {t} : todo'[u] = todo[u]
    BY BeginsFacts DEF Begins
  <1>2. ToSet(todo[t]) = {}
    BY <1>1 DEF ToSet
  <1>3. ASSUME NEW what, NEW on, NEW with, Pends(what, on, with)
        PROVE  Pends(what, on, with)'
    <2>1. PICK u \in Threads : Do(what, on, with) \in ToSet(todo[u])
      BY <1>3 DEF Pends
    <2>2. u # t
      BY <1>2, <2>1
    <2>3. Do(what, on, with) \in ToSet(todo'[u])
      BY <1>1, <2>1, <2>2
    <2>4. QED
      BY <2>3 DEF Pends
  <1>4. QED
    BY <1>3

\* What is in the list stays served when a thread begins.
LEMMA ServesBegin ==
    ASSUME TypeOK, StatesOfTheirOwn, ListedAreServed, DialogEnds, Asks \/ Receives \/ Expires
    PROVE  ListedAreServed' /\ DialogEnds'
  <1>1. PICK t \in Threads, step \in Steps : Begins(t, step)
    BY BeginningIsBegins
  <1>2. /\ \A u \in Threads \ {t} : todo'[u] = todo[u]
        /\ todo[t] = <<>>
    BY <1>1, BeginsFacts DEF Begins
  <1>3. \A what, on, with : Pends(what, on, with) => Pends(what, on, with)'
    BY <1>1, BeginningKeeps
  <1>4. UNCHANGED <<fsm, listed, dialogListed, ret, ended, missed>>
    BY DEF Asks, Receives, Expires
  <1>5. ASSUME NEW x, NEW v, Comes(x, v)
        PROVE  Comes(x, v)'
    <2>1. CASE <<x, v>> \in due
      <3>1. CASE Asks \/ Receives
        BY <2>1, <3>1 DEF Asks, Receives, Comes
      <3>2. CASE Expires
        <4>1. PICK d \in due : /\ due' = due \ {d}
                               /\ todo' = [todo EXCEPT !["timer"] = <<Act(d[1], d[2])>>]
          BY <3>2 DEF Expires
        <4>2. CASE <<x, v>> = d
          <5>1. d[1] = x /\ d[2] = v /\ "timer" \in Threads
            BY <4>2 DEF Threads
          <5>2. todo'["timer"] = <<Do("act", x, v)>>
            BY <4>1, <5>1 DEF TypeOK, Act
          <5>3. Do("act", x, v) \in ToSet(todo'["timer"])
            BY <5>2 DEF ToSet
          <5>4. Pends("act", x, v)'
            BY <5>1, <5>3 DEF Pends
          <5>5. QED
            BY <5>4 DEF Comes
        <4>3. CASE <<x, v>> # d
          BY <2>1, <4>1, <4>3 DEF Comes
        <4>4. QED
          BY <4>2, <4>3
      <3>3. QED
        BY <3>1, <3>2
    <2>2. CASE \E what \in {"act", "enter", "schedule"} : Pends(what, x, v)
      BY <1>3, <2>2 DEF Comes
    <2>3. QED
      BY <1>5, <2>1, <2>2 DEF Comes
  <1>6. \A m : Leaving(m) => Leaving(m)'
    BY <1>3 DEF Leaving
  <1>7. ASSUME NotifyIsTended
        PROVE  NotifyIsTended'
    <2>1. CASE \E u \in Threads : /\ ret[u] = "failed" /\ todo[u] # <<>>
                                  /\ Head(todo[u]) = Do("leave", "server", "request")
      <3>1. PICK u \in Threads : /\ ret[u] = "failed" /\ todo[u] # <<>>
                                 /\ Head(todo[u]) = Do("leave", "server", "request")
        BY <2>1
      <3>2. todo'[u] = todo[u] /\ ret'[u] = ret[u]
        BY <1>2, <1>4, <3>1
      <3>3. QED
        BY <3>1, <3>2 DEF NotifyIsTended
    <2>2. CASE Comes("server", "send_200") \/ Comes("dialog", "notify")
      BY <1>5, <2>2 DEF NotifyIsTended
    <2>3. CASE \/ Pends("find", "server", "send_200") \/ Pends("over", "server", "none")
               \/ Pends("over", "dialog", "none") \/ ended["dialog"] > 0
      BY <1>3, <1>4, <2>3 DEF NotifyIsTended
    <2>4. QED
      BY <1>7, <2>1, <2>2, <2>3 DEF NotifyIsTended
  <1>8. ASSUME NEW x \in ToSet(listed)
        PROVE  Served(x)'
    <2>1. Served(x)
      BY DEF ListedAreServed
    <2>2. Awaited(x)' = Awaited(x)
      BY <1>4 DEF Awaited
    <2>3. QED
      BY <1>3, <1>4, <1>5, <1>6, <1>7, <2>1, <2>2 DEF Served
  <1>9. DialogEnds'
    BY <1>3, <1>4, <1>6 DEF DialogEnds
  <1>10. QED
    BY <1>4, <1>8, <1>9 DEF ListedAreServed, ListedOnce

------------------------------------------------------------------------------
\* The threads at rest, and what they find.
LEMMA Beginning ==
    ASSUME Init
    PROVE  IndInv
  <1>1. \A t \in Threads : todo[t] = <<>> /\ DOMAIN todo[t] = {}
    BY DEF Init
  <1>2. listed = <<First>> /\ due = {<<First, "timerF">>} /\ First \in Transactions
        /\ First # "server" /\ First # "dialog" /\ First \in Machines
    BY Names DEF Init
  <1>3. \A m \in Machines : fsm[m] = IF m \in {"dialog", First} THEN "Trying" ELSE "Unused"
    BY DEF Init
  <1>4. TypeOK
    <2>1. fsm \in [Machines -> States]
      BY DEF Init, States
    <2>2. listed \in Seq(Transactions) /\ due \subseteq Transactions \X Timers
      BY <1>2 DEF Timers
    <2>3. locks \in [Locks -> [by : Threads \cup {"nobody"}, times : Nat]]
      BY DEF Init, Free
    <2>4. todo \in [Threads -> Seq(Steps)]
      <3>1. <<>> \in Seq(Steps)
        OBVIOUS
      <3>2. QED
        BY <3>1 DEF Init
    <2>5. wire \subseteq Responses \cup {"request"}
      BY DEF Init
    <2>6. ret \in [Threads -> {"ok", "failed"}] /\ ended \in [Machines -> Nat]
      BY DEF Init
    <2>7. {dialogListed, established, leaving, asked} \subseteq BOOLEAN
          /\ user \in {"hangup", "shutdown"} /\ missed \subseteq Transactions
      BY DEF Init
    <2>8. QED
      BY <2>1, <2>2, <2>3, <2>4, <2>5, <2>6, <2>7 DEF TypeOK
  <1>5. StatesOfTheirOwn
    <2>1. \A m \in Machines : fsm[m] \in StatesOf(m)
      BY <1>2, <1>3 DEF StatesOf, States
    <2>2. todo["user"] = <<>>
      BY <1>1 DEF Threads
    <2>3. QED
      BY <2>1, <2>2 DEF StatesOfTheirOwn
  <1>6. WellFormed
    BY <1>1 DEF WellFormed, WellNested, NotifyIsPassedOn, RowsAreNotNested
  <1>7. LocksAreBalanced
    <2>1. ASSUME NEW l \in Locks
          PROVE  locks[l].by = "nobody" /\ locks[l].times = 0
      BY DEF Init, Free
    <2>2. ASSUME NEW l \in Locks, NEW t \in Threads
          PROVE  /\ Cardinality(Releases(todo[t], l)) = 0 /\ Holds(t, l) = 0 /\ ~WaitsFor(t, l)
      <3>1. Cardinality(Releases(todo[t], l)) = 0
        BY <1>1, CountNone
      <3>2. t # "nobody"
        BY DEF Threads
      <3>3. QED
        BY <1>1, <2>1, <3>1, <3>2 DEF Holds, WaitsFor
    <2>3. QED
      BY <2>1, <2>2 DEF LocksAreBalanced
  <1>8. ReferencesAreGuarded
    BY <1>1 DEF ReferencesAreGuarded, Threads
  <1>9. ListedAreServed
    <2>1. DOMAIN listed = {1} /\ ToSet(listed) = {First}
      BY <1>2 DEF ToSet
    <2>2. fsm[First] = "Trying"
      BY <1>2, <1>3
    <2>3. Comes(First, Awaited(First))
      BY <1>2, <2>2 DEF Awaited, Comes
    <2>4. Served(First)
      BY <1>2, <2>2, <2>3 DEF Served
    <2>5. QED
      BY <2>1, <2>4 DEF ListedAreServed, ListedOnce
  <1>10. DialogEnds
    BY <1>3, Names DEF DialogEnds
  <1>11. QED
    BY <1>4, <1>5, <1>6, <1>7, <1>8, <1>9, <1>10 DEF IndInv

\* A timer that elapses unheard leaves its transaction, among those that missed
\* theirs, and everything else as it was.
LEMMA UnheardKeeps ==
    ASSUME IndInv, ExpiresUnheard
    PROVE  IndInv'
  <1> USE DEF IndInv
  <1>1. PICK d \in due : /\ d[2] \in {"timerJ", "timerK"}
                         /\ due' = due \ {d} /\ missed' = missed \cup {d[1]}
    BY DEF ExpiresUnheard
  <1>2. UNCHANGED <<fsm, listed, dialogListed, established, leaving, locks, todo,
                    ret, user, asked, wire, ended>>
    BY DEF ExpiresUnheard
  <1>3. d \in Transactions \X Timers /\ d = <<d[1], d[2]>> /\ d[1] \in Transactions
    BY <1>1 DEF TypeOK
  <1>4. TypeOK'
    <2>1. due' \subseteq Transactions \X Timers /\ missed' \subseteq Transactions
      BY <1>1, <1>3 DEF TypeOK
    <2>2. QED
      BY <1>2, <2>1 DEF TypeOK
  <1>5. StatesOfTheirOwn' /\ WellFormed'
    BY <1>2 DEF StatesOfTheirOwn, WellFormed
  <1>6. LocksAreBalanced'
    BY <1>2 DEF LocksAreBalanced, Holds, WaitsFor
  <1>7. ReferencesAreGuarded'
    BY <1>2 DEF ReferencesAreGuarded, Guarded
  <1>8. \A what, on, with : Pends(what, on, with)' <=> Pends(what, on, with)
    BY <1>2 DEF Pends
  <1>9. /\ \A m : Leaving(m)' <=> Leaving(m)
        /\ \A x : Awaited(x)' = Awaited(x)
    BY <1>2, <1>8 DEF Leaving, Awaited
  <1>10. ASSUME NEW x, NEW v, Comes(x, v), <<x, v>> # d
         PROVE  Comes(x, v)'
    BY <1>1, <1>8, <1>10 DEF Comes
  <1>11. ASSUME NEW x, NEW v, <<x, v>> = d
         PROVE  v \in {"timerJ", "timerK"} /\ x \in missed'
    BY <1>1, <1>11
  <1>12. NotifyIsTended => NotifyIsTended'
    <2>1. Comes("server", "send_200") => Comes("server", "send_200")'
      BY <1>10, <1>11
    <2>2. Comes("dialog", "notify") => Comes("dialog", "notify")'
      BY <1>10, <1>11
    <2>3. QED
      BY <1>2, <1>8, <2>1, <2>2 DEF NotifyIsTended
  <1>13. ASSUME NEW x \in ToSet(listed)
         PROVE  Served(x)'
    <2>1. Served(x)
      BY DEF ListedAreServed
    <2>2. fsm[x] \in {"Started", "Trying"} => Awaited(x) \notin {"timerJ", "timerK"}
      BY DEF Awaited
    <2>3. fsm[x] \in {"Started", "Trying", "Completed"} /\ Comes(x, Awaited(x)) =>
             Comes(x, Awaited(x))' \/ (fsm[x] = "Completed" /\ x \in missed')
      <3>1. ASSUME NEW v, v = Awaited(x), Comes(x, v),
                   fsm[x] \in {"Started", "Trying", "Completed"}
            PROVE  Comes(x, v)' \/ (fsm[x] = "Completed" /\ x \in missed')
        BY <1>10, <1>11, <2>2, <3>1
      <3>2. QED
        BY <1>9, <3>1 DEF Comes
    <2>4. x \in missed => x \in missed'
      BY <1>1
    <2>5. QED
      BY <1>2, <1>8, <1>9, <1>12, <2>1, <2>3, <2>4 DEF Served
  <1>14. ListedAreServed' /\ DialogEnds'
    BY <1>2, <1>8, <1>9, <1>13 DEF ListedAreServed, ListedOnce, DialogEnds
  <1>15. QED
    BY <1>4, <1>5, <1>6, <1>7, <1>14

\* The inductive invariant, step by step.
LEMMA Keeping ==
    ASSUME IndInv, [Next]_vars
    PROVE  IndInv'
  <1> USE DEF IndInv
  <1>1. ASSUME NEW t \in Threads, Step(t)
        PROVE  IndInv'
    <2>1. ListedOnce
      BY DEF ListedAreServed
    <2>2. TypeOK' /\ StatesOfTheirOwn'
      BY <1>1, <2>1, TypesKept
    <2>3. WellFormed'
      BY <1>1, FormKept DEF Next
    <2>4. LocksAreBalanced'
      BY <1>1, BalanceKept
    <2>5. ReferencesAreGuarded'
      BY <1>1, <2>1, GuardsKept
    <2>6. ListedAreServed' /\ DialogEnds'
      BY <1>1, ServesKept
    <2>7. QED
      BY <2>2, <2>3, <2>4, <2>5, <2>6
  <1>2. ASSUME Asks \/ Receives \/ Expires
        PROVE  IndInv'
    <2>1. TypeOK' /\ StatesOfTheirOwn'
      BY <1>2, BeginningType
    <2>2. WellFormed'
      BY <1>2, FormKept DEF Next
    <2>3. LocksAreBalanced'
      <3>1. UNCHANGED locks
        BY <1>2 DEF Asks, Receives, Expires
      <3>2. PICK t \in Threads, step \in Steps : Begins(t, step)
        BY <1>2, BeginningIsBegins
      <3>3. QED
        BY <3>1, <3>2, BalanceBegins
    <2>4. ReferencesAreGuarded'
      BY <1>2, GuardsBegin
    <2>5. ListedAreServed' /\ DialogEnds'
      BY <1>2, ServesBegin
    <2>6. QED
      BY <2>1, <2>2, <2>3, <2>4, <2>5
  <1>3. CASE UNCHANGED vars
    <2> USE <1>3 DEF vars
    <2>1. TypeOK' /\ StatesOfTheirOwn' /\ WellFormed'
      BY DEF TypeOK, StatesOfTheirOwn, WellFormed
    <2>2. LocksAreBalanced'
      BY DEF LocksAreBalanced, Holds, WaitsFor
    <2>3. ReferencesAreGuarded'
      BY DEF ReferencesAreGuarded, Guarded
    <2>4. \A what, on, with : Pends(what, on, with)' <=> Pends(what, on, with)
      BY DEF Pends
    <2>5. /\ \A m : Leaving(m)' <=> Leaving(m)
          /\ \A x, v : Comes(x, v)' <=> Comes(x, v)
          /\ \A x : Awaited(x)' = Awaited(x)
      BY <2>4 DEF Leaving, Comes, Awaited
    <2>6. NotifyIsTended' <=> NotifyIsTended
      BY <2>4, <2>5 DEF NotifyIsTended
    <2>7. \A x : Served(x) => Served(x)'
      BY <2>4, <2>5, <2>6 DEF Served
    <2>8. ListedAreServed' /\ DialogEnds'
      BY <2>4, <2>5, <2>7 DEF ListedAreServed, ListedOnce, DialogEnds
    <2>9. QED
      BY <2>1, <2>2, <2>3, <2>8
  <1>4. ASSUME ExpiresUnheard
        PROVE  IndInv'
    BY <1>4, UnheardKeeps
  <1>5. QED
    BY <1>1, <1>2, <1>3, <1>4 DEF Next

\* Who refers to a transaction keeps it from its end.
LEMMA GuardedExist ==
    ASSUME IndInv
    PROVE  ReferencesHold
  <1>1. TypeOK /\ ReferencesAreGuarded
    BY DEF IndInv
  <1>2. ASSUME NEW t \in {"user", "transport"}, NEW i \in DOMAIN todo[t],
               todo[t][i].what \in {"act", "enter", "leave", "over", "schedule", "store"}
        PROVE  Exists(todo[t][i].on)
    <2>1. CASE todo[t][i].on = "dialog"
      BY <2>1 DEF Exists
    <2>2. CASE todo[t][i].on # "dialog"
      <3>1. Guarded(todo[t], i)
        BY <1>1, <1>2, <2>2 DEF ReferencesAreGuarded
      <3>2. CASE \E j \in DOMAIN todo[t] : todo[t][j] = Do("unref", todo[t][i].on, "none")
        <4>1. Do("unref", todo[t][i].on, "none") \in Range(todo[t]) /\ t \in Threads
          BY <3>2 DEF Range, Threads
        <4>2. QED
          BY <4>1 DEF Exists, Held
      <3>3. CASE todo[t][i].on \in ToSet(listed)
        BY <1>1, <3>3, ListedFacts DEF Exists, Held
      <3>4. QED
        BY <3>1, <3>2, <3>3 DEF Guarded
    <2>3. QED
      BY <2>1, <2>2
  <1>3. QED
    BY <1>2 DEF ReferencesHold

\* What the threads leave behind them.
LEMMA AtRest ==
    ASSUME IndInv
    PROVE  QuietIsClean
  <1>1. SUFFICES ASSUME \A t \in Threads : todo[t] = <<>>
                 PROVE  /\ \A l \in Locks : locks[l] = Free
                        /\ \A x \in ToSet(listed) :
                              /\ fsm[x] # "Terminated"
                              /\ \/ \E d \in due : d[1] = x
                                 \/ x = "server" /\ fsm[x] = "Trying" /\ ended["dialog"] > 0
                                 \/ x \in missed /\ fsm[x] = "Completed"
                        /\ fsm["dialog"] = "Terminated" => ~dialogListed
    BY DEF QuietIsClean
  <1>2. \A what, on, with : ~Pends(what, on, with)
    <2>1. \A t \in Threads : ToSet(todo[t]) = {}
      BY <1>1 DEF ToSet
    <2>2. QED
      BY <2>1 DEF Pends
  <1>3. /\ \A m : ~Leaving(m)
        /\ \A x, v : Comes(x, v) => <<x, v>> \in due
    BY <1>2 DEF Leaving, Comes
  <1>4. ASSUME NEW l \in Locks
        PROVE  locks[l] = Free
    <2>1. /\ locks[l] \in [by : Threads \cup {"nobody"}, times : Nat]
          /\ locks[l].by = "nobody" <=> locks[l].times = 0
      BY DEF IndInv, TypeOK, LocksAreBalanced
    <2>2. \A t \in Threads : Holds(t, l) = 0
      <3>1. SUFFICES ASSUME NEW t \in Threads
                     PROVE  Holds(t, l) = 0
        OBVIOUS
      <3>2. Cardinality(Releases(todo[t], l)) = 0
        BY <1>1, CountNone
      <3>3. Cardinality(Releases(todo[t], l)) = Holds(t, l) + (IF WaitsFor(t, l) THEN 1 ELSE 0)
        BY DEF IndInv, LocksAreBalanced
      <3>4. ~WaitsFor(t, l)
        BY <1>1 DEF WaitsFor
      <3>5. Holds(t, l) \in Nat
        BY <2>1 DEF Holds
      <3>6. QED
        BY <3>2, <3>3, <3>4, <3>5
    <2>3. locks[l].by = "nobody" /\ locks[l].times = 0
      BY <2>1, <2>2 DEF Holds
    <2>4. QED
      BY <2>1, <2>3 DEF Free
  <1>5. ASSUME NEW x \in ToSet(listed)
        PROVE  /\ fsm[x] # "Terminated"
               /\ \/ \E d \in due : d[1] = x
                  \/ x = "server" /\ fsm[x] = "Trying" /\ ended["dialog"] > 0
                  \/ x \in missed /\ fsm[x] = "Completed"
    <2>1. Served(x) /\ x \in Transactions /\ fsm[x] \in StatesOf(x) /\ x # "dialog"
      BY ListedFacts, Names DEF IndInv, ListedAreServed, StatesOfTheirOwn
    <2>2. fsm[x] # "Terminated"
      BY <1>2, <1>3, <2>1 DEF Served
    <2>3. CASE fsm[x] = "Trying" /\ x = "server"
      <3>1. <<"server", "send_200">> \notin due /\ <<"dialog", "notify">> \notin due
        BY DEF IndInv, TypeOK, Timers
      <3>2. NotifyIsTended
        BY <2>1, <2>3 DEF Served
      <3>3. ended["dialog"] > 0
        BY <1>1, <1>2, <1>3, <3>1, <3>2 DEF NotifyIsTended
      <3>4. QED
        BY <2>3, <3>3
    <2>4. CASE ~(fsm[x] = "Trying" /\ x = "server")
      <3>1. fsm[x] \in {"Started", "Completed"} \/ (fsm[x] = "Trying" /\ x # "server")
        BY <2>1, <2>2, <2>4 DEF StatesOf, States, Served
      <3>2. <<x, Awaited(x)>> \in due \/ (x \in missed /\ fsm[x] = "Completed")
        BY <1>3, <2>1, <3>1 DEF Served
      <3>3. <<x, Awaited(x)>>[1] = x
        OBVIOUS
      <3>4. QED
        BY <2>2, <3>2, <3>3
    <2>5. QED
      BY <2>3, <2>4
  <1>6. fsm["dialog"] = "Terminated" => ~dialogListed
    BY <1>2, <1>3 DEF IndInv, DialogEnds
  <1>7. QED
    BY <1>4, <1>5, <1>6

\* The inductive invariant: what every thread holds, refers to and leaves
\* behind, in the middle of the functions it is in, and what the listed
\* transactions wait for, those that missed their last timer excepted.
THEOREM Invariance == Spec => []IndInv
  <1>1. Init => IndInv
    BY Beginning
  <1>2. IndInv /\ [Next]_vars => IndInv'
    BY Keeping
  <1>3. QED
    BY <1>1, <1>2, PTL DEF Spec

\* The machines are in states they have, the locks are held by threads, and the
\* threads have steps of the code to do.
THEOREM TypeCorrectness == Spec => []TypeOK
  <1>1. IndInv => TypeOK
    BY DEF IndInv
  <1>2. QED
    BY <1>1, Invariance, PTL

\* The locks of tsk_fsm_act and of the layers are released as often as they are
\* taken, whatever rows call each other, and by the thread that took them.
THEOREM BalancedLocks == Spec => []LocksAreBalanced
  <1>1. IndInv => LocksAreBalanced
    BY DEF IndInv
  <1>2. QED
    BY <1>1, Invariance, PTL

\* The thread of the user and that of the transport act on no transaction that
\* the others have destroyed.
THEOREM NoDanglingReference == Spec => []ReferencesHold
  <1>1. IndInv => ReferencesHold
    BY GuardedExist
  <1>2. QED
    BY <1>1, Invariance, PTL

\* When all calls have returned, no lock is held, and what is in a list has a
\* timer that takes it out, but a NOTIFY that the end of the dialog overtook and a
\* transaction in Completed whose timer J or K elapsed before its identifier was
\* stored.
THEOREM CleanWhenQuiet == Spec => []QuietIsClean
  <1>1. IndInv => QuietIsClean
    BY AtRest
  <1>2. QED
    BY <1>1, Invariance, PTL
=============================================================================
