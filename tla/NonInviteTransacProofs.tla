----------------------- MODULE NonInviteTransacProofs -----------------------
(* What the non-INVITE transactions do for every bound on the server       *)
(* transactions and over both kinds of transport.                          *)
EXTENDS NonInviteTransac, TimersProofs

Message == {"request", "1xx", "final"}

\* The steps of the client transaction, and those of server transaction i.
NictActs ==
    \/ NictSend \/ NictRecv1xx \/ NictRecvFinal \/ NictCancel
    \/ \E t \in nictTimers : NictTimerDue(t) \/ NictTimerFires(t)

NistActs(i) ==
    \/ NistRecvRequest(i) \/ NistRecvRequestAgain(i)
    \/ NistRespond(i) \/ NistCancel(i)
    \/ \E t \in nist[i].timers : NistTimerDue(i, t) \/ NistTimerFires(i, t)

\* Every step belongs to one party.
LEMMA NextParties ==
    ASSUME Next
    PROVE  \/ NictActs /\ ReceiverWaits
           \/ \E i \in Server : NistActs(i) /\ SenderWaits
  BY DEF Next, NictActs, NistActs, NictTimerFires

------------------------------------------------------------------------------
\* What a step of server transaction i does, when r is its new record.
NistBecomes(i, r) ==
    /\ nist' = [nist EXCEPT ![i] = r]
    /\ r \in NistRecord /\ LastFollows(r) /\ ServerIsTimed(r)
    /\ nist[i].last = "final" => r.last = "final"
    /\ net' \subseteq Message
    /\ "request" \in net' => "request" \in net
    /\ "final" \in net' => "final" \in net \/ r.last = "final"
    /\ \/ /\ nist[i].state = "none" <=> r.state = "none"
          /\ r.state \notin {"none", "Terminated"} => Alive(nist, i)
       \/ /\ nist[i].state = "none" /\ r.state # "none"
          /\ NoneFound(nist)
          /\ "request" \in net /\ net' = Rest("request")

\* The end of tsk_fsm_act changes the state and the timers of a server
\* transaction, and leaves it timed when its new state is.
LEMMA NistEndEffect ==
    ASSUME NEW s \in NistRecord, NEW to \in NistStates, NEW ok \in BOOLEAN,
           NEW T \in SUBSET TimerOf(NistTimer),
           to = "Completed" /\ ~reliable => IsPending(T, "J")
    PROVE  /\ NistEnd(s, to, ok, T) \in NistRecord
           /\ NistEnd(s, to, ok, T).state \in {to, "Terminated"}
           /\ NistEnd(s, to, ok, T).last = s.last
           /\ NistEnd(s, to, ok, T).handed = s.handed
           /\ ServerIsTimed(NistEnd(s, to, ok, T))
  <1>1. CASE ok /\ to # "Terminated"
    <2> DEFINE r == [s EXCEPT !.state = to, !.timers = T]
    <2>1. /\ r \in NistRecord /\ r.state = to /\ r.timers = T
          /\ r.last = s.last /\ r.handed = s.handed
      BY DEF NistRecord
    <2>2. NistEnd(s, to, ok, T) = r
      BY <1>1 DEF NistEnd
    <2> HIDE DEF r
    <2> QED
      BY <2>1, <2>2 DEF ServerIsTimed
  <1>2. CASE ~(ok /\ to # "Terminated")
    <2> DEFINE C == Cancel(T, NistTimer)
               r == [s EXCEPT !.state = "Terminated", !.timers = C]
    <2>1. C \in SUBSET TimerOf(NistTimer)
      BY TimersType
    <2>2. NistEnd(s, to, ok, T) = r
      BY <1>2 DEF NistEnd
    <2> HIDE DEF C
    <2>3. /\ r \in NistRecord /\ r.state = "Terminated"
          /\ r.last = s.last /\ r.handed = s.handed
      BY <2>1 DEF NistRecord, NistStates
    <2> HIDE DEF r
    <2> QED
      BY <2>2, <2>3 DEF ServerIsTimed
  <1> QED
    BY <1>1, <1>2

\* Every step of a server transaction is described by its new record.
LEMMA NistStepBecomes ==
    ASSUME TypeOK, LastFollowsState, \A j \in Server : ServerIsTimed(nist[j]),
           NEW i \in Server, NistActs(i), UNCHANGED reliable
    PROVE  \E r : NistBecomes(i, r)
  <1> DEFINE Typed == SUBSET TimerOf(NistTimer)
             s == nist[i]
  <1>0. /\ s \in NistRecord /\ LastFollows(s) /\ ServerIsTimed(s)
        /\ s.timers \in Typed /\ s.state \in NistStates
        /\ net \subseteq Message
        /\ nist = [nist EXCEPT ![i] = s]
    BY DEF TypeOK, NistRecord, LastFollowsState, Message
  <1>a. {"none", "Trying", "Proceeding", "Completed", "Terminated"} \subseteq NistStates
    BY DEF NistStates
  <1>b. ASSUME NEW missed \in Missed
        PROVE  /\ Schedule(s.timers, "J", missed) \in Typed
               /\ ~reliable => IsPending(Schedule(s.timers, "J", missed), "J")
    <2>1. "J" \in NistTimer /\ missed \in BOOLEAN /\ (~reliable => ~missed)
      BY DEF NistTimer, Missed
    <2> QED
      BY ZenonT(40), <1>0, <2>1, TimersType, ScheduledIsPending
  <1> HIDE DEF s
  <1>1. CASE NistRecvRequest(i)
    <2>1. PICK tuOk \in BOOLEAN :
             nist' = [nist EXCEPT ![i] = NistEnd(Hand(s), "Trying", tuOk, s.timers)]
      BY <1>1 DEF NistRecvRequest, Hand, s
    <2> DEFINE h == Hand(s)
               r == NistEnd(h, "Trying", tuOk, s.timers)
    <2>2. h \in NistRecord /\ h.last = s.last
      BY <1>0 DEF NistRecord, Hand
    <2> HIDE DEF h
    <2>3. /\ r \in NistRecord /\ r.state \in {"Trying", "Terminated"}
          /\ r.last = s.last /\ ServerIsTimed(r)
      BY <1>0, <1>a, <2>2, NistEndEffect
    <2>4. nist' = [nist EXCEPT ![i] = r]
      BY <2>1 DEF h
    <2> HIDE DEF r
    <2>5. s.state = "none" /\ s.last = "none"
      BY <1>0, <1>1 DEF NistRecvRequest, IsNext, LastFollows, s, Server
    <2>6. LastFollows(r)
      BY <2>3, <2>5 DEF LastFollows
    <2>7. net' = Rest("request") /\ "request" \in net /\ NoneFound(nist)
      BY <1>1 DEF NistRecvRequest
    <2>8. net' \subseteq net
      BY <2>7 DEF Rest
    <2> QED
      BY <1>0, <2>3, <2>4, <2>5, <2>6, <2>7, <2>8 DEF NistBecomes, s
  <1>2. CASE NistRecvRequestAgain(i)
    <2>1. Alive(nist, i) /\ nist' = nist
      BY <1>2 DEF NistRecvRequestAgain, Found
    <2>2. net' \subseteq net \cup (IF s.state = "Trying" THEN {} ELSE {s.last})
      BY <1>2 DEF NistRecvRequestAgain, Rest, Sent, s
    <2>3. s.state # "Trying" => s.last \in {"1xx", "final"}
      BY <1>0, <2>1 DEF LastFollows, Alive, NistStates, s
    <2>4. net' \subseteq Message /\ ("request" \in net' => "request" \in net)
      BY <1>0, <2>2, <2>3 DEF Message
    <2>5. "final" \in net' => "final" \in net \/ s.last = "final"
      BY <2>2
    <2>6. NistBecomes(i, s)
      BY <1>0, <2>1, <2>4, <2>5 DEF NistBecomes, s
    <2> QED
      BY <2>6
  <1>3. ASSUME NEW response \in {"1xx", "final"}, NEW to \in NistStates,
               NEW forgiven \in BOOLEAN, NEW T \in Typed,
               NistSends(i, response, to, forgiven, T),
               Alive(nist, i), s.last # "final",
               \/ response = "1xx" /\ to = "Proceeding"
               \/ response = "final" /\ to = "Completed",
               to = "Completed" /\ ~reliable => IsPending(T, "J")
        PROVE  \E r : NistBecomes(i, r)
    <2>1. PICK sent \in BOOLEAN :
             /\ net' = net \cup Sent(response, sent)
             /\ nist' = [nist EXCEPT ![i] = NistEnd(Answer(s, response), to,
                                                    sent \/ forgiven, T)]
      BY <1>3 DEF NistSends, s
    <2> DEFINE a == Answer(s, response)
               r == NistEnd(a, to, sent \/ forgiven, T)
    <2>2. a \in NistRecord /\ a.last = response
      BY <1>0, <1>3 DEF NistRecord, Answer
    <2>3. nist' = [nist EXCEPT ![i] = r]
      BY <2>1
    <2> HIDE DEF a
    <2>4. (sent \/ forgiven) \in BOOLEAN
      OBVIOUS
    <2>5. /\ r \in NistRecord /\ r.state \in {to, "Terminated"}
          /\ r.last = response /\ ServerIsTimed(r)
      BY <1>3, <2>2, <2>4, NistEndEffect
    <2> HIDE DEF r
    <2>6. LastFollows(r)
      BY <1>3, <2>5 DEF LastFollows
    <2>7. /\ net' \subseteq Message /\ ("request" \in net' => "request" \in net)
          /\ "final" \in net' => "final" \in net \/ r.last = "final"
      BY <1>0, <1>3, <2>1, <2>5 DEF Sent, Message
    <2>8. s.state # "none" /\ r.state # "none"
      BY <1>3, <2>5 DEF Alive, s
    <2>9. NistBecomes(i, r)
      BY <1>3, <2>3, <2>5, <2>6, <2>7, <2>8 DEF NistBecomes, s
    <2> QED
      BY <2>9
  <1>4. CASE NistRespond(i)
    <2>1. Alive(nist, i) /\ s.state \in {"Trying", "Proceeding"} /\ s.last # "final"
      BY <1>0, <1>4 DEF NistRespond, Found, LastFollows, s
    <2>2. CASE NistSends(i, "1xx", "Proceeding", s.state = "Proceeding", s.timers)
      <3>1. (s.state = "Proceeding") \in BOOLEAN
        OBVIOUS
      <3> QED
        BY <1>0, <1>a, <1>3, <2>1, <2>2, <3>1
    <2>3. ASSUME NEW missed \in Missed,
                 NistSends(i, "final", "Completed", FALSE, Schedule(s.timers, "J", missed))
          PROVE  \E r : NistBecomes(i, r)
      <3> DEFINE T == Schedule(s.timers, "J", missed)
      <3>1. T \in Typed /\ (~reliable => IsPending(T, "J"))
        BY <1>b
      <3>2. NistSends(i, "final", "Completed", FALSE, T)
        BY <2>3
      <3> HIDE DEF T
      <3> QED
        BY <1>a, <1>3, <2>1, <3>1, <3>2
    <2> QED
      BY <1>4, <2>2, <2>3 DEF NistRespond, s
  <1>5. ASSUME NEW T \in Typed, nist' = [nist EXCEPT ![i] = NistEnd(s, "Terminated", TRUE, T)],
               UNCHANGED net, Alive(nist, i)
        PROVE  \E r : NistBecomes(i, r)
    <2> DEFINE r == NistEnd(s, "Terminated", TRUE, T)
    <2>1. /\ r \in NistRecord /\ r.state = "Terminated"
          /\ r.last = s.last /\ ServerIsTimed(r)
      BY ZenonT(40), <1>0, <1>a, NistEndEffect
    <2>2. nist' = [nist EXCEPT ![i] = r]
      BY <1>5
    <2> HIDE DEF r
    <2>3. LastFollows(r)
      BY <2>1 DEF LastFollows
    <2>4. NistBecomes(i, r)
      BY <1>0, <1>5, <2>1, <2>2, <2>3 DEF NistBecomes, Alive, s
    <2> QED
      BY <2>4
  <1>6. CASE NistCancel(i)
    BY <1>0, <1>5, <1>6 DEF NistCancel, s
  <1>7. ASSUME NEW T \in Typed, nist' = [nist EXCEPT ![i].timers = T], UNCHANGED net,
               s.state = "Completed" /\ ~reliable => IsPending(T, "J")
        PROVE  \E r : NistBecomes(i, r)
    <2> DEFINE r == [s EXCEPT !.timers = T]
    <2>1. /\ r \in NistRecord /\ r.timers = T
          /\ r.state = s.state /\ r.last = s.last /\ r.handed = s.handed
      BY <1>0 DEF NistRecord
    <2>2. nist' = [nist EXCEPT ![i] = r]
      BY <1>7 DEF s
    <2> HIDE DEF r
    <2>3. LastFollows(r) /\ ServerIsTimed(r)
      BY <1>0, <1>7, <2>1 DEF LastFollows, ServerIsTimed
    <2>4. NistBecomes(i, r)
      BY <1>0, <1>7, <2>1, <2>2, <2>3 DEF NistBecomes, Alive, s
    <2> QED
      BY <2>4
  <1>8. ASSUME NEW t \in s.timers, NistTimerDue(i, t) \/ NistTimerFires(i, t)
        PROVE  \E r : NistBecomes(i, r)
    <2>a. /\ Due(s.timers, t) \in Typed /\ s.timers \ {t} \in Typed
          /\ \A name \in NistTimer : IsPending(s.timers, name) =>
               /\ IsPending(Due(s.timers, t), name)
               /\ t.name # name \/ ~t.current => IsPending(s.timers \ {t}, name)
      <3>1. Due(s.timers, t) \in Typed /\ s.timers \ {t} \in Typed
        BY <1>0, <1>8, TimersType
      <3>2. ASSUME NEW name \in NistTimer, IsPending(s.timers, name)
            PROVE  /\ IsPending(Due(s.timers, t), name)
                   /\ t.name # name \/ ~t.current => IsPending(s.timers \ {t}, name)
        BY <1>0, <1>8, <3>2, PendingKept
      <3> QED
        BY <3>1, <3>2
    <2>b. "J" \in NistTimer /\ (s.state = "Completed" /\ ~reliable => IsPending(s.timers, "J"))
      BY <1>0 DEF NistTimer, ServerIsTimed
    <2>1. CASE NistTimerDue(i, t)
      <3>1. nist' = [nist EXCEPT ![i].timers = Due(s.timers, t)] /\ UNCHANGED net
        BY <2>1 DEF NistTimerDue, s
      <3> QED
        BY <1>7, <2>a, <2>b, <3>1
    <2>2. CASE NistTimerFires(i, t) /\ t.current /\ s.state = "Completed"
      <3>1. /\ nist' = [nist EXCEPT ![i] = NistEnd(s, "Terminated", TRUE, s.timers \ {t})]
            /\ UNCHANGED net
        BY <2>2 DEF NistTimerFires, s
      <3>2. Alive(nist, i)
        BY <2>2 DEF Alive, s
      <3> QED
        BY <1>5, <2>a, <3>1, <3>2
    <2>3. CASE NistTimerFires(i, t) /\ ~(t.current /\ s.state = "Completed")
      <3>1. nist' = [nist EXCEPT ![i].timers = s.timers \ {t}] /\ UNCHANGED net
        BY <2>3 DEF NistTimerFires, WithoutTimer, s
      <3> QED
        BY <1>7, <2>a, <2>b, <2>3, <3>1
    <2> QED
      BY <1>8, <2>1, <2>2, <2>3
  <1> QED
    BY <1>1, <1>2, <1>4, <1>6, <1>8 DEF NistActs, s

------------------------------------------------------------------------------
\* What the client transaction may come to tell its dialog in one step: nothing
\* that is an outcome, or the one outcome, which is a failure of its own or the
\* final response that was in the network.
OutcomeKept == told' \ {"1xx"} = told \ {"1xx"}
OutcomeTold(a) ==
    /\ told \ {"1xx"} = {} /\ told' \ {"1xx"} = {a}
    /\ a = "final" => "final" \in net

\* What a step of the client transaction does.
NictEffect ==
    /\ nictState' \in NictStates /\ told' \subseteq Told /\ net' \subseteq Message
    /\ ToldFollowsState' /\ OutcomeIsUnique'
    /\ OutcomeKept \/ \E a \in Told \ {"1xx"} : OutcomeTold(a)
    /\ net' \subseteq net \cup {"request"}
    /\ nictState' = "Started" => nictState = "Started" /\ net' = net

\* Every step of the client transaction has that effect.
LEMMA NictStepEffect ==
    ASSUME TypeOK, ToldFollowsState, OutcomeIsUnique, NictActs
    PROVE  NictEffect
  <1> USE DEF NictEffect, ToldFollowsState, OutcomeIsUnique, OutcomeKept, OutcomeTold,
              Told, Message, NictStates, TypeOK, NictEnd, Tell
  <1>1. CASE NictSend
    BY <1>1 DEF NictSend, Sent
  <1>2. CASE NictRecv1xx
    BY <1>2 DEF NictRecv1xx, Rest
  <1>3. CASE NictRecvFinal
    <2>1. /\ nictState' \in {"Completed", "Terminated"}
          /\ net' \subseteq net /\ "final" \in net
          /\ told \subseteq {"1xx"} /\ told' = told \cup {"final"}
      BY <1>3 DEF NictRecvFinal, Rest
    <2>2. OutcomeTold("final")
      BY <2>1
    <2> QED
      BY <2>1, <2>2
  <1>4. CASE NictCancel
    BY <1>4 DEF NictCancel
  <1>5. ASSUME NEW t \in nictTimers, NictTimerDue(t) \/ NictTimerFires(t)
        PROVE  NictEffect
    <2>1. CASE NictTimerDue(t)
      BY <2>1 DEF NictTimerDue
    <2>2. CASE NictTimerE(t)
      BY <2>2 DEF NictTimerE, NictRaised, Sent
    <2>3. CASE NictTimerF(t)
      <3> DEFINE a == IF nictState = "Trying" THEN "timedout" ELSE "transport_error"
      <3>1. /\ nictState' = "Terminated" /\ net' = net
            /\ told' = told \cup {a} /\ told \subseteq {"1xx"}
            /\ a = "timedout" => told = {}
        BY <2>3 DEF NictTimerF, NictRaised
      <3>2. a \in {"timedout", "transport_error"}
        OBVIOUS
      <3> HIDE DEF a
      <3>3. OutcomeTold(a)
        BY <3>1, <3>2
      <3> QED
        BY <3>1, <3>2, <3>3
    <2>4. CASE NictTimerK(t)
      BY <2>4 DEF NictTimerK, NictRaised
    <2>5. CASE NictTimerIgnored(t)
      BY <2>5 DEF NictTimerIgnored
    <2> QED
      BY <1>5, <2>1, <2>2, <2>3, <2>4, <2>5 DEF NictTimerFires
  <1> QED
    BY <1>1, <1>2, <1>3, <1>4, <1>5 DEF NictActs

\* The timers a step of the client transaction leaves: those of its type, with no
\* timer E over a reliable transport, and the one that ends its new state.
LEMMA NictStepTimers ==
    ASSUME TypeOK, ClientIsTimed, NictActs, UNCHANGED reliable,
           NEW Name \in {NictTimer, NictTimer \ {"E"}},
           "E" \in Name \/ reliable, nictTimers \subseteq TimerOf(Name)
    PROVE  nictTimers' \subseteq TimerOf(Name) /\ ClientIsTimed'
  <1> DEFINE Typed == SUBSET TimerOf(Name)
  <1>0. /\ nictTimers \in Typed
        /\ \A t : nictTimers \ {t} \in Typed
        /\ "F" \in Name /\ "K" \in Name
    BY DEF NictTimer
  <1>a. ASSUME NEW T \in Typed
        PROVE  /\ \A name \in Name, missed \in BOOLEAN : Schedule(T, name, missed) \in Typed
               /\ \A names : Cancel(T, names) \in Typed
               /\ \A t \in T : Due(T, t) \in Typed
    BY TimersType
  <1>b. ASSUME NEW T \in Typed, NEW name \in Name, NEW missed \in BOOLEAN
        PROVE  /\ ~missed => IsPending(Schedule(T, name, missed), name)
               /\ \A other \in Name : other # name /\ IsPending(T, other)
                    => IsPending(Schedule(T, name, missed), other)
    BY ScheduledIsPending
  <1> HIDE DEF Typed
  <1>c. ASSUME NEW to, NEW T \in Typed, NictEnd(to, T),
               to = "Trying" => IsPending(T, "F"),
               to = "Completed" /\ ~reliable => IsPending(T, "K")
        PROVE  nictTimers' \in Typed /\ ClientIsTimed'
    <2>1. Cancel(T, NictTimer) \in Typed
      BY <1>a
    <2> QED
      BY <1>c, <2>1 DEF NictEnd, ClientIsTimed
  <1>d. CancelE(nictTimers) \in Typed /\ Cancel(CancelE(nictTimers), {"F"}) \in Typed
    BY <1>0, <1>a DEF CancelE
  <1> SUFFICES nictTimers' \in Typed /\ ClientIsTimed'
    BY DEF Typed
  <1>1. CASE NictSend
    <2> DEFINE F == Schedule(nictTimers, "F", FALSE)
    <2>1. F \in Typed /\ IsPending(F, "F")
      BY <1>0, <1>a, <1>b
    <2>2. NictEnd("Trying", IF reliable THEN F ELSE Schedule(F, "E", FALSE))
      BY <1>1 DEF NictSend
    <2> HIDE DEF F
    <2>3. ~reliable => /\ Schedule(F, "E", FALSE) \in Typed
                       /\ IsPending(Schedule(F, "E", FALSE), "F")
      BY <1>0, <1>a, <1>b, <2>1
    <2> QED
      BY <1>c, <2>1, <2>2, <2>3
  <1>2. CASE NictRecv1xx
    BY <1>2, <1>c, <1>d DEF NictRecv1xx
  <1>3. CASE NictRecvFinal
    <2> DEFINE C == IF nictState = "Trying" THEN Cancel(CancelE(nictTimers), {"F"})
                    ELSE CancelE(nictTimers)
    <2>1. C \in Typed
      BY <1>d
    <2>2. PICK tuStays \in BOOLEAN, missed \in Missed :
             NictEnd(IF tuStays THEN "Completed" ELSE "Terminated",
                     Schedule(C, "K", missed))
      BY <1>3 DEF NictRecvFinal
    <2> HIDE DEF C
    <2>3. missed \in BOOLEAN /\ (~reliable => ~missed)
      BY DEF Missed
    <2> DEFINE T == Schedule(C, "K", missed)
    <2>4. T \in Typed /\ (~reliable => IsPending(T, "K"))
      BY <1>0, <1>a, <1>b, <2>1, <2>3
    <2>5. NictEnd(IF tuStays THEN "Completed" ELSE "Terminated", T)
      BY <2>2
    <2> HIDE DEF T
    <2> QED
      BY <1>c, <2>4, <2>5
  <1>4. CASE NictCancel
    BY <1>0, <1>4, <1>c DEF NictCancel
  <1>5. ASSUME NEW t \in nictTimers, NictTimerDue(t) \/ NictTimerFires(t)
        PROVE  nictTimers' \in Typed /\ ClientIsTimed'
    <2>a. ASSUME NEW name \in Name, IsPending(nictTimers, name)
          PROVE  /\ IsPending(Due(nictTimers, t), name)
                 /\ t.name # name \/ ~t.current => IsPending(nictTimers \ {t}, name)
      BY <2>a, PendingKept
    <2>b. /\ nictState = "Trying" => IsPending(nictTimers, "F")
          /\ nictState = "Completed" /\ ~reliable => IsPending(nictTimers, "K")
      BY DEF ClientIsTimed
    <2>c. t.name \in Name
      BY DEF TimerOf
    <2>1. CASE NictTimerDue(t)
      BY <1>0, <1>a, <2>a, <2>b, <2>1 DEF NictTimerDue, ClientIsTimed
    <2>2. CASE NictTimerE(t)
      <3> DEFINE C == nictTimers \ {t}
      <3>1. t.name = "E" /\ "E" \in Name /\ nictState \in {"Trying", "Proceeding"}
        BY <2>c, <2>2 DEF NictTimerE, NictRaised
      <3>2. C \in Typed /\ (nictState = "Trying" => IsPending(C, "F"))
        BY <1>0, <2>a, <2>b, <3>1
      <3>3. NictEnd(nictState, Schedule(C, "E", FALSE))
        BY <2>2 DEF NictTimerE
      <3> HIDE DEF C
      <3> DEFINE T == Schedule(C, "E", FALSE)
      <3>4. T \in Typed /\ (nictState = "Trying" => IsPending(T, "F"))
        BY <1>0, <1>a, <1>b, <3>1, <3>2
      <3>5. NictEnd(nictState, T)
        BY <3>3
      <3> HIDE DEF T
      <3> QED
        BY <1>c, <3>1, <3>4, <3>5
    <2>3. CASE NictTimerF(t)
      BY <1>0, <1>c, <2>3 DEF NictTimerF
    <2>4. CASE NictTimerK(t)
      BY <1>0, <1>c, <2>4 DEF NictTimerK
    <2>5. CASE NictTimerIgnored(t)
      BY <1>0, <2>a, <2>b, <2>5 DEF NictTimerIgnored, NictRaised, ClientIsTimed
    <2> QED
      BY <1>5, <2>1, <2>2, <2>3, <2>4, <2>5 DEF NictTimerFires
  <1> QED
    BY <1>1, <1>2, <1>3, <1>4, <1>5 DEF NictActs

------------------------------------------------------------------------------
\* The inductive invariant holds initially ...
LEMMA IndInvInit == Init => IndInv
  <1> SUFFICES ASSUME Init PROVE IndInv
    OBVIOUS
  <1>1. \A i \in Server : nist[i] = [state |-> "none", timers |-> {},
                                     last |-> "none", handed |-> FALSE]
    BY DEF Init, NistInit
  <1>2. TypeOK
    <2>1. nist \in [Server -> NistRecord]
      BY DEF Init, NistInit, NistRecord, NistStates
    <2> QED
      BY <2>1 DEF Init, NictInit, TypeOK, NictStates
  <1>3. LastFollowsState /\ OneServerTransaction
    BY <1>1 DEF LastFollowsState, LastFollows, OneServerTransaction, Alive
  <1>4. ToldFollowsState /\ NetIsCaused /\ OutcomeIsUnique
    BY DEF Init, NictInit, ToldFollowsState, NetIsCaused, OutcomeIsUnique
  <1>5. LiveTransactionsAreTimed
    BY <1>1 DEF Init, NictInit, LiveTransactionsAreTimed, ClientIsTimed, ServerIsTimed
  <1>6. ReliableSendsOnce
    BY <1>1 DEF Init, NictInit, ReliableSendsOnce
  <1> QED
    BY <1>2, <1>3, <1>4, <1>5, <1>6 DEF IndInv

\* ... is kept by the sender's steps ...
LEMMA IndInvSender ==
    ASSUME IndInv, NictActs, ReceiverWaits
    PROVE  IndInv'
  <1> USE DEF IndInv
  <1>0. UNCHANGED <<nist, reliable>>
    BY DEF ReceiverWaits
  <1>1. NictEffect
    BY NictStepEffect
  <1>2. nictTimers' \subseteq TimerOf(NictTimer) /\ ClientIsTimed'
    <2>1. "E" \in NictTimer
      BY DEF NictTimer
    <2> QED
      BY <1>0, <2>1, NictStepTimers DEF TypeOK, LiveTransactionsAreTimed
  <1>3. TypeOK'
    BY <1>0, <1>1, <1>2 DEF NictEffect, TypeOK, Message
  <1>4. ToldFollowsState' /\ OutcomeIsUnique'
    BY <1>1 DEF NictEffect
  <1>5. NetIsCaused'
    BY <1>0, <1>1 DEF NictEffect, NetIsCaused
  <1>6. LastFollowsState' /\ OneServerTransaction' /\ LiveTransactionsAreTimed'
    BY <1>0, <1>2 DEF LastFollowsState, OneServerTransaction, Alive,
                      LiveTransactionsAreTimed, ServerIsTimed
  <1>7. ASSUME reliable PROVE ReliableSendsOnce'
    <2>1. nictTimers' \subseteq TimerOf(NictTimer \ {"E"})
      BY <1>0, <1>7, NictStepTimers DEF ReliableSendsOnce, LiveTransactionsAreTimed
    <2>2. CASE nictState = "Started"
      BY <1>0, <1>1, <1>7, <2>1, <2>2 DEF NictEffect, ReliableSendsOnce
    <2>3. CASE nictState # "Started"
      <3>1. "request" \in net' => "request" \in net
        \* only timer E sends again, and there is none
        <4>1. \A t \in nictTimers : t.name # "E"
          BY <1>7 DEF ReliableSendsOnce, TimerOf
        <4>2. ~NictSend /\ \A t \in nictTimers : ~NictTimerE(t)
          BY <2>3, <4>1 DEF NictSend, NictTimerE, NictRaised
        <4> QED
          BY <4>2 DEF NictActs, NictRecv1xx, NictRecvFinal, NictCancel, NictTimerDue,
                      NictTimerFires, NictTimerF, NictTimerK, NictTimerIgnored, Rest
      <3>2. nictState' # "Started"
        BY <1>1, <2>3 DEF NictEffect
      <3> QED
        BY <1>0, <1>7, <2>1, <3>1, <3>2 DEF ReliableSendsOnce
    <2> QED
      BY <2>2, <2>3
  <1>8. ReliableSendsOnce'
    BY <1>0, <1>7 DEF ReliableSendsOnce
  <1> QED
    BY <1>3, <1>4, <1>5, <1>6, <1>8

\* ... and by those of the server transactions.
LEMMA IndInvReceiver ==
    ASSUME IndInv, NEW i \in Server, NistActs(i), SenderWaits
    PROVE  IndInv'
  <1> USE DEF IndInv
  <1>0. UNCHANGED <<nictState, nictTimers, told, reliable>>
    BY DEF SenderWaits, nictVars
  <1>1. PICK r : NistBecomes(i, r)
    BY <1>0, NistStepBecomes DEF LiveTransactionsAreTimed
  <1>2. \A j \in Server : nist'[j] = IF j = i THEN r ELSE nist[j]
    BY <1>1 DEF NistBecomes, TypeOK
  <1>3. TypeOK'
    BY <1>0, <1>1 DEF NistBecomes, TypeOK, Message
  <1>4. LastFollowsState' /\ LiveTransactionsAreTimed'
    BY <1>0, <1>1, <1>2 DEF NistBecomes, LastFollowsState, LastFollows,
                            LiveTransactionsAreTimed, ClientIsTimed, ServerIsTimed
  <1>5. ToldFollowsState' /\ OutcomeIsUnique'
    BY <1>0 DEF ToldFollowsState, OutcomeIsUnique
  <1>6. NetIsCaused'
    <2> SUFFICES ASSUME "final" \in net' PROVE \E j \in Server : nist'[j].last = "final"
      BY DEF NetIsCaused
    <2>1. CASE r.last = "final"
      BY <1>2, <2>1
    <2>2. CASE r.last # "final"
      <3>1. PICK j \in Server : nist[j].last = "final"
        BY <1>1, <2>2 DEF NistBecomes, NetIsCaused
      <3>2. j # i
        BY <1>1, <2>2, <3>1 DEF NistBecomes
      <3> QED
        BY <1>2, <3>1, <3>2
    <2> QED
      BY <2>1, <2>2
  <1>7. OneServerTransaction'
    <2>1. CASE NoneFound(nist)
      BY <1>2, <2>1 DEF NoneFound, OneServerTransaction, Alive
    <2>2. CASE ~NoneFound(nist)
      <3>1. \A j \in Server : Alive(nist', j) => Alive(nist, j)
        BY <1>1, <1>2, <2>2 DEF NistBecomes, Alive
      <3> QED
        BY <3>1 DEF OneServerTransaction
    <2> QED
      BY <2>1, <2>2
  <1>8. ReliableSendsOnce'
    <2> SUFFICES ASSUME reliable PROVE ReliableSendsOnce'
      BY <1>0 DEF ReliableSendsOnce
    <2>1. CASE nist[i].state = "none" <=> r.state = "none"
      <3>1. \A j \in Server : nist'[j].state = "none" <=> nist[j].state = "none"
        BY <1>2, <2>1
      <3> QED
        BY <1>0, <1>1, <3>1 DEF NistBecomes, ReliableSendsOnce
    <2>2. CASE "request" \in net /\ net' = Rest("request")
      <3>1. "request" \notin net' /\ nictState # "Started"
        BY <2>2 DEF Rest, ReliableSendsOnce
      <3>2. \A j \in Server : nist'[j].state # "none" => j = i
        BY <1>2, <2>2 DEF ReliableSendsOnce
      <3> QED
        BY <1>0, <3>1, <3>2 DEF ReliableSendsOnce
    <2> QED
      BY <1>1, <2>1, <2>2 DEF NistBecomes
  <1> QED
    BY <1>3, <1>4, <1>5, <1>6, <1>7, <1>8

\* Every step keeps the inductive invariant.
LEMMA IndInvNext == IndInv /\ [Next]_vars => IndInv'
  <1> SUFFICES ASSUME IndInv, [Next]_vars PROVE IndInv'
    OBVIOUS
  <1>1. CASE Next
    BY <1>1, NextParties, IndInvSender, IndInvReceiver
  <1>2. CASE UNCHANGED vars
    BY <1>2 DEF vars, nictVars, IndInv, TypeOK, LastFollowsState, LastFollows,
                ToldFollowsState, NetIsCaused, OutcomeIsUnique, OneServerTransaction,
                Alive, LiveTransactionsAreTimed, ClientIsTimed, ServerIsTimed,
                ReliableSendsOnce
  <1> QED
    BY <1>1, <1>2

\* The inductive invariant holds in every state of the two stacks.
THEOREM Invariance == Spec => []IndInv
  BY IndInvInit, IndInvNext, PTL DEF Spec

\* Every variable stays in its range, whatever the number of server transactions.
THEOREM TypeCorrectness == Spec => []TypeOK
  <1>1. IndInv => TypeOK
    BY DEF IndInv
  <1> QED
    BY <1>1, Invariance, PTL

\* The sender's dialog is never told two outcomes of its request: a late final
\* response after timer F, or the other way round, is not passed on
\* (tsip_transac_nict.c, the rows of Trying to Completed).
THEOREM SenderLearnsOneOutcome == Spec => []OutcomeIsUnique
  <1>1. IndInv => OutcomeIsUnique
    BY DEF IndInv
  <1> QED
    BY <1>1, Invariance, PTL

\* No two server transactions of one request are alive together: the dialog layer
\* creates one only when find_server finds none.
THEOREM NoTwoServerTransactions == Spec => []OneServerTransaction
  <1>1. IndInv => OneServerTransaction
    BY DEF IndInv
  <1> QED
    BY <1>1, Invariance, PTL

\* No transaction waits in a state for a timer that it can no longer recognise.
THEOREM LiveTransactionsStayTimed == Spec => []LiveTransactionsAreTimed
  <1>1. IndInv => LiveTransactionsAreTimed
    BY DEF IndInv
  <1> QED
    BY <1>1, Invariance, PTL

\* Over a reliable transport no two dialogs are handed one request: timer E is
\* never scheduled, so the request is sent, received and handed on once.
THEOREM ReliableHandsAreUnique == Spec => []ReliableHandsOnce
  <1>1. IndInv => ReliableHandsOnce
    BY DEF IndInv, ReliableSendsOnce, ReliableHandsOnce, LastFollowsState, LastFollows
  <1> QED
    BY <1>1, Invariance, PTL

------------------------------------------------------------------------------
\* What the exchange sees of the two stacks.
learnt == IF told \ {"1xx"} = {} THEN "pending"
          ELSE CHOOSE a \in Told \ {"1xx"} : a \in told
given == [i \in Server |-> IF nist[i].last = "final" THEN "final" ELSE "none"]

\* The exchange has not begun.
LEMMA ExchangeInit == Init => Exchange!Init
  BY DEF Init, NictInit, NistInit, Exchange!Init

\* A step of the sender that is told an outcome is Learn or Fail, any other is none.
LEMMA SenderRefines ==
    ASSUME IndInv, NictActs, ReceiverWaits
    PROVE  [Exchange!Next]_(Exchange!vars)
  <1>0. UNCHANGED nist
    BY DEF ReceiverWaits
  <1>1. NictEffect
    BY NictStepEffect DEF IndInv
  <1>2. told \subseteq Told /\ told' \subseteq Told
    BY <1>1 DEF IndInv, TypeOK, NictEffect
  <1>3. UNCHANGED given
    BY <1>0 DEF given
  <1>4. CASE OutcomeKept
    <2>1. UNCHANGED learnt
      <3>1. \A a \in Told \ {"1xx"} : a \in told' <=> a \in told
        BY <1>4 DEF OutcomeKept
      <3>2. (CHOOSE a \in Told \ {"1xx"} : a \in told')
              = CHOOSE a \in Told \ {"1xx"} : a \in told
        BY <3>1
      <3>3. CASE told \ {"1xx"} = {}
        BY <1>4, <3>3 DEF OutcomeKept, learnt
      <3>4. CASE told \ {"1xx"} # {}
        <4>1. learnt = CHOOSE a \in Told \ {"1xx"} : a \in told
          BY <3>4 DEF learnt
        <4>2. learnt' = CHOOSE a \in Told \ {"1xx"} : a \in told'
          BY <1>4, <3>4 DEF OutcomeKept, learnt
        <4> QED
          BY <3>2, <4>1, <4>2
      <3> QED
        BY <3>3, <3>4
    <2> QED
      BY <1>3, <2>1 DEF Exchange!vars, learnt, given
  <1>5. ASSUME NEW a \in Told \ {"1xx"}, OutcomeTold(a)
        PROVE  Exchange!Next
    <2>1. learnt = "pending" /\ learnt' = a
      <3>1. (CHOOSE b \in Told \ {"1xx"} : b \in told') = a
        BY <1>5 DEF OutcomeTold
      <3> QED
        BY <1>5, <3>1 DEF OutcomeTold, learnt
    <2>2. CASE a = "final"
      <3>1. PICK i \in Server : nist[i].last = "final"
        BY <1>5, <2>2 DEF OutcomeTold, IndInv, NetIsCaused
      <3>2. given[i] = "final"
        BY <3>1 DEF given
      <3>3. Exchange!Learn("final")
        BY <1>3, <2>1, <2>2, <3>2 DEF Exchange!Learn, learnt, given
      <3> QED
        BY <3>3 DEF Exchange!Next
    <2>3. CASE a # "final"
      <3>1. a \in {"timedout", "transport_error"}
        BY <2>3 DEF Told
      <3>2. Exchange!Fail(a)
        BY <1>3, <2>1 DEF Exchange!Fail, learnt, given
      <3> QED
        BY <3>1, <3>2 DEF Exchange!Next
    <2> QED
      BY <2>2, <2>3
  <1> QED
    BY <1>1, <1>4, <1>5 DEF NictEffect

\* A step of a server transaction that gives its final response is Decide, any
\* other is none.
LEMMA ReceiverRefines ==
    ASSUME IndInv, NEW i \in Server, NistActs(i), SenderWaits
    PROVE  [Exchange!Next]_(Exchange!vars)
  <1>0. UNCHANGED <<told, reliable>>
    BY DEF SenderWaits, nictVars
  <1>1. PICK r : NistBecomes(i, r)
    BY <1>0, NistStepBecomes DEF IndInv, LiveTransactionsAreTimed
  <1>2. \A j \in Server : nist'[j] = IF j = i THEN r ELSE nist[j]
    BY <1>1 DEF NistBecomes, IndInv, TypeOK
  <1>3. UNCHANGED learnt
    BY <1>0 DEF learnt
  <1>4. CASE r.last = "final" <=> nist[i].last = "final"
    <2>1. UNCHANGED given
      BY <1>2, <1>4 DEF given
    <2> QED
      BY <1>3, <2>1 DEF Exchange!vars, learnt, given
  <1>5. CASE r.last = "final" /\ nist[i].last # "final"
    <2>1. given[i] = "none" /\ given' = [given EXCEPT ![i] = "final"]
      BY <1>2, <1>5 DEF given
    <2>2. Exchange!Decide(i, "final")
      BY <1>3, <2>1 DEF Exchange!Decide, learnt, given
    <2> QED
      BY <2>2 DEF Exchange!Next
  <1> QED
    BY <1>1, <1>4, <1>5 DEF NistBecomes

\* Every step of the pair is a step of the exchange, or none.
LEMMA ExchangeNext == IndInv /\ [Next]_vars => [Exchange!Next]_(Exchange!vars)
  <1> SUFFICES ASSUME IndInv, [Next]_vars PROVE [Exchange!Next]_(Exchange!vars)
    OBVIOUS
  <1>1. CASE Next
    BY <1>1, NextParties, SenderRefines, ReceiverRefines
  <1>2. CASE UNCHANGED vars
    BY <1>2 DEF vars, nictVars, Exchange!vars
  <1> QED
    BY <1>1, <1>2

\* The transactions of a non-INVITE request implement the exchange: the sender
\* learns at most one outcome, a failure of its own or an answer some server
\* transaction gave, and a server transaction answers once (tsip_transac_nict.c
\* and tsip_transac_nist.c, over a network that loses, repeats and reorders).
THEOREM Implementation == Spec => ImplementsExchange
  BY ExchangeInit, ExchangeNext, Invariance, PTL DEF Spec, ImplementsExchange, Exchange!Spec
=============================================================================
