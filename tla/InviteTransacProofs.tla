-------------------------- MODULE InviteTransacProofs --------------------------
(* What the INVITE transactions do for every bound on the server           *)
(* transactions and over both kinds of transport.                          *)
EXTENDS InviteTransac, TimersProofs

\* The steps of the client transaction, and those of server transaction i.
IctActs ==
    \/ IctSend \/ IctCancel
    \/ IctRecv1xx \/ IctRecv2xx \/ IctRecv300 \/ IctRecv300Again
    \/ \E t \in ictTimers : IctTimerDue(t) \/ IctTimerFires(t)

IstActs(i) ==
    \/ IstRecvInvite(i) \/ IstRecvInviteAgain(i)
    \/ \E j \in Server : IstRecvInviteFails(i, j)
    \/ \E ack \in {"ACK_2xx", "ACK_300_699"} : IstRecvAck(i, ack)
    \/ IstRespond(i) \/ IstCancel(i)
    \/ \E t \in ist[i].timers : IstTimerDue(i, t) \/ IstTimerFires(i, t)

\* Every step belongs to one party.
LEMMA NextParties ==
    ASSUME Next
    PROVE  \/ IctActs /\ CalleeWaits
           \/ TuAck /\ CalleeWaits
           \/ \E i \in Server : IstActs(i) /\ CallerWaits
  BY DEF Next, IctActs, IstActs, IctTimerFires, IstTimerFires

\* The timer operators keep the timers of a client transaction in their type.
LEMMA IctTimersType ==
    ASSUME NEW timers \in SUBSET TimerOf(IctTimer)
    PROVE  /\ WithTimerA(timers) \in SUBSET TimerOf(IctTimer)
           /\ ScheduleAB(timers) \in SUBSET TimerOf(IctTimer)
           /\ CancelAB(timers) \in SUBSET TimerOf(IctTimer)
  <1>1. \A T \in SUBSET TimerOf(IctTimer), name \in IctTimer :
           Schedule(T, name, FALSE) \in SUBSET TimerOf(IctTimer)
    BY TimersType
  <1>2. "A" \in IctTimer /\ "B" \in IctTimer
    BY DEF IctTimer
  <1>3. WithTimerA(timers) \in SUBSET TimerOf(IctTimer)
    BY <1>1, <1>2 DEF WithTimerA
  <1>4. ScheduleAB(timers) \in SUBSET TimerOf(IctTimer)
    BY <1>1, <1>2, <1>3 DEF ScheduleAB
  <1>5. CancelAB(timers) \in SUBSET TimerOf(IctTimer)
    BY TimersType DEF CancelAB
  <1> QED
    BY <1>3, <1>4, <1>5

\* The end of tsk_fsm_act leaves the client transaction in its type.
LEMMA IctEndType ==
    ASSUME NEW to \in IctStates, NEW ok \in BOOLEAN,
           NEW timers \in SUBSET TimerOf(IctTimer), IctEnd(to, ok, timers)
    PROVE  /\ ictState' \in IctStates
           /\ ictTimers' \in SUBSET TimerOf(IctTimer)
  <1>1. Cancel(timers, IctTimer) \in SUBSET TimerOf(IctTimer)
    BY TimersType
  <1>2. "Terminated" \in IctStates
    BY DEF IctStates
  <1> QED
    BY <1>1, <1>2 DEF IctEnd

\* The end of tsk_fsm_act leaves a server transaction in its type.
LEMMA IstEndType ==
    ASSUME NEW s \in IstRecord, NEW to \in IstStates, NEW ok \in BOOLEAN,
           NEW timers \in SUBSET TimerOf(IstTimer)
    PROVE  IstEnd(s, to, ok, timers) \in IstRecord
  <1>1. Cancel(timers, IstTimer) \in SUBSET TimerOf(IstTimer)
    BY TimersType
  <1>2. "Terminated" \in IstStates
    BY DEF IstStates
  <1> QED
    BY <1>1, <1>2 DEF IstEnd, IstRecord

\* Every step of the client transaction keeps the types of its state.
LEMMA IctStepType ==
    ASSUME TypeOK, IctActs
    PROVE  /\ net' \subseteq Message
           /\ ictState' \in IctStates
           /\ ictTimers' \in SUBSET TimerOf(IctTimer)
           /\ passedUp' \subseteq Response
           /\ timedOut' \in BOOLEAN
  <1> USE DEF TypeOK, PassUp, TellNothing, Sent, Rest, Message, Response, Final
  <1>0. /\ ScheduleAB(ictTimers) \in SUBSET TimerOf(IctTimer)
        /\ CancelAB(ictTimers) \in SUBSET TimerOf(IctTimer)
        /\ \A t : ictTimers \ {t} \in SUBSET TimerOf(IctTimer)
    BY IctTimersType
  <1>1. CASE IctSend
    BY <1>0, <1>1, IctEndType DEF IctSend, IctStates
  <1>2. CASE IctCancel
    BY <1>2, IctEndType DEF IctCancel, IctStates
  <1>3. CASE IctRecv1xx
    BY <1>0, <1>3, IctEndType DEF IctRecv1xx, IctStates
  <1>4. CASE IctRecv2xx
    <2>1. Schedule(ictTimers, "M", FALSE) \in SUBSET TimerOf(IctTimer)
      BY TimersType DEF IctTimer
    <2>2. ScheduleAB(Schedule(ictTimers, "M", FALSE)) \in SUBSET TimerOf(IctTimer)
      BY <2>1, IctTimersType
    <2> QED
      BY <1>4, <2>2, IctEndType DEF IctRecv2xx, IctStates
  <1>5. CASE IctRecv300
    <2>1. \A missed \in BOOLEAN :
             Schedule(CancelAB(ictTimers), "D", missed) \in SUBSET TimerOf(IctTimer)
      BY <1>0, TimersType DEF IctTimer
    <2> QED
      BY <1>5, <2>1, IctEndType DEF IctRecv300, IctStates, Missed
  <1>6. CASE IctRecv300Again
    BY <1>6, IctEndType DEF IctRecv300Again, IctStates
  <1>7. ASSUME NEW t \in ictTimers, IctTimerDue(t) \/ IctTimerFires(t)
        PROVE  /\ net' \subseteq Message
               /\ ictState' \in IctStates
               /\ ictTimers' \in SUBSET TimerOf(IctTimer)
               /\ passedUp' \subseteq Response
               /\ timedOut' \in BOOLEAN
    <2>1. CASE IctTimerDue(t)
      <3>1. Due(ictTimers, t) \in SUBSET TimerOf(IctTimer)
        BY TimersType
      <3> QED
        BY <2>1, <3>1 DEF IctTimerDue
    <2>2. CASE IctTimerA(t)
      <3>1. Schedule(ictTimers \ {t}, "A", FALSE) \in SUBSET TimerOf(IctTimer)
        BY <1>0, TimersType DEF IctTimer
      <3> QED
        BY <2>2, <3>1, IctEndType DEF IctTimerA, IctStates
    <2>3. CASE IctTimerB(t)
      BY <1>0, <2>3, IctEndType DEF IctTimerB, IctStates
    <2>4. CASE IctTimerEnds(t)
      BY <1>0, <2>4, IctEndType DEF IctTimerEnds, IctStates
    <2>5. CASE IctTimerIgnored(t)
      BY <1>0, <2>5 DEF IctTimerIgnored
    <2> QED
      BY <1>7, <2>1, <2>2, <2>3, <2>4, <2>5 DEF IctTimerFires
  <1> QED
    BY <1>1, <1>2, <1>3, <1>4, <1>5, <1>6, <1>7 DEF IctActs

\* A freshly created server transaction is in its type and in Proceeding or
\* Terminated.
LEMMA StartedType ==
    ASSUME NEW s \in IstRecord, NEW sent \in BOOLEAN, NEW tuOk \in BOOLEAN
    PROVE  /\ Started(s, sent, tuOk) \in IstRecord
           /\ Started(s, sent, tuOk).state \in {"Proceeding", "Terminated"}
           /\ Started(s, sent, tuOk).last = "1xx"
  <1> DEFINE r == Answer(IF sent THEN Tell(s, "INVITE") ELSE s, "1xx")
  <1>1. r \in IstRecord /\ r.last = "1xx"
    BY DEF IstRecord, Answer, Tell
  <1>2. (sent /\ tuOk) \in BOOLEAN
    OBVIOUS
  <1>3. "Proceeding" \in IstStates /\ s.timers \in SUBSET TimerOf(IstTimer)
    BY DEF IstStates, IstRecord
  <1> HIDE DEF r
  <1>4. IstEnd(r, "Proceeding", sent /\ tuOk, s.timers) \in IstRecord
    BY <1>1, <1>2, <1>3, IstEndType
  <1>5. /\ IstEnd(r, "Proceeding", sent /\ tuOk, s.timers).state
             \in {"Proceeding", "Terminated"}
        /\ IstEnd(r, "Proceeding", sent /\ tuOk, s.timers).last = "1xx"
    BY <1>1 DEF IstEnd, IstRecord
  <1> QED
    BY <1>4, <1>5 DEF Started, r

\* Every step of a server transaction keeps the types of its state.
LEMMA IstStepType ==
    ASSUME TypeOK, LastFollowsState, NEW i \in Server, IstActs(i)
    PROVE  /\ net' \subseteq Message
           /\ ist' \in [Server -> IstRecord]
  <1> USE DEF TypeOK, Sent, Rest, Message
  <1>0. /\ ist[i] \in IstRecord
        /\ ist[i].timers \in SUBSET TimerOf(IstTimer)
        /\ \A t : ist[i].timers \ {t} \in SUBSET TimerOf(IstTimer)
    BY DEF IstRecord
  <1>a. \A T \in SUBSET TimerOf(IstTimer), name \in IstTimer, missed \in BOOLEAN :
           Schedule(T, name, missed) \in SUBSET TimerOf(IstTimer)
    BY TimersType
  <1>b. \A T \in SUBSET TimerOf(IstTimer) :
           WithTimerG(T) \in SUBSET TimerOf(IstTimer)
    BY <1>a DEF WithTimerG, IstTimer
  <1>c. {"Proceeding", "Completed", "Accepted", "Confirmed", "Terminated"}
              \subseteq IstStates
    BY DEF IstStates
  <1>d. "G" \in IstTimer /\ "H" \in IstTimer /\ "I" \in IstTimer /\ "L" \in IstTimer
    BY DEF IstTimer
  <1>1. CASE IstRecvInvite(i)
    <2>1. \A sent, tuOk \in BOOLEAN : Started(ist[i], sent, tuOk) \in IstRecord
      BY <1>0, StartedType
    <2> QED
      BY <1>1, <2>1 DEF IstRecvInvite
  <1>2. CASE IstRecvInviteAgain(i)
    BY <1>2 DEF IstRecvInviteAgain, LastFollowsState, LastFollows
  <1>3. ASSUME NEW j \in Server, IstRecvInviteFails(i, j)
        PROVE  net' \subseteq Message /\ ist' \in [Server -> IstRecord]
    <2>1. IstEnd(ist[i], "Terminated", FALSE, ist[i].timers) \in IstRecord
      BY <1>0, <1>c, IstEndType
    <2>2. i # j
      BY <1>3 DEF IstRecvInviteFails, Found, Alive, IsNext
    <2>3. \A sent, tuOk \in BOOLEAN : Started(ist[j], sent, tuOk) \in IstRecord
      BY StartedType
    <2>4. PICK sent \in BOOLEAN, tuOk \in BOOLEAN :
             /\ net' = Rest("INVITE") \cup Sent("1xx", sent)
             /\ ist' = [ist EXCEPT ![i] = IstEnd(@, "Terminated", FALSE, @.timers),
                                   ![j] = Started(@, sent, tuOk)]
      BY <1>3 DEF IstRecvInviteFails
    <2> DEFINE failed == IstEnd(ist[i], "Terminated", FALSE, ist[i].timers)
               next == Started(ist[j], sent, tuOk)
    <2>5. failed \in IstRecord /\ next \in IstRecord
      BY <2>1, <2>3
    <2>6. ist' = [ist EXCEPT ![i] = failed, ![j] = next]
      BY <2>2, <2>4
    <2> HIDE DEF failed, next
    <2>7. ist' \in [Server -> IstRecord]
      BY <2>5, <2>6
    <2>8. net' \subseteq Message
      BY <2>4
    <2> QED
      BY <2>7, <2>8
  <1>4. ASSUME NEW ack \in {"ACK_2xx", "ACK_300_699"}, IstRecvAck(i, ack)
        PROVE  net' \subseteq Message /\ ist' \in [Server -> IstRecord]
    <2>1. net' \subseteq Message
      BY <1>4 DEF IstRecvAck
    <2> DEFINE C == Cancel(ist[i].timers, {"G"})
    <2>a. C \in SUBSET TimerOf(IstTimer)
      BY <1>0, TimersType
    <2> HIDE DEF C
    <2>b. \A missed \in BOOLEAN : Schedule(C, "I", missed) \in SUBSET TimerOf(IstTimer)
      BY <1>a, <1>d, <2>a
    <2>2. \A missed \in BOOLEAN :
             Schedule(Cancel(ist[i].timers, {"G"}), "I", missed)
                \in SUBSET TimerOf(IstTimer)
      BY <2>b DEF C
    <2>3. Tell(ist[i], "ACK") \in IstRecord
      BY <1>0 DEF IstRecord, Tell
    <2>4. \A missed \in BOOLEAN :
             IstEnd(ist[i], "Confirmed", TRUE,
                    Schedule(Cancel(ist[i].timers, {"G"}), "I", missed)) \in IstRecord
      BY <1>0, <1>c, <2>2, IstEndType
    <2>5. \A tuOk \in BOOLEAN :
             IstEnd(Tell(ist[i], "ACK"), "Accepted", tuOk,
                    ist[i].timers) \in IstRecord
      BY <1>0, <1>c, <2>3, IstEndType
    <2> QED
      BY ZenonT(40), <1>4, <2>1, <2>4, <2>5 DEF IstRecvAck, IstStep, Missed
  <1>5. CASE IstRespond(i)
    <2>1. \A response \in {"1xx", "2xx", "300_699"} :
             Answer(ist[i], response) \in IstRecord
      BY <1>0 DEF IstRecord, Answer
    <2>2. ASSUME NEW response \in {"1xx", "2xx", "300_699"},
                 NEW to \in IstStates, NEW T \in SUBSET TimerOf(IstTimer),
                 IstSends(i, response, to, T)
          PROVE  net' \subseteq Message /\ ist' \in [Server -> IstRecord]
      BY <2>1, <2>2, IstEndType DEF IstSends
    <2>3. WithTimerG(ist[i].timers) \in SUBSET TimerOf(IstTimer)
      BY <1>0, <1>b
    <2>4. /\ Schedule(WithTimerG(ist[i].timers), "H", FALSE) \in SUBSET TimerOf(IstTimer)
          /\ Schedule(ist[i].timers, "L", FALSE) \in SUBSET TimerOf(IstTimer)
      BY <1>0, <1>a, <1>d, <2>3
    <2>5. \/ IstSends(i, "1xx", "Proceeding", ist[i].timers)
          \/ IstSends(i, "300_699", "Completed",
                      Schedule(WithTimerG(ist[i].timers), "H", FALSE))
          \/ IstSends(i, "2xx", "Accepted", Schedule(ist[i].timers, "L", FALSE))
          \/ IstSends(i, "2xx", "Accepted", ist[i].timers)
      BY <1>5 DEF IstRespond
    <2> QED
      BY <1>0, <1>c, <2>2, <2>4, <2>5
  <1>6. CASE IstCancel(i)
    BY <1>6, <1>0, <1>c, IstEndType DEF IstCancel, IstStep
  <1>7. ASSUME NEW t \in ist[i].timers, IstTimerDue(i, t) \/ IstTimerFires(i, t)
        PROVE  net' \subseteq Message /\ ist' \in [Server -> IstRecord]
    <2>1. CASE IstTimerDue(i, t)
      <3>1. Due(ist[i].timers, t) \in SUBSET TimerOf(IstTimer)
        BY ZenonT(40), <1>0, TimersType
      <3> QED
        BY <1>0, <2>1, <3>1 DEF IstTimerDue, IstRecord
    <2>2. CASE IstTimerG(i, t)
      <3>1. Schedule(ist[i].timers \ {t}, "G", FALSE) \in SUBSET TimerOf(IstTimer)
        BY <1>0, <1>a, <1>d
      <3>2. net' \subseteq Message
        BY <2>2 DEF IstTimerG, IstRaised, LastFollowsState, LastFollows
      <3>3. \A sent \in BOOLEAN :
               IstEnd(ist[i], "Completed", sent,
                      Schedule(ist[i].timers \ {t}, "G", FALSE)) \in IstRecord
        BY <1>0, <1>c, <3>1, IstEndType
      <3> QED
        BY <2>2, <3>2, <3>3 DEF IstTimerG, IstStep
    <2>3. CASE IstTimerH(i, t)
      <3>1. Tell(ist[i], "transport_error") \in IstRecord
        BY <1>0 DEF IstRecord, Tell
      <3>2. IstEnd(Tell(ist[i], "transport_error"), "Terminated",
                   TRUE, ist[i].timers \ {t}) \in IstRecord
        BY <1>0, <1>c, <3>1, IstEndType
      <3> QED
        BY <2>3, <3>2 DEF IstTimerH
    <2>4. CASE IstTimerEnds(i, t)
      BY <1>0, <1>c, <2>4, IstEndType DEF IstTimerEnds, IstStep
    <2>5. CASE IstTimerIgnored(i, t)
      BY <1>0, <2>5 DEF IstTimerIgnored, IstRecord
    <2> QED
      BY <1>7, <2>1, <2>2, <2>3, <2>4, <2>5 DEF IstTimerFires
  <1> QED
    BY <1>1, <1>2, <1>3, <1>4, <1>5, <1>6, <1>7 DEF IstActs

------------------------------------------------------------------------------
\* One server transaction at most gives an answer or has it acknowledged in a
\* step, and not both.
OneServerActs ==
    \E i \in Server :
        /\ \A j \in Server \ {i} :
             /\ ist'[j].last \in Final => ist'[j].last = ist[j].last
             /\ ist'[j].state = "Confirmed" <=> ist[j].state = "Confirmed"
        /\ \/ ist'[i].last = ist[i].last
           \/ ist'[i].state = "Confirmed" <=> ist[i].state = "Confirmed"

\* What a server transaction's step may do to the network and to the states of
\* the server transactions, whatever the step is.
IstEffect ==
    /\ OneServerActs
    /\ net' \cap {"INVITE", "ACK_2xx", "ACK_300_699"} \subseteq net
    /\ \A a \in Final : a \in net' => a \in net \/ \E j \in Server : ist'[j].last = a
    /\ \A j \in Server :
         /\ LastFollows(ist'[j])
         /\ ist[j].last \in Final => ist'[j].last = ist[j].last
         /\ ist'[j].state = "Confirmed" =>
              ist[j].state = "Confirmed" \/ net \cap {"ACK_2xx", "ACK_300_699"} # {}
         /\ ist[j].state # "none" => ist'[j].state # "none"
         /\ Alive(ist', j) /\ ~Alive(ist, j) =>
              \A k \in Server : Alive(ist', k) => k = j
         /\ ist[j].state = "none" /\ ist'[j].state # "none" =>
              /\ "INVITE" \in net
              /\ reliable => "INVITE" \notin net'
              /\ \A k \in Server : ist[k].state = "none" /\ ist'[k].state # "none" => k = j

\* The end of tsk_fsm_act changes the state and the timers of a server
\* transaction, nothing else.
LEMMA IstEndEffect ==
    ASSUME NEW s \in IstRecord, NEW to \in IstStates, NEW ok \in BOOLEAN,
           NEW timers \in SUBSET TimerOf(IstTimer)
    PROVE  /\ IstEnd(s, to, ok, timers).state \in {to, "Terminated"}
           /\ IstEnd(s, to, ok, timers).last = s.last
           /\ IstEnd(s, to, ok, timers).told = s.told
  BY DEF IstEnd, IstRecord

\* A step of a transaction that is alive, described by its new record.
LEMMA LiveStepEffect ==
    ASSUME TypeOK, LastFollowsState, NEW i \in Server, Alive(ist, i),
           NEW r, ist' = [ist EXCEPT ![i] = r], LastFollows(r), r.state # "none",
           ist[i].last \in Final => r.last = ist[i].last,
           r.state = "Confirmed" =>
              ist[i].state = "Confirmed" \/ net \cap {"ACK_2xx", "ACK_300_699"} # {},
           net' \cap {"INVITE", "ACK_2xx", "ACK_300_699"} \subseteq net,
           net' \cap Final \subseteq net \cup {r.last},
           \/ r.last = ist[i].last
           \/ r.state = "Confirmed" <=> ist[i].state = "Confirmed"
    PROVE  IstEffect
  <1>1. \A j \in Server : ist'[j] = IF j = i THEN r ELSE ist[j]
    BY DEF TypeOK
  <1>2. \A j \in Server : Alive(ist', j) => Alive(ist, j)
    BY <1>1 DEF Alive
  <1>3. \A j \in Server : ist[j].state = "none" => ist'[j].state = "none"
    BY <1>1 DEF Alive
  <1>4. OneServerActs
    BY <1>1 DEF OneServerActs
  <1> QED
    BY <1>1, <1>2, <1>3, <1>4 DEF IstEffect, LastFollowsState, Alive

\* A step that changes timers only.
LEMMA TimersStepEffect ==
    ASSUME TypeOK, LastFollowsState, NEW i \in Server, NEW T,
           ist' = [ist EXCEPT ![i].timers = T], UNCHANGED net
    PROVE  IstEffect
  <1>1. \A j \in Server : /\ ist'[j].state = ist[j].state
                          /\ ist'[j].last = ist[j].last
                          /\ ist'[j].told = ist[j].told
    BY DEF TypeOK, IstRecord
  <1>2. OneServerActs
    BY <1>1 DEF OneServerActs
  <1> QED
    BY <1>1, <1>2 DEF IstEffect, LastFollowsState, LastFollows, Alive

\* A new server transaction: only the one that has just ended may be beside it.
LEMMA CreationEffect ==
    ASSUME TypeOK, LastFollowsState, NEW j \in Server, IsNext(ist, j),
           "INVITE" \in net, NEW sent \in BOOLEAN, NEW tuOk \in BOOLEAN,
           net' = Rest("INVITE") \cup Sent("1xx", sent),
           ist'[j] = Started(ist[j], sent, tuOk),
           \A k \in Server : ist[k].state # "Confirmed",
           \A k \in Server \ {j} :
              /\ ~Alive(ist', k)
              /\ ist'[k].state = "none" <=> ist[k].state = "none"
              /\ ist'[k].last = ist[k].last /\ ist'[k].told = ist[k].told
    PROVE  IstEffect
  <1>1. /\ ist'[j].state \in {"Proceeding", "Terminated"}
        /\ ist'[j].last = "1xx"
    BY StartedType DEF TypeOK
  <1>2. ist[j].state = "none" /\ ist[j].last = "none"
    BY DEF IsNext, LastFollowsState, LastFollows, Server
  <1>3. \A k \in Server \ {j} : LastFollows(ist'[k])
    BY DEF LastFollowsState, LastFollows, Alive
  <1>4. LastFollows(ist'[j])
    BY <1>1 DEF LastFollows
  <1>5. net' \subseteq net \cup {"1xx"} /\ (reliable => "INVITE" \notin net')
    BY DEF Rest, Sent
  <1>6. \A k \in Server : ist'[k].state # "Confirmed"
    BY <1>1 DEF Alive
  <1>7. OneServerActs
    BY <1>6 DEF OneServerActs
  <1> QED
    BY <1>1, <1>2, <1>3, <1>4, <1>5, <1>6, <1>7 DEF IstEffect, Final, Alive

\* Every step of the server transactions has that effect.
LEMMA IstStepEffect ==
    ASSUME TypeOK, LastFollowsState, OneServerTransaction,
           NEW i \in Server, IstActs(i)
    PROVE  IstEffect
  <1>0. /\ ist[i] \in IstRecord /\ LastFollows(ist[i])
        /\ ist[i].timers \in SUBSET TimerOf(IstTimer)
        /\ \A t : ist[i].timers \ {t} \in SUBSET TimerOf(IstTimer)
    BY DEF TypeOK, IstRecord, LastFollowsState
  <1>a. \A T \in SUBSET TimerOf(IstTimer), name \in IstTimer, missed \in BOOLEAN :
           Schedule(T, name, missed) \in SUBSET TimerOf(IstTimer)
    BY TimersType
  <1>b. WithTimerG(ist[i].timers) \in SUBSET TimerOf(IstTimer)
    BY <1>0, <1>a DEF WithTimerG, IstTimer
  <1>c. {"Proceeding", "Completed", "Accepted", "Confirmed", "Terminated"}
              \subseteq IstStates
    BY DEF IstStates
  <1>d. "G" \in IstTimer /\ "H" \in IstTimer /\ "I" \in IstTimer /\ "L" \in IstTimer
    BY DEF IstTimer
  <1>e. \A what \in {"INVITE", "ACK", "transport_error"} :
           /\ Tell(ist[i], what) \in IstRecord
           /\ Tell(ist[i], what).last = ist[i].last
    BY <1>0 DEF IstRecord, Tell
  <1>1. CASE IstRecvInvite(i)
    <2>1. PICK sent \in BOOLEAN, tuOk \in BOOLEAN :
             /\ net' = Rest("INVITE") \cup Sent("1xx", sent)
             /\ ist' = [ist EXCEPT ![i] = Started(@, sent, tuOk)]
      BY <1>1 DEF IstRecvInvite
    <2>2. /\ ist'[i] = Started(ist[i], sent, tuOk)
          /\ \A k \in Server \ {i} : ist'[k] = ist[k]
      BY <2>1 DEF TypeOK
    <2>3. IsNext(ist, i) /\ "INVITE" \in net /\ \A k \in Server : ~Alive(ist, k)
      BY <1>1 DEF IstRecvInvite, NoneFound
    <2>4. /\ \A k \in Server \ {i} : ~Alive(ist', k)
          /\ \A k \in Server : ist[k].state # "Confirmed"
      BY <2>2, <2>3 DEF Alive
    <2> QED
      BY <2>1, <2>2, <2>3, <2>4, CreationEffect
  <1>2. CASE IstRecvInviteAgain(i)
    <2>1. /\ Alive(ist, i) /\ ist' = [ist EXCEPT ![i] = ist[i]]
          /\ net' \subseteq net \cup {ist[i].last}
          /\ ist[i].last \in {"1xx", "2xx", "300_699"}
      BY <1>0, <1>2 DEF IstRecvInviteAgain, Found, Rest, TypeOK, LastFollows
    <2>2. net' \cap {"INVITE", "ACK_2xx", "ACK_300_699"} \subseteq net
      BY <2>1
    <2>3. ist[i].state # "none" /\ net' \cap Final \subseteq net \cup {ist[i].last}
      BY <2>1 DEF Alive
    <2> QED
      BY <1>0, <2>1, <2>2, <2>3, LiveStepEffect
  <1>3. ASSUME NEW j \in Server, IstRecvInviteFails(i, j)
        PROVE  IstEffect
    <2>1. PICK sent \in BOOLEAN, tuOk \in BOOLEAN :
             /\ net' = Rest("INVITE") \cup Sent("1xx", sent)
             /\ ist' = [ist EXCEPT ![i] = IstEnd(@, "Terminated", FALSE, @.timers),
                                   ![j] = Started(@, sent, tuOk)]
      BY <1>3 DEF IstRecvInviteFails
    <2>2. i # j /\ Alive(ist, i) /\ IsNext(ist, j) /\ "INVITE" \in net
      BY <1>3 DEF IstRecvInviteFails, Found, Alive, IsNext
    <2>3. \A k \in Server \ {i} : ~Alive(ist, k)
      BY <2>2 DEF OneServerTransaction
    <2> DEFINE r == IstEnd(ist[i], "Terminated", FALSE, ist[i].timers)
    <2>4. r.state = "Terminated" /\ r.last = ist[i].last /\ r.told = ist[i].told
      BY ZenonT(40), <1>0, <1>c, IstEndEffect
    <2>5. /\ ist'[i] = r /\ ist'[j] = Started(ist[j], sent, tuOk)
          /\ \A k \in Server \ {i, j} : ist'[k] = ist[k]
      BY <2>1, <2>2 DEF TypeOK
    <2> HIDE DEF r
    <2>6. \A k \in Server \ {j} :
             /\ ~Alive(ist', k)
             /\ ist'[k].state = "none" <=> ist[k].state = "none"
             /\ ist'[k].last = ist[k].last /\ ist'[k].told = ist[k].told
      BY <2>2, <2>3, <2>4, <2>5 DEF Alive
    <2>7. \A k \in Server : ist[k].state # "Confirmed"
      BY <1>3, <2>3 DEF IstRecvInviteFails, Alive
    <2> QED
      BY <2>1, <2>2, <2>5, <2>6, <2>7, CreationEffect
  <1>4. ASSUME NEW ack \in {"ACK_2xx", "ACK_300_699"}, IstRecvAck(i, ack)
        PROVE  IstEffect
    <2>1. Alive(ist, i) /\ ack \in net /\ net' \subseteq net
      BY <1>4 DEF IstRecvAck, Found, Rest
    <2>2. CASE /\ ist[i].state = "Completed"
               /\ \E missed \in Missed :
                    IstStep(i, "Confirmed", TRUE,
                            Schedule(Cancel(ist[i].timers, {"G"}), "I", missed))
      <3>1. PICK T : ist' = [ist EXCEPT ![i] = IstEnd(@, "Confirmed", TRUE, T)]
        BY <2>2 DEF IstStep
      <3> DEFINE r == IstEnd(ist[i], "Confirmed", TRUE, T)
      <3>2. r.state = "Confirmed" /\ r.last = ist[i].last
        BY <1>0 DEF IstEnd, IstRecord
      <3>3. ist' = [ist EXCEPT ![i] = r]
        BY <3>1
      <3> HIDE DEF r
      <3>4. LastFollows(r) /\ r.state # "none"
        BY <1>0, <2>2, <3>2 DEF LastFollows
      <3> QED
        BY <2>1, <3>2, <3>3, <3>4, LiveStepEffect
    <2>3. CASE /\ ist[i].state = "Accepted"
               /\ \E tuOk \in BOOLEAN :
                    ist' = [ist EXCEPT ![i] =
                              IstEnd(Tell(@, "ACK"), "Accepted", tuOk, @.timers)]
      <3>1. PICK tuOk \in BOOLEAN :
               ist' = [ist EXCEPT ![i] = IstEnd(Tell(@, "ACK"), "Accepted", tuOk, @.timers)]
        BY <2>3
      <3> DEFINE r == IstEnd(Tell(ist[i], "ACK"), "Accepted", tuOk, ist[i].timers)
      <3>2. r.state \in {"Accepted", "Terminated"} /\ r.last = ist[i].last
        BY <1>0, <1>c, <1>e, IstEndEffect
      <3>3. ist' = [ist EXCEPT ![i] = r]
        BY <3>1
      <3> HIDE DEF r
      <3>4. LastFollows(r) /\ r.state # "none"
        BY <1>0, <2>3, <3>2 DEF LastFollows
      <3> QED
        BY <2>1, <3>2, <3>3, <3>4, LiveStepEffect
    <2> QED
      BY <1>4, <2>2, <2>3 DEF IstRecvAck
  <1>5. CASE IstRespond(i)
    <2>1. ASSUME NEW response \in {"1xx", "2xx", "300_699"}, NEW to \in IstStates,
                 NEW T \in SUBSET TimerOf(IstTimer), IstSends(i, response, to, T),
                 to \notin {"none", "Confirmed"}, Alive(ist, i),
                 ist[i].state # "Confirmed",
                 LastFollows([state |-> to, last |-> response, told |-> {}]),
                 ist[i].last \in Final => response = ist[i].last
          PROVE  IstEffect
      <3>1. PICK sent \in BOOLEAN :
               /\ net' = net \cup Sent(response, sent)
               /\ ist' = [ist EXCEPT ![i] = IstEnd(Answer(@, response), to, sent, T)]
        BY <2>1 DEF IstSends
      <3>2. Answer(ist[i], response) \in IstRecord /\ Answer(ist[i], response).last = response
        BY <1>0 DEF IstRecord, Answer
      <3> DEFINE r == IstEnd(Answer(ist[i], response), to, sent, T)
      <3>3. r.state \in {to, "Terminated"} /\ r.last = response
        BY <3>2, IstEndEffect
      <3>4. ist' = [ist EXCEPT ![i] = r]
        BY <3>1
      <3> HIDE DEF r
      <3>5. LastFollows(r) /\ r.state \notin {"none", "Confirmed"}
        BY <2>1, <3>3 DEF LastFollows
      <3>6. /\ net' \cap {"INVITE", "ACK_2xx", "ACK_300_699"} \subseteq net
            /\ net' \cap Final \subseteq net \cup {r.last}
        BY <3>1, <3>3 DEF Sent, Final
      <3> QED
        BY <2>1, <3>3, <3>4, <3>5, <3>6, LiveStepEffect
    <2>2. Alive(ist, i) /\ ist[i].state \in {"Proceeding", "Accepted"}
      BY <1>5 DEF IstRespond, Found
    <2>3. /\ ist[i].state = "Proceeding" => ist[i].last = "1xx"
          /\ ist[i].state = "Accepted" => ist[i].last = "2xx"
      BY <1>0 DEF LastFollows
    <2>4. /\ Schedule(WithTimerG(ist[i].timers), "H", FALSE) \in SUBSET TimerOf(IstTimer)
          /\ Schedule(ist[i].timers, "L", FALSE) \in SUBSET TimerOf(IstTimer)
      BY <1>0, <1>a, <1>b, <1>d
    <2>5. CASE /\ ist[i].state = "Proceeding"
               /\ IstSends(i, "1xx", "Proceeding", ist[i].timers)
      BY <1>0, <1>c, <2>1, <2>2, <2>3, <2>5 DEF LastFollows, Final
    <2>6. CASE /\ ist[i].state = "Proceeding"
               /\ IstSends(i, "300_699", "Completed",
                           Schedule(WithTimerG(ist[i].timers), "H", FALSE))
      BY ZenonT(40), <1>c, <2>1, <2>2, <2>3, <2>4, <2>6 DEF LastFollows, Final
    <2>7. CASE /\ ist[i].state = "Proceeding"
               /\ IstSends(i, "2xx", "Accepted", Schedule(ist[i].timers, "L", FALSE))
      BY <1>c, <2>1, <2>2, <2>3, <2>4, <2>7 DEF LastFollows, Final
    <2>8. CASE /\ ist[i].state = "Accepted"
               /\ IstSends(i, "2xx", "Accepted", ist[i].timers)
      BY <1>0, <1>c, <2>1, <2>2, <2>3, <2>8 DEF LastFollows, Final
    <2> QED
      BY <1>5, <2>5, <2>6, <2>7, <2>8 DEF IstRespond
  <1>6. ASSUME NEW s \in IstRecord, NEW ok \in BOOLEAN,
               NEW T \in SUBSET TimerOf(IstTimer), NEW to \in {"Terminated", ist[i].state},
               s.last = ist[i].last, Alive(ist, i), ist[i].state # "Confirmed",
               ist' = [ist EXCEPT ![i] = IstEnd(s, to, ok, T)],
               net' \subseteq net \cup {s.last}, ist[i].last # "none"
        PROVE  IstEffect
    <2> DEFINE r == IstEnd(s, to, ok, T)
    <2>1. to \in IstStates
      BY <1>0, <1>6, <1>c DEF IstRecord
    <2>2. r.state \in {ist[i].state, "Terminated"} /\ r.last = ist[i].last
      BY <1>6, <2>1, IstEndEffect
    <2>3. ist' = [ist EXCEPT ![i] = r]
      BY <1>6
    <2> HIDE DEF r
    <2>4. LastFollows(r) /\ r.state \notin {"none", "Confirmed"}
      BY <1>0, <1>6, <2>2 DEF LastFollows, Alive
    <2>5. r.last \in {"1xx", "2xx", "300_699"}
      BY <1>0, <1>6, <2>2 DEF IstRecord
    <2>6. /\ net' \cap {"INVITE", "ACK_2xx", "ACK_300_699"} \subseteq net
          /\ net' \cap Final \subseteq net \cup {r.last}
      BY <1>6, <2>2, <2>5
    <2> QED
      BY <1>6, <2>2, <2>3, <2>4, <2>5, <2>6, LiveStepEffect
  <1>7. ASSUME NEW T \in SUBSET TimerOf(IstTimer), Alive(ist, i),
               ist' = [ist EXCEPT ![i] = IstEnd(@, "Terminated", TRUE, T)], UNCHANGED net
        PROVE  IstEffect
    <2> DEFINE r == IstEnd(ist[i], "Terminated", TRUE, T)
    <2>1. r.state = "Terminated" /\ r.last = ist[i].last
      BY ZenonT(40), <1>0, <1>c, <1>7, IstEndEffect
    <2>2. ist' = [ist EXCEPT ![i] = r]
      BY <1>7
    <2> HIDE DEF r
    <2>3. LastFollows(r) /\ r.state # "none"
      BY <2>1 DEF LastFollows
    <2> QED
      BY <1>7, <2>1, <2>2, <2>3, LiveStepEffect
  <1>8. CASE IstCancel(i)
    BY <1>0, <1>7, <1>8 DEF IstCancel, IstStep
  <1>9. ASSUME NEW t \in ist[i].timers, IstTimerDue(i, t) \/ IstTimerFires(i, t)
        PROVE  IstEffect
    <2>1. CASE IstTimerDue(i, t)
      <3>1. \E T : ist' = [ist EXCEPT ![i].timers = T]
        BY <2>1 DEF IstTimerDue
      <3> QED
        BY <2>1, <3>1, TimersStepEffect DEF IstTimerDue
    <2>2. CASE IstTimerG(i, t)
      <3>1. ist[i].state = "Completed" /\ ist[i].last = "300_699"
        BY <1>0, <2>2 DEF IstTimerG, IstRaised, LastFollows
      <3>2. Schedule(ist[i].timers \ {t}, "G", FALSE) \in SUBSET TimerOf(IstTimer)
        BY <1>0, <1>a, <1>d
      <3>3. PICK sent \in BOOLEAN :
               /\ net' = net \cup Sent(ist[i].last, sent)
               /\ ist' = [ist EXCEPT ![i] =
                             IstEnd(@, "Completed", sent,
                                    Schedule(ist[i].timers \ {t}, "G", FALSE))]
        BY <2>2 DEF IstTimerG, IstStep
      <3>4. net' \subseteq net \cup {ist[i].last} /\ Alive(ist, i)
        BY <3>1, <3>3 DEF Sent, Alive
      <3> DEFINE T == Schedule(ist[i].timers \ {t}, "G", FALSE)
      <3>5. /\ T \in SUBSET TimerOf(IstTimer)
            /\ ist' = [ist EXCEPT ![i] = IstEnd(ist[i], "Completed", sent, T)]
        BY <3>2, <3>3
      <3> HIDE DEF T
      <3>6. "Completed" \in {"Terminated", ist[i].state}
        BY <3>1
      <3> QED
        BY <1>0, <1>6, <3>1, <3>4, <3>5, <3>6
    <2>3. CASE IstTimerH(i, t)
      <3>1. ist[i].state = "Completed" /\ ist[i].last = "300_699" /\ Alive(ist, i)
        BY <1>0, <2>3 DEF IstTimerH, IstRaised, LastFollows, Alive
      <3>2. /\ net' = net
            /\ ist' = [ist EXCEPT ![i] = IstEnd(Tell(ist[i], "transport_error"),
                                               "Terminated", TRUE, ist[i].timers \ {t})]
        BY <2>3 DEF IstTimerH
      <3> QED
        BY <1>0, <1>6, <1>e, <3>1, <3>2
    <2>4. CASE IstTimerEnds(i, t)
      <3>1. Alive(ist, i) /\ net' = net
        BY <2>4 DEF IstTimerEnds, IstRaised, Alive
      <3> QED
        BY ZenonT(40), <1>0, <1>7, <2>4, <3>1 DEF IstTimerEnds, IstStep
    <2>5. CASE IstTimerIgnored(i, t)
      <3>1. \E T : ist' = [ist EXCEPT ![i].timers = T]
        BY <2>5 DEF IstTimerIgnored
      <3> QED
        BY <2>5, <3>1, TimersStepEffect DEF IstTimerIgnored
    <2> QED
      BY <1>9, <2>1, <2>2, <2>3, <2>4, <2>5 DEF IstTimerFires
  <1> QED
    BY <1>1, <1>2, <1>3, <1>4, <1>5, <1>8, <1>9 DEF IstActs

------------------------------------------------------------------------------
\* What a step of the client transaction may do to the network and to what its
\* dialog was told.
IctEffect ==
    /\ ToldFollowsState' /\ OutcomeIsUnique'
    /\ passedUp \subseteq passedUp'
    /\ net' \cap (Final \cup {"ACK_2xx"}) \subseteq net
    /\ "ACK_300_699" \in net' => "ACK_300_699" \in net \/ passedUp' \cap Final # {}
    /\ ictState' = "Started" => ictState = "Started"

\* Every step of the client transaction has that effect.
LEMMA IctStepEffect ==
    ASSUME TypeOK, ToldFollowsState, OutcomeIsUnique, IctActs
    PROVE  IctEffect
  <1> USE DEF IctEffect, ToldFollowsState, OutcomeIsUnique, Final, PassUp, TellNothing, IctEnd
  <1>1. CASE IctSend
    BY <1>1 DEF IctSend, Sent
  <1>2. CASE IctCancel
    BY <1>2 DEF IctCancel
  <1>3. CASE IctRecv1xx
    BY <1>3 DEF IctRecv1xx, Rest
  <1>4. CASE IctRecv2xx
    BY <1>4 DEF IctRecv2xx, Rest
  <1>5. CASE IctRecv300
    <2>1. PICK sent \in BOOLEAN, tuOk \in BOOLEAN, missed \in Missed :
             /\ net' = Rest("300_699") \cup Sent("ACK_300_699", sent)
             /\ IF sent THEN PassUp("300_699") ELSE TellNothing
             /\ IctEnd("Completed", sent /\ tuOk,
                       Schedule(CancelAB(ictTimers), "D", missed))
      BY <1>5 DEF IctRecv300
    <2>2. CASE sent
      BY <1>5, <2>1, <2>2 DEF IctRecv300, Rest, Sent
    <2>3. CASE ~sent
      <3>1. ictState' = "Terminated"
        BY <2>1, <2>3 DEF IctEnd
      <3> QED
        BY <1>5, <2>1, <2>3, <3>1 DEF IctRecv300, Rest, Sent
    <2> QED
      BY <2>2, <2>3
  <1>6. CASE IctRecv300Again
    BY <1>6 DEF IctRecv300Again, Rest, Sent
  <1>7. ASSUME NEW t \in ictTimers, IctTimerDue(t) \/ IctTimerFires(t)
        PROVE  IctEffect
    <2>1. CASE IctTimerDue(t)
      BY <2>1 DEF IctTimerDue
    <2>2. CASE IctTimerA(t)
      BY <2>2 DEF IctTimerA, Raised, Sent
    <2>3. CASE IctTimerB(t)
      BY <2>3 DEF IctTimerB, Raised
    <2>4. CASE IctTimerEnds(t)
      BY <2>4 DEF IctTimerEnds, Raised
    <2>5. CASE IctTimerIgnored(t)
      BY <2>5 DEF IctTimerIgnored
    <2> QED
      BY <1>7, <2>1, <2>2, <2>3, <2>4, <2>5 DEF IctTimerFires
  <1> QED
    BY <1>1, <1>2, <1>3, <1>4, <1>5, <1>6, <1>7 DEF IctActs

\* Over a reliable transport the client sends its INVITE once.
LEMMA IctStepSendsOnce ==
    ASSUME TypeOK, IctActs, reliable, ictTimers \subseteq TimerOf(IctTimer \ {"A"}),
           ictState = "Started" => "INVITE" \notin net
    PROVE  /\ ictTimers' \subseteq TimerOf(IctTimer \ {"A"})
           /\ "INVITE" \in net' => "INVITE" \in net \/ ictState = "Started"
           /\ ictState' = "Started" => ictState = "Started" /\ "INVITE" \notin net'
  <1> DEFINE NoA == SUBSET TimerOf(IctTimer \ {"A"})
  <1>0. /\ ictTimers \in NoA
        /\ \A t : ictTimers \ {t} \in NoA
    OBVIOUS
  <1>a. ASSUME NEW T \in NoA
        PROVE  /\ \A name \in {"B", "D", "M"}, missed \in BOOLEAN :
                    Schedule(T, name, missed) \in NoA
               /\ \A names : Cancel(T, names) \in NoA
               /\ \A t \in T : Due(T, t) \in NoA
    <2>1. \A name \in {"B", "D", "M"} : name \in IctTimer \ {"A"}
      BY DEF IctTimer
    <2> QED
      BY <2>1, TimersType
  <1>b. \A t \in ictTimers : t.name # "A"
    BY DEF TimerOf
  <1> HIDE DEF NoA
  <1>c. ASSUME NEW T \in NoA
        PROVE  ScheduleAB(T) \in NoA /\ CancelAB(T) \in NoA
    BY <1>a DEF ScheduleAB, CancelAB, WithTimerA
  <1> SUFFICES /\ ictTimers' \in NoA
               /\ "INVITE" \in net' => "INVITE" \in net \/ ictState = "Started"
               /\ ictState' = "Started" => ictState = "Started" /\ "INVITE" \notin net'
    BY DEF NoA
  <1>1. CASE IctSend
    BY <1>0, <1>1, <1>c, <1>a DEF IctEnd, IctSend
  <1>2. CASE IctCancel
    BY <1>0, <1>2, <1>a DEF IctEnd, IctCancel
  <1>3. CASE IctRecv1xx
    BY <1>0, <1>3, <1>c, <1>a DEF IctEnd, IctRecv1xx, Rest
  <1>4. CASE IctRecv2xx
    <2> DEFINE M == ScheduleAB(Schedule(ictTimers, "M", FALSE))
    <2>1. /\ M \in NoA /\ Cancel(M, IctTimer) \in NoA
          /\ Cancel(ictTimers, IctTimer) \in NoA
      BY <1>0, <1>a, <1>c
    <2> HIDE DEF M
    <2>2. \/ \E tuOk \in BOOLEAN : IctEnd("Accepted", tuOk, M)
          \/ IctEnd("Accepted", TRUE, ictTimers)
      BY <1>4 DEF IctRecv2xx, M
    <2>3. ictTimers' \in NoA /\ ictState' # "Started"
      BY <1>0, <2>1, <2>2 DEF IctEnd
    <2>4. "INVITE" \in net' => "INVITE" \in net
      BY <1>4 DEF IctRecv2xx, Rest
    <2> QED
      BY <2>3, <2>4
  <1>5. CASE IctRecv300
    <2>1. \A missed \in Missed : Schedule(CancelAB(ictTimers), "D", missed) \in NoA
      BY <1>0, <1>a, <1>c DEF Missed
    <2>2. PICK sent \in BOOLEAN, tuOk \in BOOLEAN, missed \in Missed :
             /\ net' = Rest("300_699") \cup Sent("ACK_300_699", sent)
             /\ IctEnd("Completed", sent /\ tuOk,
                       Schedule(CancelAB(ictTimers), "D", missed))
      BY <1>5 DEF IctRecv300
    <2>3. "INVITE" \in net' => "INVITE" \in net
      BY <2>2 DEF Rest, Sent
    <2> DEFINE D == Schedule(CancelAB(ictTimers), "D", missed)
    <2>4. D \in NoA /\ Cancel(D, IctTimer) \in NoA
      BY <2>1, <1>a
    <2>5. IctEnd("Completed", sent /\ tuOk, D)
      BY <2>2
    <2> HIDE DEF D
    <2>6. ictTimers' \in NoA /\ ictState' # "Started"
      BY <2>4, <2>5 DEF IctEnd
    <2> QED
      BY <2>3, <2>6
  <1>6. CASE IctRecv300Again
    BY <1>0, <1>6, <1>a DEF IctEnd, IctRecv300Again, Rest, Sent
  <1>7. ASSUME NEW t \in ictTimers, IctTimerDue(t) \/ IctTimerFires(t)
        PROVE  /\ ictTimers' \in NoA /\ net' = net
               /\ ictState' = "Started" => ictState = "Started"
    <2>1. CASE IctTimerDue(t)
      BY <1>0, <1>a, <2>1 DEF IctTimerDue
    <2>2. CASE IctTimerA(t)
      BY <1>b, <2>2 DEF IctTimerA, Raised
    <2>3. CASE IctTimerB(t)
      BY <1>0, <1>a, <2>3 DEF IctEnd, IctTimerB
    <2>4. CASE IctTimerEnds(t)
      BY <1>0, <1>a, <2>4 DEF IctEnd, IctTimerEnds
    <2>5. CASE IctTimerIgnored(t)
      BY <1>0, <2>5 DEF IctTimerIgnored
    <2> QED
      BY <1>7, <2>1, <2>2, <2>3, <2>4, <2>5 DEF IctTimerFires
  <1> QED
    BY <1>1, <1>2, <1>3, <1>4, <1>5, <1>6, <1>7 DEF IctActs

------------------------------------------------------------------------------
\* Every step of the client transaction keeps it timed.
LEMMA IctStepTimed ==
    ASSUME TypeOK, ClientIsTimed, IctActs, UNCHANGED reliable
    PROVE  ClientIsTimed'
  <1> DEFINE Typed == SUBSET TimerOf(IctTimer)
  <1>0. ictTimers \in Typed /\ \A t : ictTimers \ {t} \in Typed
    BY DEF TypeOK
  <1>a. ASSUME NEW T \in Typed
        PROVE  /\ \A name \in IctTimer : IsPending(Schedule(T, name, FALSE), name)
               /\ \A name, other \in IctTimer, missed \in BOOLEAN :
                    other # name /\ IsPending(T, other)
                       => IsPending(Schedule(T, name, missed), other)
               /\ \A name \in IctTimer, missed \in BOOLEAN :
                    Schedule(T, name, missed) \in Typed
    BY ScheduledIsPending, TimersType
  <1>b. {"A", "B", "D", "M"} = IctTimer
    BY DEF IctTimer
  <1>c. CancelAB(ictTimers) \in Typed
    BY <1>0, IctTimersType
  <1> HIDE DEF Typed
  <1>d. ASSUME NEW T \in Typed
        PROVE  /\ IsPending(ScheduleAB(T), "B")
               /\ IsPending(T, "M") => IsPending(ScheduleAB(T), "M")
    BY <1>a, <1>b DEF ScheduleAB, WithTimerA
  <1>1. CASE IctSend
    BY <1>0, <1>1, <1>d DEF IctSend, IctEnd, ClientIsTimed
  <1>2. CASE IctCancel
    BY <1>2 DEF IctCancel, IctEnd, ClientIsTimed
  <1>3. CASE IctRecv1xx
    BY <1>3 DEF IctRecv1xx, IctEnd, ClientIsTimed
  <1>4. CASE IctRecv2xx
    <2>1. CASE ictState \in {"Calling", "Proceeding"}
      <3> DEFINE T == Schedule(ictTimers, "M", FALSE)
      <3>1. T \in Typed /\ IsPending(T, "M")
        BY <1>0, <1>a, <1>b
      <3> HIDE DEF T
      <3>2. IsPending(ScheduleAB(T), "M")
        BY <1>d, <3>1
      <3> QED
        BY <1>4, <2>1, <3>2 DEF IctRecv2xx, IctEnd, ClientIsTimed, T
    <2>2. CASE ictState = "Accepted"
      BY <1>4, <2>2 DEF IctRecv2xx, IctEnd, ClientIsTimed
    <2> QED
      BY <1>4, <2>1, <2>2 DEF IctRecv2xx
  <1>5. CASE IctRecv300
    <2>1. PICK missed \in Missed, ok \in BOOLEAN :
             IctEnd("Completed", ok, Schedule(CancelAB(ictTimers), "D", missed))
      BY <1>5 DEF IctRecv300
    <2>2. ~reliable => missed = FALSE
      BY DEF Missed
    <2>3. ~reliable => IsPending(Schedule(CancelAB(ictTimers), "D", missed), "D")
      BY <1>a, <1>b, <1>c, <2>2
    <2> QED
      BY <2>1, <2>3 DEF IctEnd, ClientIsTimed
  <1>6. CASE IctRecv300Again
    BY <1>6 DEF IctRecv300Again, IctEnd, ClientIsTimed
  <1>7. ASSUME NEW t \in ictTimers, IctTimerDue(t) \/ IctTimerFires(t)
        PROVE  ClientIsTimed'
    <2>a. \A name \in IctTimer : IsPending(ictTimers, name) =>
             /\ IsPending(Due(ictTimers, t), name)
             /\ t.name # name \/ ~t.current => IsPending(ictTimers \ {t}, name)
      BY PendingKept DEF TypeOK
    <2>1. CASE IctTimerDue(t)
      BY <1>b, <2>a, <2>1 DEF IctTimerDue, ClientIsTimed
    <2>2. CASE IctTimerA(t)
      <3>1. IsPending(ictTimers \ {t}, "B")
        BY <1>b, <2>a, <2>2 DEF IctTimerA, Raised, ClientIsTimed
      <3>2. IsPending(Schedule(ictTimers \ {t}, "A", FALSE), "B")
        BY <1>0, <1>a, <1>b, <3>1
      <3> QED
        BY <2>2, <3>2 DEF IctTimerA, IctEnd, ClientIsTimed
    <2>3. CASE IctTimerB(t)
      BY <2>3 DEF IctTimerB, IctEnd, ClientIsTimed
    <2>4. CASE IctTimerEnds(t)
      BY <2>4 DEF IctTimerEnds, IctEnd, ClientIsTimed
    <2>5. CASE IctTimerIgnored(t)
      BY <1>b, <2>a, <2>5 DEF IctTimerIgnored, Raised, ClientIsTimed
    <2> QED
      BY <1>7, <2>1, <2>2, <2>3, <2>4, <2>5 DEF IctTimerFires
  <1> QED
    BY <1>1, <1>2, <1>3, <1>4, <1>5, <1>6, <1>7 DEF IctActs

\* A server transaction is left timed when its new state's timer is among the
\* timers it is left with.
LEMMA IstEndTimed ==
    ASSUME NEW s \in IstRecord, NEW to \in IstStates, NEW ok \in BOOLEAN,
           NEW T \in SUBSET TimerOf(IstTimer),
           to = "Completed" => IsPending(T, "H"),
           to = "Accepted" => IsPending(T, "L"),
           to = "Confirmed" /\ ~reliable => IsPending(T, "I")
    PROVE  ServerIsTimed(IstEnd(s, to, ok, T))
  <1> DEFINE r == IstEnd(s, to, ok, T)
  <1>1. r.state = "Terminated" \/ (r.state = to /\ r.timers = T)
    BY DEF IstEnd, IstRecord
  <1> HIDE DEF r
  <1>2. ServerIsTimed(r)
    BY <1>1 DEF ServerIsTimed
  <1> QED
    BY <1>2 DEF r

\* Every step of the server transactions keeps them timed.
LEMMA IstStepTimed ==
    ASSUME TypeOK, LastFollowsState, \A j \in Server : ServerIsTimed(ist[j]),
           NEW i \in Server, IstActs(i), UNCHANGED reliable
    PROVE  \A j \in Server : ServerIsTimed(ist'[j])
  <1>0. /\ ist[i] \in IstRecord /\ ServerIsTimed(ist[i])
        /\ ist[i].timers \in SUBSET TimerOf(IstTimer)
        /\ \A t : ist[i].timers \ {t} \in SUBSET TimerOf(IstTimer)
    BY DEF TypeOK, IstRecord
  <1>a. ASSUME NEW T \in SUBSET TimerOf(IstTimer)
        PROVE  /\ \A name \in IstTimer : IsPending(Schedule(T, name, FALSE), name)
               /\ \A name, other \in IstTimer, missed \in BOOLEAN :
                    other # name /\ IsPending(T, other)
                       => IsPending(Schedule(T, name, missed), other)
               /\ \A name \in IstTimer, missed \in BOOLEAN :
                    Schedule(T, name, missed) \in SUBSET TimerOf(IstTimer)
    BY ScheduledIsPending, TimersType
  <1>b. {"G", "H", "I", "L"} = IstTimer
    BY DEF IstTimer
  <1>c. {"Proceeding", "Completed", "Accepted", "Confirmed", "Terminated"}
              \subseteq IstStates
    BY DEF IstStates
  <1>d. ASSUME NEW k \in Server, NEW r, ServerIsTimed(r), ist' = [ist EXCEPT ![k] = r]
        PROVE  \A j \in Server : ServerIsTimed(ist'[j])
    <2>1. \A j \in Server : ist'[j] = IF j = k THEN r ELSE ist[j]
      BY <1>d DEF TypeOK
    <2> QED
      BY <1>d, <2>1
  <1>e. ASSUME NEW k \in Server, NEW sent \in BOOLEAN, NEW tuOk \in BOOLEAN
        PROVE  ServerIsTimed(Started(ist[k], sent, tuOk))
    <2>1. Started(ist[k], sent, tuOk).state \in {"Proceeding", "Terminated"}
      BY StartedType DEF TypeOK
    <2> QED
      BY <2>1 DEF ServerIsTimed
  <1>f. ASSUME NEW s \in IstRecord, NEW T \in SUBSET TimerOf(IstTimer),
               NEW ok \in BOOLEAN
        PROVE  ServerIsTimed(IstEnd(s, "Terminated", ok, T))
    BY <1>c, IstEndTimed
  <1>1. CASE IstRecvInvite(i)
    BY <1>1, <1>d, <1>e DEF IstRecvInvite
  <1>2. CASE IstRecvInviteAgain(i)
    BY <1>2 DEF IstRecvInviteAgain
  <1>3. ASSUME NEW j \in Server, IstRecvInviteFails(i, j)
        PROVE  \A k \in Server : ServerIsTimed(ist'[k])
    <2>1. i # j
      BY <1>3 DEF IstRecvInviteFails, Found, Alive, IsNext
    <2>2. PICK sent \in BOOLEAN, tuOk \in BOOLEAN :
             ist' = [ist EXCEPT ![i] = IstEnd(@, "Terminated", FALSE, @.timers),
                                ![j] = Started(@, sent, tuOk)]
      BY <1>3 DEF IstRecvInviteFails
    <2>3. /\ ist'[i] = IstEnd(ist[i], "Terminated", FALSE, ist[i].timers)
          /\ ist'[j] = Started(ist[j], sent, tuOk)
          /\ \A k \in Server \ {i, j} : ist'[k] = ist[k]
      BY <2>1, <2>2 DEF TypeOK
    <2>4. ServerIsTimed(ist'[i])
      BY <1>0, <1>f, <2>3
    <2>5. ServerIsTimed(ist'[j])
      BY <1>e, <2>3
    <2> QED
      BY <2>3, <2>4, <2>5
  <1>4. ASSUME NEW ack \in {"ACK_2xx", "ACK_300_699"}, IstRecvAck(i, ack)
        PROVE  \A k \in Server : ServerIsTimed(ist'[k])
    <2>1. CASE \E missed \in Missed :
                  IstStep(i, "Confirmed", TRUE,
                          Schedule(Cancel(ist[i].timers, {"G"}), "I", missed))
      <3>1. PICK missed \in Missed :
               IstStep(i, "Confirmed", TRUE,
                       Schedule(Cancel(ist[i].timers, {"G"}), "I", missed))
        BY <2>1
      <3> DEFINE C == Cancel(ist[i].timers, {"G"})
                 T == Schedule(C, "I", missed)
      <3>2. C \in SUBSET TimerOf(IstTimer)
        BY <1>0, TimersType
      <3>3. missed \in BOOLEAN /\ (~reliable => missed = FALSE)
        BY DEF Missed
      <3> HIDE DEF C
      <3>4. T \in SUBSET TimerOf(IstTimer) /\ (~reliable => IsPending(T, "I"))
        BY <1>a, <1>b, <3>2, <3>3
      <3>5. ist' = [ist EXCEPT ![i] = IstEnd(ist[i], "Confirmed", TRUE, T)]
        BY <3>1 DEF IstStep, C
      <3> HIDE DEF T
      <3>6. ServerIsTimed(IstEnd(ist[i], "Confirmed", TRUE, T))
        BY <1>0, <1>c, <3>4, IstEndTimed
      <3> QED
        BY <1>d, <3>5, <3>6
    <2>2. CASE /\ ist[i].state = "Accepted"
               /\ \E tuOk \in BOOLEAN :
                    ist' = [ist EXCEPT ![i] =
                              IstEnd(Tell(@, "ACK"), "Accepted", tuOk, @.timers)]
      <3>1. PICK tuOk \in BOOLEAN :
               ist' = [ist EXCEPT ![i] =
                         IstEnd(Tell(ist[i], "ACK"), "Accepted", tuOk, ist[i].timers)]
        BY <2>2
      <3>2. Tell(ist[i], "ACK") \in IstRecord
        BY <1>0 DEF IstRecord, Tell
      <3>3. IsPending(ist[i].timers, "L")
        BY <1>0, <2>2 DEF ServerIsTimed
      <3>4. ServerIsTimed(IstEnd(Tell(ist[i], "ACK"), "Accepted", tuOk, ist[i].timers))
        BY <1>0, <1>c, <3>2, <3>3, IstEndTimed
      <3> QED
        BY <1>d, <3>1, <3>4
    <2> QED
      BY <1>4, <2>1, <2>2 DEF IstRecvAck
  <1>5. CASE IstRespond(i)
    <2>1. ASSUME NEW response \in {"1xx", "2xx", "300_699"}, NEW to \in IstStates,
                 NEW T \in SUBSET TimerOf(IstTimer), IstSends(i, response, to, T),
                 to = "Completed" => IsPending(T, "H"),
                 to = "Accepted" => IsPending(T, "L"), to # "Confirmed"
          PROVE  \A k \in Server : ServerIsTimed(ist'[k])
      <3>1. PICK sent \in BOOLEAN :
               ist' = [ist EXCEPT ![i] = IstEnd(Answer(ist[i], response), to, sent, T)]
        BY <2>1 DEF IstSends
      <3>2. Answer(ist[i], response) \in IstRecord
        BY <1>0 DEF IstRecord, Answer
      <3>3. ServerIsTimed(IstEnd(Answer(ist[i], response), to, sent, T))
        BY <2>1, <3>2, IstEndTimed
      <3> QED
        BY <1>d, <3>1, <3>3
    <2>2. CASE IstSends(i, "1xx", "Proceeding", ist[i].timers)
      BY <1>0, <1>c, <2>1, <2>2
    <2>3. CASE IstSends(i, "300_699", "Completed",
                        Schedule(WithTimerG(ist[i].timers), "H", FALSE))
      <3>1. WithTimerG(ist[i].timers) \in SUBSET TimerOf(IstTimer)
        BY <1>0, <1>a, <1>b DEF WithTimerG
      <3> DEFINE T == Schedule(WithTimerG(ist[i].timers), "H", FALSE)
      <3>2. T \in SUBSET TimerOf(IstTimer) /\ IsPending(T, "H")
        BY <1>a, <1>b, <3>1
      <3>3. IstSends(i, "300_699", "Completed", T)
        BY <2>3
      <3> HIDE DEF T
      <3> QED
        BY <1>c, <2>1, <3>2, <3>3
    <2>4. CASE IstSends(i, "2xx", "Accepted", Schedule(ist[i].timers, "L", FALSE))
      <3> DEFINE T == Schedule(ist[i].timers, "L", FALSE)
      <3>1. T \in SUBSET TimerOf(IstTimer) /\ IsPending(T, "L")
        BY <1>0, <1>a, <1>b
      <3>2. IstSends(i, "2xx", "Accepted", T)
        BY <2>4
      <3> HIDE DEF T
      <3> QED
        BY <1>c, <2>1, <3>1, <3>2
    <2>5. CASE ist[i].state = "Accepted" /\ IstSends(i, "2xx", "Accepted", ist[i].timers)
      BY <1>0, <1>c, <2>1, <2>5 DEF ServerIsTimed
    <2> QED
      BY <1>5, <2>2, <2>3, <2>4, <2>5 DEF IstRespond
  <1>6. CASE IstCancel(i)
    BY <1>0, <1>6, <1>d, <1>f DEF IstCancel, IstStep
  <1>7. ASSUME NEW t \in ist[i].timers, IstTimerDue(i, t) \/ IstTimerFires(i, t)
        PROVE  \A k \in Server : ServerIsTimed(ist'[k])
    <2>a. \A name \in IstTimer : IsPending(ist[i].timers, name) =>
             /\ IsPending(Due(ist[i].timers, t), name)
             /\ t.name # name \/ ~t.current => IsPending(ist[i].timers \ {t}, name)
      BY <1>0, PendingKept
    <2>b. ASSUME NEW T, ist' = [ist EXCEPT ![i].timers = T],
                 ist[i].state = "Completed" => IsPending(T, "H"),
                 ist[i].state = "Accepted" => IsPending(T, "L"),
                 ist[i].state = "Confirmed" /\ ~reliable => IsPending(T, "I")
          PROVE  \A k \in Server : ServerIsTimed(ist'[k])
      <3>1. ist'[i].state = ist[i].state /\ ist'[i].timers = T
        BY <2>b DEF TypeOK, IstRecord
      <3>2. \A k \in Server \ {i} : ist'[k] = ist[k]
        BY <2>b DEF TypeOK
      <3>3. ServerIsTimed(ist'[i])
        BY <2>b, <3>1 DEF ServerIsTimed
      <3> QED
        BY <3>2, <3>3
    <2>1. CASE IstTimerDue(i, t)
      <3> DEFINE T == Due(ist[i].timers, t)
      <3>1. ist' = [ist EXCEPT ![i].timers = T]
        BY <2>1 DEF IstTimerDue
      <3>2. \A name \in IstTimer : IsPending(ist[i].timers, name) => IsPending(T, name)
        BY <2>a
      <3> HIDE DEF T
      <3> QED
        BY <1>0, <1>b, <2>b, <3>1, <3>2 DEF ServerIsTimed
    <2>2. CASE IstTimerG(i, t)
      <3>1. /\ ist[i].state = "Completed" /\ t.name = "G"
            /\ IsPending(ist[i].timers \ {t}, "H")
        BY <1>0, <1>b, <2>a, <2>2 DEF IstTimerG, IstRaised, ServerIsTimed
      <3> DEFINE T == Schedule(ist[i].timers \ {t}, "G", FALSE)
      <3>2. T \in SUBSET TimerOf(IstTimer) /\ IsPending(T, "H")
        BY <1>0, <1>a, <1>b, <3>1
      <3>3. PICK sent \in BOOLEAN : ist' = [ist EXCEPT ![i] = IstEnd(ist[i], "Completed", sent, T)]
        BY <2>2 DEF IstTimerG, IstStep
      <3> HIDE DEF T
      <3>4. ServerIsTimed(IstEnd(ist[i], "Completed", sent, T))
        BY <1>0, <1>c, <3>2, IstEndTimed
      <3> QED
        BY <1>d, <3>3, <3>4
    <2>3. CASE IstTimerH(i, t)
      <3>1. Tell(ist[i], "transport_error") \in IstRecord
        BY <1>0 DEF IstRecord, Tell
      <3> QED
        BY <1>0, <1>d, <1>f, <2>3, <3>1 DEF IstTimerH
    <2>4. CASE IstTimerEnds(i, t)
      BY <1>0, <1>d, <1>f, <2>4 DEF IstTimerEnds, IstStep
    <2>5. CASE IstTimerIgnored(i, t)
      <3> DEFINE T == ist[i].timers \ {t}
      <3>1. ist' = [ist EXCEPT ![i].timers = T]
        BY <2>5 DEF IstTimerIgnored
      <3>2. /\ ist[i].state = "Completed" => t.name # "H" \/ ~t.current
            /\ ist[i].state = "Accepted" => t.name # "L" \/ ~t.current
            /\ ist[i].state = "Confirmed" => t.name # "I" \/ ~t.current
        BY <2>5 DEF IstTimerIgnored, IstRaised
      <3>3. \A name \in IstTimer : IsPending(ist[i].timers, name) /\
               (t.name # name \/ ~t.current) => IsPending(T, name)
        BY <2>a
      <3> HIDE DEF T
      <3> QED
        BY <1>0, <1>b, <2>b, <3>1, <3>2, <3>3 DEF ServerIsTimed
    <2> QED
      BY <1>7, <2>1, <2>2, <2>3, <2>4, <2>5 DEF IstTimerFires
  <1> QED
    BY <1>1, <1>2, <1>3, <1>4, <1>5, <1>6, <1>7 DEF IstActs

------------------------------------------------------------------------------
\* The inductive invariant holds initially ...
LEMMA IndInvInit == Init => IndInv
  <1> SUFFICES ASSUME Init PROVE IndInv
    OBVIOUS
  <1>1. \A i \in Server : ist[i] = [state |-> "none", timers |-> {},
                                    last |-> "none", told |-> {}]
    BY DEF Init, IstInit
  <1>2. TypeOK
    <2>1. ist \in [Server -> IstRecord]
      BY DEF Init, IstInit, IstRecord, IstStates
    <2> QED
      BY <2>1 DEF Init, IctInit, TypeOK, IctStates
  <1>3. LastFollowsState /\ OneServerTransaction /\ ConfirmedImpliesCallerKnows
    BY <1>1 DEF LastFollowsState, LastFollows, OneServerTransaction, Alive,
                ConfirmedImpliesCallerKnows
  <1>4. ToldFollowsState /\ NetIsCaused /\ OutcomeIsUnique
    BY DEF Init, IctInit, ToldFollowsState, NetIsCaused, OutcomeIsUnique, Final
  <1>5. LiveTransactionsAreTimed
    BY <1>1 DEF Init, IctInit, LiveTransactionsAreTimed, ClientIsTimed, ServerIsTimed
  <1>6. ReliableSendsOnce
    BY <1>1 DEF Init, IctInit, ReliableSendsOnce
  <1> QED
    BY <1>2, <1>3, <1>4, <1>5, <1>6 DEF IndInv

\* ... is kept by the caller's steps ...
LEMMA IndInvCaller ==
    ASSUME IndInv, IctActs \/ TuAck, CalleeWaits
    PROVE  IndInv'
  <1> USE DEF IndInv, CalleeWaits
  <1>1. CASE IctActs
    <2>1. TypeOK'
      BY <1>1, IctStepType DEF TypeOK
    <2>2. IctEffect
      BY <1>1, IctStepEffect
    <2>3. /\ LastFollowsState' /\ OneServerTransaction'
          /\ ConfirmedImpliesCallerKnows'
      BY <2>2 DEF LastFollowsState, LastFollows, OneServerTransaction, Alive,
                  ConfirmedImpliesCallerKnows, IctEffect
    <2>4. ToldFollowsState' /\ OutcomeIsUnique'
      BY <2>2 DEF IctEffect
    <2>5. NetIsCaused'
      BY <2>2 DEF IctEffect, NetIsCaused
    <2>6. LiveTransactionsAreTimed'
      <3>1. ClientIsTimed'
        BY <1>1, IctStepTimed DEF LiveTransactionsAreTimed
      <3>2. \A i \in Server : ServerIsTimed(ist[i])'
        BY DEF LiveTransactionsAreTimed, ServerIsTimed
      <3> QED
        BY <3>1, <3>2 DEF LiveTransactionsAreTimed
    <2>7. ReliableSendsOnce'
      BY <1>1, IctStepSendsOnce DEF ReliableSendsOnce
    <2> QED
      BY <2>1, <2>3, <2>4, <2>5, <2>6, <2>7
  <1>2. CASE TuAck
    <2>1. /\ UNCHANGED <<ictState, ictTimers, passedUp, timedOut, ist, reliable>>
          /\ net' = net \cup {"ACK_2xx"} /\ "2xx" \in passedUp
      BY <1>2 DEF TuAck, ictVars
    <2>2. TypeOK'
      BY <2>1 DEF TypeOK, Message
    <2>3. NetIsCaused'
      BY <2>1 DEF NetIsCaused, Final
    <2>4. ReliableSendsOnce'
      <3> SUFFICES ASSUME reliable PROVE ReliableSendsOnce'
        BY DEF ReliableSendsOnce
      <3>1. ictTimers' \subseteq TimerOf(IctTimer \ {"A"})
        BY <2>1 DEF ReliableSendsOnce
      <3>2. /\ ictState' = "Started" => "INVITE" \notin net'
            /\ ictState' = "Started" \/ "INVITE" \in net' =>
                 \A i \in Server : ist'[i].state = "none"
            /\ \A i, j \in Server :
                 ist'[i].state # "none" /\ ist'[j].state # "none" => i = j
        BY <2>1 DEF ReliableSendsOnce
      <3> QED
        BY <3>1, <3>2 DEF ReliableSendsOnce
    <2>5. /\ LastFollowsState' /\ ToldFollowsState' /\ OutcomeIsUnique'
          /\ OneServerTransaction' /\ LiveTransactionsAreTimed'
          /\ ConfirmedImpliesCallerKnows'
      BY <2>1 DEF LastFollowsState, LastFollows, ToldFollowsState, OutcomeIsUnique,
                  OneServerTransaction, Alive, LiveTransactionsAreTimed, ClientIsTimed,
                  ServerIsTimed, ConfirmedImpliesCallerKnows
    <2> QED
      BY <2>2, <2>3, <2>4, <2>5
  <1> QED
    BY <1>1, <1>2

\* ... and by those of the server transactions.
LEMMA IndInvCallee ==
    ASSUME IndInv, NEW i \in Server, IstActs(i), CallerWaits
    PROVE  IndInv'
  <1> USE DEF IndInv
  <1>0. UNCHANGED <<ictState, ictTimers, passedUp, timedOut, reliable>>
    BY DEF CallerWaits, ictVars
  <1>1. TypeOK'
    BY <1>0, IstStepType DEF TypeOK
  <1>2. IstEffect
    BY IstStepEffect
  <1>3. LastFollowsState'
    BY <1>2 DEF IstEffect, LastFollowsState
  <1>4. ToldFollowsState' /\ OutcomeIsUnique'
    BY <1>0 DEF ToldFollowsState, OutcomeIsUnique
  <1>5. NetIsCaused'
    BY <1>0, <1>2 DEF IstEffect, NetIsCaused
  <1>6. OneServerTransaction'
    BY <1>2 DEF IstEffect, OneServerTransaction
  <1>7. ConfirmedImpliesCallerKnows'
    BY <1>0, <1>2 DEF IstEffect, ConfirmedImpliesCallerKnows, NetIsCaused, Final
  <1>8. LiveTransactionsAreTimed'
    <2>1. \A j \in Server : ServerIsTimed(ist'[j])
      BY <1>0, IstStepTimed DEF LiveTransactionsAreTimed
    <2> QED
      BY <1>0, <2>1 DEF LiveTransactionsAreTimed, ClientIsTimed, ServerIsTimed
  <1>9. ReliableSendsOnce'
    <2> SUFFICES ASSUME reliable
                 PROVE  ReliableSendsOnce'
      BY <1>0 DEF ReliableSendsOnce
    <2>1. /\ ictTimers' \subseteq TimerOf(IctTimer \ {"A"})
          /\ "INVITE" \in net' => "INVITE" \in net
      BY <1>0, <1>2 DEF IstEffect, ReliableSendsOnce
    <2>2. ictState' = "Started" \/ "INVITE" \in net' =>
             \A j \in Server : ist'[j].state = "none"
      BY <1>0, <1>2, <2>1 DEF IstEffect, ReliableSendsOnce
    <2>3. \A j, k \in Server : ist'[j].state # "none" /\ ist'[k].state # "none" => j = k
      <3> SUFFICES ASSUME NEW j \in Server, NEW k \in Server,
                          ist'[j].state # "none", ist'[k].state # "none"
                   PROVE  j = k
        OBVIOUS
      <3>1. CASE ist[j].state # "none" /\ ist[k].state # "none"
        BY <3>1 DEF ReliableSendsOnce
      <3>2. CASE ist[j].state = "none" \/ ist[k].state = "none"
        <4>1. "INVITE" \in net
          BY <1>2, <3>2 DEF IstEffect
        <4>2. ist[j].state = "none" /\ ist[k].state = "none"
          BY <4>1 DEF ReliableSendsOnce
        <4> QED
          BY <1>2, <4>2 DEF IstEffect
      <3> QED
        BY <3>1, <3>2
    <2> QED
      BY <1>0, <2>1, <2>2, <2>3 DEF ReliableSendsOnce
  <1> QED
    BY <1>1, <1>3, <1>4, <1>5, <1>6, <1>7, <1>8, <1>9

\* A state variable that matters nowhere does not change by itself.
LEMMA IndInvNext == IndInv /\ [Next]_vars => IndInv'
  <1> SUFFICES ASSUME IndInv, [Next]_vars PROVE IndInv'
    OBVIOUS
  <1>1. CASE Next
    BY <1>1, NextParties, IndInvCaller, IndInvCallee
  <1>2. CASE UNCHANGED vars
    BY <1>2 DEF vars, ictVars, IndInv, TypeOK, LastFollowsState, LastFollows,
                ToldFollowsState, NetIsCaused, OutcomeIsUnique, OneServerTransaction,
                Alive, LiveTransactionsAreTimed, ClientIsTimed, ServerIsTimed,
                ConfirmedImpliesCallerKnows, ReliableSendsOnce
  <1> QED
    BY <1>1, <1>2

\* The inductive invariant holds in every state of the two stacks.
THEOREM Invariance == Spec => []IndInv
  BY IndInvInit, IndInvNext, PTL DEF Spec

\* Every variable stays in its range, whatever the number of server transactions.
THEOREM TypeCorrectness == Spec => []TypeOK
  <1>1. IndInv => TypeOK
    BY DEF IndInv
  <1> QED
    BY <1>1, Invariance, PTL

\* The caller's dialog is never told two outcomes of its INVITE: whatever is lost,
\* repeated or late, and whichever server transactions answered
\* (tsip_transac_ict.c, the rows of Calling to Accepted).
THEOREM CallerLearnsOneOutcome == Spec => []OutcomeIsUnique
  <1>1. IndInv => OutcomeIsUnique
    BY DEF IndInv
  <1> QED
    BY <1>1, Invariance, PTL

\* No two server transactions of one INVITE are alive together.
THEOREM NoTwoServerTransactions == Spec => []OneServerTransaction
  <1>1. IndInv => OneServerTransaction
    BY DEF IndInv
  <1> QED
    BY <1>1, Invariance, PTL

\* No transaction waits in a state for a timer that it can no longer recognise.
THEOREM LiveTransactionsStayTimed == Spec => []LiveTransactionsAreTimed
  <1>1. IndInv => LiveTransactionsAreTimed
    BY DEF IndInv
  <1> QED
    BY <1>1, Invariance, PTL

\* A rejection counts as acknowledged only when the caller's dialog has been
\* passed a final response.
THEOREM AcknowledgedIsKnown == Spec => []ConfirmedImpliesCallerKnows
  <1>1. IndInv => ConfirmedImpliesCallerKnows
    BY DEF IndInv
  <1> QED
    BY <1>1, Invariance, PTL

\* Over a reliable transport no two dialogs are told of one INVITE.
THEOREM ReliableAlertsAreUnique == Spec => []ReliableAlertsOnce
  <1>1. IndInv => ReliableAlertsOnce
    BY DEF IndInv, ReliableSendsOnce, ReliableAlertsOnce, LastFollowsState, LastFollows
  <1> QED
    BY <1>1, Invariance, PTL

------------------------------------------------------------------------------
\* What a step of the client transaction tells its dialog: no outcome, the final
\* response a that was in the network, or that timer B elapsed.
OutcomeKept == passedUp' \cap Final = passedUp \cap Final /\ timedOut' = timedOut
OutcomeTold(a) ==
    /\ passedUp \cap Final = {} /\ passedUp' \cap Final = {a}
    /\ ~timedOut /\ ~timedOut'
    /\ a \in net
OutcomeTimesOut == passedUp \cap Final = {} /\ ~timedOut /\ timedOut'

\* Every step of the client transaction is one of the three.
LEMMA IctStepTells ==
    ASSUME ToldFollowsState, OutcomeIsUnique, IctActs
    PROVE  OutcomeKept \/ OutcomeTimesOut \/ \E a \in Final : OutcomeTold(a)
  <1> USE DEF ToldFollowsState, OutcomeIsUnique, Final, PassUp, TellNothing,
              OutcomeKept, OutcomeTimesOut
  <1>1. CASE IctSend \/ IctCancel \/ IctRecv1xx \/ IctRecv300Again
    BY <1>1 DEF IctSend, IctCancel, IctRecv1xx, IctRecv300Again
  <1>2. CASE IctRecv2xx
    <2>1. CASE ictState = "Accepted"
      BY <1>2, <2>1 DEF IctRecv2xx
    <2>2. CASE ictState \in {"Calling", "Proceeding"}
      <3>1. OutcomeTold("2xx")
        BY <1>2, <2>2 DEF IctRecv2xx, OutcomeTold
      <3> QED
        BY <3>1
    <2> QED
      BY <1>2, <2>1, <2>2 DEF IctRecv2xx
  <1>3. CASE IctRecv300
    <2>1. PICK sent \in BOOLEAN : IF sent THEN PassUp("300_699") ELSE TellNothing
      BY <1>3 DEF IctRecv300
    <2>2. CASE sent
      <3>1. OutcomeTold("300_699")
        BY <1>3, <2>1, <2>2 DEF IctRecv300, OutcomeTold
      <3> QED
        BY <3>1
    <2>3. CASE ~sent
      BY <2>1, <2>3
    <2> QED
      BY <2>2, <2>3
  <1>4. ASSUME NEW t \in ictTimers, IctTimerDue(t) \/ IctTimerFires(t)
        PROVE  OutcomeKept \/ OutcomeTimesOut
    BY <1>4 DEF IctTimerDue, IctTimerFires, IctTimerA, IctTimerB, IctTimerEnds,
                IctTimerIgnored, Raised
  <1> QED
    BY <1>1, <1>2, <1>3, <1>4 DEF IctActs

\* What the exchange sees of the two stacks.
learnt == IF timedOut THEN "timedout"
          ELSE IF passedUp \cap Final = {} THEN "pending"
          ELSE CHOOSE a \in Final : a \in passedUp
given == [i \in Server |-> IF ist[i].last \in Final THEN ist[i].last ELSE "none"]
acked == {i \in Server : ist[i].state = "Confirmed"}

\* The exchange has not begun.
LEMMA ExchangeInit == Init => Exchange!Init
  BY DEF Init, IctInit, IstInit, Exchange!Init, Final

\* What the caller knows once it was passed a final response.
LEMMA LearntIsPassedUp ==
    ASSUME ~timedOut, passedUp \cap Final # {}
    PROVE  learnt \in Final /\ learnt \in passedUp
  <1>1. \E a \in Final : a \in passedUp
    OBVIOUS
  <1>2. /\ (CHOOSE a \in Final : a \in passedUp) \in Final
        /\ (CHOOSE a \in Final : a \in passedUp) \in passedUp
    BY <1>1
  <1>3. learnt = CHOOSE a \in Final : a \in passedUp
    BY DEF learnt
  <1> QED
    BY <1>2, <1>3

\* A step of the caller that is told an outcome is Learn or Fail, any other is none.
LEMMA CallerRefines ==
    ASSUME IndInv, IctActs \/ TuAck, CalleeWaits
    PROVE  [Exchange!Next]_(Exchange!vars)
  <1>1. UNCHANGED <<given, acked>>
    BY DEF CalleeWaits, given, acked
  <1>2. OutcomeKept \/ OutcomeTimesOut \/ \E a \in Final : OutcomeTold(a)
    <2>1. TuAck => OutcomeKept
      BY DEF TuAck, ictVars, OutcomeKept
    <2> QED
      BY <2>1, IctStepTells DEF IndInv
  <1>3. CASE OutcomeKept
    <2>1. UNCHANGED learnt
      <3>1. \A a \in Final : a \in passedUp' <=> a \in passedUp
        BY <1>3 DEF OutcomeKept
      <3>2. (CHOOSE a \in Final : a \in passedUp') = CHOOSE a \in Final : a \in passedUp
        BY <3>1
      <3>3. CASE timedOut \/ passedUp \cap Final = {}
        BY <1>3, <3>3 DEF OutcomeKept, learnt
      <3>4. CASE ~timedOut /\ passedUp \cap Final # {}
        <4>1. learnt = CHOOSE a \in Final : a \in passedUp
          BY <3>4 DEF learnt
        <4>2. learnt' = CHOOSE a \in Final : a \in passedUp'
          BY <1>3, <3>4 DEF OutcomeKept, learnt
        <4> QED
          BY <3>2, <4>1, <4>2
      <3> QED
        BY <3>3, <3>4
    <2> QED
      BY <1>1, <2>1 DEF Exchange!vars, learnt, given, acked
  <1>4. CASE OutcomeTimesOut
    <2>1. learnt = "pending" /\ learnt' = "timedout"
      BY <1>4 DEF OutcomeTimesOut, learnt
    <2>2. Exchange!Fail("timedout")
      BY <1>1, <2>1 DEF Exchange!Fail, learnt, given, acked
    <2> QED
      BY <2>2 DEF Exchange!Next
  <1>5. ASSUME NEW a \in Final, OutcomeTold(a)
        PROVE  Exchange!Next
    <2>1. learnt = "pending"
      BY <1>5 DEF OutcomeTold, learnt
    <2>2. learnt' = a
      <3>1. \A b \in Final : b \in passedUp' <=> b = a
        BY <1>5 DEF OutcomeTold
      <3>2. (CHOOSE b \in Final : b \in passedUp') = a
        BY <3>1
      <3>3. learnt' = CHOOSE b \in Final : b \in passedUp'
        BY <1>5 DEF OutcomeTold, learnt
      <3> QED
        BY <3>2, <3>3
    <2>3. PICK i \in Server : ist[i].last = a
      BY <1>5 DEF OutcomeTold, IndInv, NetIsCaused
    <2>4. given[i] = a
      BY <2>3 DEF given
    <2>5. Exchange!Learn(a)
      BY <1>1, <2>1, <2>2, <2>4 DEF Exchange!Learn, learnt, given, acked
    <2> QED
      BY <2>5 DEF Exchange!Next
  <1> QED
    BY <1>2, <1>3, <1>4, <1>5

\* A step of a server transaction that gives a final answer is Decide, one that
\* enters or leaves Confirmed is Confirm or Forget, any other is none.
LEMMA CalleeRefines ==
    ASSUME IndInv, NEW s \in Server, IstActs(s), CallerWaits
    PROVE  [Exchange!Next]_(Exchange!vars)
  <1>0. UNCHANGED <<passedUp, timedOut>>
    BY DEF CallerWaits, ictVars
  <1>1. UNCHANGED learnt
    BY <1>0 DEF learnt
  <1>2. IstEffect
    BY IstStepEffect DEF IndInv
  <1>3. PICK i \in Server :
           /\ \A j \in Server \ {i} :
                /\ ist'[j].last \in Final => ist'[j].last = ist[j].last
                /\ ist'[j].state = "Confirmed" <=> ist[j].state = "Confirmed"
           /\ \/ ist'[i].last = ist[i].last
              \/ ist'[i].state = "Confirmed" <=> ist[i].state = "Confirmed"
    BY <1>2 DEF IstEffect, OneServerActs
  <1>4. \A j \in Server : ist[j].last \in Final => ist'[j].last = ist[j].last
    BY <1>2 DEF IstEffect
  <1>5. \A j \in Server \ {i} : given'[j] = given[j]
    BY <1>3, <1>4 DEF given
  <1>6. CASE ist[i].last \notin Final /\ ist'[i].last \in Final
    <2>1. PICK a \in Final : ist'[i].last = a
      BY <1>6
    <2>2. given[i] = "none" /\ given' = [given EXCEPT ![i] = a]
      BY <1>5, <1>6, <2>1 DEF given
    <2>3. ist'[i].state = "Confirmed" <=> ist[i].state = "Confirmed"
      BY <1>3, <1>6
    <2>4. UNCHANGED acked
      BY <1>3, <2>3 DEF acked
    <2>5. Exchange!Decide(i, a)
      BY <1>1, <2>2, <2>4 DEF Exchange!Decide, learnt, given, acked
    <2> QED
      BY <2>5 DEF Exchange!Next
  <1>7. CASE ist[i].last \in Final \/ ist'[i].last \notin Final
    <2>1. UNCHANGED given
      BY <1>4, <1>5, <1>7 DEF given
    <2>2. CASE ist'[i].state = "Confirmed" /\ ist[i].state # "Confirmed"
      <3>1. ist[i].last \in Final
        BY <1>2, <1>3, <2>2 DEF IstEffect, LastFollows, Final
      <3>2. given[i] \in Final
        BY <3>1 DEF given
      <3>3. passedUp \cap Final # {} /\ ~timedOut
        BY <1>2, <2>2 DEF IstEffect, IndInv, NetIsCaused, OutcomeIsUnique, Final
      <3>4. learnt \in Final
        BY <3>3, LearntIsPassedUp
      <3>5. acked' = acked \cup {i}
        BY <1>3, <2>2 DEF acked
      <3>6. Exchange!Confirm(i)
        BY <1>1, <2>1, <3>2, <3>4, <3>5 DEF Exchange!Confirm, learnt, given, acked
      <3> QED
        BY <3>6 DEF Exchange!Next
    <2>3. CASE ist'[i].state # "Confirmed" /\ ist[i].state = "Confirmed"
      <3>1. acked' = acked \ {i}
        BY <1>3, <2>3 DEF acked
      <3>2. Exchange!Forget(i)
        BY <1>1, <2>1, <3>1 DEF Exchange!Forget, learnt, given, acked
      <3> QED
        BY <3>2 DEF Exchange!Next
    <2>4. CASE ist'[i].state = "Confirmed" <=> ist[i].state = "Confirmed"
      <3>1. UNCHANGED acked
        BY <1>3, <2>4 DEF acked
      <3> QED
        BY <1>1, <2>1, <3>1 DEF Exchange!vars, learnt, given, acked
    <2> QED
      BY <2>2, <2>3, <2>4
  <1> QED
    BY <1>6, <1>7

\* Every step of the pair is a step of the exchange, or none.
LEMMA ExchangeNext == IndInv /\ [Next]_vars => [Exchange!Next]_(Exchange!vars)
  <1> SUFFICES ASSUME IndInv, [Next]_vars PROVE [Exchange!Next]_(Exchange!vars)
    OBVIOUS
  <1>1. CASE Next
    BY <1>1, NextParties, CallerRefines, CalleeRefines
  <1>2. CASE UNCHANGED vars
    BY <1>2 DEF vars, ictVars, Exchange!vars
  <1> QED
    BY <1>1, <1>2

\* The transactions of an INVITE implement the exchange: the caller learns at most
\* one outcome, a timeout of its own or an answer some server transaction gave, a
\* server transaction answers once, and one that takes its answer for acknowledged
\* is talking to a caller who knows an outcome (tsip_transac_ict.c and
\* tsip_transac_ist.c, over a network that loses, repeats and reorders).
THEOREM Implementation == Spec => ImplementsExchange
  BY ExchangeInit, ExchangeNext, Invariance, PTL DEF Spec, ImplementsExchange, Exchange!Spec
=============================================================================
