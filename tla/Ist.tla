--------------------------------- MODULE Ist ---------------------------------
(***************************************************************************)
(* The INVITE server transactions of one INVITE, tsip_transac_ist.c, with  *)
(* the parts of the transaction and dialog layers that find and create     *)
(* them (tsip_transac_layer.c, tsip_dialog_layer.c).                       *)
(*                                                                         *)
(* When no server transaction takes an INVITE, or the one that is found    *)
(* fails, the transport layer hands the INVITE to the dialog layer, which  *)
(* creates a new dialog and a new server transaction for it.  ist[i] is    *)
(* the i-th server transaction created for the INVITE:                     *)
(*   state   of its state machine, "none" before it is created             *)
(*   last    the class of lastResponse, the response it retransmits        *)
(*   told    what its dialog has been called back with                     *)
(*                                                                         *)
(* As for the client, one action is one call of tsk_fsm_act; a response    *)
(* the dialog sends from inside its callback is the next action, and the   *)
(* events transporterror and error are raised by no code.                  *)
(***************************************************************************)
EXTENDS TransacLayer

VARIABLE ist

IstTimer == {"G", "H", "I", "L"}
IstStates == {"none", "Started", "Proceeding", "Completed", "Accepted",
              "Confirmed", "Terminated"}
IstRecord == [state  : IstStates,
              timers : SUBSET TimerOf(IstTimer),
              last   : {"none", "1xx", "2xx", "300_699"},
              told   : SUBSET {"INVITE", "ACK", "transport_error"}]

IstInit ==
    ist = [i \in Server |->
             [state |-> "none", timers |-> {}, last |-> "none", told |-> {}]]

Tell(s, what) == [s EXCEPT !.told = @ \cup {what}]
Answer(s, response) == [s EXCEPT !.last = response]

\* The end of tsk_fsm_act, with the destructor (see IctEnd).
IstEnd(s, to, ok, timers) ==
    IF ok /\ to # "Terminated"
    THEN [s EXCEPT !.state = to, !.timers = timers]
    ELSE [s EXCEPT !.state = "Terminated", !.timers = Cancel(timers, IstTimer)]

IstStep(i, to, ok, timers) == ist' = [ist EXCEPT ![i] = IstEnd(@, to, ok, timers)]
------------------------------------------------------------------------------
\* A slip: the 100 is not kept as the last response.
StartedUnkept(s, sent, tuOk) ==
    IstEnd(IF sent THEN Tell(s, "INVITE") ELSE s, "Proceeding", sent /\ tuOk, s.timers)

\* tsip_dialog_layer_handle_incoming_msg creates a server transaction and starts
\* it: a 100 is sent, and the dialog is told only when that succeeded.
Started(s, sent, tuOk) ==
    IstEnd(Answer(IF sent THEN Tell(s, "INVITE") ELSE s, "1xx"),
           "Proceeding", sent /\ tuOk, s.timers)

IstRecvInvite(i) ==
    /\ "INVITE" \in net
    /\ NoneFound(ist) /\ IsNext(ist, i)
    /\ \E sent, tuOk \in BOOLEAN :
          /\ net' = Rest("INVITE") \cup Sent("1xx", sent)
          /\ ist' = [ist EXCEPT ![i] = Started(@, sent, tuOk)]

\* A retransmitted INVITE is answered with the last response ...
IstRecvInviteAgain(i) ==
    /\ "INVITE" \in net
    /\ Found(ist, i) /\ ist[i].state \in {"Proceeding", "Completed", "Accepted"}
    /\ net' = Rest("INVITE") \cup {ist[i].last}
    /\ UNCHANGED ist

\* ... and when that fails the transaction ends, and the same INVITE goes on to
\* the dialog layer, which takes it for a new call.
IstRecvInviteFails(i, j) ==
    /\ "INVITE" \in net
    /\ Found(ist, i) /\ ist[i].state \in {"Proceeding", "Completed", "Accepted"}
    /\ IsNext(ist, j)
    /\ \E sent, tuOk \in BOOLEAN :
          /\ net' = Rest("INVITE") \cup Sent("1xx", sent)
          /\ ist' = [ist EXCEPT ![i] = IstEnd(@, "Terminated", FALSE, @.timers),
                                ![j] = Started(@, sent, tuOk)]

\* ACK is matched by Call-ID and CSeq only: any ACK of the call will do.
IstRecvAck(i, ack) ==
    /\ ack \in net
    /\ Found(ist, i)
    /\ net' = Rest(ack)
    /\ \/ /\ ist[i].state = "Completed"
          /\ \E missed \in Missed :
                IstStep(i, "Confirmed", TRUE,
                        Schedule(Cancel(ist[i].timers, {"G"}), "I", missed))
       \/ /\ ist[i].state = "Accepted"
          /\ \E tuOk \in BOOLEAN :
                ist' = [ist EXCEPT ![i] =
                          IstEnd(Tell(@, "ACK"), "Accepted", tuOk, @.timers)]
------------------------------------------------------------------------------
\* A dialog that was told of the INVITE answers it through whichever transaction
\* find_server returns (tsip_dialog_response_send).
IstSends(i, response, to, timers) ==
    \E sent \in BOOLEAN :
        /\ net' = net \cup Sent(response, sent)
        /\ ist' = [ist EXCEPT ![i] = IstEnd(Answer(@, response), to, sent, timers)]

WithTimerG(timers) == IF reliable THEN timers ELSE Schedule(timers, "G", FALSE)

\* A slip: an accepted call may still be rejected.
IstRespondTwice(i) ==
    /\ Found(ist, i)
    /\ \E j \in Server : "INVITE" \in ist[j].told
    /\ ist[i].state \in {"Proceeding", "Accepted"}
    /\ \/ IstSends(i, "300_699", "Completed",
                   Schedule(WithTimerG(ist[i].timers), "H", FALSE))
       \/ IstSends(i, "2xx", "Accepted", Schedule(ist[i].timers, "L", FALSE))

IstRespond(i) ==
    /\ Found(ist, i)
    /\ \E j \in Server : "INVITE" \in ist[j].told
    /\ \/ /\ ist[i].state = "Proceeding"
          /\ \/ IstSends(i, "1xx", "Proceeding", ist[i].timers)
             \/ IstSends(i, "300_699", "Completed",
                         Schedule(WithTimerG(ist[i].timers), "H", FALSE))
             \/ IstSends(i, "2xx", "Accepted", Schedule(ist[i].timers, "L", FALSE))
       \/ ist[i].state = "Accepted" /\ IstSends(i, "2xx", "Accepted", ist[i].timers)

\* The dialog terminates and cancels its transactions.
IstCancel(i) ==
    /\ Alive(ist, i)
    /\ IstStep(i, "Terminated", TRUE, ist[i].timers)
    /\ UNCHANGED net
------------------------------------------------------------------------------
IstTimerDue(i, t) ==
    /\ ~t.queued
    /\ ist' = [ist EXCEPT ![i].timers = Due(@, t)]
    /\ UNCHANGED net

IstRaised(i, t, name, state) ==
    t.queued /\ t.current /\ t.name = name /\ ist[i].state = state

IstTimerG(i, t) ==
    /\ IstRaised(i, t, "G", "Completed")
    /\ \E sent \in BOOLEAN :
          /\ net' = net \cup Sent(ist[i].last, sent)
          /\ IstStep(i, "Completed", sent,
                     Schedule(ist[i].timers \ {t}, "G", FALSE))

\* No ACK came: the dialog is told of a transport error.
IstTimerH(i, t) ==
    /\ IstRaised(i, t, "H", "Completed")
    /\ ist' = [ist EXCEPT ![i] =
                 IstEnd(Tell(@, "transport_error"), "Terminated", TRUE, @.timers \ {t})]
    /\ UNCHANGED net

\* A slip: the row of timer I is missing.
IstTimerLEnds(i, t) ==
    /\ IstRaised(i, t, "L", "Accepted")
    /\ IstStep(i, "Terminated", TRUE, ist[i].timers \ {t})
    /\ UNCHANGED net

IstTimerEnds(i, t) ==
    /\ IstRaised(i, t, "I", "Confirmed") \/ IstRaised(i, t, "L", "Accepted")
    /\ IstStep(i, "Terminated", TRUE, ist[i].timers \ {t})
    /\ UNCHANGED net

IstTimerIgnored(i, t) ==
    /\ t.queued
    /\ ~ \/ IstRaised(i, t, "G", "Completed") \/ IstRaised(i, t, "H", "Completed")
         \/ IstRaised(i, t, "I", "Confirmed") \/ IstRaised(i, t, "L", "Accepted")
    /\ ist' = [ist EXCEPT ![i].timers = @ \ {t}]
    /\ UNCHANGED net

IstTimerFires(i, t) ==
    IstTimerG(i, t) \/ IstTimerH(i, t) \/ IstTimerEnds(i, t) \/ IstTimerIgnored(i, t)
------------------------------------------------------------------------------
IstFairness ==
    \A i \in Server, t \in TimerOf(IstTimer) :
        WF_<<ist, net>>(/\ t \in ist[i].timers
                        /\ IstTimerDue(i, t) \/ IstTimerFires(i, t))
=============================================================================
