--------------------------------- MODULE Nist ---------------------------------
(***************************************************************************)
(* The non-INVITE server transactions of one request, tsip_transac_nist.c, *)
(* in the terms of module Ist.  handed is TRUE once the request has been   *)
(* passed to the transaction's dialog.                                     *)
(***************************************************************************)
EXTENDS TransacLayer

VARIABLE nist

NistTimer == {"J"}
NistStates ==
    {"none", "Started", "Trying", "Proceeding", "Completed", "Terminated"}
NistRecord == [state  : NistStates,
               timers : SUBSET TimerOf(NistTimer),
               last   : {"none", "1xx", "final"},
               handed : BOOLEAN]

NistInit ==
    nist = [i \in Server |->
              [state |-> "none", timers |-> {}, last |-> "none", handed |-> FALSE]]

WithoutTimer(s, t) == [s EXCEPT !.timers = @ \ {t}]
Hand(s) == [s EXCEPT !.handed = TRUE]
Answer(s, response) == [s EXCEPT !.last = response]

\* The end of tsk_fsm_act, with the destructor of a terminated transaction.
NistEnd(s, to, ok, timers) ==
    IF ok /\ to # "Terminated"
    THEN [s EXCEPT !.state = to, !.timers = timers]
    ELSE [s EXCEPT !.state = "Terminated", !.timers = Cancel(timers, NistTimer)]
------------------------------------------------------------------------------
\* tsip_dialog_layer_handle_incoming_msg creates a server transaction, whose
\* first act is to pass the request to the dialog.
NistRecvRequest(i) ==
    /\ "request" \in net
    /\ NoneFound(nist) /\ IsNext(nist, i)
    /\ net' = Rest("request")
    /\ \E tuOk \in BOOLEAN :
          nist' = [nist EXCEPT ![i] = NistEnd(Hand(@), "Trying", tuOk, @.timers)]

\* A slip: there is always a last response.
NistRecvRequestAnswered(i) ==
    /\ "request" \in net
    /\ Found(nist, i)
    /\ \E sent \in BOOLEAN : net' = Rest("request") \cup Sent(nist[i].last, sent)
    /\ UNCHANGED nist

\* A retransmission is answered with the last response, if there is one; the
\* outcome of the send is ignored.
NistRecvRequestAgain(i) ==
    /\ "request" \in net
    /\ Found(nist, i)
    /\ \E sent \in BOOLEAN :
          net' = Rest("request")
                   \cup IF nist[i].state = "Trying" THEN {} ELSE Sent(nist[i].last, sent)
    /\ UNCHANGED nist

\* A dialog that was handed the request answers it through whichever transaction
\* find_server returns.  Only in Proceeding is a failed 1xx forgiven.
NistSends(i, response, to, forgiven, timers) ==
    \E sent \in BOOLEAN :
        /\ net' = net \cup Sent(response, sent)
        /\ nist' = [nist EXCEPT ![i] = NistEnd(Answer(@, response), to,
                                               sent \/ forgiven, timers)]

\* A slip: a provisional response may follow the final one.
NistRespondLate(i) ==
    /\ Found(nist, i)
    /\ \E j \in Server : nist[j].handed
    /\ \/ NistSends(i, "1xx", "Proceeding", nist[i].state = "Proceeding", nist[i].timers)
       \/ \E missed \in Missed :
             NistSends(i, "final", "Completed", FALSE,
                       Schedule(nist[i].timers, "J", missed))

NistRespond(i) ==
    /\ Found(nist, i)
    /\ \E j \in Server : nist[j].handed
    /\ nist[i].state \in {"Trying", "Proceeding"}
    /\ \/ NistSends(i, "1xx", "Proceeding", nist[i].state = "Proceeding", nist[i].timers)
       \/ \E missed \in Missed :
             NistSends(i, "final", "Completed", FALSE,
                       Schedule(nist[i].timers, "J", missed))

\* The dialog terminates and cancels its transactions.
NistCancel(i) ==
    /\ Alive(nist, i)
    /\ nist' = [nist EXCEPT ![i] = NistEnd(@, "Terminated", TRUE, @.timers)]
    /\ UNCHANGED net
------------------------------------------------------------------------------
NistTimerDue(i, t) ==
    /\ ~t.queued
    /\ nist' = [nist EXCEPT ![i].timers = Due(@, t)]
    /\ UNCHANGED net

\* A slip: timer J is listened to before the final response only.
NistTimerFiresEarly(i, t) ==
    /\ t.queued
    /\ nist' = [nist EXCEPT ![i] =
                  IF t.current /\ @.state = "Proceeding"
                  THEN NistEnd(@, "Terminated", TRUE, @.timers \ {t})
                  ELSE WithoutTimer(@, t)]
    /\ UNCHANGED net

NistTimerFires(i, t) ==
    /\ t.queued
    /\ nist' = [nist EXCEPT ![i] =
                  IF t.current /\ @.state = "Completed"
                  THEN NistEnd(@, "Terminated", TRUE, @.timers \ {t})
                  ELSE WithoutTimer(@, t)]
    /\ UNCHANGED net
------------------------------------------------------------------------------
NistFairness ==
    \A i \in Server, t \in TimerOf(NistTimer) :
        WF_<<nist, net>>(/\ t \in nist[i].timers
                         /\ NistTimerDue(i, t) \/ NistTimerFires(i, t))
=============================================================================
