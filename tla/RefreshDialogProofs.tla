------------------------- MODULE RefreshDialogProofs -------------------------
(* What a refreshing dialog and its server agree on, whatever the number of *)
(* requests, challenges and refreshes.                                      *)
EXTENDS RefreshDialog, TLAPS

\* The requests in transit are the dialog's, and the last one asks for what the
\* dialog wants.  The server has not seen more than was sent.
RequestsAreOwn ==
    /\ \A r \in requests : r.cseq <= cseq /\ (r.cseq = cseq => r.leaving = leaving)
    /\ seen <= cseq

\* The server answers what it saw; a 2xx to the last request in transit tells
\* how the binding stands, for nothing the server may still see is newer.
AnswersAreTrue ==
    \A a \in answers :
       a.class \in Final =>
          /\ a.cseq <= seen
          /\ a.class \in Granted /\ a.cseq = cseq =>
                IF leaving THEN binding = "none" ELSE binding # "none"

\* What the dialog was granted stands until it sends again.
GrantStands ==
    /\ fsm = "Connected" => seen = cseq /\ binding # "none" /\ ~leaving
    /\ "unbound" \in told => fsm = "Terminated" /\ seen = cseq /\ binding # "held"

IndInv ==
    /\ TypeOK
    /\ OneRequestOutstanding
    /\ RequestsAreOwn
    /\ AnswersAreTrue
    /\ GrantStands
    /\ ConnectedIsRefreshed
------------------------------------------------------------------------------
\* Sending leaves the dialog with its new request alone, the last one, and
\* leaves the answers in transit behind.
LEMMA SendsKeeps ==
    ASSUME IndInv, NEW waiting, waiting = {}, NEW leave \in BOOLEAN,
           Sends(waiting, leave),
           UNCHANGED <<peer, notifies, kind, silent>>,
           answers' \subseteq answers
    PROVE  /\ cseq' \in 0..MaxRequests /\ cseq' = cseq + 1
           /\ leaving' = leave
           /\ live' = {cseq'} /\ live' \subseteq Cseqs
           /\ requests' \subseteq Request
           /\ RequestsAreOwn'
           /\ AnswersAreTrue'
  <1>0. /\ cseq \in Nat /\ cseq + 1 \in Cseqs /\ cseq + 1 \in 0..MaxRequests
        /\ seen \in Nat
    BY MaxRequestsAssumption DEF IndInv, TypeOK, Sends, Cseqs
  <1>1. cseq' = cseq + 1 /\ leaving' = leave /\ live' = {cseq'}
    BY DEF Sends
  <1>2. requests' \subseteq requests \cup {[cseq |-> cseq + 1, leaving |-> leave]}
    BY DEF Sends
  <1>3. [cseq |-> cseq + 1, leaving |-> leave] \in Request
    BY <1>0 DEF Request
  <1>4. requests' \subseteq Request
    BY <1>2, <1>3 DEF IndInv, TypeOK
  <1>5. RequestsAreOwn'
    <2>1. \A r \in requests : r.cseq \in Nat /\ r.cseq <= cseq
      BY DEF IndInv, TypeOK, RequestsAreOwn, Request, Cseqs
    <2>2. seen' <= cseq'
      BY <1>0, <1>1 DEF IndInv, RequestsAreOwn, peer
    <2>3. ASSUME NEW r \in requests'
          PROVE  r.cseq <= cseq' /\ (r.cseq = cseq' => r.leaving = leaving')
      <3>1. CASE r \in requests
        BY <1>0, <1>1, <2>1, <3>1
      <3>2. CASE r = [cseq |-> cseq + 1, leaving |-> leave]
        BY <1>0, <1>1, <3>2
      <3> QED
        BY <1>2, <3>1, <3>2
    <2> QED
      BY <2>2, <2>3 DEF RequestsAreOwn
  <1>6. AnswersAreTrue'
    <2>1. ASSUME NEW a \in answers', a.class \in Final
          PROVE  a.cseq <= seen' /\ a.cseq # cseq'
      <3>1. a \in answers /\ a.cseq \in Nat /\ a.cseq <= seen /\ seen <= cseq
        BY <2>1 DEF IndInv, TypeOK, AnswersAreTrue, RequestsAreOwn, Answer, Cseqs
      <3> QED
        BY <1>0, <1>1, <3>1 DEF peer
    <2> QED
      BY <2>1 DEF AnswersAreTrue
  <1> QED
    BY <1>0, <1>1, <1>4, <1>5, <1>6

\* A step that sends nothing keeps what is known of the requests and answers.
LEMMA SilenceKeeps ==
    ASSUME IndInv, SendsNothing, UNCHANGED peer, answers' \subseteq answers
    PROVE  RequestsAreOwn' /\ AnswersAreTrue'
  BY DEF IndInv, SendsNothing, peer, RequestsAreOwn, AnswersAreTrue

\* A new dialog satisfies the invariant.
LEMMA IndInvInit == Init => IndInv
  <1> SUFFICES ASSUME Init PROVE IndInv
    OBVIOUS
  <1>1. TypeOK
    <2>1. 0 \in 0..MaxRequests
      BY MaxRequestsAssumption
    <2> QED
      BY <2>1 DEF Init, TypeOK, FsmStates
  <1>2. OneRequestOutstanding /\ RequestsAreOwn /\ AnswersAreTrue
    BY DEF Init, OneRequestOutstanding, RequestsAreOwn, AnswersAreTrue
  <1>3. GrantStands /\ ConnectedIsRefreshed
    BY DEF Init, GrantStands, ConnectedIsRefreshed
  <1> QED
    BY <1>1, <1>2, <1>3 DEF IndInv
------------------------------------------------------------------------------
\* The steps the user, the stack and the timers make the dialog take.
LEMMA UserSteps ==
    ASSUME IndInv,
           \/ Begin \/ Hangup \/ CancelRequests \/ Shutdown \/ ShutdownTimesOut
           \/ \E byTimer \in BOOLEAN : Refresh(byTimer)
           \/ \E c \in live : TimesOut(c)
           \/ \E n \in notifies : RecvNotify(n)
    PROVE  IndInv'
  <1>1. CASE Begin
    <2>0. live = {} /\ leaving \in BOOLEAN
      BY <1>1 DEF Begin, IndInv, OneRequestOutstanding, TypeOK
    <2>1. /\ cseq' \in 0..MaxRequests /\ leaving' = leaving /\ live' = {cseq'}
          /\ live' \subseteq Cseqs
          /\ requests' \subseteq Request /\ RequestsAreOwn' /\ AnswersAreTrue'
      BY <1>1, <2>0, SendsKeeps DEF Begin
    <2> QED
      BY <1>1, <2>0, <2>1
      DEF Begin, IndInv, TypeOK, OneRequestOutstanding, GrantStands,
          ConnectedIsRefreshed, FsmStates, peer
  <1>2. ASSUME NEW when \in SUBSET {"Started", "Connected"}, Leaves(when),
               UNCHANGED <<kind, silent, state, challenged, provisional, refresh,
                           answers, notifies, peer>>,
               shutdown' \in BOOLEAN, told' \in {told, told \cup {"stopping"}}
        PROVE  IndInv'
    <2>1. CASE /\ fsm = "InProgress" \/ (fsm \in when /\ silent)
               /\ Ends /\ UNCHANGED live
      <3>1. RequestsAreOwn' /\ AnswersAreTrue'
        BY <1>2, <2>1, SilenceKeeps DEF Ends
      <3> QED
        BY <1>2, <2>1, <3>1
        DEF Ends, SendsNothing, IndInv, TypeOK, OneRequestOutstanding, GrantStands,
            ConnectedIsRefreshed, FsmStates, peer
    <2>2. CASE fsm \in when /\ fsm' = "InProgress" /\ Sends(live, TRUE)
      <3>0. live = {}
        BY <1>2, <2>2 DEF IndInv, OneRequestOutstanding
      <3>1. /\ cseq' \in 0..MaxRequests /\ leaving' = TRUE /\ live' = {cseq'}
            /\ live' \subseteq Cseqs
            /\ requests' \subseteq Request /\ RequestsAreOwn' /\ AnswersAreTrue'
        BY <1>2, <2>2, <3>0, SendsKeeps
      <3> QED
        BY <1>2, <2>2, <3>0, <3>1
        DEF IndInv, TypeOK, OneRequestOutstanding, GrantStands,
            ConnectedIsRefreshed, FsmStates, peer
    <2> QED
      BY <1>2, <2>1, <2>2 DEF Leaves
  <1>3. CASE Hangup
    BY <1>2, <1>3 DEF Hangup, IndInv, TypeOK
  <1>4. CASE Shutdown
    <2>1. Leaves({"Connected"}) \/ Leaves({"Connected", "Started"})
      BY <1>4 DEF Shutdown, Leaves
    <2>2. shutdown' \in BOOLEAN /\ told' = told \cup {"stopping"}
      BY <1>4 DEF Shutdown, IndInv, TypeOK
    <2> QED
      BY <1>2, <1>4, <2>1, <2>2 DEF Shutdown
  <1>5. CASE CancelRequests
    <2>1. RequestsAreOwn' /\ AnswersAreTrue'
      BY <1>5, SilenceKeeps DEF CancelRequests, Ends
    <2> QED
      BY <1>5, <2>1
      DEF CancelRequests, Ends, SendsNothing, IndInv, TypeOK, OneRequestOutstanding,
          GrantStands, ConnectedIsRefreshed, FsmStates, peer
  <1>6. CASE ShutdownTimesOut
    <2>1. RequestsAreOwn' /\ AnswersAreTrue'
      BY <1>6, SilenceKeeps DEF ShutdownTimesOut, Ends
    <2> QED
      BY <1>6, <2>1
      DEF ShutdownTimesOut, Ends, SendsNothing, IndInv, TypeOK, OneRequestOutstanding,
          GrantStands, ConnectedIsRefreshed, FsmStates, peer
  <1>7. ASSUME NEW byTimer \in BOOLEAN, Refresh(byTimer)
        PROVE  IndInv'
    <2>1. CASE fsm = "Connected" /\ fsm' = "InProgress" /\ Sends(live, leaving)
      <3>0. live = {} /\ leaving \in BOOLEAN
        BY <2>1 DEF IndInv, OneRequestOutstanding, TypeOK
      <3>1. /\ cseq' \in 0..MaxRequests /\ leaving' = leaving /\ live' = {cseq'}
            /\ live' \subseteq Cseqs
            /\ requests' \subseteq Request /\ RequestsAreOwn' /\ AnswersAreTrue'
        BY <1>7, <2>1, <3>0, SendsKeeps DEF Refresh
      <3> QED
        BY <1>7, <2>1, <3>0, <3>1
        DEF Refresh, IndInv, TypeOK, OneRequestOutstanding, GrantStands,
            ConnectedIsRefreshed, FsmStates, peer
    <2>2. CASE fsm \in {"InProgress", "Terminated"} /\ SendsNothing /\ UNCHANGED <<fsm, live>>
      <3>1. RequestsAreOwn' /\ AnswersAreTrue'
        BY <1>7, <2>2, SilenceKeeps DEF Refresh
      <3> QED
        BY <1>7, <2>2, <3>1
        DEF Refresh, SendsNothing, IndInv, TypeOK, OneRequestOutstanding,
            GrantStands, ConnectedIsRefreshed, peer
    <2> QED
      BY <1>7, <2>1, <2>2 DEF Refresh
  <1>8. ASSUME NEW c \in live, TimesOut(c)
        PROVE  IndInv'
    <2>1. RequestsAreOwn' /\ AnswersAreTrue'
      BY <1>8, SilenceKeeps DEF TimesOut, Ends
    <2> QED
      BY <1>8, <2>1
      DEF TimesOut, Ends, SendsNothing, IndInv, TypeOK, OneRequestOutstanding,
          GrantStands, ConnectedIsRefreshed, FsmStates, peer
  <1>9. ASSUME NEW n \in notifies, RecvNotify(n)
        PROVE  IndInv'
    <2>1. RequestsAreOwn' /\ AnswersAreTrue'
      BY <1>9, SilenceKeeps DEF RecvNotify, SendsNothing
    <2>2. TypeOK'
      <3>1. /\ refresh' \in BOOLEAN /\ fsm' \in FsmStates /\ notifies' \subseteq notifies
            /\ told' \subseteq told \cup {"brief"}
        BY <1>9 DEF RecvNotify, IndInv, TypeOK, FsmStates
      <3> QED
        BY <1>9, <3>1 DEF RecvNotify, IndInv, TypeOK, peer, Granted
    <2>3. OneRequestOutstanding' /\ GrantStands'
      BY <1>9
      DEF RecvNotify, IndInv, OneRequestOutstanding, GrantStands, peer
    <2>4. ConnectedIsRefreshed'
      <3>1. n \in {"active", "brief", "terminated"}
        BY DEF IndInv, TypeOK, Notification
      <3> QED
        BY <1>9, <3>1 DEF RecvNotify, IndInv, GrantStands, ConnectedIsRefreshed
    <2> QED
      BY <2>1, <2>2, <2>3, <2>4 DEF IndInv
  <1> QED
    BY <1>1, <1>3, <1>4, <1>5, <1>6, <1>7, <1>8, <1>9
------------------------------------------------------------------------------
\* The answers the dialog is handed.
LEMMA AnswerSteps ==
    ASSUME IndInv, NEW a \in answers,
           \/ Recv1xx(a) \/ Recv2xxConnected(a) \/ Recv2xxLeaving(a)
           \/ RecvChallenge(a) \/ Recv423(a) \/ RecvError(a) \/ RecvTooLate(a)
    PROVE  IndInv'
  <1>0. /\ a.cseq = cseq /\ live = {cseq} /\ live \ {a.cseq} = {}
        /\ cseq \in Nat /\ seen \in Nat /\ leaving \in BOOLEAN
    <2>1. a.cseq \in live
      BY DEF Recv1xx, Recv2xxConnected, Recv2xxLeaving, RecvChallenge, Recv423,
             RecvError, RecvTooLate, ReceivesFinal, Receives
    <2>2. live \subseteq {cseq}
      BY DEF IndInv, OneRequestOutstanding, TypeOK, FsmStates
    <2>3. a.cseq = cseq /\ live = {cseq} /\ live \ {a.cseq} = {}
      BY <2>1, <2>2
    <2> QED
      BY <2>3 DEF IndInv, TypeOK
  <1>1. CASE Recv1xx(a)
    <2>1. RequestsAreOwn' /\ AnswersAreTrue'
      BY <1>1, SilenceKeeps DEF Recv1xx, Receives
    <2> QED
      BY <1>0, <1>1, <2>1
      DEF Recv1xx, Receives, SendsNothing, IndInv, TypeOK, OneRequestOutstanding,
          GrantStands, ConnectedIsRefreshed, peer
  <1>2. CASE Recv2xxConnected(a)
    <2>1. RequestsAreOwn' /\ AnswersAreTrue'
      BY <1>2, SilenceKeeps DEF Recv2xxConnected, ReceivesFinal, Receives
    <2>2. seen = cseq /\ binding # "none"
      BY <1>0, <1>2
      DEF Recv2xxConnected, IndInv, AnswersAreTrue, RequestsAreOwn, Final
    <2>3. "unbound" \notin told'
      BY <1>2 DEF Recv2xxConnected, IndInv, GrantStands, Granted
    <2>4. refresh' \/ "brief" \in told'
      BY <1>2 DEF Recv2xxConnected, Granted
    <2> QED
      BY <1>0, <1>2, <2>1, <2>2, <2>3, <2>4
      DEF Recv2xxConnected, ReceivesFinal, Receives, SendsNothing, IndInv, TypeOK,
          OneRequestOutstanding, GrantStands, ConnectedIsRefreshed, FsmStates, peer
  <1>3. CASE Recv2xxLeaving(a)
    <2>1. RequestsAreOwn' /\ AnswersAreTrue'
      BY <1>3, SilenceKeeps DEF Recv2xxLeaving, Ends, ReceivesFinal, Receives
    <2>2. seen = cseq /\ binding = "none"
      BY <1>0, <1>3
      DEF Recv2xxLeaving, IndInv, AnswersAreTrue, RequestsAreOwn, Final
    <2> QED
      BY <1>0, <1>3, <2>1, <2>2
      DEF Recv2xxLeaving, ReceivesFinal, Receives, Ends, SendsNothing, IndInv, TypeOK,
          OneRequestOutstanding, GrantStands, ConnectedIsRefreshed, FsmStates, peer
  <1>4. ASSUME ReceivesFinal(a), fsm = "InProgress", Sends(live \ {a.cseq}, leaving),
               UNCHANGED <<fsm, state, refresh, shutdown, told>>, challenged' \in BOOLEAN
        PROVE  IndInv'
    <2>1. /\ cseq' \in 0..MaxRequests /\ leaving' = leaving /\ live' = {cseq'}
          /\ live' \subseteq Cseqs
          /\ requests' \subseteq Request /\ RequestsAreOwn' /\ AnswersAreTrue'
      BY <1>0, <1>4, SendsKeeps DEF ReceivesFinal, Receives
    <2>2. provisional' = {}
      BY <1>0, <1>4 DEF ReceivesFinal, IndInv, TypeOK
    <2> QED
      BY <1>0, <1>4, <2>1, <2>2
      DEF ReceivesFinal, Receives, IndInv, TypeOK, OneRequestOutstanding,
          GrantStands, ConnectedIsRefreshed, FsmStates, peer
  <1>5. ASSUME ReceivesFinal(a), Ends, live' = live \ {a.cseq},
               UNCHANGED <<state, challenged, refresh, shutdown, told>>
        PROVE  IndInv'
    <2>1. RequestsAreOwn' /\ AnswersAreTrue'
      BY <1>5, SilenceKeeps DEF Ends, ReceivesFinal, Receives
    <2> QED
      BY <1>0, <1>5, <2>1
      DEF ReceivesFinal, Receives, Ends, SendsNothing, IndInv, TypeOK,
          OneRequestOutstanding, GrantStands, ConnectedIsRefreshed, FsmStates, peer
  <1>6. CASE RecvChallenge(a)
    <2>1. challenged \in BOOLEAN
      BY DEF IndInv, TypeOK
    <2> QED
      BY <1>4, <1>5, <1>6, <2>1 DEF RecvChallenge
  <1>7. CASE Recv423(a)
    <2>1. challenged \in BOOLEAN
      BY DEF IndInv, TypeOK
    <2> QED
      BY <1>4, <1>5, <1>7, <2>1 DEF Recv423
  <1>8. CASE RecvError(a) \/ RecvTooLate(a)
    BY <1>5, <1>8 DEF RecvError, RecvTooLate
  <1> QED
    BY <1>1, <1>2, <1>3, <1>6, <1>7, <1>8

\* The server's steps.
LEMMA PeerSteps ==
    ASSUME IndInv,
           \/ PeerLapses \/ PeerNotifies
           \/ \E r \in requests : PeerTries(r) \/ PeerAnswers(r)
    PROVE  IndInv'
  <1>1. CASE PeerLapses \/ PeerNotifies
    <2>1. /\ UNCHANGED <<dialog, seen, requests, answers>>
          /\ notifies' \subseteq Notification
          /\ binding' \in {binding, "lapsed"} /\ (binding # "held" => binding' = binding)
      BY <1>1 DEF PeerLapses, PeerNotifies, peer, IndInv, TypeOK, Notification
    <2>2. TypeOK'
      BY <2>1 DEF IndInv, TypeOK, dialog
    <2>3. RequestsAreOwn' /\ AnswersAreTrue'
      BY <2>1 DEF IndInv, RequestsAreOwn, AnswersAreTrue, dialog
    <2> QED
      BY <2>1, <2>2, <2>3
      DEF IndInv, OneRequestOutstanding, GrantStands, ConnectedIsRefreshed, dialog
  <1>2. ASSUME NEW r \in requests, PeerTries(r)
        PROVE  IndInv'
    <2>1. r.cseq \in Cseqs
      BY DEF IndInv, TypeOK, Request
    <2>2. answers' \subseteq Answer
      BY <1>2, <2>1 DEF PeerTries, IndInv, TypeOK, Answer
    <2>3. AnswersAreTrue'
      BY <1>2 DEF PeerTries, IndInv, AnswersAreTrue, Final, Granted, dialog, peer
    <2> QED
      BY <1>2, <2>2, <2>3
      DEF PeerTries, dialog, peer, IndInv, TypeOK, OneRequestOutstanding,
          RequestsAreOwn, GrantStands, ConnectedIsRefreshed
  <1>3. ASSUME NEW r \in requests, PeerAnswers(r)
        PROVE  IndInv'
    <2>1. /\ r.cseq \in Cseqs /\ r.leaving \in BOOLEAN /\ r.cseq <= cseq
          /\ r.cseq = cseq => r.leaving = leaving
          /\ cseq \in Nat /\ seen \in Nat /\ r.cseq \in Nat /\ seen <= cseq
      BY DEF IndInv, TypeOK, Request, RequestsAreOwn, Cseqs
    <2>2. CASE UNCHANGED <<peer, answers>>
      BY <1>3, <2>2
      DEF PeerAnswers, dialog, peer, IndInv, TypeOK, OneRequestOutstanding,
          RequestsAreOwn, AnswersAreTrue, GrantStands, ConnectedIsRefreshed
    <2>3. ASSUME r.cseq > seen, seen' = r.cseq, NEW class \in Final,
                 answers' = answers \cup {[cseq |-> r.cseq, class |-> class]},
                 binding' = IF class \notin Granted THEN binding
                            ELSE IF r.leaving THEN "none" ELSE "held"
          PROVE  IndInv'
      <3>0. UNCHANGED dialog /\ UNCHANGED notifies /\ requests' = requests \ {r}
        BY <1>3 DEF PeerAnswers
      <3>1. /\ class \notin Granted => binding' = binding
            /\ class \in Granted /\ r.leaving => binding' = "none"
            /\ class \in Granted /\ ~r.leaving => binding' = "held"
        BY <2>3
      <3>2. binding' \in {"none", "held", "lapsed"}
        BY <2>1, <3>1 DEF IndInv, TypeOK
      <3>3. [cseq |-> r.cseq, class |-> class] \in Answer
        BY <2>1 DEF Answer
      <3>4. TypeOK'
        BY <2>1, <2>3, <3>0, <3>2, <3>3 DEF IndInv, TypeOK, dialog, Cseqs
      <3>5. RequestsAreOwn'
        BY <2>1, <2>3, <3>0 DEF IndInv, RequestsAreOwn, dialog
      <3>6. AnswersAreTrue'
        <4>1. ASSUME NEW a \in answers', a.class \in Final
              PROVE  /\ a.cseq <= seen'
                     /\ a.class \in Granted /\ a.cseq = cseq' =>
                          IF leaving' THEN binding' = "none" ELSE binding' # "none"
          <5>1. CASE a = [cseq |-> r.cseq, class |-> class]
            BY <2>1, <2>3, <3>0, <3>1, <5>1 DEF dialog
          <5>2. CASE a \in answers
            <6>1. a.cseq \in Nat /\ a.cseq <= seen
              BY <4>1, <5>2 DEF IndInv, TypeOK, Answer, Cseqs, AnswersAreTrue
            <6>2. cseq' = cseq
              BY <3>0 DEF dialog
            <6> QED
              BY <2>1, <2>3, <6>1, <6>2
          <5> QED
            BY <2>3, <5>1, <5>2
        <4> QED
          BY <4>1 DEF AnswersAreTrue
      <3>7. fsm # "Connected" /\ "unbound" \notin told
        BY <2>1, <2>3 DEF IndInv, GrantStands
      <3> QED
        BY <3>0, <3>4, <3>5, <3>6, <3>7
        DEF IndInv, OneRequestOutstanding, GrantStands, ConnectedIsRefreshed, dialog
    <2> QED
      BY <1>3, <2>2, <2>3 DEF PeerAnswers
  <1> QED
    BY <1>1, <1>2, <1>3

\* Every step keeps it.
LEMMA IndInvNext == IndInv /\ [Next]_vars => IndInv'
  <1> SUFFICES ASSUME IndInv, [Next]_vars PROVE IndInv'
    OBVIOUS
  <1>1. CASE UNCHANGED vars
    BY <1>1
    DEF vars, dialog, peer, net, IndInv, TypeOK, OneRequestOutstanding,
        RequestsAreOwn, AnswersAreTrue, GrantStands, ConnectedIsRefreshed
  <1>2. CASE Next
    BY <1>2, UserSteps, AnswerSteps, PeerSteps DEF Next
  <1> QED
    BY <1>1, <1>2
------------------------------------------------------------------------------
\* The inductive invariant of a refreshing dialog.
THEOREM Invariance == Spec => []IndInv
  BY IndInvInit, IndInvNext, PTL DEF Spec

\* The dialog and the server stay in their ranges for every number of requests
\* (tsip_dialog_register.client.c, tsip_dialog.c).
THEOREM TypeCorrectness == Spec => []TypeOK
  <1>1. IndInv => TypeOK
    BY DEF IndInv
  <1> QED
    BY Invariance, <1>1, PTL

\* The rows of the three state machines never leave two requests outstanding,
\* nor a dialog in progress without one.
THEOREM OneRequestAtATime == Spec => []OneRequestOutstanding
  <1>1. IndInv => OneRequestOutstanding
    BY DEF IndInv
  <1> QED
    BY Invariance, <1>1, PTL

\* A 2xx connects the dialog only to a server that recorded its binding.
THEOREM ConnectedMeansBound == Spec => []ConnectedIsBound
  <1>1. IndInv => ConnectedIsBound
    BY DEF IndInv, GrantStands, ConnectedIsBound
  <1> QED
    BY Invariance, <1>1, PTL

\* A 2xx ends a leaving dialog only when the server holds no binding, and no
\* request still in transit makes it hold one again.
THEOREM ToldMeansUnbound == Spec => []UnboundWhenTold
  <1>1. IndInv => UnboundWhenTold
    BY DEF IndInv, GrantStands, UnboundWhenTold
  <1> QED
    BY Invariance, <1>1, PTL

\* A Connected dialog has its refresh timer, unless it was granted a lease of
\* less than two seconds.
THEOREM ConnectedMeansRefreshed == Spec => []ConnectedIsRefreshed
  <1>1. IndInv => ConnectedIsRefreshed
    BY DEF IndInv
  <1> QED
    BY Invariance, <1>1, PTL
=============================================================================
