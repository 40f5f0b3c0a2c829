------------------------- MODULE InviteDialogProofs -------------------------
(* What a call between two phones does for every bound on its offers, its  *)
(* challenges and its lost answers.                                        *)
EXTENDS InviteDialog, FiniteSetTheorems, TLAPS

\* The two ends.
LEMMA EndsFacts ==
    /\ "caller" \in Ends /\ "callee" \in Ends
    /\ Peer("caller") = "callee" /\ Peer("callee") = "caller"
    /\ \A e \in Ends : Peer(e) \in Ends /\ Peer(e) # e /\ Peer(Peer(e)) = e
    /\ \A e \in Ends : e = "caller" \/ e = "callee"
  BY DEF Ends, Peer

\* What an answer is, and that whoever waits gets it.
LEMMA AnswerFields ==
    ASSUME NEW e \in Ends, NEW classes, NEW of, NEW n, NEW m \in Answer(e, classes, of, n)
    PROVE  /\ m = Msg(Peer(e), m.class, of, n)
           /\ m.to = Peer(e) /\ m.class \in classes /\ m.of = of /\ m.n = n
           /\ Awaits(Peer(e), of, n)
  BY DEF Answer, Msg, Awaits

\* An answer that is awaited is sent.
LEMMA AnswerMade ==
    ASSUME NEW e \in Ends, NEW classes, NEW of, NEW n, NEW c \in classes,
           Awaits(Peer(e), of, n)
    PROVE  Msg(Peer(e), c, of, n) \in Answer(e, classes, of, n)
  BY DEF Answer, Awaits

\* Answers are messages.
LEMMA AnswerType ==
    ASSUME NEW e \in Ends, NEW classes \in SUBSET Classes, NEW of \in Methods,
           NEW n \in 0..MaxOffers
    PROVE  Answer(e, classes, of, n) \subseteq Message
  BY EndsFacts DEF Answer, Msg, Message

\* A message made of its parts.
LEMMA MsgFields ==
    \A to, class, of, n :
        /\ Msg(to, class, of, n).to = to /\ Msg(to, class, of, n).class = class
        /\ Msg(to, class, of, n).of = of /\ Msg(to, class, of, n).n = n
        /\ to \in Ends /\ class \in Classes /\ of \in Methods /\ n \in 0..MaxOffers
             => Msg(to, class, of, n) \in Message
  BY DEF Msg, Message

------------------------------------------------------------------------------
\* A dialog that ends has nothing left that could call it back.
LEMMA TerminatesType ==
    ASSUME TypeOK, NEW e \in Ends, NEW taken, NEW last \in SUBSET Message,
           Terminates(e, taken, last), faults' \subseteq Faults,
           answers' \subseteq [n : 1..MaxOffers, class : {"2xx", "again", "failure"}]
    PROVE  TypeOK'
  <1> USE DEF TypeOK, Terminates
  <1>1. state' \in [Ends -> States] /\ pending' \in [Ends -> SUBSET Transaction]
    BY DEF Moves, States
  <1>2. /\ net' \subseteq Message /\ shutting' \subseteq Ends
        /\ ringing' \in 0..MaxOffers /\ unacked' \in BOOLEAN
    BY BoundsAssumption
  <1>3. ASSUME NEW d \in Ends, ~Alive(d)'
        PROVE  pending'[d] = {} /\ d \notin shutting'
    <2>1. CASE d = e
      BY <2>1
    <2>2. CASE d # e
      BY <1>3, <2>2 DEF Alive, Moves
    <2> QED
      BY <2>1, <2>2
  <1> QED
    BY <1>1, <1>2, <1>3

\* A request is made of its end's method and number.
LEMMA RequestsType ==
    ASSUME TypeOK, NEW e \in Ends, NEW of \in Methods, NEW n \in 0..MaxOffers,
           NEW waiting \in SUBSET Transaction, NEW passed,
           Requests(e, of, n, waiting, passed)
    PROVE  /\ net' \subseteq Message /\ pending' \in [Ends -> SUBSET Transaction]
           /\ \A d \in Ends \ {e} : pending'[d] = pending[d]
  <1>1. [of |-> of, n |-> n, heard |-> FALSE] \in Transaction
    BY DEF Transaction
  <1>2. Msg(Peer(e), "request", of, n) \in Message
    BY EndsFacts, MsgFields DEF Classes
  <1> QED
    BY <1>1, <1>2 DEF Requests, TypeOK

\* An offer has a number within the bound.
LEMMA SendsOfferType ==
    ASSUME TypeOK, NEW e \in Ends, NEW of \in Offers,
           NEW waiting \in SUBSET Transaction, NEW passed,
           SendsOffer(e, of, waiting, passed)
    PROVE  /\ net' \subseteq Message /\ pending' \in [Ends -> SUBSET Transaction]
           /\ \A d \in Ends \ {e} : pending'[d] = pending[d]
           /\ offers' \in [Ends -> 0..MaxOffers]
           /\ offers' = [offers EXCEPT ![e] = offers[e] + 1]
  <1>1. offers["caller"] \in 0..MaxOffers /\ offers["callee"] \in 0..MaxOffers
    BY EndsFacts DEF TypeOK
  <1>2. offers[e] \in 0..MaxOffers /\ offers[e] + 1 \in 0..MaxOffers
    BY <1>1, EndsFacts, BoundsAssumption DEF SendsOffer
  <1>3. of \in Methods
    BY DEF Methods
  <1>4. /\ net' \subseteq Message /\ pending' \in [Ends -> SUBSET Transaction]
        /\ \A d \in Ends \ {e} : pending'[d] = pending[d]
    BY <1>2, <1>3, RequestsType DEF SendsOffer
  <1>5. offers' = [offers EXCEPT ![e] = offers[e] + 1]
    BY DEF SendsOffer
  <1>6. offers' \in [Ends -> 0..MaxOffers]
    BY <1>2, <1>5 DEF TypeOK
  <1> QED
    BY <1>4, <1>5, <1>6

\* An end that goes on keeps the type invariant when its parts keep their types.
LEMMA StaysType ==
    ASSUME TypeOK, state' \in [Ends -> States],
           dialog' \in [Ends -> {"initial", "early", "established"}],
           offers' \in [Ends -> 0..MaxOffers], pending' \in [Ends -> SUBSET Transaction],
           ringing' \in 0..MaxOffers, unacked' \in BOOLEAN, pracked' \in BOOLEAN,
           shutting' \subseteq Ends, net' \subseteq Message,
           answers' \subseteq [n : 1..MaxOffers, class : {"2xx", "again", "failure"}],
           faults' \subseteq Faults,
           \A d \in Ends : \/ Alive(d)'
                           \/ pending'[d] = {} /\ d \notin shutting'
    PROVE  TypeOK'
  BY DEF TypeOK

\* What moves an end, and what tells of it.
LEMMA MovesType ==
    ASSUME TypeOK, NEW e \in Ends, NEW s \in States, Moves(e, s)
    PROVE  /\ state' \in [Ends -> States]
           /\ state'[e] = s /\ \A d \in Ends \ {e} : state'[d] = state[d]
  BY DEF TypeOK, Moves

\* The type of an end's state.
LEMMA TypedEnds ==
    ASSUME TypeOK
    PROVE  \A d \in Ends :
             /\ state[d] \in States /\ offers[d] \in 0..MaxOffers
             /\ pending[d] \in SUBSET Transaction
             /\ Alive(d) \/ (pending[d] = {} /\ d \notin shutting)
  <1> TAKE d \in Ends
  <1>1. state[d] \in States /\ offers[d] \in 0..MaxOffers
    BY DEF TypeOK
  <1>2. pending[d] \in SUBSET Transaction
    BY DEF TypeOK
  <1>3. ~Alive(d) => pending[d] = {} /\ d \notin shutting
    BY DEF TypeOK
  <1> QED
    BY <1>1, <1>2, <1>3

\* The steps an end takes by itself keep the types.
LEMMA UserStepType ==
    ASSUME TypeOK, InvitesAreNumbered, NEW e \in Ends,
           \/ Calls \/ Accepts \/ Rejects \/ Cancels \/ Timer100rel
           \/ Refreshes(e) \/ Holds(e) \/ HangsUp(e) \/ ShutsDown(e)
           \/ ShutdownTimesOut(e) \/ TimesOut(e)
    PROVE  TypeOK'
  <1>0. /\ "caller" \in Ends /\ "callee" \in Ends
        /\ "INVITE" \in Offers /\ "UPDATE" \in Offers
        /\ {"CANCEL", "BYE"} \subseteq Methods
        /\ {"Outgoing", "Connected", "Holding", "Cancelling", "Trying"} \subseteq States
        /\ 0 \in 0..MaxOffers
    BY BoundsAssumption DEF Ends, Offers, Methods, States
  <1>a. /\ \A d \in Ends : pending[d] \in SUBSET Transaction /\ offers[d] \in 0..MaxOffers
        /\ \A d \in Ends : Alive(d) \/ (pending[d] = {} /\ d \notin shutting)
        /\ ringing \in 0..MaxOffers
    BY TypedEnds DEF TypeOK
  <1>b. \A class \in Classes : Answer("callee", {class}, "INVITE", ringing) \subseteq Message
    BY <1>0, <1>a, AnswerType DEF Methods, Offers
  <1>c. {"2xx", "failure", "1xx100rel"} \subseteq Classes /\ "gaveUp" \in Faults
    BY DEF Classes, Faults, Provisional
  <1>d. ASSUME state["callee"] = "Ringing", NEW class \in {"2xx", "failure"}, Answers(class)
        PROVE  answers' \subseteq [n : 1..MaxOffers, class : {"2xx", "again", "failure"}]
    <2>1. ringing \in 1..MaxOffers
      BY <1>0, <1>a, <1>d DEF InvitesAreNumbered
    <2> QED
      BY <1>d, <2>1 DEF Answers, TypeOK
  <1>1. CASE Calls
    <2>1. SendsOffer("caller", "INVITE", {}, {}) /\ Moves("caller", "Outgoing")
      BY <1>1 DEF Calls
    <2>2. /\ net' \subseteq Message /\ pending' \in [Ends -> SUBSET Transaction]
          /\ \A d \in Ends \ {"caller"} : pending'[d] = pending[d]
          /\ offers' \in [Ends -> 0..MaxOffers]
      BY <1>0, <2>1, SendsOfferType
    <2>3. /\ state' \in [Ends -> States] /\ state'["caller"] = "Outgoing"
          /\ \A d \in Ends \ {"caller"} : state'[d] = state[d]
      BY <1>0, <2>1, MovesType
    <2> QED
      BY <1>a, <1>1, <2>2, <2>3, StaysType DEF Calls, TypeOK, Alive
  <1>2. CASE Accepts
    <2>1. /\ state' \in [Ends -> States] /\ state'["callee"] = "Connected"
          /\ \A d \in Ends \ {"callee"} : state'[d] = state[d]
      BY <1>0, <1>2, MovesType DEF Accepts
    <2>2. net' \subseteq Message
      BY <1>b, <1>c, <1>2 DEF Accepts, Final, TypeOK
    <2>3. answers' \subseteq [n : 1..MaxOffers, class : {"2xx", "again", "failure"}]
      BY <1>d, <1>2 DEF Accepts
    <2> QED
      BY <1>0, <1>a, <1>2, <2>1, <2>2, <2>3, StaysType DEF Accepts, TypeOK, Alive
  <1>3. CASE Rejects
    <2>1. answers' \subseteq [n : 1..MaxOffers, class : {"2xx", "again", "failure"}]
      BY <1>d, <1>3 DEF Rejects
    <2> QED
      BY <1>0, <1>b, <1>c, <1>3, <2>1, TerminatesType DEF Rejects, Final, TypeOK
  <1>4. CASE Cancels
    <2>1. /\ state' \in [Ends -> States] /\ state'["caller"] = "Cancelling"
          /\ \A d \in Ends \ {"caller"} : state'[d] = state[d]
      BY <1>0, <1>4, MovesType DEF Cancels
    <2>2. /\ net' \subseteq Message /\ pending' \in [Ends -> SUBSET Transaction]
          /\ \A d \in Ends \ {"caller"} : pending'[d] = pending[d]
      BY <1>0, <1>a, <1>4, RequestsType DEF Cancels
    <2> QED
      BY <1>a, <1>4, <2>1, <2>2, StaysType DEF Cancels, TypeOK, Alive
  <1>5. CASE Timer100rel
    <2>1. CASE Terminates("callee", {}, {}) /\ faults' = faults \cup {"gaveUp"}
      BY <1>0, <1>c, <1>5, <2>1, TerminatesType DEF Timer100rel, TypeOK
    <2>2. CASE /\ net' = net \cup Ringing
               /\ UNCHANGED <<state, dialog, offers, pending, ringing, unacked,
                              pracked, shutting, faults>>
      <3>1. net' \subseteq Message
        BY <1>b, <1>c, <2>2 DEF Ringing, TypeOK
      <3> QED
        BY <1>5, <2>2, <3>1, StaysType DEF Timer100rel, TypeOK, Alive
    <2> QED
      BY <1>5, <2>1, <2>2 DEF Timer100rel
  <1>6. ASSUME NEW of \in Offers, SendsOffer(e, of, pending[e], {}), Alive(e)',
               \A d \in Ends \ {e} : state'[d] = state[d], state' \in [Ends -> States],
               UNCHANGED <<dialog, ringing, unacked, pracked, shutting, answers, faults>>
        PROVE  TypeOK'
    <2>1. /\ net' \subseteq Message /\ pending' \in [Ends -> SUBSET Transaction]
          /\ \A d \in Ends \ {e} : pending'[d] = pending[d]
          /\ offers' \in [Ends -> 0..MaxOffers]
      BY <1>a, <1>6, SendsOfferType
    <2> QED
      BY <1>a, <1>6, <2>1, StaysType DEF TypeOK, Alive
  <1>7. CASE Refreshes(e)
    BY <1>6, <1>7 DEF Refreshes, TypeOK, Alive
  <1>8. CASE Holds(e)
    <2>1. /\ state' \in [Ends -> States] /\ state'[e] = "Holding"
          /\ \A d \in Ends \ {e} : state'[d] = state[d]
      BY <1>0, <1>8, MovesType DEF Holds
    <2>2. CASE UNCHANGED <<offers, pending, net>>
      BY <1>a, <1>8, <2>1, <2>2, StaysType DEF Holds, TypeOK, Alive
    <2>3. CASE SendsOffer(e, "INVITE", pending[e], {})
      BY <1>0, <1>6, <1>8, <2>1, <2>3 DEF Holds, Alive
    <2> QED
      BY <1>8, <2>2, <2>3 DEF Holds
  <1>9. ASSUME NEW of \in {"BYE", "CANCEL"}, NEW n \in 0..MaxOffers,
               Requests(e, of, n, pending[e], {}), Moves(e, "Trying"), Alive(e),
               shutting' \in {shutting, shutting \cup {e}},
               UNCHANGED <<dialog, offers, ringing, unacked, pracked, answers, faults>>
        PROVE  TypeOK'
    <2>1. /\ state' \in [Ends -> States] /\ state'[e] = "Trying"
          /\ \A d \in Ends \ {e} : state'[d] = state[d]
      BY <1>0, <1>9, MovesType
    <2>2. /\ net' \subseteq Message /\ pending' \in [Ends -> SUBSET Transaction]
          /\ \A d \in Ends \ {e} : pending'[d] = pending[d]
      BY <1>0, <1>a, <1>9, RequestsType
    <2> QED
      BY <1>a, <1>9, <2>1, <2>2, StaysType DEF TypeOK, Alive
  <1>10. CASE HangsUp(e)
    BY <1>0, <1>9, <1>10 DEF HangsUp
  <1>11. CASE ShutsDown(e)
    <2>1. CASE UNCHANGED <<pending, net>>
      <3>1. /\ state' \in [Ends -> States] /\ state'[e] = "Trying"
            /\ \A d \in Ends \ {e} : state'[d] = state[d]
        BY <1>0, <1>11, MovesType DEF ShutsDown
      <3> QED
        BY <1>a, <1>11, <2>1, <3>1, StaysType DEF ShutsDown, TypeOK, Alive
    <2> QED
      BY <1>0, <1>a, <1>9, <1>11, <2>1 DEF ShutsDown
  <1>12. CASE ShutdownTimesOut(e)
    BY <1>c, <1>12, TerminatesType DEF ShutdownTimesOut, TypeOK
  <1>13. CASE TimesOut(e)
    BY <1>c, <1>13, TerminatesType DEF TimesOut, TypeOK
  <1> QED
    BY <1>1, <1>2, <1>3, <1>4, <1>5, <1>7, <1>8, <1>10, <1>11, <1>12, <1>13

\* The transactions that wait after a provisional or a final answer.
LEMMA WaitingType ==
    ASSUME TypeOK, NEW m \in net
    PROVE  /\ m \in Message /\ m.to \in Ends /\ m.of \in Methods /\ m.n \in 0..MaxOffers
           /\ pending[m.to] \ Asked(m) \in SUBSET Transaction
           /\ (pending[m.to] \ Asked(m)) \cup {Heard(t) : t \in Asked(m)}
                 \in SUBSET Transaction
  <1>1. m \in Message /\ m.to \in Ends /\ m.of \in Methods /\ m.n \in 0..MaxOffers
    BY DEF TypeOK, Message
  <1>2. pending[m.to] \in SUBSET Transaction
    BY <1>1 DEF TypeOK
  <1>3. \A t \in Transaction : Heard(t) \in Transaction
    BY DEF Heard, Transaction
  <1> QED
    BY <1>1, <1>2, <1>3 DEF Asked

\* The answer to an awaited message finds a dialog that goes on.
LEMMA AwaitedIsAlive ==
    ASSUME TypeOK, AnswersAreAwaited, NEW m \in net, m.class # "request"
    PROVE  Alive(m.to) /\ Asked(m) # {}
  <1>1. Awaits(m.to, m.of, m.n) /\ m.to \in Ends
    BY WaitingType DEF AnswersAreAwaited
  <1> QED
    BY <1>1, TypedEnds DEF Awaits, Asked

\* The steps a message causes keep the types.
LEMMA MessageStepType ==
    ASSUME TypeOK, InvitesAreNumbered, AnswersAreAwaited, RolesAreKept, NEW m \in net,
           Receives(m) \/ Challenges(m) \/ Loses(m)
    PROVE  TypeOK'
  <1>0. /\ m \in Message /\ m.to \in Ends /\ m.of \in Methods /\ m.n \in 0..MaxOffers
        /\ pending[m.to] \ Asked(m) \in SUBSET Transaction
        /\ (pending[m.to] \ Asked(m)) \cup {Heard(t) : t \in Asked(m)}
              \in SUBSET Transaction
    BY WaitingType
  <1>a. ASSUME NEW classes \in SUBSET {"2xx", "again", "failure", "1xx", "1xx100rel"}
        PROVE  Reply(m, classes) \subseteq Message
    <2>1. classes \cup (IF m.of = "INVITE" THEN {"100"} ELSE {}) \in SUBSET Classes
      BY DEF Classes, Provisional
    <2> QED
      BY <1>0, <2>1, AnswerType DEF Reply
  <1>b. /\ {"refused", "gaveUp", "resent", "lost", "challenged"} \subseteq Faults
        /\ {"Ringing", "Connected", "Terminated"} \subseteq States
        /\ "callee" \in Ends /\ "PRACK" \in Methods /\ "INVITE" \in Offers
    BY DEF Faults, States, Ends, Methods, Offers
  <1>c. \A d \in Ends : Alive(d) \/ (pending[d] = {} /\ d \notin shutting)
    BY TypedEnds
  <1>d. net \subseteq Message /\ net \ {m} \subseteq Message
    BY DEF TypeOK
  <1>1. ASSUME NEW classes \in SUBSET {"2xx", "again", "failure", "1xx", "1xx100rel"},
               Replies(m, classes),
               UNCHANGED <<state, dialog, offers, pending, ringing, pracked, shutting,
                           answers>>,
               unacked' \in BOOLEAN, faults' \subseteq Faults
        PROVE  TypeOK'
    <2>1. net' \subseteq Message
      BY <1>a, <1>d, <1>1 DEF Replies
    <2> QED
      BY <1>c, <1>1, <2>1, StaysType DEF TypeOK, Alive
  <1>2. CASE RecvFirstInvite(m)
    <2>0. m.n \in 1..MaxOffers
      BY <1>0, <1>2, TypedEnds, EndsFacts
         DEF RecvFirstInvite, Takes, InvitesAreNumbered, Placed
    <2>1. CASE \E rel \in BOOLEAN :
             /\ Moves("callee", "Ringing")
             /\ Becomes("callee", "established")
             /\ ringing' = m.n
             /\ unacked' = rel
             /\ Replies(m, {IF rel THEN "1xx100rel" ELSE "1xx"})
             /\ UNCHANGED answers
      <3>1. PICK rel \in BOOLEAN : /\ unacked' = rel
                                   /\ Replies(m, {IF rel THEN "1xx100rel" ELSE "1xx"})
        BY <2>1
      <3>2. net' \subseteq Message
        BY <1>a, <1>d, <3>1 DEF Replies
      <3>3. /\ state' \in [Ends -> States] /\ state'["callee"] = "Ringing"
            /\ \A d \in Ends \ {"callee"} : state'[d] = state[d]
        BY <1>b, <2>1, MovesType
      <3>4. dialog' \in [Ends -> {"initial", "early", "established"}]
        BY <2>1 DEF Becomes, TypeOK
      <3> QED
        BY <1>0, <1>c, <1>2, <2>1, <3>1, <3>2, <3>3, <3>4, StaysType
           DEF RecvFirstInvite, TypeOK, Alive
    <2>2. ASSUME NEW class \in {"failure", "again"}, Replies(m, {class}),
                 answers' = answers \cup {[n |-> m.n, class |-> class]},
                 state' \in [Ends -> States], \A d \in Ends \ {"callee"} : state'[d] = state[d],
                 UNCHANGED <<dialog, ringing, unacked>>
          PROVE  TypeOK'
      <3>1. net' \subseteq Message
        BY <1>a, <1>d, <2>2 DEF Replies
      <3>2. answers' \subseteq [n : 1..MaxOffers, class : {"2xx", "again", "failure"}]
        BY <2>0, <2>2 DEF TypeOK
      <3>3. pending["callee"] = {} /\ "callee" \notin shutting
        BY <1>b, <1>c, <1>2 DEF RecvFirstInvite, Alive
      <3> QED
        BY <1>c, <1>2, <2>2, <3>1, <3>2, <3>3, StaysType DEF RecvFirstInvite, TypeOK, Alive
    <2>3. CASE /\ Moves("callee", "Terminated")
               /\ Replies(m, {"failure"})
               /\ answers' = answers \cup {[n |-> m.n, class |-> "failure"]}
               /\ UNCHANGED <<dialog, ringing, unacked>>
      BY <1>b, <2>2, <2>3, MovesType
    <2>4. CASE /\ Replies(m, {"again"})
               /\ answers' = answers \cup {[n |-> m.n, class |-> "again"]}
               /\ UNCHANGED <<state, dialog, ringing, unacked>>
      BY <2>2, <2>4 DEF TypeOK
    <2> QED
      BY <1>2, <2>1, <2>3, <2>4 DEF RecvFirstInvite
  <1>3. CASE RecvOffer(m)
    BY <1>1, <1>3 DEF RecvOffer, TypeOK
  <1>4. CASE RecvOfferTooLate(m)
    BY <1>1, <1>b, <1>4 DEF RecvOfferTooLate, TypeOK
  <1>5. CASE RecvBye(m)
    <2>1. Reply(m, {"2xx"}) \in SUBSET Message
      BY <1>a
    <2> QED
      BY <1>0, <1>5, <2>1, TerminatesType DEF RecvBye, TypeOK
  <1>6. CASE RecvCancel(m)
    <2>1. CASE state[m.to] = "Ringing"
      <3>1. Reply(m, {"2xx"}) \subseteq Message
        BY <1>a
      <3>2. Final("failure") \subseteq Message
        BY <1>b, AnswerType DEF Final, Classes, Methods, Offers, TypeOK
      <3>3. Reply(m, {"2xx"}) \cup Final("failure") \in SUBSET Message
        BY <3>1, <3>2
      <3>4. answers' \subseteq [n : 1..MaxOffers, class : {"2xx", "again", "failure"}]
        <4>1. ringing \in 1..MaxOffers /\ Answers("failure")
          <5>1. m.to = "callee"
            BY <1>0, <2>1, EndsFacts DEF RolesAreKept
          <5>2. offers["caller"] \in 0..MaxOffers /\ ringing \in 1..offers["caller"]
            BY <2>1, <5>1, TypedEnds, EndsFacts DEF InvitesAreNumbered, TypeOK
          <5> QED
            BY <1>6, <2>1, <5>2, BoundsAssumption DEF RecvCancel
        <4> QED
          BY <4>1 DEF Answers, TypeOK
      <3> QED
        BY <1>0, <1>6, <2>1, <3>3, <3>4, TerminatesType DEF RecvCancel, TypeOK
    <2>2. CASE state[m.to] # "Ringing"
      BY <1>1, <1>6, <2>2 DEF RecvCancel, TypeOK
    <2> QED
      BY <2>1, <2>2
  <1>7. CASE RecvPrack(m)
    BY <1>1, <1>7 DEF RecvPrack, TypeOK
  <1>8. CASE Refuses(m)
    BY <1>1, <1>b, <1>8 DEF Refuses, TypeOK
  <1>9. CASE Challenges(m)
    BY <1>1, <1>b, <1>9 DEF Challenges, TypeOK
  <1>10. CASE Loses(m)
    BY <1>b, <1>c, <1>d, <1>10, StaysType DEF Loses, TypeOK, Alive
  <1>11. CASE Recv1xx(m)
    <2>1. Alive(m.to)
      BY <1>11, AwaitedIsAlive DEF Recv1xx, Provisional
    <2>2. dialog' \in [Ends -> {"initial", "early", "established"}]
      BY <1>11 DEF Recv1xx, Becomes, TypeOK
    <2> DEFINE W == (pending[m.to] \ Asked(m)) \cup {Heard(t) : t \in Asked(m)}
    <2>3. W \in SUBSET Transaction
      BY <1>0
    <2>4. \/ Requests(m.to, "PRACK", m.n, W, {m}) /\ pracked' = TRUE
          \/ /\ pending' = [pending EXCEPT ![m.to] = W]
             /\ net' = net \ {m} /\ UNCHANGED pracked
      BY <1>11 DEF Recv1xx
    <2> HIDE DEF W
    <2>5. /\ net' \subseteq Message /\ pending' \in [Ends -> SUBSET Transaction]
          /\ \A d \in Ends \ {m.to} : pending'[d] = pending[d]
          /\ pracked' \in BOOLEAN
      <3>1. CASE Requests(m.to, "PRACK", m.n, W, {m}) /\ pracked' = TRUE
        BY <1>0, <1>b, <2>3, <3>1, RequestsType
      <3>2. CASE /\ pending' = [pending EXCEPT ![m.to] = W]
                 /\ net' = net \ {m} /\ UNCHANGED pracked
        BY <1>d, <2>3, <3>2 DEF TypeOK
      <3> QED
        BY <2>4, <3>1, <3>2
    <2> QED
      BY <1>c, <1>11, <2>1, <2>2, <2>5, StaysType DEF Recv1xx, TypeOK, Alive
  <1>12. ASSUME NEW class \in {"2xx", "again", "failure"}, Answered(m, class),
                dialog' \in [Ends -> {"initial", "early", "established"}],
                UNCHANGED state \/ Moves(m.to, "Connected"),
                UNCHANGED <<offers, ringing, unacked, pracked, shutting, answers, faults>>
         PROVE  TypeOK'
    <2>1. Alive(m.to)
      BY <1>12, AwaitedIsAlive DEF Answered, Takes
    <2>2. /\ pending' \in [Ends -> SUBSET Transaction] /\ net' \subseteq Message
          /\ \A d \in Ends \ {m.to} : pending'[d] = pending[d]
      BY <1>0, <1>12 DEF Answered, TypeOK
    <2>3. /\ state' \in [Ends -> States] /\ Alive(m.to)'
          /\ \A d \in Ends \ {m.to} : state'[d] = state[d]
      <3>1. CASE UNCHANGED state
        BY <2>1, <3>1 DEF TypeOK, Alive
      <3>2. CASE Moves(m.to, "Connected")
        BY <1>0, <1>b, <3>2, MovesType DEF Alive
      <3> QED
        BY <1>12, <3>1, <3>2
    <2> QED
      BY <1>c, <1>12, <2>2, <2>3, StaysType DEF TypeOK, Alive
  <1>13. CASE Recv2xxOffer(m)
    <2>1. dialog' \in [Ends -> {"initial", "early", "established"}]
      BY <1>13 DEF Recv2xxOffer, Becomes, TypeOK
    <2> QED
      BY <1>12, <1>13, <2>1 DEF Recv2xxOffer
  <1>14. CASE RecvFailureOffer(m)
    BY <1>12, <1>14 DEF RecvFailureOffer, TypeOK
  <1>15. CASE RecvIgnored(m)
    BY <1>12, <1>15 DEF RecvIgnored, TypeOK
  <1>16. CASE RecvLast(m)
    BY <1>0, <1>16, TerminatesType DEF RecvLast, TypeOK
  <1>17. CASE RecvAgain(m)
    <2>1. Alive(m.to)
      BY <1>17, AwaitedIsAlive DEF RecvAgain, Takes
    <2>a. PICK of \in Offers : SendsOffer(m.to, of, pending[m.to] \ Asked(m), Done(m))
      BY <1>b, <1>17 DEF RecvAgain
    <2>2. /\ net' \subseteq Message /\ pending' \in [Ends -> SUBSET Transaction]
          /\ \A d \in Ends \ {m.to} : pending'[d] = pending[d]
          /\ offers' \in [Ends -> 0..MaxOffers]
      BY <1>0, <2>a, SendsOfferType
    <2>3. faults' \subseteq Faults
      BY <1>b, <1>17 DEF RecvAgain, TypeOK
    <2> QED
      BY <1>c, <1>17, <2>1, <2>2, <2>3, StaysType DEF RecvAgain, TypeOK, Alive
  <1>18. CASE RecvFails(m)
    <2>1. Reply(m, {}) \in SUBSET Message
      BY <1>a
    <2>2. \E last \in SUBSET Message : Terminates(m.to, {m}, last)
      BY <1>18, <2>1 DEF RecvFails
    <2> QED
      BY <1>0, <1>b, <1>18, <2>2, TerminatesType DEF RecvFails, TypeOK
  <1>19. CASE RecvChallengedBye(m)
    <2>1. Alive(m.to)
      BY <1>19, AwaitedIsAlive DEF RecvChallengedBye, Takes
    <2>2. /\ pending' \in [Ends -> SUBSET Transaction]
          /\ \A d \in Ends \ {m.to} : pending'[d] = pending[d]
      BY <1>0, <1>19 DEF RecvChallengedBye, TypeOK
    <2> QED
      BY <1>c, <1>d, <1>19, <2>1, <2>2, StaysType DEF RecvChallengedBye, TypeOK, Alive
  <1> QED
    BY <1>2, <1>3, <1>4, <1>5, <1>6, <1>7, <1>8, <1>9, <1>10, <1>11, <1>13, <1>14,
       <1>15, <1>16, <1>17, <1>18, <1>19 DEF Receives

------------------------------------------------------------------------------
\* The steps an end takes by itself, and those a message causes.
UserStep(e) ==
    \/ Calls \/ Accepts \/ Rejects \/ Cancels \/ Timer100rel
    \/ Refreshes(e) \/ Holds(e) \/ HangsUp(e) \/ ShutsDown(e)
    \/ ShutdownTimesOut(e) \/ TimesOut(e)
MessageStep(m) == Receives(m) \/ Challenges(m) \/ Loses(m)

\* Every step of a call is one of them.
LEMMA NextSteps ==
    ASSUME Next
    PROVE  (\E e \in Ends : UserStep(e)) \/ (\E m \in net : MessageStep(m))
  BY EndsFacts DEF Next, UserStep, MessageStep

\* An end that has ended has no transaction, and nothing is on its way to one.
Emptied(e) ==
    /\ state'[e] = "Terminated" /\ pending'[e] = {}
    /\ \A m \in net' : m.to = e => m.class = "request"

\* An answer ends a transaction and takes the other answers to it along.  A BYE is
\* ended like that only when it was challenged, and no other is under way.
Over(e, of, n) ==
    /\ \E m \in net : /\ m.class \in {"2xx", "again", "failure"} /\ m.to = e
                      /\ m.of = of /\ m.n = n
    /\ \A m \in net' : m.class # "request" => ~(m.to = e /\ m.of = of /\ m.n = n)
    /\ of = "BYE" =>
         /\ faults # {}
         /\ \A m \in net' : m.class = "request" => ~(m.of = "BYE" /\ m.to = Peer(e))

\* What a step may do to the transactions of an end that goes on: a provisional
\* answer is heard, a request is sent, or a transaction is over.
Goes(e) ==
    /\ \A t \in pending'[e] :
         \/ \E u \in pending[e] :
              /\ u.of = t.of /\ u.n = t.n
              /\ t.heard => \/ u.heard
                            \/ \E m \in net : /\ m.class \in Provisional /\ m.to = e
                                              /\ m.of = t.of /\ m.n = t.n
         \/ /\ ~t.heard
            /\ t.of = "INVITE" => t.n = offers[e] + 1 /\ offers'[e] = offers[e] + 1
    /\ \A u \in pending[e] : Awaits(e, u.of, u.n)' \/ Over(e, u.of, u.n)
PendingEffect == \A e \in Ends : Emptied(e) \/ Goes(e)

\* An end whose transactions stay as they are.
LEMMA StaysGoes ==
    ASSUME NEW e \in Ends, pending'[e] = pending[e]
    PROVE  Goes(e)
  BY DEF Goes, Awaits

\* The end of a dialog empties it and leaves the other end alone.
LEMMA TerminatesEffect ==
    ASSUME TypeOK, NEW e \in Ends, NEW taken, NEW last, Terminates(e, taken, last),
           \A m \in last : m.to = Peer(e)
    PROVE  PendingEffect
  <1>1. Emptied(e)
    BY EndsFacts DEF Emptied, Terminates, Moves, TypeOK
  <1>2. \A d \in Ends \ {e} : pending'[d] = pending[d]
    BY DEF Terminates, TypeOK
  <1> QED
    BY <1>1, <1>2, StaysGoes DEF PendingEffect

\* A request adds a transaction that nobody heard of.
LEMMA RequestsEffect ==
    ASSUME TypeOK, NEW e \in Ends, NEW of, NEW n, NEW passed,
           Requests(e, of, n, pending[e], passed),
           of = "INVITE" => n = offers[e] + 1 /\ offers'[e] = offers[e] + 1
    PROVE  PendingEffect
  <1> DEFINE t == [of |-> of, n |-> n, heard |-> FALSE]
  <1>1. /\ pending'[e] = pending[e] \cup {t}
        /\ \A d \in Ends \ {e} : pending'[d] = pending[d]
    BY DEF Requests, TypeOK
  <1>2. t.of = of /\ t.n = n /\ ~t.heard
    OBVIOUS
  <1> HIDE DEF t
  <1>3. Goes(e)
    BY <1>1, <1>2 DEF Goes, Awaits
  <1> QED
    BY <1>1, <1>3, StaysGoes DEF PendingEffect

\* So does an offer, with the next number.
LEMMA SendsOfferEffect ==
    ASSUME TypeOK, NEW e \in Ends, NEW of, NEW passed,
           SendsOffer(e, of, pending[e], passed)
    PROVE  PendingEffect
  <1>1. offers'[e] = offers[e] + 1
    BY DEF SendsOffer, TypeOK
  <1>2. Requests(e, of, offers[e] + 1, pending[e], passed)
    BY DEF SendsOffer
  <1> QED
    BY <1>1, <1>2, RequestsEffect

\* A final answer takes its transaction and the other answers to it along.
LEMMA AnsweredEffect ==
    ASSUME TypeOK, NEW m \in net, NEW class \in {"2xx", "again", "failure"},
           Answered(m, class), m.of # "BYE"
    PROVE  PendingEffect
  <1>0. m.to \in Ends /\ m.class = class
    BY WaitingType DEF Answered, Takes
  <1>1. /\ pending'[m.to] = pending[m.to] \ Asked(m)
        /\ \A d \in Ends \ {m.to} : pending'[d] = pending[d]
        /\ net' = net \ Done(m)
    BY <1>0 DEF Answered, TypeOK
  <1>2. Goes(m.to)
    <2>1. \A t \in pending'[m.to] : t \in pending[m.to]
      BY <1>1
    <2>2. ASSUME NEW u \in pending[m.to]
          PROVE  Awaits(m.to, u.of, u.n)' \/ Over(m.to, u.of, u.n)
      <3>1. CASE u.of = m.of /\ u.n = m.n
        <4>1. \A b \in net' : b.class # "request" =>
                 ~(b.to = m.to /\ b.of = u.of /\ b.n = u.n)
          BY <1>1, <3>1 DEF Done, AnswersTo
        <4> QED
          BY <1>0, <3>1, <4>1 DEF Over
      <3>2. CASE ~(u.of = m.of /\ u.n = m.n)
        <4>1. u \in pending'[m.to]
          BY <1>1, <3>2 DEF Asked
        <4> QED
          BY <4>1 DEF Awaits
      <3> QED
        BY <3>1, <3>2
    <2> QED
      BY <2>1, <2>2 DEF Goes
  <1> QED
    BY <1>1, <1>2, StaysGoes DEF PendingEffect

\* What an end does by itself to the transactions.
LEMMA UserPendingEffect ==
    ASSUME TypeOK, NEW e \in Ends, UserStep(e)
    PROVE  PendingEffect
  <1>0. "caller" \in Ends /\ "callee" \in Ends
    BY DEF Ends
  <1>1. CASE Calls
    <2>1. pending["caller"] = {}
      BY <1>0, <1>1, TypedEnds DEF Calls, Alive
    <2> QED
      BY <1>0, <1>1, <2>1, SendsOfferEffect DEF Calls
  <1>2. CASE Rejects
    <2>1. \A m \in Final("failure") : m.to = Peer("callee")
      BY <1>0, AnswerFields DEF Final
    <2> QED
      BY <1>0, <1>2, <2>1, TerminatesEffect DEF Rejects
  <1>3. CASE Cancels
    BY <1>0, <1>3, RequestsEffect DEF Cancels
  <1>4. CASE Refreshes(e)
    BY <1>4, SendsOfferEffect DEF Refreshes
  <1>5. CASE Holds(e)
    BY <1>5, SendsOfferEffect, StaysGoes DEF Holds, PendingEffect
  <1>6. CASE HangsUp(e)
    BY <1>6, RequestsEffect DEF HangsUp
  <1>7. CASE ShutsDown(e)
    BY <1>7, RequestsEffect, StaysGoes DEF ShutsDown, PendingEffect
  <1>8. CASE ShutdownTimesOut(e) \/ TimesOut(e)
    BY <1>8, TerminatesEffect DEF ShutdownTimesOut, TimesOut
  <1>9. CASE Timer100rel
    <2>1. CASE Terminates("callee", {}, {})
      BY <1>0, <2>1, TerminatesEffect
    <2>2. CASE UNCHANGED pending
      BY <2>2, StaysGoes DEF PendingEffect
    <2> QED
      BY <1>9, <2>1, <2>2 DEF Timer100rel
  <1>10. CASE Accepts
    BY <1>10, StaysGoes DEF Accepts, PendingEffect
  <1> QED
    BY <1>1, <1>2, <1>3, <1>4, <1>5, <1>6, <1>7, <1>8, <1>9, <1>10 DEF UserStep

\* What a message does to them.
LEMMA MessagePendingEffect ==
    ASSUME TypeOK, AnswersAreAwaited, RolesAreKept, NEW m \in net, MessageStep(m)
    PROVE  PendingEffect
  <1>0. m.to \in Ends /\ \A classes : \A b \in Reply(m, classes) : b.to = Peer(m.to)
    BY WaitingType, AnswerFields DEF Reply
  <1>1. CASE UNCHANGED pending
    BY <1>1, StaysGoes DEF PendingEffect
  <1>2. CASE RecvBye(m)
    BY <1>0, <1>2, TerminatesEffect DEF RecvBye
  <1>3. CASE RecvCancel(m) /\ state[m.to] = "Ringing"
    <2>1. m.to = "callee"
      BY <1>0, <1>3, EndsFacts DEF RolesAreKept
    <2>2. \A b \in Final("failure") : b.to = Peer(m.to)
      BY <1>0, <2>1, AnswerFields DEF Final
    <2>3. Terminates(m.to, {m}, Reply(m, {"2xx"}) \cup Final("failure"))
      BY <1>3 DEF RecvCancel
    <2> QED
      BY <1>0, <2>2, <2>3, TerminatesEffect
  <1>4. CASE RecvLast(m)
    BY <1>0, <1>4, TerminatesEffect DEF RecvLast
  <1>5. CASE RecvFails(m)
    <2>1. \E last : Terminates(m.to, {m}, last) /\ \A b \in last : b.to = Peer(m.to)
      BY <1>0, <1>5 DEF RecvFails
    <2> QED
      BY <1>0, <2>1, TerminatesEffect
  <1>6. CASE Recv2xxOffer(m) \/ RecvFailureOffer(m) \/ RecvIgnored(m)
    BY <1>6, AnsweredEffect DEF Recv2xxOffer, RecvFailureOffer, RecvIgnored, Offers
  <1>7. CASE RecvAgain(m)
    <2>1. m.class = "again" /\ m.of # "BYE"
      BY <1>7 DEF RecvAgain, Takes, Offers
    <2>a. PICK of : SendsOffer(m.to, of, pending[m.to] \ Asked(m), Done(m))
      BY <1>7 DEF RecvAgain
    <2> DEFINE t == [of |-> of, n |-> offers[m.to] + 1, heard |-> FALSE]
    <2>2. /\ pending'[m.to] = (pending[m.to] \ Asked(m)) \cup {t}
          /\ \A d \in Ends \ {m.to} : pending'[d] = pending[d]
          /\ net' = (net \ Done(m)) \cup {Msg(Peer(m.to), "request", of, offers[m.to] + 1)}
          /\ offers'[m.to] = offers[m.to] + 1
      BY <1>0, <2>a DEF SendsOffer, Requests, TypeOK
    <2>3. t.n = offers[m.to] + 1 /\ ~t.heard
      OBVIOUS
    <2> HIDE DEF t
    <2>4. \A b \in net' : b.class # "request" => b \in net \ Done(m)
      BY <2>2, MsgFields
    <2>5. \A u \in pending'[m.to] : u = t \/ u \in pending[m.to]
      BY <2>2
    <2>6. ASSUME NEW u \in pending[m.to]
          PROVE  Awaits(m.to, u.of, u.n)' \/ Over(m.to, u.of, u.n)
      <3>1. CASE u.of = m.of /\ u.n = m.n
        <4>1. \A b \in net' : b.class # "request" =>
                 ~(b.to = m.to /\ b.of = u.of /\ b.n = u.n)
          BY <2>4, <3>1 DEF Done, AnswersTo
        <4> QED
          BY <2>1, <3>1, <4>1 DEF Over
      <3>2. CASE ~(u.of = m.of /\ u.n = m.n)
        <4>1. u \in pending'[m.to]
          BY <2>2, <3>2 DEF Asked
        <4> QED
          BY <4>1 DEF Awaits
      <3> QED
        BY <3>1, <3>2
    <2>7. Goes(m.to)
      BY <2>2, <2>3, <2>5, <2>6 DEF Goes
    <2> QED
      BY <2>2, <2>7, StaysGoes DEF PendingEffect
  <1>8. CASE Recv1xx(m)
    <2> DEFINE W == (pending[m.to] \ Asked(m)) \cup {Heard(t) : t \in Asked(m)}
               p == [of |-> "PRACK", n |-> m.n, heard |-> FALSE]
    <2>1. \A t \in Transaction : Heard(t).of = t.of /\ Heard(t).n = t.n
      BY DEF Heard, Transaction
    <2>2. pending[m.to] \in SUBSET Transaction
      BY <1>0, TypedEnds
    <2>3. \A t \in W : /\ \E u \in pending[m.to] : u.of = t.of /\ u.n = t.n
                       /\ t \in pending[m.to] \/ (t.of = m.of /\ t.n = m.n)
      BY <2>1, <2>2 DEF Asked
    <2>4. \A u \in pending[m.to] : \E t \in W : t.of = u.of /\ t.n = u.n
      <3> TAKE u \in pending[m.to]
      <3>1. CASE u \in Asked(m)
        <4>1. Heard(u) \in W /\ Heard(u).of = u.of /\ Heard(u).n = u.n
          BY <2>1, <2>2, <3>1
        <4> QED
          BY <4>1
      <3>2. CASE u \notin Asked(m)
        BY <3>2
      <3> QED
        BY <3>1, <3>2
    <2>5. p.of = "PRACK" /\ ~p.heard
      OBVIOUS
    <2>6. /\ pending'[m.to] = W \cup {p} \/ pending'[m.to] = W
          /\ \A d \in Ends \ {m.to} : pending'[d] = pending[d]
      <3>1. CASE Requests(m.to, "PRACK", m.n, W, {m}) /\ pracked' = TRUE
        BY <1>0, <3>1 DEF Requests, TypeOK
      <3>2. CASE pending' = [pending EXCEPT ![m.to] = W]
        BY <1>0, <3>2 DEF TypeOK
      <3> QED
        BY <1>8, <3>1, <3>2 DEF Recv1xx
    <2>7. m.class \in Provisional
      BY <1>8 DEF Recv1xx
    <2> HIDE DEF W, p
    <2>8. ASSUME NEW t \in pending'[m.to]
          PROVE  \/ \E u \in pending[m.to] :
                      /\ u.of = t.of /\ u.n = t.n
                      /\ t.heard => \/ u.heard
                                    \/ \E b \in net : /\ b.class \in Provisional
                                                      /\ b.to = m.to
                                                      /\ b.of = t.of /\ b.n = t.n
                 \/ ~t.heard /\ t.of # "INVITE"
      <3>1. CASE t = p
        BY <2>5, <3>1
      <3>2. CASE t \in pending[m.to]
        BY <3>2
      <3>3. CASE t \in W /\ t.of = m.of /\ t.n = m.n
        BY <2>3, <2>7, <3>3
      <3> QED
        BY <2>3, <2>6, <3>1, <3>2, <3>3
    <2>9. \A u \in pending[m.to] : Awaits(m.to, u.of, u.n)'
      BY <2>4, <2>6 DEF Awaits
    <2>10. Goes(m.to)
      BY <2>8, <2>9 DEF Goes
    <2> QED
      BY <2>6, <2>10, StaysGoes DEF PendingEffect
  <1>9. CASE RecvChallengedBye(m) /\ ~SentAnother(m)
    <2>1. /\ m.class = "again" /\ m.of = "BYE" /\ net' = net \ {m}
          /\ pending'[m.to] = pending[m.to] \ Asked(m)
          /\ \A d \in Ends \ {m.to} : pending'[d] = pending[d]
      BY <1>0, <1>9 DEF RecvChallengedBye, Takes, TypeOK
    <2>2. faults # {}
      BY <2>1 DEF AnswersAreAwaited
    <2>3. \A b \in net' :
             b.of = "BYE" => b.to # IF b.class = "request" THEN Peer(m.to) ELSE m.to
      BY <1>9, <2>1 DEF SentAnother
    <2>4. ASSUME NEW u \in pending[m.to]
          PROVE  Awaits(m.to, u.of, u.n)' \/ Over(m.to, u.of, u.n)
      <3>1. CASE u.of = m.of /\ u.n = m.n
        BY <2>1, <2>2, <2>3, <3>1 DEF Over
      <3>2. CASE ~(u.of = m.of /\ u.n = m.n)
        <4>1. u \in pending'[m.to]
          BY <2>1, <3>2 DEF Asked
        <4> QED
          BY <4>1 DEF Awaits
      <3> QED
        BY <3>1, <3>2
    <2>5. Goes(m.to)
      BY <2>1, <2>4 DEF Goes
    <2> QED
      BY <2>1, <2>5, StaysGoes DEF PendingEffect
  <1>10. CASE RecvChallengedBye(m) /\ SentAnother(m)
    BY <1>1, <1>10 DEF RecvChallengedBye
  <1> QED
    BY <1>1, <1>2, <1>3, <1>4, <1>5, <1>6, <1>7, <1>8, <1>9, <1>10
       DEF MessageStep, Receives, RecvFirstInvite, RecvOffer, RecvOfferTooLate,
           RecvCancel, RecvPrack, Refuses, Challenges, Loses

------------------------------------------------------------------------------
(* What a step puts into the network.                                      *)

\* A request has a transaction of its sender that waits.
NewRequest(b) ==
    /\ b.class = "request"
    /\ Awaits(Peer(b.to), b.of, b.n)'
    /\ b.of = "INVITE" => /\ b.n = offers[Peer(b.to)] + 1
                          /\ offers'[Peer(b.to)] = b.n
    /\ b.of = "BYE" => state'[Peer(b.to)] = "Trying"
\* An answer is awaited; one of the callee to an INVITE is for the INVITE it rings
\* for or for one it takes.
NewAnswer(b) ==
    /\ b.class # "request"
    /\ Awaits(b.to, b.of, b.n) /\ pending'[b.to] = pending[b.to]
    /\ b.class = "again" /\ b.of = "BYE" => "challenged" \in faults'
    /\ b.to = "caller" /\ b.of = "INVITE" =>
         \/ b.n = ringing /\ (b.class \in Provisional \/ state'["callee"] # "Ringing")
         \/ \E q \in net : Placed(q) /\ q.n = b.n /\ q \notin net'
    /\ Ending(b) => state'[Peer(b.to)] = "Terminated" \/ faults' # {}
    /\ b.class = "2xx" /\ b.of \in Offers /\ b.to = "caller" =>
         Accepted' \/ faults' # {} \/ state["callee"] \in {"Outgoing", "Connected"}
NetEffect == \A b \in net' : b \in net \/ NewRequest(b) \/ NewAnswer(b)

\* A request is put into the network with its transaction.
LEMMA RequestsNet ==
    ASSUME TypeOK, NEW e \in Ends, NEW of, NEW n, NEW waiting, NEW passed,
           Requests(e, of, n, waiting, passed),
           of = "INVITE" => n = offers[e] + 1 /\ offers'[e] = offers[e] + 1,
           of = "BYE" => state'[e] = "Trying"
    PROVE  NetEffect
  <1> DEFINE t == [of |-> of, n |-> n, heard |-> FALSE]
             r == Msg(Peer(e), "request", of, n)
  <1>1. t \in pending'[e] /\ net' = (net \ passed) \cup {r}
    BY DEF Requests, TypeOK
  <1>2. t.of = of /\ t.n = n
    OBVIOUS
  <1>3. r.to = Peer(e) /\ r.class = "request" /\ r.of = of /\ r.n = n /\ Peer(r.to) = e
    BY MsgFields, EndsFacts
  <1> HIDE DEF t, r
  <1>4. Awaits(e, of, n)'
    BY <1>1, <1>2 DEF Awaits
  <1>5. NewRequest(r)
    BY <1>3, <1>4 DEF NewRequest
  <1> QED
    BY <1>1, <1>5 DEF NetEffect

\* An offer is put there with its number.
LEMMA SendsOfferNet ==
    ASSUME TypeOK, NEW e \in Ends, NEW of \in Offers, NEW waiting, NEW passed,
           SendsOffer(e, of, waiting, passed)
    PROVE  NetEffect
  <1>1. offers'[e] = offers[e] + 1
    BY DEF SendsOffer, TypeOK
  <1>2. Requests(e, of, offers[e] + 1, waiting, passed) /\ of # "BYE"
    BY DEF SendsOffer, Offers
  <1> QED
    BY <1>1, <1>2, RequestsNet

\* The answers of the callee to the INVITE it rings for.
LEMMA FinalIsNew ==
    ASSUME NEW class \in {"2xx", "failure", "1xx100rel"},
           NEW b \in Answer("callee", {class}, "INVITE", ringing),
           pending'["caller"] = pending["caller"],
           class # "1xx100rel" => state'["callee"] # "Ringing",
           class = "failure" => state'["callee"] = "Terminated",
           class = "2xx" => Accepted'
    PROVE  NewAnswer(b)
  <1>1. /\ b.to = "caller" /\ b.class = class /\ b.of = "INVITE" /\ b.n = ringing
        /\ Awaits("caller", "INVITE", ringing)
    BY AnswerFields, EndsFacts
  <1>2. Ending(b) => state'[Peer(b.to)] = "Terminated"
    BY <1>1, EndsFacts DEF Ending
  <1> QED
    BY <1>1, <1>2 DEF NewAnswer, Provisional

\* The answers to a request that is taken.
LEMMA ReplyIsNew ==
    ASSUME TypeOK, NEW m \in net, m.class = "request", m \notin net',
           NEW classes \in SUBSET {"2xx", "again", "failure", "1xx", "1xx100rel"},
           NEW b \in Reply(m, classes),
           pending'[Peer(m.to)] = pending[Peer(m.to)],
           "again" \in classes /\ m.of = "BYE" => "challenged" \in faults',
           \/ state'[m.to] = "Terminated" \/ faults' # {}
           \/ /\ m.of \in {"BYE", "CANCEL"} => classes \cap {"2xx", "failure"} = {}
              /\ m.of = "INVITE" /\ m.to = "callee" => "failure" \notin classes,
           "2xx" \in classes /\ m.of \in Offers /\ m.to = "callee" =>
             faults' # {} \/ state["callee"] \in {"Outgoing", "Connected"}
    PROVE  NewAnswer(b)
  <1>0. m.to \in Ends
    BY WaitingType
  <1>1. /\ b.to = Peer(m.to) /\ b.of = m.of /\ b.n = m.n /\ Awaits(b.to, b.of, b.n)
        /\ b.class \in classes \/ (b.class = "100" /\ m.of = "INVITE")
    BY <1>0, AnswerFields DEF Reply
  <1>2. b.to = "caller" <=> m.to = "callee"
    BY <1>0, <1>1, EndsFacts
  <1>3. Peer(b.to) = m.to
    BY <1>0, <1>1, EndsFacts
  <1>4. Ending(b) => state'[Peer(b.to)] = "Terminated" \/ faults' # {}
    BY <1>1, <1>2, <1>3 DEF Ending
  <1>5. b.to = "caller" /\ b.of = "INVITE" =>
            \E q \in net : Placed(q) /\ q.n = b.n /\ q \notin net'
    BY <1>1, <1>2 DEF Placed
  <1>6. b.class # "request" /\ (b.class = "again" /\ b.of = "BYE" => "challenged" \in faults')
    BY <1>1
  <1>7. b.class = "2xx" /\ b.of \in Offers /\ b.to = "caller" =>
           faults' # {} \/ state["callee"] \in {"Outgoing", "Connected"}
    BY <1>1, <1>2
  <1> QED
    BY <1>1, <1>4, <1>5, <1>6, <1>7 DEF NewAnswer

\* What an end puts into the network by itself.
LEMMA UserNetEffect ==
    ASSUME TypeOK, NEW e \in Ends, UserStep(e)
    PROVE  NetEffect
  <1>0. "caller" \in Ends /\ "callee" \in Ends /\ "INVITE" \in Offers
    BY DEF Ends, Offers
  <1>1. CASE Calls
    BY <1>0, <1>1, SendsOfferNet DEF Calls
  <1>2. CASE Accepts
    <2>1. /\ net' = net \cup Answer("callee", {"2xx"}, "INVITE", ringing)
          /\ pending' = pending /\ state'["callee"] # "Ringing"
      BY <1>0, <1>2 DEF Accepts, Final, Moves, TypeOK
    <2>2. [n |-> ringing, class |-> "2xx"] \in answers'
      BY <1>2 DEF Accepts, Answers
    <2>3. Accepted'
      BY <2>2 DEF Accepted
    <2> QED
      BY <2>1, <2>3, FinalIsNew DEF NetEffect
  <1>3. CASE Rejects
    <2>1. /\ \A b \in net' : b \in net \/ b \in Answer("callee", {"failure"}, "INVITE", ringing)
          /\ pending'["caller"] = pending["caller"] /\ state'["callee"] = "Terminated"
      BY <1>0, <1>3 DEF Rejects, Terminates, Final, Moves, TypeOK
    <2> QED
      BY <2>1, FinalIsNew DEF NetEffect
  <1>4. CASE Cancels
    BY <1>0, <1>4, RequestsNet DEF Cancels
  <1>5. CASE Timer100rel
    <2>1. CASE Terminates("callee", {}, {})
      BY <2>1 DEF Terminates, NetEffect
    <2>2. CASE net' = net \cup Ringing /\ pending' = pending
      <3>1. net' = net \cup Answer("callee", {"1xx100rel"}, "INVITE", ringing)
        BY <2>2 DEF Ringing
      <3> QED
        BY <2>2, <3>1, FinalIsNew DEF NetEffect
    <2> QED
      BY <1>5, <2>1, <2>2 DEF Timer100rel
  <1>6. CASE Refreshes(e)
    BY <1>6, SendsOfferNet DEF Refreshes
  <1>7. CASE Holds(e)
    BY <1>0, <1>7, SendsOfferNet DEF Holds, NetEffect
  <1>8. CASE HangsUp(e)
    <2>1. Requests(e, "BYE", 0, pending[e], {}) /\ state'[e] = "Trying"
      BY <1>8 DEF HangsUp, Moves, TypeOK
    <2> QED
      BY <2>1, RequestsNet
  <1>9. CASE ShutsDown(e)
    <2>1. state'[e] = "Trying"
      BY <1>9 DEF ShutsDown, Moves, TypeOK
    <2>2. \/ \E of \in {"BYE", "CANCEL"}, n \in {0, offers[e]} : Requests(e, of, n, pending[e], {})
          \/ net' = net
      BY <1>9 DEF ShutsDown
    <2>3. CASE net' = net
      BY <2>3 DEF NetEffect
    <2> QED
      BY <2>1, <2>2, <2>3, RequestsNet
  <1>10. CASE ShutdownTimesOut(e) \/ TimesOut(e)
    BY <1>10 DEF ShutdownTimesOut, TimesOut, Terminates, NetEffect
  <1> QED
    BY <1>1, <1>2, <1>3, <1>4, <1>5, <1>6, <1>7, <1>8, <1>9, <1>10 DEF UserStep

\* What an end puts there because of a message.
LEMMA MessageNetEffect ==
    ASSUME TypeOK, RolesAreKept, NEW m \in net, MessageStep(m)
    PROVE  NetEffect
  <1>0. m.to \in Ends /\ Peer(m.to) \in Ends /\ Peer(m.to) # m.to
    BY WaitingType, EndsFacts
  <1>a. \A classes : m.class = "request" => m \notin Reply(m, classes)
    <2>1. \A classes : \A b \in Reply(m, classes) : b.to = Peer(m.to)
      BY <1>0, AnswerFields DEF Reply
    <2> QED
      BY <1>0, <2>1
  <1>1. ASSUME NEW classes \in SUBSET {"2xx", "again", "failure", "1xx", "1xx100rel"},
               Replies(m, classes), m.class = "request", pending' = pending,
               "again" \in classes /\ m.of = "BYE" => "challenged" \in faults',
               \/ state'[m.to] = "Terminated" \/ faults' # {}
               \/ /\ m.of \in {"BYE", "CANCEL"} => classes \cap {"2xx", "failure"} = {}
                  /\ m.of = "INVITE" /\ m.to = "callee" => "failure" \notin classes,
               "2xx" \in classes /\ m.of \in Offers /\ m.to = "callee" =>
                 faults' # {} \/ state["callee"] \in {"Outgoing", "Connected"}
        PROVE  NetEffect
    <2>1. m \notin net' /\ net' = (net \ {m}) \cup Reply(m, classes)
      BY <1>a, <1>1 DEF Replies
    <2>2. \A b \in Reply(m, classes) : NewAnswer(b)
      BY <1>1, <2>1, ReplyIsNew
    <2> QED
      BY <2>1, <2>2 DEF NetEffect
  <1>2. CASE RecvFirstInvite(m)
    <2>0. m.class = "request" /\ m.of = "INVITE" /\ m.to = "callee" /\ pending' = pending
      BY <1>2 DEF RecvFirstInvite, Takes
    <2>1. CASE \E class \in {"1xx100rel", "1xx"} : Replies(m, {class})
      BY <1>1, <2>0, <2>1
    <2>2. CASE Moves("callee", "Terminated") /\ Replies(m, {"failure"})
      <3>1. state'[m.to] = "Terminated"
        BY <1>0, <2>0, <2>2 DEF Moves, TypeOK
      <3> QED
        BY <1>1, <2>0, <2>2, <3>1
    <2>3. CASE Replies(m, {"again"})
      BY <1>1, <2>0, <2>3
    <2> QED
      BY <1>2, <2>1, <2>2, <2>3 DEF RecvFirstInvite
  <1>3. CASE RecvOffer(m)
    <2>1. CASE state[m.to] \in {"Outgoing", "Connected"}
      BY <1>1, <1>3, <2>1 DEF RecvOffer, Takes, Offers
    <2>2. CASE state[m.to] \notin {"Outgoing", "Connected"}
      BY <1>1, <1>3, <2>2 DEF RecvOffer, Takes, Offers
    <2> QED
      BY <2>1, <2>2
  <1>4. CASE RecvOfferTooLate(m)
    <2>1. m.class = "request" /\ pending' = pending /\ faults' # {}
      BY <1>4 DEF RecvOfferTooLate, Takes
    <2>2. PICK classes \in {{}, {"2xx"}, {"failure"}} : Replies(m, classes)
      BY <1>4 DEF RecvOfferTooLate
    <2> QED
      BY <1>1, <2>1, <2>2
  <1>5. CASE RecvPrack(m)
    BY <1>1, <1>5 DEF RecvPrack, Takes, Offers
  <1>6. CASE Refuses(m)
    <2>1. /\ m.class = "request" /\ pending' = pending /\ Replies(m, {"failure"})
          /\ faults' # {} \/ state'[m.to] = "Terminated"
      BY <1>6 DEF Refuses, Takes
    <2> QED
      BY <1>1, <2>1
  <1>7. CASE Challenges(m)
    BY <1>1, <1>7 DEF Challenges, Takes
  <1>8. ASSUME NEW last, Terminates(m.to, {m}, last), \A b \in last : NewAnswer(b)
        PROVE  NetEffect
    BY <1>8 DEF Terminates, NetEffect
  <1>9. ASSUME NEW last, Terminates(m.to, {m}, last)
        PROVE  /\ state'[m.to] = "Terminated" /\ pending'[Peer(m.to)] = pending[Peer(m.to)]
               /\ m \in last \/ m \notin net'
    BY <1>0, <1>9 DEF Terminates, Moves, TypeOK
  <1>10. CASE RecvBye(m)
    <2>1. /\ m.class = "request" /\ m.of = "BYE" /\ Terminates(m.to, {m}, Reply(m, {"2xx"}))
      BY <1>10 DEF RecvBye, Takes
    <2>2. \A b \in Reply(m, {"2xx"}) : NewAnswer(b)
      BY <1>a, <1>9, <2>1, ReplyIsNew DEF Offers
    <2> QED
      BY <1>8, <2>1, <2>2
  <1>11. CASE RecvCancel(m)
    <2>1. CASE state[m.to] = "Ringing"
      <3>1. /\ m.class = "request" /\ m.of = "CANCEL"
            /\ Terminates(m.to, {m}, Reply(m, {"2xx"}) \cup Final("failure"))
        BY <1>11, <2>1 DEF RecvCancel, Takes
      <3>2. m.to = "callee" /\ Peer(m.to) = "caller"
        BY <1>0, <2>1, EndsFacts DEF RolesAreKept
      <3>3. m \notin Final("failure")
        BY <1>0, <3>2, AnswerFields DEF Final
      <3>4. /\ state'["callee"] = "Terminated" /\ pending'["caller"] = pending["caller"]
            /\ m \notin net'
        BY <1>a, <1>9, <3>1, <3>2, <3>3
      <3>5. \A b \in Reply(m, {"2xx"}) : NewAnswer(b)
        BY <3>1, <3>2, <3>4, ReplyIsNew DEF Offers
      <3>6. \A b \in Final("failure") : NewAnswer(b)
        BY <3>4, FinalIsNew DEF Final
      <3> QED
        BY <1>8, <3>1, <3>5, <3>6
    <2>2. CASE state[m.to] # "Ringing"
      BY <1>1, <1>11, <2>2 DEF RecvCancel, Takes, Offers
    <2> QED
      BY <2>1, <2>2
  <1>12. CASE RecvLast(m)
    BY <1>8, <1>12 DEF RecvLast
  <1>13. CASE RecvFails(m)
    <2>1. CASE Terminates(m.to, {m}, {})
      BY <1>8, <2>1
    <2>2. CASE /\ m.class = "request" /\ m.of \in Offers
               /\ Terminates(m.to, {m}, Reply(m, {}))
      <3>1. \A b \in Reply(m, {}) : NewAnswer(b)
        BY <1>a, <1>9, <2>2, ReplyIsNew
      <3> QED
        BY <1>8, <2>2, <3>1
    <2> QED
      BY <1>13, <2>1, <2>2 DEF RecvFails
  <1>14. CASE net' \subseteq net
    BY <1>14 DEF NetEffect
  <1>15. CASE \/ Recv2xxOffer(m) \/ RecvFailureOffer(m) \/ RecvIgnored(m)
              \/ RecvChallengedBye(m) \/ Loses(m)
    BY <1>14, <1>15 DEF Recv2xxOffer, RecvFailureOffer, RecvIgnored, RecvChallengedBye,
                        Loses, Answered
  <1>16. CASE Recv1xx(m)
    <2>1. (\E w : Requests(m.to, "PRACK", m.n, w, {m})) \/ net' \subseteq net
      BY <1>16 DEF Recv1xx
    <2> QED
      BY <1>0, <1>14, <2>1, RequestsNet
  <1>17. CASE RecvAgain(m)
    <2>1. PICK of \in Offers : SendsOffer(m.to, of, pending[m.to] \ Asked(m), Done(m))
      BY <1>17 DEF RecvAgain, Offers
    <2> QED
      BY <1>0, <2>1, SendsOfferNet
  <1> QED
    BY <1>2, <1>3, <1>4, <1>5, <1>6, <1>7, <1>10, <1>11, <1>12, <1>13, <1>15, <1>16,
       <1>17 DEF MessageStep, Receives

------------------------------------------------------------------------------
(* What a step does to the states of the ends, and to what the callee says. *)

\* The rows an end may take.
Rows(e) ==
    \/ state'[e] = state[e]
    \/ state'[e] = "Terminated"
    \/ e = "caller" /\ state[e] = "Started" /\ state'[e] = "Outgoing"
    \/ e = "caller" /\ state[e] = "Outgoing" /\ state'[e] = "Cancelling"
    \/ e = "callee" /\ state[e] = "Started" /\ state'[e] = "Ringing"
    \/ e = "callee" /\ state[e] = "Ringing" /\ state'[e] = "Connected" /\ Accepted'
    \/ state[e] = "Connected" /\ state'[e] = "Holding"
    \/ state[e] = "Holding" /\ state'[e] = "Connected"
    \/ /\ state[e] = "Outgoing" /\ state'[e] = "Connected"
       /\ \E b \in net : b.class = "2xx" /\ b.of \in Offers /\ b.to = e
    \/ /\ Alive(e) /\ state'[e] = "Trying"
       /\ e \in shutting' \/ dialog[e] = "established"
\* Only a 2xx establishes the caller, only the end of a dialog stops its shutdown
\* timer, and nothing is ever taken back.
Keeps(e) ==
    /\ e = "caller" /\ dialog'[e] = "established" =>
         \/ dialog[e] = "established"
         \/ \E b \in net : b.class = "2xx" /\ b.of \in Offers /\ b.to = e
    /\ e \in shutting => e \in shutting' \/ state'[e] = "Terminated"
    /\ offers[e] <= offers'[e]
StateEffect == (\A e \in Ends : Rows(e) /\ Keeps(e)) /\ faults \subseteq faults'

\* The callee answers the INVITE it rings for, and leaves the ringing, or one that
\* it takes before it rings; it rings for an INVITE it takes.
CalleeEffect ==
    /\ \/ answers' = answers
       \/ \E a : /\ answers' = answers \cup {a}
                 /\ \/ /\ state["callee"] = "Ringing" /\ a.n = ringing
                       /\ state'["callee"] \notin {"Started", "Ringing"}
                    \/ /\ state["callee"] = "Started" /\ a.class # "2xx"
                       /\ state'["callee"] # "Ringing"
                       /\ \E q \in net : Placed(q) /\ q.n = a.n /\ q \notin net'
    /\ \/ ringing' \in {0, ringing}
       \/ \E q \in net : Placed(q) /\ q.n = ringing' /\ q \notin net'
    /\ state'["callee"] = "Ringing" =>
         \/ state["callee"] = "Ringing" /\ ringing' = ringing
         \/ /\ state["callee"] = "Started" /\ answers' = answers
            /\ \E q \in net : Placed(q) /\ q.n = ringing' /\ q \notin net'
            /\ \A b \in net' : /\ b \notin net /\ b.class # "request"
                               /\ b.to = "caller" /\ b.of = "INVITE"
                               => b.class \in Provisional

\* A step that leaves the states of the ends alone.
LEMMA StillState ==
    ASSUME TypeOK, UNCHANGED state, faults \subseteq faults',
           \A e \in Ends : Keeps(e)
    PROVE  StateEffect
  BY DEF StateEffect, Rows

\* A step that neither establishes an end nor stops a shutdown.
LEMMA StillKeeps ==
    ASSUME TypeOK, dialog' = dialog, \A e \in Ends : offers[e] <= offers'[e],
           NEW e \in Ends, e \in shutting => e \in shutting' \/ state'[e] = "Terminated"
    PROVE  Keeps(e)
  BY DEF Keeps

\* A step that leaves the answers of the callee, and the INVITE it rings for, alone.
LEMMA StillCallee ==
    ASSUME UNCHANGED <<ringing, answers>>,
           state'["callee"] = "Ringing" => state["callee"] = "Ringing"
    PROVE  CalleeEffect
  BY DEF CalleeEffect

\* The offers are only counted up.
LEMMA OffersGrow ==
    ASSUME TypeOK, NEW e \in Ends, NEW of, NEW waiting, NEW passed,
           \/ SendsOffer(e, of, waiting, passed)
           \/ UNCHANGED offers
    PROVE  \A d \in Ends : offers[d] <= offers'[d]
  <1>1. \A d \in Ends : offers[d] \in Int
    BY TypedEnds
  <1>2. \/ offers' = offers
        \/ offers'[e] = offers[e] + 1 /\ \A d \in Ends \ {e} : offers'[d] = offers[d]
    BY DEF SendsOffer, TypeOK
  <1> QED
    BY <1>1, <1>2

\* The end of a dialog moves that dialog only.
LEMMA TerminatesState ==
    ASSUME TypeOK, NEW e \in Ends, NEW taken, NEW last, Terminates(e, taken, last),
           faults \subseteq faults'
    PROVE  /\ StateEffect /\ state'[e] = "Terminated"
           /\ \A d \in Ends \ {e} : state'[d] = state[d]
           /\ ringing' \in {0, ringing}
           /\ e # "callee" \/ ringing' = 0
  <1>1. /\ state'[e] = "Terminated" /\ \A d \in Ends \ {e} : state'[d] = state[d]
    BY DEF Terminates, Moves, TypeOK
  <1>2. /\ dialog' = dialog /\ offers' = offers
        /\ \A d \in Ends : d \in shutting => d \in shutting' \/ d = e
        /\ ringing' \in {0, ringing} /\ (e # "callee" \/ ringing' = 0)
    BY DEF Terminates
  <1>3. \A d \in Ends : offers[d] <= offers'[d]
    BY <1>2, OffersGrow
  <1>4. \A d \in Ends : Keeps(d)
    BY <1>1, <1>2, <1>3, StillKeeps
  <1>5. \A d \in Ends : Rows(d)
    BY <1>1 DEF Rows
  <1> QED
    BY <1>1, <1>2, <1>4, <1>5 DEF StateEffect

\* How an end moves by itself.
LEMMA UserStateEffect ==
    ASSUME TypeOK, NEW e \in Ends, UserStep(e)
    PROVE  StateEffect /\ CalleeEffect
  <1>0. "caller" \in Ends /\ "callee" \in Ends /\ "INVITE" \in Offers
    BY DEF Ends, Offers
  <1>a. ASSUME dialog' = dialog, shutting \subseteq shutting', faults' = faults,
               \/ \E d \in Ends : \E of, waiting, passed : SendsOffer(d, of, waiting, passed)
               \/ offers' = offers
        PROVE  /\ \A d \in Ends : Keeps(d)
               /\ faults \subseteq faults'
    <2>1. \A d \in Ends : offers[d] <= offers'[d]
      BY <1>0, <1>a, OffersGrow
    <2> QED
      BY <1>a, <2>1, StillKeeps
  <1>b. \A s, d : d \in Ends /\ Moves(d, s) =>
           state'[d] = s /\ \A c \in Ends \ {d} : state'[c] = state[c]
    BY DEF Moves, TypeOK
  <1>1. CASE Calls
    <2>1. \A d \in Ends : Rows(d)
      BY <1>0, <1>1, <1>b DEF Calls, Rows
    <2>2. state'["callee"] = state["callee"]
      BY <1>0, <1>1, <1>b DEF Calls
    <2>3. \A d \in Ends : Keeps(d)
      BY <1>0, <1>a, <1>1 DEF Calls
    <2> QED
      BY <1>1, <2>1, <2>2, <2>3, StillCallee DEF Calls, StateEffect
  <1>2. CASE Accepts
    <2> DEFINE a == [n |-> ringing, class |-> "2xx"]
    <2>1. answers' = answers \cup {a} /\ a.n = ringing /\ a.class = "2xx"
      BY <1>2 DEF Accepts, Answers
    <2>2. state["callee"] = "Ringing" /\ state'["callee"] = "Connected" /\ ringing' = 0
      BY <1>0, <1>2, <1>b DEF Accepts
    <2> HIDE DEF a
    <2>3. Accepted'
      BY <2>1 DEF Accepted
    <2>4. CalleeEffect
      BY <2>1, <2>2 DEF CalleeEffect
    <2>5. \A d \in Ends : Rows(d)
      BY <1>0, <1>2, <1>b, <2>2, <2>3 DEF Accepts, Rows
    <2>6. \A d \in Ends : Keeps(d)
      BY <1>a, <1>2 DEF Accepts
    <2> QED
      BY <1>2, <2>4, <2>5, <2>6 DEF Accepts, StateEffect
  <1>3. CASE Rejects
    <2> DEFINE a == [n |-> ringing, class |-> "failure"]
    <2>1. answers' = answers \cup {a} /\ a.n = ringing
      BY <1>3 DEF Rejects, Answers
    <2>2. StateEffect /\ state'["callee"] = "Terminated" /\ ringing' = 0
      BY <1>0, <1>3, TerminatesState DEF Rejects
    <2>3. state["callee"] = "Ringing"
      BY <1>3 DEF Rejects
    <2> HIDE DEF a
    <2> QED
      BY <2>1, <2>2, <2>3 DEF CalleeEffect
  <1>4. CASE Cancels
    <2>1. \A d \in Ends : Rows(d)
      BY <1>0, <1>4, <1>b DEF Cancels, Rows
    <2>2. state'["callee"] = state["callee"]
      BY <1>0, <1>4, <1>b DEF Cancels
    <2>3. \A d \in Ends : Keeps(d)
      BY <1>a, <1>4 DEF Cancels
    <2> QED
      BY <1>4, <2>1, <2>2, <2>3, StillCallee DEF Cancels, StateEffect
  <1>5. ASSUME \E taken, last : Terminates(e, taken, last), answers' = answers,
               faults \subseteq faults'
        PROVE  StateEffect /\ CalleeEffect
    <2>1. /\ StateEffect /\ state'[e] = "Terminated"
          /\ \A d \in Ends \ {e} : state'[d] = state[d]
          /\ ringing' \in {0, ringing} /\ (e # "callee" \/ ringing' = 0)
      BY <1>5, TerminatesState
    <2>2. state'["callee"] = "Ringing" => state["callee"] = "Ringing" /\ e # "callee"
      BY <1>0, <2>1
    <2>3. e # "callee" => ringing' = ringing
      BY <1>5 DEF Terminates
    <2> QED
      BY <1>5, <2>1, <2>2, <2>3 DEF CalleeEffect
  <1>6. CASE ShutdownTimesOut(e)
    BY <1>5, <1>6 DEF ShutdownTimesOut
  <1>7. CASE TimesOut(e)
    BY <1>5, <1>7 DEF TimesOut
  <1>8. CASE Timer100rel
    <2>1. CASE Terminates("callee", {}, {}) /\ faults' = faults \cup {"gaveUp"}
      BY <1>0, <1>8, <2>1, TerminatesState DEF Timer100rel, CalleeEffect
    <2>2. CASE UNCHANGED <<state, dialog, offers, pending, ringing, unacked,
                           pracked, shutting, faults>>
      <3>1. \A d \in Ends : Keeps(d)
        BY <1>a, <2>2
      <3> QED
        BY <1>8, <2>2, <3>1, StillState, StillCallee DEF Timer100rel
    <2> QED
      BY <1>8, <2>1, <2>2 DEF Timer100rel
  <1>9. CASE Refreshes(e)
    <2>1. \A d \in Ends : Keeps(d)
      BY <1>a, <1>9 DEF Refreshes
    <2> QED
      BY <1>9, <2>1, StillState, StillCallee DEF Refreshes
  <1>10. CASE Holds(e)
    <2>1. \A d \in Ends : Rows(d)
      BY <1>10, <1>b DEF Holds, Rows
    <2>2. state'["callee"] = "Ringing" => state["callee"] = "Ringing"
      BY <1>0, <1>10, <1>b DEF Holds
    <2>3. \A d \in Ends : Keeps(d)
      BY <1>a, <1>10 DEF Holds
    <2> QED
      BY <1>10, <2>1, <2>2, <2>3, StillCallee DEF Holds, StateEffect
  <1>11. CASE HangsUp(e)
    <2>1. \A d \in Ends : Rows(d)
      BY <1>11, <1>b DEF HangsUp, Rows
    <2>2. state'["callee"] = "Ringing" => state["callee"] = "Ringing"
      BY <1>0, <1>11, <1>b DEF HangsUp
    <2>3. \A d \in Ends : Keeps(d)
      BY <1>a, <1>11 DEF HangsUp
    <2> QED
      BY <1>11, <2>1, <2>2, <2>3, StillCallee DEF HangsUp, StateEffect
  <1>12. CASE ShutsDown(e)
    <2>1. \A d \in Ends : Rows(d)
      BY <1>12, <1>b DEF ShutsDown, Rows
    <2>2. state'["callee"] = "Ringing" => state["callee"] = "Ringing"
      BY <1>0, <1>12, <1>b DEF ShutsDown
    <2>3. \A d \in Ends : Keeps(d)
      BY <1>a, <1>12 DEF ShutsDown
    <2> QED
      BY <1>12, <2>1, <2>2, <2>3, StillCallee DEF ShutsDown, StateEffect
  <1> QED
    BY <1>1, <1>2, <1>3, <1>4, <1>6, <1>7, <1>8, <1>9, <1>10, <1>11, <1>12 DEF UserStep

\* How a message moves an end.
LEMMA MessageStateEffect ==
    ASSUME TypeOK, AnswersAreAwaited, RolesAreKept, NEW m \in net, MessageStep(m)
    PROVE  StateEffect /\ CalleeEffect
  <1>0. m.to \in Ends /\ "caller" \in Ends /\ "callee" \in Ends
    BY WaitingType, EndsFacts
  <1>a. ASSUME dialog' = dialog, shutting' = shutting,
               \/ \E d \in Ends : \E of, waiting, passed : SendsOffer(d, of, waiting, passed)
               \/ offers' = offers
        PROVE  \A d \in Ends : Keeps(d)
    <2>1. \A d \in Ends : offers[d] <= offers'[d]
      BY <1>0, <1>a, OffersGrow
    <2> QED
      BY <1>a, <2>1, StillKeeps
  <1>b. \A s, d : d \in Ends /\ Moves(d, s) =>
           state'[d] = s /\ \A c \in Ends \ {d} : state'[c] = state[c]
    BY DEF Moves, TypeOK
  <1>c. \A d \in Ends : offers[d] <= offers[d]
    BY TypedEnds
  <1>1. ASSUME UNCHANGED <<state, dialog, offers, ringing, shutting, answers>>,
               faults \subseteq faults'
        PROVE  StateEffect /\ CalleeEffect
    BY <1>1, <1>a, StillState, StillCallee
  <1>2. ASSUME \E last : Terminates(m.to, {m}, last), answers' = answers,
               faults \subseteq faults'
        PROVE  StateEffect /\ CalleeEffect
    <2>1. /\ StateEffect /\ state'[m.to] = "Terminated"
          /\ \A d \in Ends \ {m.to} : state'[d] = state[d]
          /\ ringing' \in {0, ringing} /\ (m.to # "callee" \/ ringing' = 0)
      BY <1>0, <1>2, TerminatesState
    <2>2. state'["callee"] = "Ringing" => state["callee"] = "Ringing" /\ m.to # "callee"
      BY <1>0, <2>1
    <2>3. m.to # "callee" => ringing' = ringing
      BY <1>2 DEF Terminates
    <2> QED
      BY <1>2, <2>1, <2>2, <2>3 DEF CalleeEffect
  <1>3. CASE RecvOffer(m) \/ RecvPrack(m) \/ Challenges(m)
    <2>1. faults \subseteq faults'
      BY <1>3 DEF RecvOffer, RecvPrack, Challenges
    <2> QED
      BY <1>1, <1>3, <2>1 DEF RecvOffer, RecvPrack, Challenges
  <1>4. CASE RecvOfferTooLate(m) \/ Loses(m) \/ RecvIgnored(m) \/ RecvChallengedBye(m)
    BY <1>1, <1>4 DEF RecvOfferTooLate, Loses, RecvIgnored, RecvChallengedBye
  <1>5. CASE Refuses(m)
    <2>1. faults \subseteq faults'
      BY <1>5 DEF Refuses
    <2> QED
      BY <1>1, <1>5, <2>1 DEF Refuses
  <1>6. CASE RecvBye(m)
    BY <1>2, <1>6 DEF RecvBye
  <1>7. CASE RecvLast(m)
    BY <1>2, <1>7 DEF RecvLast
  <1>8. CASE RecvFails(m)
    BY <1>2, <1>8 DEF RecvFails
  <1>9. CASE RecvCancel(m)
    <2>1. CASE state[m.to] # "Ringing"
      BY <1>1, <1>9, <2>1 DEF RecvCancel
    <2>2. CASE state[m.to] = "Ringing"
      <3> DEFINE a == [n |-> ringing, class |-> "failure"]
      <3>1. answers' = answers \cup {a} /\ a.n = ringing /\ faults' = faults
        BY <1>9, <2>2 DEF RecvCancel, Answers
      <3>2. m.to = "callee"
        BY <1>0, <2>2, EndsFacts DEF RolesAreKept
      <3>3. Terminates(m.to, {m}, Reply(m, {"2xx"}) \cup Final("failure"))
        BY <1>9, <2>2 DEF RecvCancel
      <3>4. StateEffect /\ state'["callee"] = "Terminated" /\ ringing' = 0
        BY <1>0, <3>1, <3>2, <3>3, TerminatesState
      <3> HIDE DEF a
      <3> QED
        BY <2>2, <3>1, <3>2, <3>4 DEF CalleeEffect
    <2> QED
      BY <2>1, <2>2
  <1>10. CASE RecvFirstInvite(m)
    <2>0. /\ m.class = "request" /\ m.of = "INVITE" /\ m.to = "callee" /\ Placed(m)
          /\ state["callee"] = "Started" /\ offers' = offers /\ shutting' = shutting
          /\ faults' = faults
      BY <1>10 DEF RecvFirstInvite, Takes, Placed
    <2>a. \A classes : \A b \in Reply(m, classes) : b.to = Peer("callee")
      BY <1>0, <2>0, AnswerFields DEF Reply
    <2>b. \A classes : m \notin Reply(m, classes)
      BY <2>0, <2>a, EndsFacts
    <2>1. CASE /\ \E rel \in BOOLEAN :
                    /\ Moves("callee", "Ringing") /\ Becomes("callee", "established")
                    /\ ringing' = m.n
                    /\ Replies(m, {IF rel THEN "1xx100rel" ELSE "1xx"})
               /\ UNCHANGED answers
      <3>1. PICK class \in {"1xx", "1xx100rel"} : Replies(m, {class})
        BY <2>1
      <3>2. m \notin net' /\ \A b \in net' : b \notin net => b \in Reply(m, {class})
        BY <2>b, <3>1 DEF Replies
      <3>3. \A b \in Reply(m, {class}) : b.class \in Provisional
        BY <1>0, <2>0, AnswerFields DEF Reply, Provisional
      <3>4. /\ state'["callee"] = "Ringing" /\ state'["caller"] = state["caller"]
            /\ ringing' = m.n /\ dialog'["caller"] = dialog["caller"]
        BY <1>0, <1>b, <2>1 DEF Becomes, TypeOK
      <3>5. CalleeEffect
        BY <2>0, <2>1, <3>2, <3>3, <3>4 DEF CalleeEffect
      <3>6. \A d \in Ends : Rows(d) /\ Keeps(d)
        BY <1>c, <2>0, <3>4, EndsFacts DEF Rows, Keeps
      <3> QED
        BY <2>0, <3>5, <3>6 DEF StateEffect
    <2>2. ASSUME NEW class \in {"again", "failure"}, Replies(m, {class}),
                 answers' = answers \cup {[n |-> m.n, class |-> class]},
                 UNCHANGED ringing, state'["callee"] # "Ringing"
          PROVE  CalleeEffect
      <3> DEFINE a == [n |-> m.n, class |-> class]
      <3>1. answers' = answers \cup {a} /\ a.n = m.n /\ a.class # "2xx"
        BY <2>2
      <3>2. m \notin net'
        BY <2>b, <2>2 DEF Replies
      <3> HIDE DEF a
      <3> QED
        BY <2>0, <2>2, <3>1, <3>2 DEF CalleeEffect
    <2>3. CASE /\ Moves("callee", "Terminated") /\ Replies(m, {"failure"})
               /\ answers' = answers \cup {[n |-> m.n, class |-> "failure"]}
               /\ UNCHANGED <<dialog, ringing, unacked>>
      <3>1. state'["callee"] = "Terminated" /\ state'["caller"] = state["caller"]
        BY <1>0, <1>b, <2>3
      <3>2. \A d \in Ends : Rows(d) /\ Keeps(d)
        BY <1>a, <2>0, <2>3, <3>1, EndsFacts DEF Rows
      <3> QED
        BY <2>0, <2>2, <2>3, <3>1, <3>2 DEF StateEffect
    <2>4. CASE /\ Replies(m, {"again"})
               /\ answers' = answers \cup {[n |-> m.n, class |-> "again"]}
               /\ UNCHANGED <<state, dialog, ringing, unacked>>
      <3>1. \A d \in Ends : Rows(d) /\ Keeps(d)
        BY <1>a, <2>0, <2>4 DEF Rows
      <3> QED
        BY <2>0, <2>2, <2>4, <3>1 DEF StateEffect
    <2> QED
      BY <1>10, <2>1, <2>3, <2>4 DEF RecvFirstInvite
  <1>11. CASE Recv1xx(m)
    <2>1. m.class \in Provisional /\ Alive(m.to)
      BY <1>11, AwaitedIsAlive DEF Recv1xx, Provisional
    <2>2. \A d \in Ends : Keeps(d)
      BY <1>c, <1>11 DEF Recv1xx, Becomes, Keeps, TypeOK
    <2> QED
      BY <1>11, <2>2, StillState, StillCallee DEF Recv1xx
  <1>12. ASSUME UNCHANGED <<offers, ringing, shutting, answers, faults>>,
                dialog' = dialog \/ (Becomes(m.to, "established") /\ Recv2xxOffer(m)),
                \/ UNCHANGED state
                \/ /\ Moves(m.to, "Connected")
                   /\ state[m.to] = "Holding" \/ (state[m.to] = "Outgoing" /\ Recv2xxOffer(m))
         PROVE  StateEffect /\ CalleeEffect
    <2>1. Recv2xxOffer(m) => m.class = "2xx" /\ m.of \in Offers
      BY DEF Recv2xxOffer, Answered, Takes
    <2>2. \A d \in Ends : Keeps(d)
      BY <1>c, <1>12, <2>1 DEF Becomes, Keeps, TypeOK
    <2>3. \A d \in Ends : Rows(d)
      <3>1. CASE UNCHANGED state
        BY <3>1 DEF Rows
      <3>2. CASE /\ Moves(m.to, "Connected")
                 /\ state[m.to] = "Holding" \/ (state[m.to] = "Outgoing" /\ Recv2xxOffer(m))
        BY <1>0, <1>b, <2>1, <3>2 DEF Rows
      <3> QED
        BY <1>12, <3>1, <3>2
    <2>4. state'["callee"] = "Ringing" => state["callee"] = "Ringing"
      BY <1>0, <1>b, <1>12
    <2> QED
      BY <1>12, <2>2, <2>3, <2>4, StillCallee DEF StateEffect
  <1>13. CASE Recv2xxOffer(m)
    BY <1>12, <1>13 DEF Recv2xxOffer
  <1>14. CASE RecvFailureOffer(m)
    BY <1>12, <1>14 DEF RecvFailureOffer
  <1>15. CASE RecvAgain(m)
    <2>1. \A d \in Ends : Keeps(d)
      BY <1>0, <1>a, <1>15 DEF RecvAgain
    <2>2. faults \subseteq faults'
      BY <1>15 DEF RecvAgain
    <2> QED
      BY <1>15, <2>1, <2>2, StillState, StillCallee DEF RecvAgain
  <1> QED
    BY <1>3, <1>4, <1>5, <1>6, <1>7, <1>8, <1>9, <1>10, <1>11, <1>13, <1>14, <1>15
       DEF MessageStep, Receives

------------------------------------------------------------------------------
(* Who leaves without a fault, and how the other end comes to know.        *)

Departs(p) == state[p] # "Terminated" /\ state'[p] = "Terminated"
\* p leaves because its peer did, or is leaving, or it rejects the call.
Explained(p) ==
    \/ \E b \in net : /\ b.to = p
                      /\ Ending(b) \/ (b.class = "request" /\ b.of = "BYE")
    \/ /\ p = "callee" /\ ~Accepted'
       /\ \E b \in net' : Telling(b)

\* The callee rejects, by a failure that the caller waits for.
LEMMA RejectionTells ==
    ASSUME NEW n, Awaits("caller", "INVITE", n), ~Accepted,
           Answer("callee", {"failure"}, "INVITE", n) \subseteq net',
           answers' = answers \cup {[n |-> n, class |-> "failure"]}
    PROVE  Explained("callee")
  <1>1. Msg("caller", "failure", "INVITE", n) \in net'
    BY AnswerMade, EndsFacts
  <1>2. Telling(Msg("caller", "failure", "INVITE", n))
    BY MsgFields DEF Telling
  <1>3. ~Accepted'
    BY DEF Accepted
  <1> QED
    BY <1>1, <1>2, <1>3 DEF Explained

\* Who leaves by itself without a fault rejects the call.
LEMMA UserDeparture ==
    ASSUME TypeOK, RingingIsAwaited, faults' = {}, NEW e \in Ends, UserStep(e),
           NEW p \in Ends, Departs(p), state'[Peer(p)] # "Terminated"
    PROVE  Explained(p)
  <1>0. "caller" \in Ends /\ "callee" \in Ends
    BY DEF Ends
  <1>b. \A s, d : d \in Ends /\ Moves(d, s) =>
           state'[d] = s /\ \A c \in Ends \ {d} : state'[c] = state[c]
    BY DEF Moves, TypeOK
  <1>1. CASE Rejects
    <2>1. /\ state["callee"] = "Ringing" /\ Moves("callee", "Terminated")
          /\ Answer("callee", {"failure"}, "INVITE", ringing) \subseteq net'
          /\ answers' = answers \cup {[n |-> ringing, class |-> "failure"]}
      BY <1>1 DEF Rejects, Terminates, Final, Answers
    <2>2. p = "callee" /\ Peer(p) = "caller" /\ state'["caller"] = state["caller"]
      BY <1>0, <1>b, <2>1, EndsFacts DEF Departs
    <2>3. Awaits("caller", "INVITE", ringing) /\ ~Accepted
      BY <2>1, <2>2 DEF RingingIsAwaited
    <2> QED
      BY <2>1, <2>2, <2>3, RejectionTells
  <1>2. CASE state' = state
    BY <1>2 DEF Departs
  <1>3. CASE \E d \in Ends, s \in {"Outgoing", "Connected", "Holding", "Cancelling", "Trying"} :
               Moves(d, s)
    BY <1>b, <1>3 DEF Departs
  <1>4. CASE "gaveUp" \in faults'
    BY <1>4
  <1> QED
    BY <1>0, <1>1, <1>2, <1>3, <1>4
       DEF UserStep, Calls, Accepts, Cancels, Timer100rel, Refreshes, Holds, HangsUp,
           ShutsDown, ShutdownTimesOut, TimesOut

\* Who leaves because of a message was told, or rejects the call.
LEMMA MessageDeparture ==
    ASSUME TypeOK, RolesAreKept, InvitesAreFresh, RingingIsAwaited, faults' = {},
           NEW m \in net, MessageStep(m),
           NEW p \in Ends, Departs(p), state'[Peer(p)] # "Terminated"
    PROVE  Explained(p)
  <1>0. m.to \in Ends /\ "caller" \in Ends /\ "callee" \in Ends
    BY WaitingType, EndsFacts
  <1>b. \A s, d : d \in Ends /\ Moves(d, s) =>
           state'[d] = s /\ \A c \in Ends \ {d} : state'[c] = state[c]
    BY DEF Moves, TypeOK
  <1>1. CASE state' = state
    BY <1>1 DEF Departs
  <1>2. CASE \E d \in Ends, s \in {"Connected", "Ringing"} : Moves(d, s)
    BY <1>b, <1>2 DEF Departs
  <1>3. CASE faults' # {}
    BY <1>3
  <1>4. CASE RecvFirstInvite(m) /\ Moves("callee", "Terminated")
    <2>1. /\ m.class = "request" /\ m.of = "INVITE" /\ m.to = "callee" /\ Placed(m)
          /\ state["callee"] = "Started"
      BY <1>4 DEF RecvFirstInvite, Takes, Placed
    <2>2. p = "callee" /\ Peer(p) = "caller" /\ state'["caller"] = state["caller"]
      BY <1>0, <1>b, <1>4, EndsFacts DEF Departs
    <2>3. Awaits("caller", "INVITE", m.n) /\ ~Accepted
      BY <2>1, <2>2 DEF InvitesAreFresh, RingingIsAwaited
    <2>4. state'["callee"] = "Terminated"
      BY <1>0, <1>b, <1>4
    <2>5. /\ Replies(m, {"failure"})
          /\ answers' = answers \cup {[n |-> m.n, class |-> "failure"]}
      BY <1>0, <1>b, <1>4, <2>1, <2>4 DEF RecvFirstInvite
    <2>6. Answer("callee", {"failure"}, "INVITE", m.n) \subseteq net'
      BY <2>1, <2>5 DEF Replies, Reply, Answer
    <2> QED
      BY <2>2, <2>3, <2>5, <2>6, RejectionTells
  <1>5. CASE RecvCancel(m) /\ state[m.to] = "Ringing"
    <2>1. m.to = "callee"
      BY <1>0, <1>5, EndsFacts DEF RolesAreKept
    <2>2. /\ state["callee"] = "Ringing" /\ Moves("callee", "Terminated")
          /\ Answer("callee", {"failure"}, "INVITE", ringing) \subseteq net'
          /\ answers' = answers \cup {[n |-> ringing, class |-> "failure"]}
      BY <1>5, <2>1 DEF RecvCancel, Terminates, Final, Answers
    <2>3. p = "callee" /\ Peer(p) = "caller" /\ state'["caller"] = state["caller"]
      BY <1>0, <1>b, <2>2, EndsFacts DEF Departs
    <2>4. Awaits("caller", "INVITE", ringing) /\ ~Accepted
      BY <2>2, <2>3 DEF RingingIsAwaited
    <2> QED
      BY <2>2, <2>3, <2>4, RejectionTells
  <1>6. CASE RecvBye(m)
    <2>1. Moves(m.to, "Terminated") /\ m.class = "request" /\ m.of = "BYE"
      BY <1>6 DEF RecvBye, Terminates, Takes
    <2>2. p = m.to
      BY <1>0, <1>b, <2>1 DEF Departs
    <2> QED
      BY <2>1, <2>2 DEF Explained
  <1>7. CASE RecvLast(m)
    <2>1. Moves(m.to, "Terminated")
      BY <1>7 DEF RecvLast, Terminates
    <2>2. p = m.to
      BY <1>0, <1>b, <2>1 DEF Departs
    <2>3. state[m.to] \in {"Outgoing", "Cancelling"} => m.to = "caller"
      BY <1>0, EndsFacts DEF RolesAreKept
    <2>4. Ending(m)
      BY <1>7, <2>3 DEF RecvLast, Ending
    <2> QED
      BY <2>2, <2>4 DEF Explained
  <1>8. CASE \/ RecvOffer(m) \/ RecvPrack(m) \/ Challenges(m) \/ Recv1xx(m)
             \/ RecvIgnored(m) \/ RecvChallengedBye(m) \/ RecvAgain(m) \/ Refuses(m)
    BY <1>1, <1>8 DEF RecvOffer, RecvPrack, Challenges, Recv1xx, RecvIgnored,
                      RecvChallengedBye, RecvAgain, Refuses
  <1>9. CASE Recv2xxOffer(m) \/ RecvFailureOffer(m)
    BY <1>0, <1>1, <1>2, <1>9 DEF Recv2xxOffer, RecvFailureOffer
  <1>10. CASE RecvOfferTooLate(m) \/ Loses(m) \/ RecvFails(m)
    BY <1>3, <1>10 DEF RecvOfferTooLate, Loses, RecvFails
  <1>11. CASE RecvFirstInvite(m)
    BY <1>0, <1>1, <1>2, <1>4, <1>11 DEF RecvFirstInvite
  <1>12. CASE RecvCancel(m)
    BY <1>1, <1>5, <1>12 DEF RecvCancel
  <1> QED
    BY <1>6, <1>7, <1>8, <1>9, <1>10, <1>11, <1>12 DEF MessageStep, Receives

\* While the caller waits for a call nobody took and the callee is gone, something
\* on its way will tell it.
LEMMA UserTellingStays ==
    ASSUME TypeOK, Alive("caller"), Alive("caller")', NEW e \in Ends, UserStep(e),
           NEW m \in net, Telling(m)
    PROVE  m \in net'
  <1>0. /\ "caller" \in Ends /\ "callee" \in Ends
        /\ m.class = "request" \/ m.to = "caller"
    BY DEF Ends, Telling, Placed
  <1>1. ASSUME NEW d \in Ends, Terminates(d, {}, {}) \/ \E last : Terminates(d, {}, last)
        PROVE  m \in net'
    <2>1. d # "caller"
      BY <1>1 DEF Terminates, Moves, Alive, TypeOK
    <2> QED
      BY <1>0, <1>1, <2>1, EndsFacts DEF Terminates
  <1>2. CASE net \subseteq net'
    BY <1>2
  <1>3. CASE \E d, of, n, waiting : Requests(d, of, n, waiting, {})
    BY <1>3 DEF Requests
  <1>4. CASE Calls \/ Refreshes(e) \/ Holds(e)
    BY <1>2, <1>3, <1>4 DEF Calls, Refreshes, Holds, SendsOffer
  <1>5. CASE Cancels \/ HangsUp(e) \/ ShutsDown(e)
    BY <1>2, <1>3, <1>5 DEF Cancels, HangsUp, ShutsDown
  <1>6. CASE Accepts
    BY <1>6 DEF Accepts
  <1>7. CASE Rejects \/ ShutdownTimesOut(e) \/ TimesOut(e) \/ Timer100rel
    BY <1>0, <1>1, <1>2, <1>7 DEF Rejects, ShutdownTimesOut, TimesOut, Timer100rel
  <1> QED
    BY <1>4, <1>5, <1>6, <1>7 DEF UserStep

\* A message that takes it away puts another in its place.
LEMMA MessageTellingStays ==
    ASSUME TypeOK, AnswersAreAwaited, RolesAreKept, InvitesAreFresh,
           UnacceptedIsNotEstablished, ~Accepted, state["callee"] = "Terminated",
           Alive("caller"), Alive("caller")', "caller" \notin shutting, faults' = {},
           NEW b \in net, MessageStep(b), NEW m \in net, Telling(m)
    PROVE  \E c \in net' : Telling(c)
  <1>0. b.to \in Ends /\ m.to \in Ends /\ "caller" \in Ends /\ "callee" \in Ends
    BY WaitingType, EndsFacts
  <1>a. m.of = "INVITE" /\ (m.class = "request" \/ m.to = "caller")
    BY DEF Telling, Placed
  <1>b. m.class # "request" => m.to = "caller" /\ m.class \in {"again", "failure"}
    BY DEF Telling, Placed
  <1>1. CASE m \in net'
    BY <1>1
  <1>2. ASSUME NEW last, Terminates(b.to, {b}, last), m # b
        PROVE  m \in net'
    <2>1. b.to # "caller"
      BY <1>0, <1>2 DEF Terminates, Moves, Alive, TypeOK
    <2> QED
      BY <1>2, <1>a, <2>1 DEF Terminates
  <1>3. ASSUME NEW classes, Replies(b, classes), m # b
        PROVE  m \in net'
    BY <1>3 DEF Replies
  <1>4. CASE RecvFirstInvite(b)
    BY <1>4 DEF RecvFirstInvite
  <1>5. CASE RecvOfferTooLate(b) \/ Loses(b) \/ RecvFails(b)
    BY <1>5 DEF RecvOfferTooLate, Loses, RecvFails
  <1>6. CASE RecvOffer(b)
    <2>1. b.class = "request" /\ Alive(b.to)
      BY <1>6 DEF RecvOffer, Takes, Found
    <2>2. b.to # "callee"
      BY <2>1 DEF Alive
    <2>3. m # b
      BY <1>b, <2>1, <2>2 DEF Telling, Placed
    <2> QED
      BY <1>3, <1>6, <2>3 DEF RecvOffer
  <1>7. CASE Challenges(b)
    <2>1. CASE m # b
      BY <1>3, <1>7, <2>1 DEF Challenges
    <2>2. CASE m = b
      <3>1. Placed(m) /\ m.to = "callee" /\ m.of = "INVITE" /\ Replies(m, {"again"})
        BY <1>7, <1>b, <2>2 DEF Challenges, Takes, Telling, Placed
      <3>2. Awaits("caller", "INVITE", m.n)
        BY <3>1 DEF InvitesAreFresh, Alive
      <3>3. Msg(Peer("callee"), "again", "INVITE", m.n) \in Reply(m, {"again"})
        BY <1>0, <3>1, <3>2, AnswerMade, EndsFacts DEF Reply
      <3>4. Msg("caller", "again", "INVITE", m.n) \in net'
        BY <3>1, <3>3, EndsFacts DEF Replies
      <3>5. Telling(Msg("caller", "again", "INVITE", m.n))
        BY MsgFields DEF Telling
      <3> QED
        BY <3>4, <3>5
    <2> QED
      BY <2>1, <2>2
  <1>8. CASE RecvBye(b)
    BY <1>2, <1>8, <1>a DEF RecvBye, Takes
  <1>9. CASE RecvCancel(b)
    <2>1. m # b
      BY <1>9, <1>a DEF RecvCancel, Takes
    <2> QED
      BY <1>2, <1>3, <1>9, <2>1 DEF RecvCancel
  <1>10. CASE RecvPrack(b) \/ Refuses(b)
    <2>1. m # b
      BY <1>10, <1>a DEF RecvPrack, Refuses, Takes
    <2> QED
      BY <1>3, <1>10, <2>1 DEF RecvPrack, Refuses
  <1>11. CASE Recv1xx(b)
    <2>1. m # b
      BY <1>11, <1>b DEF Recv1xx, Provisional
    <2> QED
      BY <1>11, <2>1 DEF Recv1xx, Requests
  <1>12. CASE RecvLast(b)
    <2>1. b.to # "caller"
      BY <1>0, <1>12 DEF RecvLast, Terminates, Moves, Alive, TypeOK
    <2>2. m # b
      BY <1>12, <1>b, <2>1 DEF RecvLast
    <2> QED
      BY <1>2, <1>12, <2>2 DEF RecvLast
  <1>13. ASSUME NEW class, Answered(b, class), m \notin net'
         PROVE  b.to = "caller" /\ b.of = "INVITE" /\ b.class = class
    BY <1>13, <1>a, <1>b DEF Answered, Takes, Done, AnswersTo
  <1>14. CASE Recv2xxOffer(b)
    BY <1>1, <1>13, <1>14 DEF Recv2xxOffer, UnacceptedIsNotEstablished, Offers
  <1>15. CASE RecvFailureOffer(b)
    <2>1. state["caller"] \in {"Outgoing", "Cancelling"}
      BY DEF UnacceptedIsNotEstablished, Alive
    <2> QED
      BY <1>1, <1>13, <1>15, <2>1 DEF RecvFailureOffer
  <1>16. CASE RecvIgnored(b)
    BY <1>1, <1>13, <1>16 DEF RecvIgnored
  <1>17. CASE RecvAgain(b)
    <2>1. CASE m \in Done(b)
      <3>0. b.of = "INVITE" /\ b.to = "caller"
        BY <1>a, <1>b, <2>1 DEF Done, AnswersTo
      <3>1. Msg(Peer("caller"), "request", "INVITE", offers["caller"] + 1) \in net'
        BY <1>17, <3>0 DEF RecvAgain, SendsOffer, Requests
      <3>2. Telling(Msg("callee", "request", "INVITE", offers["caller"] + 1))
        BY MsgFields DEF Telling, Placed
      <3> QED
        BY <3>1, <3>2, EndsFacts
    <2>2. CASE m \notin Done(b)
      BY <1>17, <2>2 DEF RecvAgain, SendsOffer, Requests
    <2> QED
      BY <2>1, <2>2
  <1>18. CASE RecvChallengedBye(b)
    BY <1>1, <1>a, <1>18 DEF RecvChallengedBye
  <1> QED
    BY <1>4, <1>5, <1>6, <1>7, <1>8, <1>9, <1>10, <1>11, <1>12, <1>14, <1>15, <1>16,
       <1>17, <1>18 DEF MessageStep, Receives

------------------------------------------------------------------------------
(* The inductive invariant, conjunct by conjunct, from what a step does.   *)

Effects == PendingEffect /\ NetEffect /\ StateEffect /\ CalleeEffect

\* Every step keeps the types and has the four effects.
LEMMA NextEffects ==
    ASSUME TypeOK, AnswersAreAwaited, InvitesAreNumbered, RolesAreKept, Next
    PROVE  TypeOK' /\ Effects
  <1>1. CASE \E e \in Ends : UserStep(e)
    <2>1. PICK e \in Ends : UserStep(e)
      BY <1>1
    <2>2. TypeOK'
      BY <2>1, UserStepType DEF UserStep
    <2> QED
      BY <2>1, <2>2, UserPendingEffect, UserNetEffect, UserStateEffect DEF Effects
  <1>2. CASE \E m \in net : MessageStep(m)
    <2>1. PICK m \in net : MessageStep(m)
      BY <1>2
    <2>2. TypeOK'
      BY <2>1, MessageStepType DEF MessageStep
    <2> QED
      BY <2>1, <2>2, MessagePendingEffect, MessageNetEffect, MessageStateEffect DEF Effects
  <1> QED
    BY <1>1, <1>2, NextSteps

\* What Rows says of the ends of a call.
LEMMA StatesMove ==
    ASSUME TypeOK, RolesAreKept, StateEffect
    PROVE  /\ RolesAreKept'
           /\ \A e \in Ends : /\ state[e] = "Terminated" => state'[e] = "Terminated"
                              /\ state'[e] = "Started" => state[e] = "Started"
                              /\ Alive(e)' => Alive(e) \/ state[e] = "Started"
                              /\ offers[e] <= offers'[e]
           /\ state'["callee"] \in {"Started", "Ringing"} =>
                state["callee"] \in {"Started", "Ringing"}
  <1>1. "caller" \in Ends /\ "callee" \in Ends
    BY DEF Ends
  <1>2. \A e \in Ends : Rows(e) /\ Keeps(e)
    BY DEF StateEffect
  <1>3. RolesAreKept'
    BY <1>1, <1>2 DEF Rows, RolesAreKept
  <1>4. \A e \in Ends : /\ state[e] = "Terminated" => state'[e] = "Terminated"
                        /\ state'[e] = "Started" => state[e] = "Started"
    BY <1>2 DEF Rows, Alive
  <1>5. \A e \in Ends : Alive(e)' => Alive(e) \/ state[e] = "Started"
    BY <1>4 DEF Alive
  <1>6. \A e \in Ends : offers[e] <= offers'[e]
    BY <1>2 DEF Keeps
  <1>7. state'["callee"] \in {"Started", "Ringing"} =>
          state["callee"] \in {"Started", "Ringing"}
    BY <1>1, <1>2 DEF Rows
  <1> QED
    BY <1>3, <1>4, <1>5, <1>6, <1>7

\* A transaction that waits goes on waiting, unless its end has ended or it was
\* answered for good.
LEMMA WaitsOn ==
    ASSUME TypeOK, PendingEffect, NEW e \in Ends, NEW of, NEW n, Awaits(e, of, n)
    PROVE  \/ Emptied(e)
           \/ Awaits(e, of, n)'
           \/ Over(e, of, n)
  <1>1. PICK u \in pending[e] : u.of = of /\ u.n = n
    BY DEF Awaits
  <1>2. CASE Goes(e)
    BY <1>1, <1>2 DEF Goes
  <1> QED
    BY <1>2 DEF PendingEffect

\* An answer is awaited as long as it is in transit.
LEMMA AnswersAreAwaitedNext ==
    ASSUME TypeOK, TypeOK', AnswersAreAwaited, Effects
    PROVE  AnswersAreAwaited'
  <1> SUFFICES ASSUME NEW m \in net', m.class # "request"
               PROVE  /\ Awaits(m.to, m.of, m.n)'
                      /\ m.class = "again" /\ m.of = "BYE" => "challenged" \in faults'
    BY DEF AnswersAreAwaited, Awaits
  <1>1. CASE m \in net
    <2>1. /\ m.to \in Ends /\ Awaits(m.to, m.of, m.n)
          /\ m.class = "again" /\ m.of = "BYE" => "challenged" \in faults
      BY <1>1, WaitingType DEF AnswersAreAwaited
    <2>2. ~Emptied(m.to) /\ ~Over(m.to, m.of, m.n)
      BY DEF Emptied, Over
    <2>3. faults \subseteq faults'
      BY DEF Effects, StateEffect
    <2> QED
      BY <2>1, <2>2, <2>3, WaitsOn DEF Effects
  <1>2. CASE NewAnswer(m)
    BY <1>2 DEF NewAnswer, Awaits
  <1> QED
    BY <1>1, <1>2 DEF Effects, NetEffect, NewRequest

\* What is new of the answers of the callee is for an INVITE of the caller.
LEMMA AnswersNew ==
    ASSUME TypeOK, CalleeEffect, NEW a \in answers', a \notin answers
    PROVE  /\ answers' = answers \cup {a}
           /\ \/ /\ state["callee"] = "Ringing" /\ a.n = ringing
                 /\ state'["callee"] \notin {"Started", "Ringing"}
              \/ /\ state["callee"] = "Started" /\ a.class # "2xx"
                 /\ state'["callee"] # "Ringing"
                 /\ \E q \in net : Placed(q) /\ q.n = a.n /\ q \notin net'
  BY DEF CalleeEffect

\* A new INVITE has the next number, and the callee invents none.
LEMMA InvitesAreNumberedNext ==
    ASSUME TypeOK, TypeOK', InvitesAreNumbered, RolesAreKept, Effects
    PROVE  InvitesAreNumbered'
  <1>1. /\ offers["caller"] \in Nat /\ offers'["caller"] \in Nat
        /\ offers["caller"] <= offers'["caller"]
    BY EndsFacts, StatesMove DEF Effects, TypeOK
  <1>2. ASSUME NEW m \in net', Placed(m)
        PROVE  m.n \in 1..offers'["caller"]
    <2>1. CASE m \in net
      BY <1>1, <1>2, <2>1 DEF InvitesAreNumbered
    <2>2. CASE NewRequest(m)
      BY <1>1, <1>2, <2>2, EndsFacts DEF NewRequest, Placed
    <2> QED
      BY <1>2, <2>1, <2>2 DEF Effects, NetEffect, NewAnswer, Placed
  <1>3. ASSUME NEW t \in pending'["caller"], t.of = "INVITE"
        PROVE  t.n <= offers'["caller"]
    <2>1. CASE Emptied("caller")
      BY <1>3, <2>1 DEF Emptied
    <2>2. CASE \E u \in pending["caller"] : u.of = t.of /\ u.n = t.n
      <3>1. PICK u \in pending["caller"] : u.of = t.of /\ u.n = t.n
        BY <2>2
      <3>2. t.n <= offers["caller"] /\ t.n \in Int
        BY <1>3, <3>1, TypedEnds, EndsFacts DEF InvitesAreNumbered, Transaction
      <3> QED
        BY <1>1, <3>2
    <2>3. CASE t.n = offers["caller"] + 1 /\ offers'["caller"] = offers["caller"] + 1
      BY <1>1, <2>3
    <2> QED
      BY <1>3, <2>1, <2>2, <2>3, EndsFacts DEF Effects, PendingEffect, Goes
  <1>4. \A q \in net : Placed(q) => q.n \in Int /\ q.n <= offers["caller"] /\ q.n > 0
    BY <1>1 DEF InvitesAreNumbered
  <1>5. ringing \in Int /\ ringing <= offers["caller"]
    BY DEF InvitesAreNumbered, TypeOK
  <1>6. ASSUME NEW a \in answers'
        PROVE  a.n <= offers'["caller"]
    <2>1. CASE a \in answers
      <3>1. a.n \in Int /\ a.n <= offers["caller"]
        BY <2>1 DEF InvitesAreNumbered, TypeOK
      <3> QED
        BY <1>1, <3>1
    <2>2. CASE a \notin answers
      BY <1>1, <1>4, <1>5, <1>6, <2>2, AnswersNew DEF Effects
    <2> QED
      BY <2>1, <2>2
  <1>7. ringing' <= offers'["caller"]
    BY <1>1, <1>4, <1>5 DEF Effects, CalleeEffect
  <1>8. state'["callee"] = "Ringing" => ringing' > 0
    BY <1>4 DEF Effects, CalleeEffect, InvitesAreNumbered
  <1> QED
    BY <1>2, <1>3, <1>6, <1>7, <1>8 DEF InvitesAreNumbered, Placed

\* Two INVITEs with one number are one INVITE.
LEMMA PlacedIsOne ==
    ASSUME TypeOK, NEW p \in net, NEW q \in net, Placed(p), Placed(q), p.n = q.n
    PROVE  p = q
  BY DEF TypeOK, Message, Placed

\* Until it is taken an INVITE stays unanswered and awaited, and a new one has a number
\* nothing else has.
LEMMA InvitesAreFreshNext ==
    ASSUME TypeOK, TypeOK', AnswersAreAwaited, InvitesAreNumbered, InvitesAreFresh,
           RolesAreKept, Effects
    PROVE  InvitesAreFresh'
  <1>0. "caller" \in Ends /\ offers["caller"] \in Nat /\ PendingEffect /\ CalleeEffect
    BY EndsFacts DEF TypeOK, Effects
  <1>a. \A q \in net : Placed(q) => q.n \in 1..offers["caller"]
    BY DEF InvitesAreNumbered
  <1>b. \A t \in pending["caller"] : t.of = "INVITE" => t.n \in Int /\ t.n <= offers["caller"]
    BY <1>0, TypedEnds DEF InvitesAreNumbered, Transaction
  <1>c. ringing \in Int /\ ringing <= offers["caller"]
    BY DEF InvitesAreNumbered, TypeOK
  <1> SUFFICES ASSUME NEW m \in net', Placed(m)
               PROVE  /\ \A a \in answers' : a.n # m.n
                      /\ ringing' # m.n
                      /\ \A b \in net' : b.class # "request" /\ b.to = "caller" /\ b.of = "INVITE"
                            => b.n # m.n
                      /\ state'["caller"] # "Terminated" => Awaits("caller", "INVITE", m.n)'
                      /\ \A t \in pending'["caller"] :
                            t.of = "INVITE" /\ t.n = m.n => ~t.heard
    BY DEF InvitesAreFresh, Placed, Awaits
  <1>1. CASE m \in net
    <2>0. /\ \A a \in answers : a.n # m.n
          /\ ringing # m.n
          /\ \A b \in net : b.class # "request" /\ b.to = "caller" /\ b.of = "INVITE"
                => b.n # m.n
          /\ state["caller"] # "Terminated" => Awaits("caller", "INVITE", m.n)
          /\ \A t \in pending["caller"] : t.of = "INVITE" /\ t.n = m.n => ~t.heard
      BY <1>1 DEF InvitesAreFresh
    <2>a. \A q \in net : Placed(q) /\ q \notin net' => q.n # m.n
      BY <1>1, PlacedIsOne
    <2>b. m.n # 0
      BY <1>1, <1>a
    <2>1. ASSUME NEW a \in answers'
          PROVE  a.n # m.n
      <3>1. CASE a \in answers
        BY <2>0, <3>1
      <3>2. CASE a \notin answers
        BY <1>0, <2>0, <2>a, <2>1, <3>2, AnswersNew
      <3> QED
        BY <3>1, <3>2
    <2>2. ringing' # m.n
      BY <1>0, <2>0, <2>a, <2>b DEF CalleeEffect
    <2>3. ASSUME NEW b \in net', b.class # "request", b.to = "caller", b.of = "INVITE"
          PROVE  b.n # m.n
      <3>1. CASE b \in net
        BY <2>0, <2>3, <3>1
      <3>2. CASE NewAnswer(b)
        BY <2>0, <2>a, <2>3, <3>2 DEF NewAnswer
      <3> QED
        BY <2>3, <3>1, <3>2 DEF Effects, NetEffect, NewRequest
    <2>4. ASSUME state'["caller"] # "Terminated"
          PROVE  Awaits("caller", "INVITE", m.n)'
      <3>1. state["caller"] # "Terminated"
        BY <1>0, <2>4, StatesMove DEF Effects
      <3>2. ~Emptied("caller")
        BY <2>4 DEF Emptied
      <3>3. ~\E b \in net : /\ b.class \in {"2xx", "again", "failure"} /\ b.to = "caller"
                            /\ b.of = "INVITE" /\ b.n = m.n
        BY <2>0
      <3>4. ~Over("caller", "INVITE", m.n)
        BY <3>3 DEF Over
      <3> QED
        BY <1>0, <2>0, <3>1, <3>2, <3>4, WaitsOn
    <2>5. ASSUME NEW t \in pending'["caller"], t.of = "INVITE", t.n = m.n
          PROVE  ~t.heard
      <3>1. CASE Emptied("caller")
        BY <2>5, <3>1 DEF Emptied
      <3>2. CASE Goes("caller")
        <4>1. ~\E b \in net : /\ b.class \in Provisional /\ b.to = "caller"
                              /\ b.of = t.of /\ b.n = t.n
          BY <2>0, <2>5 DEF Provisional
        <4> QED
          BY <2>0, <2>5, <3>2, <4>1 DEF Goes
      <3> QED
        BY <1>0, <3>1, <3>2 DEF PendingEffect
    <2> QED
      BY <2>1, <2>2, <2>3, <2>4, <2>5
  <1>2. CASE NewRequest(m)
    <2>0. m.n = offers["caller"] + 1 /\ Awaits("caller", "INVITE", m.n)'
      BY <1>2, EndsFacts DEF NewRequest, Placed
    <2>1. ASSUME NEW a \in answers'
          PROVE  a.n # m.n
      <3>1. CASE a \in answers
        BY <1>0, <2>0, <3>1 DEF InvitesAreNumbered
      <3>2. CASE a \notin answers
        BY <1>0, <1>a, <1>c, <2>0, <2>1, <3>2, AnswersNew
      <3> QED
        BY <3>1, <3>2
    <2>2. ringing' # m.n
      BY <1>0, <1>a, <1>c, <2>0 DEF CalleeEffect
    <2>3. ASSUME NEW b \in net', b.class # "request", b.to = "caller", b.of = "INVITE"
          PROVE  b.n # m.n
      <3>1. Awaits("caller", "INVITE", b.n)
        BY <2>3 DEF Effects, NetEffect, NewRequest, NewAnswer, AnswersAreAwaited
      <3>2. b.n \in Int /\ b.n <= offers["caller"]
        BY <1>b, <3>1 DEF Awaits
      <3> QED
        BY <1>0, <2>0, <3>2
    <2>4. ASSUME NEW t \in pending'["caller"], t.of = "INVITE", t.n = m.n
          PROVE  ~t.heard
      <3>1. CASE Emptied("caller")
        BY <2>4, <3>1 DEF Emptied
      <3>2. CASE Goes("caller")
        <4>1. ~\E u \in pending["caller"] : u.of = t.of /\ u.n = t.n
          BY <1>0, <1>b, <2>0, <2>4
        <4> QED
          BY <2>4, <3>2, <4>1 DEF Goes
      <3> QED
        BY <1>0, <3>1, <3>2 DEF PendingEffect
    <2> QED
      BY <2>0, <2>1, <2>2, <2>3, <2>4
  <1> QED
    BY <1>1, <1>2 DEF Effects, NetEffect, NewAnswer, Placed

\* Until the callee stops ringing the caller waits, and nobody has accepted.
LEMMA RingingIsAwaitedNext ==
    ASSUME TypeOK, TypeOK', AnswersAreAwaited, InvitesAreNumbered, InvitesAreFresh,
           RolesAreKept, RingingIsAwaited, Effects
    PROVE  RingingIsAwaited'
  <1>0. "caller" \in Ends /\ PendingEffect /\ CalleeEffect
    BY EndsFacts DEF Effects
  <1>a. /\ state'["caller"] # "Terminated" => state["caller"] # "Terminated"
        /\ state'["callee"] \in {"Started", "Ringing"} =>
             state["callee"] \in {"Started", "Ringing"}
    BY <1>0, StatesMove DEF Effects
  <1>1. ASSUME state'["callee"] \in {"Started", "Ringing"}
        PROVE  ~Accepted'
    <2>1. \A a \in answers' : a \in answers \/ a.class # "2xx"
      BY <1>0, <1>1, AnswersNew
    <2> QED
      BY <1>1, <1>a, <2>1 DEF RingingIsAwaited, Accepted
  \* The INVITE it rings for, before and after, with what is known of it before.
  <1>2. ASSUME NEW n, state["caller"] # "Terminated" => Awaits("caller", "INVITE", n),
               \A m \in net : m.to = "caller" /\ m.of = "INVITE" /\ m.n = n
                  => m.class \in Provisional \cup {"request"}
        PROVE  state'["caller"] # "Terminated" => Awaits("caller", "INVITE", n)'
    <2>1. SUFFICES ASSUME state'["caller"] # "Terminated"
                   PROVE  Awaits("caller", "INVITE", n)'
      OBVIOUS
    <2>2. ~Emptied("caller")
      BY <2>1 DEF Emptied
    <2>3. ~\E m \in net : /\ m.class \in {"2xx", "again", "failure"} /\ m.to = "caller"
                          /\ m.of = "INVITE" /\ m.n = n
      BY <1>2 DEF Provisional
    <2>4. ~Over("caller", "INVITE", n)
      BY <2>3 DEF Over
    <2> QED
      BY <1>0, <1>a, <1>2, <2>1, <2>2, <2>4, WaitsOn
  <1>3. ASSUME state'["callee"] = "Ringing", NEW n, n = ringing'
        PROVE  /\ state'["caller"] # "Terminated" => Awaits("caller", "INVITE", n)'
               /\ \A m \in net' : m.to = "caller" /\ m.of = "INVITE" /\ m.n = n
                    => m.class \in Provisional \cup {"request"}
    <2>1. CASE state["callee"] = "Ringing" /\ ringing = n
      <3>1. /\ state["caller"] # "Terminated" => Awaits("caller", "INVITE", n)
            /\ \A m \in net : m.to = "caller" /\ m.of = "INVITE" /\ m.n = n
                 => m.class \in Provisional \cup {"request"}
        BY <2>1 DEF RingingIsAwaited
      <3>2. state'["caller"] # "Terminated" => Awaits("caller", "INVITE", n)'
        BY <1>2, <3>1
      <3>3. ASSUME NEW m \in net', m.to = "caller", m.of = "INVITE", m.n = n
            PROVE  m.class \in Provisional \cup {"request"}
        <4>1. CASE m \in net
          BY <3>1, <3>3, <4>1
        <4>2. CASE NewAnswer(m)
          <5>1. ~\E q \in net : Placed(q) /\ q.n = m.n
            BY <2>1, <3>3 DEF InvitesAreFresh
          <5> QED
            BY <1>3, <2>1, <3>3, <4>2, <5>1 DEF NewAnswer
        <4> QED
          BY <4>1, <4>2 DEF Effects, NetEffect, NewRequest
      <3> QED
        BY <2>1, <3>2, <3>3
    <2>2. CASE /\ state["callee"] = "Started"
               /\ \E q \in net : Placed(q) /\ q.n = n /\ q \notin net'
               /\ \A b \in net' : /\ b \notin net /\ b.class # "request"
                                  /\ b.to = "caller" /\ b.of = "INVITE"
                                  => b.class \in Provisional
      <3>1. PICK q \in net : Placed(q) /\ q.n = n
        BY <2>2
      <3>2. /\ state["caller"] # "Terminated" => Awaits("caller", "INVITE", q.n)
            /\ \A b \in net : b.class # "request" /\ b.to = "caller" /\ b.of = "INVITE"
                  => b.n # q.n
        BY <3>1 DEF InvitesAreFresh
      <3>3. state'["caller"] # "Terminated" => Awaits("caller", "INVITE", n)'
        BY <1>2, <3>1, <3>2
      <3>4. \A m \in net' : m.to = "caller" /\ m.of = "INVITE" /\ m.n = n
               => m.class \in Provisional \cup {"request"}
        BY <2>2, <3>1, <3>2
      <3> QED
        BY <3>3, <3>4
    <2> QED
      BY <1>0, <1>3, <2>1, <2>2 DEF CalleeEffect
  <1>4. PICK n : n = ringing'
    OBVIOUS
  <1> QED
    BY <1>1, <1>3, <1>4 DEF RingingIsAwaited, Awaits, Accepted

\* Who sent a BYE waits for its answer or ends.
LEMMA ByesAreAwaitedNext ==
    ASSUME TypeOK, TypeOK', RolesAreKept, ByesAreAwaited, Effects
    PROVE  ByesAreAwaited'
  <1> SUFFICES ASSUME NEW m \in net', m.class = "request", m.of = "BYE"
               PROVE  /\ state'[Peer(m.to)] = "Terminated" \/ Leaving(Peer(m.to))'
                      /\ m.to = "caller" => state'["callee"] \notin {"Started", "Ringing"}
    BY DEF ByesAreAwaited, Leaving
  <1>0. m.to \in Ends /\ Peer(m.to) \in Ends
    BY EndsFacts DEF TypeOK, Message
  <1>1. CASE m \in net
    <2>1. /\ state[Peer(m.to)] = "Terminated" \/ Leaving(Peer(m.to))
          /\ m.to = "caller" => state["callee"] \notin {"Started", "Ringing"}
      BY <1>1 DEF ByesAreAwaited
    <2>2. m.to = "caller" => state'["callee"] \notin {"Started", "Ringing"}
      BY <2>1, StatesMove DEF Effects
    <2>3. CASE state[Peer(m.to)] = "Terminated"
      BY <1>0, <2>2, <2>3, StatesMove DEF Effects
    <2>4. CASE Leaving(Peer(m.to))
      <3>1. PICK t \in pending[Peer(m.to)] : t.of = "BYE"
        BY <2>4 DEF Leaving
      <3>2. Awaits(Peer(m.to), "BYE", t.n)
        BY <3>1 DEF Awaits
      <3>a. ~Over(Peer(m.to), "BYE", t.n)
        BY <1>0, EndsFacts DEF Over
      <3>3. Emptied(Peer(m.to)) \/ Awaits(Peer(m.to), "BYE", t.n)'
        BY <1>0, <3>2, <3>a, WaitsOn DEF Effects
      <3> QED
        BY <2>2, <3>3 DEF Emptied, Awaits, Leaving
    <2> QED
      BY <2>1, <2>3, <2>4
  <1>2. CASE NewRequest(m)
    <2>1. state'[Peer(m.to)] = "Trying" /\ Leaving(Peer(m.to))'
      BY <1>2 DEF NewRequest, Awaits, Leaving
    <2>2. m.to = "caller" => Peer(m.to) = "callee"
      BY EndsFacts
    <2> QED
      BY <2>1, <2>2
  <1> QED
    BY <1>1, <1>2 DEF Effects, NetEffect, NewAnswer

\* A new answer is to an INVITE without one, and the callee accepts out of Ringing only.
LEMMA OneFinalAnswerNext ==
    ASSUME TypeOK, TypeOK', InvitesAreFresh, RolesAreKept, RingingIsAwaited,
           OneFinalAnswer, Effects
    PROVE  OneFinalAnswer'
  <1>0. CalleeEffect
    BY DEF Effects
  \* A new answer is the first to its INVITE.
  <1>1. ASSUME NEW a \in answers', a \notin answers
        PROVE  /\ answers' = answers \cup {a}
               /\ \A b \in answers : b.n # a.n
    BY <1>0, <1>1, AnswersNew DEF OneFinalAnswer, InvitesAreFresh
  <1>2. \A a, b \in answers' : a.n = b.n => a = b
    BY <1>1 DEF OneFinalAnswer
  <1>3. Cardinality({a \in answers' : a.class = "2xx"}) <= 1
    <2>1. CASE \A a \in answers' : a.class = "2xx" => a \in answers
      <3>1. {a \in answers' : a.class = "2xx"} = {a \in answers : a.class = "2xx"}
        BY <1>0, <2>1 DEF CalleeEffect
      <3> QED
        BY <3>1 DEF OneFinalAnswer
    <2>2. CASE \E a \in answers' : a.class = "2xx" /\ a \notin answers
      <3>1. PICK a \in answers' : a.class = "2xx" /\ a \notin answers
        BY <2>2
      <3>2. answers' = answers \cup {a} /\ state["callee"] = "Ringing"
        BY <1>0, <3>1, AnswersNew
      <3>3. \A b \in answers : b.class # "2xx"
        BY <3>2 DEF RingingIsAwaited, Accepted
      <3>4. {b \in answers' : b.class = "2xx"} = {a}
        BY <3>1, <3>2, <3>3
      <3> QED
        BY <3>4, FS_Singleton
    <2> QED
      BY <2>1, <2>2
  <1>4. state'["callee"] = "Ringing" => \A a \in answers' : a.n # ringing'
    BY <1>0 DEF CalleeEffect, OneFinalAnswer, InvitesAreFresh
  <1> QED
    BY <1>2, <1>3, <1>4 DEF OneFinalAnswer

------------------------------------------------------------------------------
(* As long as nothing went wrong.                                          *)

\* An answer that ends a dialog is sent by an end that ends.
LEMMA LastAnswersNext ==
    ASSUME TypeOK, TypeOK', RolesAreKept, LastAnswersComeFromLeavers, Effects, faults' = {}
    PROVE  LastAnswersComeFromLeavers'
  <1> SUFFICES ASSUME NEW m \in net', Ending(m)
               PROVE  state'[Peer(m.to)] = "Terminated"
    BY DEF LastAnswersComeFromLeavers, Ending
  <1>1. CASE m \in net
    <2>1. state[Peer(m.to)] = "Terminated" /\ Peer(m.to) \in Ends
      BY <1>1, EndsFacts DEF LastAnswersComeFromLeavers, TypeOK, Message
    <2> QED
      BY <2>1, StatesMove DEF Effects
  <1>2. CASE NewAnswer(m)
    BY <1>2 DEF NewAnswer
  <1> QED
    BY <1>1, <1>2 DEF Effects, NetEffect, NewRequest, Ending

\* Only a 2xx of the callee establishes the caller.
LEMMA UnacceptedNext ==
    ASSUME TypeOK, TypeOK', RolesAreKept, UnacceptedIsNotEstablished, Effects, faults' = {}
    PROVE  UnacceptedIsNotEstablished'
  <1> SUFFICES ASSUME ~Accepted'
               PROVE  /\ \A m \in net' : ~(m.class = "2xx" /\ m.of \in Offers /\ m.to = "caller")
                      /\ dialog'["caller"] # "established"
                      /\ state'["caller"] \in {"Started", "Outgoing", "Cancelling", "Trying",
                                               "Terminated"}
                      /\ state'["caller"] = "Trying" => "caller" \in shutting'
                      /\ state'["callee"] \notin {"Connected", "Holding"}
    BY DEF UnacceptedIsNotEstablished, Accepted
  <1>1. ~Accepted
    BY DEF Accepted, Effects, CalleeEffect
  <1>2. /\ \A m \in net : ~(m.class = "2xx" /\ m.of \in Offers /\ m.to = "caller")
        /\ dialog["caller"] # "established"
        /\ state["caller"] \in {"Started", "Outgoing", "Cancelling", "Trying", "Terminated"}
        /\ state["caller"] = "Trying" => "caller" \in shutting
        /\ state["callee"] \notin {"Connected", "Holding"}
    BY <1>1 DEF UnacceptedIsNotEstablished
  <1>3. Rows("caller") /\ Keeps("caller") /\ Rows("callee")
    BY EndsFacts DEF Effects, StateEffect
  <1>4. \A m \in net' : ~(m.class = "2xx" /\ m.of \in Offers /\ m.to = "caller")
    BY <1>2 DEF Effects, NetEffect, NewRequest, NewAnswer, RolesAreKept
  <1>5. dialog'["caller"] # "established"
    BY <1>2, <1>3 DEF Keeps
  <1>6. /\ state'["caller"] \in {"Started", "Outgoing", "Cancelling", "Trying", "Terminated"}
        /\ state'["caller"] = "Trying" => "caller" \in shutting'
    <2>1. state'["caller"] = state["caller"] \/ state'["caller"] # state["caller"]
      OBVIOUS
    <2>2. CASE state'["caller"] = state["caller"]
      BY <1>2, <1>3, <2>2 DEF Keeps
    <2>3. CASE state'["caller"] # state["caller"]
      BY <1>2, <1>3, <2>3 DEF Rows
    <2> QED
      BY <2>1, <2>2, <2>3
  <1>7. state'["callee"] \notin {"Connected", "Holding"}
    BY <1>2, <1>3 DEF Rows, RolesAreKept
  <1> QED
    BY <1>4, <1>5, <1>6, <1>7

\* Before the call is placed nothing can happen to it.
LEMMA CallerStarts ==
    ASSUME TypeOK, Next, state["caller"] = "Started", net = {}, state["callee"] = "Started",
           state'["caller"] = "Started", faults' = {}
    PROVE  net' = {} /\ state'["callee"] = "Started"
  <1>0. "caller" \in Ends /\ "callee" \in Ends
    BY DEF Ends
  <1>1. \A e \in Ends : ~Alive(e) /\ pending[e] = {} /\ e \notin shutting
    BY <1>0, TypedEnds, EndsFacts DEF Alive
  <1>2. PICK e \in Ends : UserStep(e)
    BY NextSteps
  <1>3. ~Calls
    BY <1>0 DEF Calls, Moves, TypeOK
  <1>4. ~(Refreshes(e) \/ Holds(e) \/ HangsUp(e) \/ ShutsDown(e) \/ ShutdownTimesOut(e)
          \/ TimesOut(e))
    BY <1>0, <1>1, EndsFacts DEF Refreshes, Holds, HangsUp, ShutsDown, ShutdownTimesOut,
                      TimesOut, Alive
  <1>5. Timer100rel
    BY <1>2, <1>3, <1>4 DEF UserStep, Accepts, Rejects, Cancels
  <1>6. net' = net \cup Ringing /\ state' = state
    BY <1>5 DEF Timer100rel
  <1>7. Ringing = {}
    BY <1>0, <1>1, EndsFacts DEF Ringing, Answer
  <1> QED
    BY <1>6, <1>7

\* An end that leaves without a fault is explained.
LEMMA Departure ==
    ASSUME TypeOK, RolesAreKept, InvitesAreFresh, RingingIsAwaited, faults' = {}, Next,
           NEW p \in Ends, Departs(p), state'[Peer(p)] # "Terminated"
    PROVE  Explained(p)
  BY NextSteps, UserDeparture, MessageDeparture

\* The caller does not leave a ringing phone without a word.
LEMMA CallerComesFirstNext ==
    ASSUME TypeOK, TypeOK', RolesAreKept, InvitesAreFresh, RingingIsAwaited, ByesAreAwaited,
           LastAnswersComeFromLeavers, CallerComesFirst, Effects, Next, faults' = {}
    PROVE  CallerComesFirst'
  <1>0. "caller" \in Ends /\ "callee" \in Ends /\ Peer("caller") = "callee"
    BY EndsFacts
  <1>1. state'["caller"] = "Started" => net' = {} /\ state'["callee"] = "Started"
    BY <1>0, StatesMove, CallerStarts DEF CallerComesFirst, Effects
  <1>2. ASSUME state'["callee"] \in {"Started", "Ringing"}, state'["caller"] = "Terminated"
        PROVE  FALSE
    <2>1. state["callee"] \in {"Started", "Ringing"} /\ state["caller"] # "Terminated"
      BY <1>2, StatesMove DEF CallerComesFirst, Effects
    <2>2. Explained("caller")
      BY <1>0, <1>2, <2>1, Departure DEF Departs
    <2>3. PICK b \in net : /\ b.to = "caller"
                           /\ Ending(b) \/ (b.class = "request" /\ b.of = "BYE")
      BY <2>2 DEF Explained
    <2>4. CASE Ending(b)
      BY <1>0, <2>1, <2>3, <2>4 DEF LastAnswersComeFromLeavers
    <2>5. CASE b.class = "request" /\ b.of = "BYE"
      BY <2>1, <2>3, <2>5 DEF ByesAreAwaited
    <2> QED
      BY <2>3, <2>4, <2>5
  <1> QED
    BY <1>1, <1>2 DEF CallerComesFirst

\* Whoever leaves is still leaving, or has left, unless its BYE was challenged.
LEMMA LeavesOn ==
    ASSUME TypeOK, PendingEffect, NEW e \in Ends, Leaving(e), Alive(e)', faults = {}
    PROVE  Leaving(e)'
  <1>1. PICK t \in pending[e] : t.of = "BYE"
    BY DEF Leaving
  <1>2. Awaits(e, "BYE", t.n)
    BY <1>1 DEF Awaits
  <1>3. Awaits(e, "BYE", t.n)'
    BY <1>2, WaitsOn DEF Emptied, Alive, Over
  <1> QED
    BY <1>3 DEF Awaits, Leaving

\* Who is left behind is leaving too, or is being told.
LEMMA LeftBehindNext ==
    ASSUME TypeOK, TypeOK', AnswersAreAwaited, RolesAreKept, InvitesAreFresh,
           RingingIsAwaited, ByesAreAwaited, LastAnswersComeFromLeavers,
           UnacceptedIsNotEstablished, CallerComesFirst, LeftBehindIsTold, Effects, Next,
           faults' = {}
    PROVE  LeftBehindIsTold'
  <1> SUFFICES ASSUME NEW e \in Ends, Alive(e)', e \notin shutting',
                      state'[Peer(e)] = "Terminated"
               PROVE  \/ Leaving(e)'
                      \/ /\ e = "caller" /\ ~Accepted'
                         /\ \E m \in net' : Telling(m)
    BY DEF LeftBehindIsTold, Alive, Leaving, Accepted, Telling, Placed
  <1>0. /\ "caller" \in Ends /\ "callee" \in Ends /\ Peer(e) \in Ends /\ Peer(Peer(e)) = e
        /\ e = "caller" \/ e = "callee"
        /\ Peer("caller") = "callee" /\ Peer("callee") = "caller"
    BY EndsFacts
  <1>a. PendingEffect /\ Keeps(e) /\ Rows(e) /\ faults = {}
    BY DEF Effects, StateEffect
  <1>b. state'[e] # "Terminated" /\ state[e] # "Terminated"
    BY StatesMove DEF Effects, Alive
  <1>1. CASE Departs(Peer(e))
    <2>1. Explained(Peer(e))
      BY <1>0, <1>1, <1>b, Departure
    <2>2. CASE \E b \in net : /\ b.to = Peer(e)
                              /\ Ending(b) \/ (b.class = "request" /\ b.of = "BYE")
      <3>1. PICK b \in net : /\ b.to = Peer(e)
                             /\ Ending(b) \/ (b.class = "request" /\ b.of = "BYE")
        BY <2>2
      <3>2. ~Ending(b)
        BY <1>0, <1>b, <3>1 DEF LastAnswersComeFromLeavers
      <3>3. Leaving(e)
        BY <1>0, <1>b, <3>1, <3>2 DEF ByesAreAwaited
      <3> QED
        BY <1>a, <3>3, LeavesOn
    <2>3. CASE Peer(e) = "callee" /\ ~Accepted' /\ \E b \in net' : Telling(b)
      BY <1>0, <2>3
    <2> QED
      BY <2>1, <2>2, <2>3 DEF Explained
  <1>2. CASE state[Peer(e)] = "Terminated"
    <2>1. Alive(e)
      <3>1. Alive(e) \/ state[e] = "Started"
        BY StatesMove DEF Effects
      <3>2. state[e] # "Started"
        BY <1>0, <1>2 DEF CallerComesFirst
      <3> QED
        BY <3>1, <3>2
    <2>2. e \notin shutting
      BY <1>a, <1>b DEF Keeps
    <2>3. CASE Leaving(e)
      BY <1>a, <2>3, LeavesOn
    <2>4. CASE e = "caller" /\ ~Accepted /\ \E m \in net : Telling(m)
      <3>1. state["callee"] = "Terminated"
        BY <1>0, <1>2, <2>4
      <3>2. ~Accepted'
        BY <2>4, <3>1 DEF Effects, CalleeEffect, Accepted
      <3>3. PICK m \in net : Telling(m)
        BY <2>4
      <3>4. \E b \in net' : Telling(b)
        <4>1. CASE \E d \in Ends : UserStep(d)
          BY <2>1, <2>4, <3>3, <4>1, UserTellingStays
        <4>2. CASE \E b \in net : MessageStep(b)
          BY <2>1, <2>2, <2>4, <3>1, <3>3, <4>2, MessageTellingStays
        <4> QED
          BY <4>1, <4>2, NextSteps
      <3> QED
        BY <2>4, <3>2, <3>4
    <2> QED
      BY <1>2, <2>1, <2>2, <2>3, <2>4 DEF LeftBehindIsTold
  <1> QED
    BY <1>1, <1>2 DEF Departs

------------------------------------------------------------------------------
\* The initial states satisfy the inductive invariant.
LEMMA IndInvInit ==
    ASSUME Init
    PROVE  IndInv
  <1>1. /\ state["caller"] = "Started" /\ state["callee"] = "Started"
        /\ pending["caller"] = {} /\ pending["callee"] = {} /\ net = {} /\ answers = {}
        /\ offers["caller"] = 0 /\ dialog["caller"] = "initial" /\ ringing = 0
    BY EndsFacts DEF Init
  <1>2. TypeOK
    <2>1. 0 \in 0..MaxOffers
      BY BoundsAssumption
    <2>2. /\ state \in [Ends -> States] /\ offers \in [Ends -> 0..MaxOffers]
          /\ dialog \in [Ends -> {"initial", "early", "established"}]
          /\ pending \in [Ends -> SUBSET Transaction]
      BY <2>1 DEF Init, States
    <2>3. \A e \in Ends : pending[e] = {} /\ e \notin shutting
      BY DEF Init
    <2> QED
      BY <2>1, <2>2, <2>3 DEF Init, TypeOK
  <1>3. OneFinalAnswer
    <2>1. {a \in answers : a.class = "2xx"} = {}
      BY <1>1
    <2> QED
      BY <1>1, <2>1, FS_EmptySet DEF OneFinalAnswer
  <1>4. AnswersAreAwaited /\ InvitesAreNumbered /\ InvitesAreFresh /\ RolesAreKept
        /\ RingingIsAwaited /\ ByesAreAwaited
    BY <1>1 DEF AnswersAreAwaited, InvitesAreNumbered, InvitesAreFresh, RolesAreKept,
                RingingIsAwaited, ByesAreAwaited, Accepted
  <1>5. LastAnswersComeFromLeavers /\ UnacceptedIsNotEstablished /\ CallerComesFirst
    BY <1>1 DEF LastAnswersComeFromLeavers, UnacceptedIsNotEstablished, CallerComesFirst
  <1>6. LeftBehindIsTold
    BY <1>1, EndsFacts DEF LeftBehindIsTold, Alive
  <1> QED
    BY <1>2, <1>3, <1>4, <1>5, <1>6 DEF IndInv

\* Every step keeps it.
LEMMA IndInvNext ==
    ASSUME IndInv, [Next]_vars
    PROVE  IndInv'
  <1>1. CASE UNCHANGED vars
    BY <1>1 DEF IndInv, vars, TypeOK, OneFinalAnswer, AnswersAreAwaited,
         InvitesAreNumbered, InvitesAreFresh, RolesAreKept, RingingIsAwaited,
         ByesAreAwaited, LastAnswersComeFromLeavers, UnacceptedIsNotEstablished,
         CallerComesFirst, LeftBehindIsTold, Alive, Leaving, Accepted, Awaits, Telling,
         Ending, Placed
  <1>2. CASE Next
    <2>0. /\ TypeOK /\ OneFinalAnswer /\ AnswersAreAwaited /\ InvitesAreNumbered
          /\ InvitesAreFresh /\ RolesAreKept /\ RingingIsAwaited /\ ByesAreAwaited
      BY DEF IndInv
    <2>1. TypeOK' /\ Effects
      BY <1>2, <2>0, NextEffects
    <2>2. AnswersAreAwaited' /\ InvitesAreNumbered' /\ InvitesAreFresh'
      BY <2>0, <2>1, AnswersAreAwaitedNext, InvitesAreNumberedNext, InvitesAreFreshNext
    <2>3. RolesAreKept' /\ RingingIsAwaited' /\ ByesAreAwaited'
      BY <2>0, <2>1, StatesMove, RingingIsAwaitedNext, ByesAreAwaitedNext DEF Effects
    <2>4. OneFinalAnswer'
      BY <2>0, <2>1, OneFinalAnswerNext
    <2>5. ASSUME faults' = {}
          PROVE  /\ LastAnswersComeFromLeavers' /\ UnacceptedIsNotEstablished'
                 /\ CallerComesFirst' /\ LeftBehindIsTold'
      <3>1. faults = {}
        BY <2>1, <2>5 DEF Effects, StateEffect
      <3>2. /\ LastAnswersComeFromLeavers /\ UnacceptedIsNotEstablished
            /\ CallerComesFirst /\ LeftBehindIsTold
        BY <3>1 DEF IndInv
      <3> QED
        BY <1>2, <2>0, <2>1, <2>5, <3>2, LastAnswersNext, UnacceptedNext,
           CallerComesFirstNext, LeftBehindNext
    <2> QED
      BY <2>1, <2>2, <2>3, <2>4, <2>5 DEF IndInv
  <1> QED
    BY <1>1, <1>2

\* The inductive invariant holds throughout a call.
THEOREM Invariance == Spec => []IndInv
  <1>1. Init => IndInv
    BY IndInvInit
  <1>2. IndInv /\ [Next]_vars => IndInv'
    BY IndInvNext
  <1> QED
    BY <1>1, <1>2, PTL DEF Spec

\* The dialogs keep their types, and a dialog that has ended waits for nothing
\* (tsip_dialog_invite_OnTerminated), for every number of offers.
THEOREM TypeCorrectness == Spec => []TypeOK
  <1>1. IndInv => TypeOK
    BY DEF IndInv
  <1> QED
    BY <1>1, Invariance, PTL

\* Each INVITE of a new call gets one final answer, and one of them at most accepts
\* it (the rows of Ringing in tsip_dialog_invite.server.c).
THEOREM CallIsAnsweredOnce == Spec => []OneFinalAnswer
  <1>1. IndInv => OneFinalAnswer
    BY DEF IndInv
  <1> QED
    BY <1>1, Invariance, PTL

\* Whoever leaves a call tells the other end, unless something went wrong.
THEOREM LeaverTells == Spec => []NobodyLeftWaiting
  <1>1. ASSUME IndInv
        PROVE  NobodyLeftWaiting
    <2> SUFFICES ASSUME NEW e \in Ends, Alive(e), e \notin shutting,
                        state[Peer(e)] = "Terminated",
                        \A m \in net : m.to = e => m.class \in Provisional,
                        \A t \in pending[e] : t.of = "INVITE" /\ t.heard,
                        faults = {}
                 PROVE  FALSE
      BY DEF NobodyLeftWaiting
    <2>1. InvitesAreFresh /\ LeftBehindIsTold
      BY <1>1 DEF IndInv
    <2>2. ~Leaving(e)
      BY DEF Leaving
    <2>3. PICK m \in net : e = "caller" /\ Telling(m)
      BY <2>1, <2>2 DEF LeftBehindIsTold
    <2>4. Placed(m)
      BY <2>3 DEF Telling, Provisional
    <2>5. /\ Awaits("caller", "INVITE", m.n)
          /\ \A t \in pending["caller"] : t.of = "INVITE" /\ t.n = m.n => ~t.heard
      BY <2>1, <2>3, <2>4 DEF InvitesAreFresh, Alive
    <2> QED
      BY <2>3, <2>5 DEF Awaits
  <1> QED
    BY <1>1, Invariance, PTL
=============================================================================
