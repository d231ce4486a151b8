-------------------------- MODULE HeldReplyProofs --------------------------
(***************************************************************************)
(* Proofs about HeldReply for any number of requests, tabs and endpoints   *)
(* and any timeouts with HoldTime <= PendingTTL: the invariants its runs   *)
(* check, and that every step is a step of FirstAnswer or a stutter.       *)
(***************************************************************************)
EXTENDS HeldReply, TLAPS

USE DEF Undecided, Phase

\* The invariant holds before anything happens.
LEMMA InitIInv == Init => IInv
<1> SUFFICES ASSUME Init PROVE IInv
  OBVIOUS
<1>1. TypeOK
  BY DEF Init, TypeOK
<1>2. PendingIffHeld /\ HandlersAreYoung /\ ReadyBeforeDeadline /\ UndecidedIffNoReply
  BY DEF Init, PendingIffHeld, HandlersAreYoung, ReadyBeforeDeadline, UndecidedIffNoReply
<1>3. ReplyFromOwnEndpoint
  BY AnswerAssumption DEF Init, ReplyFromOwnEndpoint
<1>4. AnswersAreOwn
  BY DEF Init, AnswersAreOwn
<1> QED BY <1>1, <1>2, <1>3, <1>4 DEF IInv

\* A request enters: nothing that was known of the others changes, and nobody
\* can have answered it before.
LEMMA HoldIInv ==
  ASSUME IInv, NEW r \in Request, NEW s \in Slug, Hold(r, s)
  PROVE  IInv'
<1> USE DEF IInv, TypeOK
<1>1. TypeOK'
  BY DEF Hold, tabVars
<1>2. PendingIffHeld'
  BY DEF Hold, PendingIffHeld
<1>3. reply[r] = NoAnswer /\ chan[r] = NoAnswer
  BY DEF Hold, UndecidedIffNoReply, AnswersAreOwn
<1>4. ReplyFromOwnEndpoint'
  BY <1>3, AnswerAssumption DEF Hold, ReplyFromOwnEndpoint
<1>5. AnswersAreOwn'
  BY <1>3 DEF Hold, AnswersAreOwn, OwnAnswer
<1>6. HandlersAreYoung' /\ ReadyBeforeDeadline'
  BY HeldReplyAssumption DEF Hold, HandlersAreYoung, ReadyBeforeDeadline
<1>7. UndecidedIffNoReply'
  BY DEF Hold, UndecidedIffNoReply
<1> QED BY <1>1, <1>2, <1>4, <1>5, <1>6, <1>7 DEF IInv

\* The steps of a handler.
LEMMA HandlerIInv ==
  ASSUME IInv, NEW r \in Request, Handler(r)
  PROVE  IInv'
<1> USE DEF IInv, TypeOK
<1>1. CASE AskTabs(r)
  <2>1. TypeOK'
    BY <1>1 DEF AskTabs
  <2>2. PendingIffHeld' /\ ReplyFromOwnEndpoint' /\ AnswersAreOwn'
    BY <1>1 DEF AskTabs, PendingIffHeld, ReplyFromOwnEndpoint, AnswersAreOwn, OwnAnswer
  <2>3. HandlersAreYoung' /\ ReadyBeforeDeadline' /\ UndecidedIffNoReply'
    BY <1>1 DEF AskTabs, HandlersAreYoung, ReadyBeforeDeadline, UndecidedIffNoReply
  <2> QED BY <2>1, <2>2, <2>3 DEF IInv
<1>2. CASE StartWaiting(r)
  <2>1. TypeOK'
    BY <1>2, HeldReplyAssumption DEF StartWaiting, tabVars
  <2>2. PendingIffHeld' /\ ReplyFromOwnEndpoint' /\ AnswersAreOwn'
    BY <1>2 DEF StartWaiting, PendingIffHeld, ReplyFromOwnEndpoint, AnswersAreOwn, OwnAnswer
  <2>3. HandlersAreYoung' /\ ReadyBeforeDeadline' /\ UndecidedIffNoReply'
    BY <1>2, HeldReplyAssumption DEF StartWaiting, HandlersAreYoung, ReadyBeforeDeadline, UndecidedIffNoReply
  <2> QED BY <2>1, <2>2, <2>3 DEF IInv
<1>3. CASE TakeReply(r)
  <2>1. TypeOK'
    BY <1>3 DEF TakeReply, tabVars
  <2>2. PendingIffHeld'
    BY <1>3 DEF TakeReply, PendingIffHeld
  <2>3. ReplyFromOwnEndpoint' /\ AnswersAreOwn'
    BY <1>3 DEF TakeReply, ReplyFromOwnEndpoint, AnswersAreOwn, OwnAnswer
  <2>4. HandlersAreYoung' /\ ReadyBeforeDeadline'
    BY <1>3 DEF TakeReply, HandlersAreYoung, ReadyBeforeDeadline
  <2>5. UndecidedIffNoReply'
    BY <1>3 DEF TakeReply, UndecidedIffNoReply
  <2> QED BY <2>1, <2>2, <2>3, <2>4, <2>5 DEF IInv
<1>4. CASE GiveUp(r)
  <2>1. TypeOK'
    BY <1>4 DEF GiveUp, tabVars
  <2>2. PendingIffHeld'
    BY <1>4 DEF GiveUp, PendingIffHeld
  <2>3. ReplyFromOwnEndpoint' /\ AnswersAreOwn'
    BY <1>4, AnswerAssumption DEF GiveUp, ReplyFromOwnEndpoint, AnswersAreOwn, OwnAnswer
  <2>4. HandlersAreYoung' /\ ReadyBeforeDeadline'
    BY <1>4 DEF GiveUp, HandlersAreYoung, ReadyBeforeDeadline
  <2>5. UndecidedIffNoReply'
    BY <1>4, HeldReplyAssumption DEF GiveUp, UndecidedIffNoReply
  <2> QED BY <2>1, <2>2, <2>3, <2>4, <2>5 DEF IInv
<1>5. CASE Finish(r)
  <2>1. TypeOK'
    BY <1>5 DEF Finish, tabVars
  <2>2. PendingIffHeld' /\ ReplyFromOwnEndpoint' /\ AnswersAreOwn'
    BY <1>5 DEF Finish, PendingIffHeld, ReplyFromOwnEndpoint, AnswersAreOwn, OwnAnswer
  <2>3. HandlersAreYoung' /\ ReadyBeforeDeadline' /\ UndecidedIffNoReply'
    BY <1>5 DEF Finish, HandlersAreYoung, ReadyBeforeDeadline, UndecidedIffNoReply
  <2> QED BY <2>1, <2>2, <2>3 DEF IInv
<1> QED BY <1>1, <1>2, <1>3, <1>4, <1>5 DEF Handler

\* Tabs, senders and the network change nothing a handler relies on: what a
\* tab sends is checked when it is looked up.
LEMMA OutsideIInv ==
  ASSUME IInv,
         \/ \E r \in Request : SenderLeaves(r)
         \/ \E t \in Tab, s \in Slug : Connect(t, s)
         \/ \E t \in Tab : Disconnect(t)
         \/ \E t \in Tab, r \in Request : SendAnswer(t, r)
         \/ \E a \in inFlight : LoseAnswer(a)
  PROVE  IInv'
<1>1. /\ UNCHANGED <<phase, slugOf, pending, born, chan, deadline, reply, found, now>>
      /\ gone' \in SUBSET Request
      /\ conn' \in [Tab -> Slug \cup {NoSlug}]
      /\ working' \in [Tab -> SUBSET Request]
      /\ inFlight' \in SUBSET Answer
  <2> USE DEF IInv, TypeOK
  <2>1. CASE \E r \in Request : SenderLeaves(r)
    BY <2>1 DEF SenderLeaves, tabVars
  <2>2. CASE \E t \in Tab, s \in Slug : Connect(t, s)
    BY <2>2 DEF Connect, handlerVars
  <2>3. CASE \E t \in Tab : Disconnect(t)
    BY <2>3 DEF Disconnect, handlerVars
  <2>4. CASE \E t \in Tab, r \in Request : SendAnswer(t, r)
    BY <2>4 DEF SendAnswer, handlerVars, Answer
  <2>5. CASE \E a \in inFlight : LoseAnswer(a)
    BY <2>5 DEF LoseAnswer, handlerVars
  <2> QED BY <2>1, <2>2, <2>3, <2>4, <2>5
<1>2. TypeOK'
  BY <1>1 DEF IInv, TypeOK
<1>3. PendingIffHeld' /\ ReplyFromOwnEndpoint'
  BY <1>1 DEF IInv, PendingIffHeld, ReplyFromOwnEndpoint
<1>4. AnswersAreOwn'
  BY <1>1 DEF IInv, AnswersAreOwn, OwnAnswer
<1>5. HandlersAreYoung' /\ ReadyBeforeDeadline' /\ UndecidedIffNoReply'
  BY <1>1 DEF IInv, HandlersAreYoung, ReadyBeforeDeadline, UndecidedIffNoReply
<1> QED BY <1>2, <1>3, <1>4, <1>5 DEF IInv

\* The lookup lets only answers of the entry's endpoint through.
LEMMA LookUpIInv ==
  ASSUME IInv, NEW a \in inFlight, LookUp(a)
  PROVE  IInv'
<1> USE DEF IInv, TypeOK
<1>1. a \in Answer /\ a.req \in Request
  BY DEF Answer
<1>2. TypeOK'
  BY <1>1 DEF LookUp, handlerVars
<1>3. PendingIffHeld' /\ ReplyFromOwnEndpoint'
  BY DEF LookUp, handlerVars, PendingIffHeld, ReplyFromOwnEndpoint
<1>4. AnswersAreOwn'
  BY <1>1 DEF LookUp, handlerVars, AnswersAreOwn, OwnAnswer, Entry, PendingIffHeld
<1>5. HandlersAreYoung' /\ ReadyBeforeDeadline' /\ UndecidedIffNoReply'
  BY DEF LookUp, handlerVars, HandlersAreYoung, ReadyBeforeDeadline, UndecidedIffNoReply
<1> QED BY <1>2, <1>3, <1>4, <1>5 DEF IInv

\* The send puts an answer only where it belongs.
LEMMA DeliverIInv ==
  ASSUME IInv, NEW a \in found, Deliver(a)
  PROVE  IInv'
<1> USE DEF IInv, TypeOK
<1>1. a \in Answer /\ a.req \in Request /\ a # NoAnswer
  BY AnswerAssumption DEF Answer
<1>2. phase[a.req] # "new" /\ OwnAnswer(a.req, a)
  BY DEF AnswersAreOwn
<1>3. CASE Parked(a.req)
  <2>1. /\ phase' = [phase EXCEPT ![a.req] = "replied"]
        /\ reply' = [reply EXCEPT ![a.req] = a]
        /\ found' = found \ {a}
        /\ UNCHANGED <<chan, slugOf, pending, born, deadline, gone, conn, working,
                       inFlight, now>>
    BY <1>3 DEF Deliver, tabVars
  <2>2. TypeOK'
    BY <1>1, <2>1
  <2>3. PendingIffHeld' /\ HandlersAreYoung' /\ ReadyBeforeDeadline'
    BY <1>1, <1>3, <2>1 DEF PendingIffHeld, HandlersAreYoung, ReadyBeforeDeadline, Parked
  <2>4. ReplyFromOwnEndpoint' /\ AnswersAreOwn'
    BY <1>1, <1>2, <2>1 DEF ReplyFromOwnEndpoint, AnswersAreOwn, OwnAnswer
  <2>5. UndecidedIffNoReply'
    BY <1>1, <1>3, <2>1 DEF UndecidedIffNoReply, Parked
  <2> QED BY <2>2, <2>3, <2>4, <2>5 DEF IInv
<1>4. CASE ~Parked(a.req)
  <2>1. /\ chan' = IF chan[a.req] = NoAnswer THEN [chan EXCEPT ![a.req] = a] ELSE chan
        /\ found' = found \ {a}
        /\ UNCHANGED <<phase, reply, slugOf, pending, born, deadline, gone, conn,
                       working, inFlight, now>>
    BY <1>4 DEF Deliver, tabVars
  <2>2. TypeOK'
    BY <1>1, <2>1
  <2>3. PendingIffHeld' /\ HandlersAreYoung' /\ UndecidedIffNoReply'
    BY <2>1 DEF PendingIffHeld, HandlersAreYoung, UndecidedIffNoReply
  <2>4. ReadyBeforeDeadline'
    \* A handler in its select that is not parked has an answer: the send fails.
    <3>1. phase[a.req] = "waiting" => chan' = chan
      BY <1>4, <2>1 DEF Parked
    <3>2. \A r \in Request : phase[r] = "waiting" => chan'[r] = chan[r]
      BY <1>1, <2>1, <3>1
    <3> QED BY <2>1, <3>2 DEF ReadyBeforeDeadline
  <2>5. ReplyFromOwnEndpoint' /\ AnswersAreOwn'
    BY <1>1, <1>2, <2>1 DEF ReplyFromOwnEndpoint, AnswersAreOwn, OwnAnswer
  <2> QED BY <2>2, <2>3, <2>4, <2>5 DEF IInv
<1> QED BY <1>3, <1>4

\* The sweep takes no entry whose handler has not returned: such a handler is
\* at most HoldTime old, and PendingTTL is no less.
LEMMA SweepIInv ==
  ASSUME IInv, SweepPending
  PROVE  IInv'
<1> USE DEF IInv, TypeOK
<1>1. \A r \in pending : ~Stale(r)
  BY HeldReplyAssumption DEF PendingIffHeld, HandlersAreYoung, ReadyBeforeDeadline, Stale
<1>2. pending' = pending
  BY <1>1 DEF SweepPending
<1>3. UNCHANGED <<phase, slugOf, born, chan, deadline, gone, reply, conn, working,
                  inFlight, found, now>>
  BY DEF SweepPending, tabVars
<1>4. TypeOK' /\ PendingIffHeld' /\ ReplyFromOwnEndpoint'
  BY <1>2, <1>3 DEF PendingIffHeld, ReplyFromOwnEndpoint
<1>5. AnswersAreOwn' /\ HandlersAreYoung' /\ ReadyBeforeDeadline' /\ UndecidedIffNoReply'
  BY <1>3 DEF AnswersAreOwn, OwnAnswer, HandlersAreYoung, ReadyBeforeDeadline, UndecidedIffNoReply
<1> QED BY <1>4, <1>5 DEF IInv

\* Time passes only while every handler waits within its deadline.
LEMMA TickIInv ==
  ASSUME IInv, Tick
  PROVE  IInv'
<1> USE DEF IInv, TypeOK
<1>1. /\ UNCHANGED <<phase, slugOf, pending, born, chan, deadline, gone, reply,
                     conn, working, inFlight, found>>
      /\ now' = now + 1
  BY DEF Tick, handlerVars, tabVars
<1>2. TypeOK' /\ PendingIffHeld' /\ ReplyFromOwnEndpoint'
  BY <1>1 DEF PendingIffHeld, ReplyFromOwnEndpoint
<1>3. AnswersAreOwn' /\ UndecidedIffNoReply'
  BY <1>1 DEF AnswersAreOwn, OwnAnswer, UndecidedIffNoReply
<1>4. HandlersAreYoung'
  <2> SUFFICES ASSUME NEW r \in Request, phase[r] \in Undecided \cup {"replied"}
               PROVE  /\ phase[r] = "waiting" /\ deadline[r] = born[r] + HoldTime
                      /\ born[r] <= now' /\ now' <= born[r] + HoldTime
    BY <1>1 DEF HandlersAreYoung
  <2>1. Idle(r)
    BY DEF Tick
  <2>2. phase[r] = "waiting" /\ ~(now >= deadline[r])
    BY <2>1 DEF Idle, Parked, ContextDone
  <2>3. deadline[r] = born[r] + HoldTime /\ born[r] <= now
    BY <2>2 DEF HandlersAreYoung
  <2> QED BY <1>1, <2>2, <2>3, HeldReplyAssumption
<1>5. ReadyBeforeDeadline'
  BY <1>1 DEF ReadyBeforeDeadline, Tick, Idle, Parked
<1> QED BY <1>2, <1>3, <1>4, <1>5 DEF IInv

\* The inductive invariant holds throughout.
THEOREM Invariance == Spec => []IInv
<1>1. IInv /\ [Next]_vars => IInv'
  <2> SUFFICES ASSUME IInv, [Next]_vars PROVE IInv'
    OBVIOUS
  <2>1. CASE \E r \in Request, s \in Slug : Hold(r, s)
    BY <2>1, HoldIInv
  <2>2. CASE \E r \in Request : Handler(r)
    BY <2>2, HandlerIInv
  <2>3. CASE \/ \E r \in Request : SenderLeaves(r)
             \/ \E t \in Tab, s \in Slug : Connect(t, s)
             \/ \E t \in Tab : Disconnect(t)
             \/ \E t \in Tab, r \in Request : SendAnswer(t, r)
             \/ \E a \in inFlight : LoseAnswer(a)
    BY <2>3, OutsideIInv
  <2>4. CASE \E a \in inFlight : LookUp(a)
    BY <2>4, LookUpIInv
  <2>5. CASE \E a \in found : Deliver(a)
    BY <2>5, DeliverIInv
  <2>6. CASE SweepPending
    BY <2>6, SweepIInv
  <2>7. CASE Tick
    BY <2>7, TickIInv
  <2>8. CASE UNCHANGED vars
    BY <2>8 DEF vars, handlerVars, tabVars, IInv, TypeOK, PendingIffHeld,
                ReplyFromOwnEndpoint, AnswersAreOwn, OwnAnswer, HandlersAreYoung,
                ReadyBeforeDeadline,                 UndecidedIffNoReply
  <2> QED BY <2>1, <2>2, <2>3, <2>4, <2>5, <2>6, <2>7, <2>8 DEF Next
<1> QED BY InitIInv, <1>1, PTL DEF Spec

\* The state is well formed.
THEOREM TypeCorrect == Spec => []TypeOK
<1>1. IInv => TypeOK
  BY DEF IInv
<1> QED BY Invariance, <1>1, PTL

\* The pending map holds exactly the handlers that have not returned, for any
\* timeouts with HoldTime <= PendingTTL.
THEOREM PendingExact == Spec => []PendingIffHeld
<1>1. IInv => PendingIffHeld
  BY DEF IInv
<1> QED BY Invariance, <1>1, PTL

\* No sender is sent an answer to another request or from another endpoint.
THEOREM ReplyScoped == Spec => []ReplyFromOwnEndpoint
<1>1. IInv => ReplyFromOwnEndpoint
  BY DEF IInv
<1> QED BY Invariance, <1>1, PTL

-----------------------------------------------------------------------------
(* HeldReply implements FirstAnswer.                                       *)

\* A state without a held request is an initial state of the promise.
LEMMA InitRefines == Init => Promise!Init
<1> SUFFICES ASSUME Init PROVE Promise!Init
  OBVIOUS
<1>1. {r \in Request : phase[r] # "new"} = {}
  BY DEF Init
<1>2. gone = {} /\ reply = [r \in Request |-> NoAnswer]
  BY DEF Init
<1>3. [r \in Request |-> IF phase[r] \in Undecided THEN chan[r] ELSE NoAnswer]
        = [r \in Request |-> NoAnswer]
  BY DEF Init
<1> QED BY <1>1, <1>2, <1>3 DEF Promise!Init

\* The steps that the promise does not see.
LEMMA StutterRefines ==
  ASSUME IInv,
         UNCHANGED <<gone, reply, chan>>,
         phase' \in [Request -> Phase],
         \A r \in Request : phase[r] \in Undecided <=> phase'[r] \in Undecided,
         \A r \in Request : phase[r] = "new" <=> phase'[r] = "new"
  PROVE  UNCHANGED Promise!vars
<1>1. {r \in Request : phase'[r] # "new"} = {r \in Request : phase[r] # "new"}
  OBVIOUS
<1>2. [r \in Request |-> IF phase'[r] \in Undecided THEN chan'[r] ELSE NoAnswer]
        = [r \in Request |-> IF phase[r] \in Undecided THEN chan[r] ELSE NoAnswer]
  OBVIOUS
<1> QED BY <1>1, <1>2 DEF Promise!vars

\* An undecided request, and what it is offered, are the same in both.
LEMMA UndecidedRefines ==
  ASSUME IInv, NEW r \in Request, phase[r] \in Undecided
  PROVE  Promise!Undecided(r)
BY DEF Promise!Undecided, IInv, UndecidedIffNoReply

\* Every step of the handlers, tabs, pumps and sweep is a step of the promise
\* or is invisible to it.
LEMMA StepRefines ==
  ASSUME IInv, [Next]_vars
  PROVE  [Promise!Next]_(Promise!vars)
<1> DEFINE heldOf  == {r \in Request : phase[r] # "new"}
           offerOf == [r \in Request |-> IF phase[r] \in Undecided THEN chan[r]
                                                                   ELSE NoAnswer]
<1>1. ASSUME NEW r \in Request, NEW s \in Slug, Hold(r, s)
      PROVE  Promise!Hold(r)
  <2>1. chan[r] = NoAnswer /\ phase[r] = "new"
    BY <1>1 DEF Hold, IInv, AnswersAreOwn
  <2>2. heldOf' = heldOf \cup {r} /\ r \notin heldOf
    BY <1>1, <2>1 DEF Hold, IInv, TypeOK
  <2>3. offerOf' = offerOf
    BY <1>1, <2>1 DEF Hold, IInv, TypeOK
  <2>4. UNCHANGED <<gone, reply>>
    BY <1>1 DEF Hold
  <2> QED BY <2>2, <2>3, <2>4 DEF Promise!Hold
<1>2. ASSUME NEW r \in Request, AskTabs(r) \/ StartWaiting(r) \/ Finish(r)
      PROVE  UNCHANGED Promise!vars
  <2>1. UNCHANGED <<gone, reply, chan>>
    BY <1>2 DEF AskTabs, StartWaiting, Finish
  <2>2. /\ phase' \in [Request -> Phase]
        /\ \A q \in Request : phase[q] \in Undecided <=> phase'[q] \in Undecided
        /\ \A q \in Request : phase[q] = "new" <=> phase'[q] = "new"
    BY <1>2 DEF AskTabs, StartWaiting, Finish, IInv, TypeOK
  <2> QED BY <2>1, <2>2, StutterRefines
<1>3. ASSUME NEW r \in Request, TakeReply(r)
      PROVE  Promise!Take(r)
  <2>1. Promise!Undecided(r)
    BY <1>3, UndecidedRefines DEF TakeReply
  <2>2. heldOf' = heldOf
    BY <1>3 DEF TakeReply, IInv, TypeOK
  <2>3. offerOf' = [offerOf EXCEPT ![r] = NoAnswer]
    BY <1>3 DEF TakeReply, IInv, TypeOK
  <2>4. offerOf[r] = chan[r] /\ chan[r] # NoAnswer
    BY <1>3 DEF TakeReply
  <2>5. reply' = [reply EXCEPT ![r] = chan[r]] /\ gone' = gone
    BY <1>3 DEF TakeReply
  <2> QED BY <2>1, <2>2, <2>3, <2>4, <2>5 DEF Promise!Take
<1>4. ASSUME NEW r \in Request, GiveUp(r)
      PROVE  Promise!GiveUp(r)
  <2>1. Promise!Undecided(r)
    BY <1>4, UndecidedRefines DEF GiveUp
  <2>2. heldOf' = heldOf
    BY <1>4 DEF GiveUp, IInv, TypeOK
  <2>3. offerOf' = [offerOf EXCEPT ![r] = NoAnswer]
    BY <1>4 DEF GiveUp, IInv, TypeOK
  <2>4. offerOf[r] = NoAnswer \/ r \in gone
    <3>1. phase[r] = "waiting" /\ (r \in gone \/ now >= deadline[r])
      BY <1>4 DEF GiveUp, ContextDone
    <3>2. chan[r] = NoAnswer \/ now < deadline[r]
      BY <3>1 DEF IInv, ReadyBeforeDeadline
    <3> QED BY <3>1, <3>2 DEF IInv, TypeOK
  <2>5. reply' = [reply EXCEPT ![r] = Default] /\ gone' = gone
    BY <1>4 DEF GiveUp
  <2> QED BY <2>1, <2>2, <2>3, <2>4, <2>5 DEF Promise!GiveUp
<1>5. ASSUME NEW r \in Request, SenderLeaves(r)
      PROVE  Promise!Leave(r)
  <2>1. Promise!Undecided(r)
    BY <1>5, UndecidedRefines DEF SenderLeaves
  <2>2. heldOf' = heldOf /\ offerOf' = offerOf
    BY <1>5 DEF SenderLeaves
  <2>3. gone' = gone \cup {r} /\ reply' = reply
    BY <1>5 DEF SenderLeaves
  <2> QED BY <2>1, <2>2, <2>3 DEF Promise!Leave
<1>6. ASSUME NEW a \in found, Deliver(a)
      PROVE  \/ Promise!Offer(a.req, a) \/ Promise!Relay(a.req, a)
             \/ UNCHANGED Promise!vars
  <2> DEFINE r == a.req
  <2>1. r \in Request /\ a \in Answer /\ phase[r] # "new"
    BY DEF IInv, TypeOK, AnswersAreOwn, Answer
  <2>2. gone' = gone
    BY <1>6 DEF Deliver
  <2>3. CASE Parked(r)
    <3>1. Promise!Undecided(r) /\ offerOf[r] = NoAnswer
      BY <2>1, <2>3, UndecidedRefines DEF Parked
    <3>2. phase' = [phase EXCEPT ![r] = "replied"] /\ chan' = chan
          /\ reply' = [reply EXCEPT ![r] = a]
      BY <1>6, <2>3 DEF Deliver
    <3>3. heldOf' = heldOf
      BY <2>1, <3>2 DEF IInv, TypeOK
    <3>4. offerOf' = offerOf
      BY <2>1, <2>3, <3>2 DEF IInv, TypeOK, Parked
    <3>5. Promise!Relay(r, a)
      BY <2>2, <3>1, <3>2, <3>3, <3>4 DEF Promise!Relay
    <3> QED BY <3>5
  <2>4. CASE ~Parked(r)
    <3>1. /\ phase' = phase /\ reply' = reply
          /\ chan' = IF chan[r] = NoAnswer THEN [chan EXCEPT ![r] = a] ELSE chan
      BY <1>6, <2>4 DEF Deliver
    <3>2. heldOf' = heldOf
      BY <3>1
    <3>3. CASE chan[r] = NoAnswer /\ phase[r] \in Undecided
      <4>1. Promise!Undecided(r) /\ offerOf[r] = NoAnswer
        BY <2>1, <3>3, UndecidedRefines
      <4>2. offerOf' = [offerOf EXCEPT ![r] = a]
        BY <2>1, <3>1, <3>3 DEF IInv, TypeOK
      <4>3. Promise!Offer(r, a)
        BY <2>2, <3>1, <3>2, <4>1, <4>2 DEF Promise!Offer
      <4> QED BY <4>3
    <3>4. CASE ~(chan[r] = NoAnswer /\ phase[r] \in Undecided)
      <4>1. offerOf' = offerOf
        BY <2>1, <3>1, <3>4 DEF IInv, TypeOK
      <4> QED BY <2>2, <3>1, <3>2, <4>1 DEF Promise!vars
    <3> QED BY <3>3, <3>4
  <2> QED BY <2>3, <2>4
<1>7. ASSUME \/ \E t \in Tab, s \in Slug : Connect(t, s)
             \/ \E t \in Tab : Disconnect(t)
             \/ \E t \in Tab, r \in Request : SendAnswer(t, r)
             \/ \E a \in inFlight : LoseAnswer(a) \/ LookUp(a)
             \/ SweepPending \/ Tick \/ UNCHANGED vars
      PROVE  UNCHANGED Promise!vars
  <2>1. UNCHANGED <<phase, gone, reply, chan>>
    BY <1>7 DEF Connect, Disconnect, SendAnswer, LoseAnswer, LookUp, SweepPending,
                Tick, vars, handlerVars
  <2> QED BY <2>1, StutterRefines DEF IInv, TypeOK
<1>8. ASSUME NEW a \in found, Deliver(a)
      PROVE  a \in {b \in Answer : b.req = a.req} /\ a.req \in Request
  BY DEF IInv, TypeOK, Answer
<1>9. CASE \E r \in Request, s \in Slug : Hold(r, s)
  BY <1>1, <1>9 DEF Promise!Next
<1>10. CASE \E r \in Request : Handler(r)
  BY <1>2, <1>3, <1>4, <1>10 DEF Handler, Promise!Next
<1>11. CASE \E r \in Request : SenderLeaves(r)
  BY <1>5, <1>11 DEF Promise!Next
<1>12. CASE \E a \in found : Deliver(a)
  BY <1>6, <1>8, <1>12 DEF Promise!Next
<1> QED BY <1>7, <1>9, <1>10, <1>11, <1>12 DEF Next

\* The held reply keeps its promise: one reply per request, the first accepted
\* answer, the default only if there is none or nobody is left to read it.
THEOREM Refinement == Spec => ImplementsFirstAnswer
<1>1. Spec => []IInv
  BY Invariance
<1>2. IInv /\ [Next]_vars => [Promise!Next]_(Promise!vars)
  BY StepRefines
<1> QED BY <1>1, <1>2, InitRefines, PTL DEF Spec, ImplementsFirstAnswer, Promise!Spec
=============================================================================
