--------------------------- MODULE CaptureProofs ---------------------------
(***************************************************************************)
(* Proofs about Capture, for any number of requests, settings, headers and *)
(* background slots.                                                       *)
(***************************************************************************)
EXTENDS Capture, FiniteSetTheorems, TLAPS

Early == {"new", "found", "captured", "announced"}
Inline == {"calling", "resulted", "skipping"}
Unanswered == Early \cup Inline \cup {"forwarded", "held"}
Running == {"started", "marked", "calling", "resulted"}

\* Only what was stored and not refused gets as far as its forward, which is
\* made once: by the handler or by a background forward it started.
ForwardInv(r) ==
  /\ calls[r] \in {0, 1}
  /\ pc[r] \in Early \cup {"skipping"} => calls[r] = 0
  /\ pc[r] \in Early \cup Inline => bg[r] = "none"
  /\ bg[r] \in {"started", "marked"} => calls[r] = 0
  /\ pc[r] = "captured" /\ ServerMode(r) => r \in stored
  /\ calls[r] > 0 \/ bg[r] # "none" \/ pc[r] \in Inline \cup {"announced", "forwarded"} =>
       r \in stored /\ (sent[r] # NoReply => sent[r].source \notin {"error", "signature"})

\* What the forward part of a row says, by where the forward is.
RecordInv(r) ==
  /\ pc[r] \in {"new", "found"} => rows[r] = NoRow
  /\ rows[r] # NoRow => r \in stored
  /\ pc[r] = "resulted" \/ bg[r] = "resulted" => outcome[r] \in {"ok", "failed"}
  /\ pc[r] = "skipping" => outcome[r] = "skipped"
  /\ rows[r] # NoRow =>
       /\ pc[r] \in Early \cup Inline \/ bg[r] = "started" => rows[r].forward = "none"
       /\ bg[r] = "none" => rows[r].forward # "in_progress"
       /\ bg[r] \in Running => rows[r].forward \in {"none", "in_progress"}
       /\ r \notin faulted =>
            /\ bg[r] \in Running \ {"started"} => rows[r].forward = "in_progress"
            /\ bg[r] = "done" => rows[r].forward \in {"ok", "failed"}
            /\ bg[r] = "none" /\ calls[r] > 0 /\ pc[r] \notin Inline =>
                 rows[r].forward \in {"ok", "failed"}

\* What the sender got, and what is or will be recorded of it.
ReplyInv(r) ==
  /\ sent[r] = NoReply <=> pc[r] \in Unanswered
  /\ pc[r] \in {"replied", "informed"} =>
       info[r] \in Reply /\ info[r].source = sent[r].source
  /\ pc[r] = "done" /\ rows[r] # NoRow /\ r \notin faulted =>
       rows[r].response \in Reply /\ rows[r].response.source = sent[r].source

\* What was published about a request, by how far it is.
Announced(r) == \E j \in DOMAIN feed[r] : feed[r][j] = "request"
Opened(r) == feed[r] # <<>> /\ feed[r][1] = "request"
Ordered(r) ==
  \A i \in DOMAIN feed[r] :
    feed[r][i] \in {"forward_result", "response_info"} =>
      \E j \in 1 .. i - 1 : feed[r][j] = "request"

FeedInv(r) ==
  /\ pc[r] \in {"new", "found", "captured"} => feed[r] = <<>>
  /\ pc[r] \in Inline \cup {"announced", "forwarded", "held", "replied", "informed"} =>
       Announced(r)
  /\ calls[r] > 0 \/ bg[r] # "none" \/ pc[r] \in Inline \cup {"announced", "forwarded"} =>
       Opened(r)

\* A stopped process left no handler and no forward behind.
StopInv == server = "stopped" => HandlersDone /\ ForwardsDone

\* The inductive invariant.
IInv ==
  /\ TypeOK
  /\ NoOrphanRows
  /\ SlotsAreRunningForwards
  /\ \A r \in Request : ForwardInv(r)
  /\ \A r \in Request : RecordInv(r)
  /\ \A r \in Request : ReplyInv(r)
  /\ \A r \in Request : FeedInv(r)
  /\ RequestAnnouncedFirst
  /\ StopInv

-----------------------------------------------------------------------------
\* The invariant holds when the process starts.
LEMMA InitIInv == Init => IInv
<1> SUFFICES ASSUME Init PROVE IInv
  OBVIOUS
<1> USE CaptureAssumption DEF Init
<1>1. TypeOK
  BY DEF TypeOK, Location
<1>2. NoOrphanRows
  BY DEF NoOrphanRows
<1>3. SlotsAreRunningForwards
  <2>1. {r \in Request : bg[r] \notin {"none", "done"}} = {}
    OBVIOUS
  <2>2. Cardinality({r \in Request : bg[r] \notin {"none", "done"}}) = 0
    BY <2>1, FS_EmptySet
  <2> QED BY <2>2 DEF SlotsAreRunningForwards
<1>4. ASSUME NEW r \in Request
      PROVE  ForwardInv(r) /\ RecordInv(r) /\ ReplyInv(r)
  BY DEF ForwardInv, RecordInv, ReplyInv, Early, Inline, Running, Unanswered
<1>5. ASSUME NEW r \in Request PROVE FeedInv(r)
  BY DEF FeedInv, Inline
<1>6. RequestAnnouncedFirst
  BY DEF RequestAnnouncedFirst
<1>7. StopInv
  BY DEF StopInv
<1> QED BY <1>1, <1>2, <1>3, <1>4, <1>5, <1>6, <1>7 DEF IInv

-----------------------------------------------------------------------------
(* What the helpers do.                                                    *)

\* A recorded row is a row.
LEMMA RecordTyped ==
  ASSUME TypeOK, NEW r \in Request, NEW new \in Row, Record(r, new)
  PROVE  rows' \in [Request -> Row \cup {NoRow}] /\ faulted' \in SUBSET Request
BY DEF TypeOK, Record, Updated

\* The rows that are recorded, for the results that are.
LEMMA RowsTyped ==
  ASSUME TypeOK, NEW r \in Request
  PROVE  /\ \A res \in Result \cup {"in_progress"} : RowWithForward(r, res) \in Row
         /\ \A reply \in Reply : RowWithResponse(r, reply) \in Row
BY DEF TypeOK, RowWithForward, RowWithResponse, Row

\* What can be sent is a reply.
LEMMA RepliesTyped ==
  /\ \A s \in {"error", "signature", "default", "passthrough"} : ReplyOf(s) \in Reply
  /\ \A s \in {"handler", "passthrough", "default"}, hs \in SUBSET Header :
       /\ [source |-> s, headers |-> hs] \in Reply
       /\ [source |-> s, headers |-> hs \ Blocked] \in Reply
BY DEF ReplyOf, Reply

\* A held request is sent a tab's reply or the default.
LEMMA ReleaseSends ==
  ASSUME NEW r \in Request, Release(r)
  PROVE  \E reply \in Reply :
           Send(r, reply, reply) /\ reply.source \notin {"error", "signature"}
<1>1. CASE \E s \in {"handler", "passthrough", "default"}, hs \in SUBSET Header :
             LET reply == [source |-> s, headers |-> hs \ Blocked]
             IN  Send(r, reply, reply)
  <2>1. PICK s \in {"handler", "passthrough", "default"}, hs \in SUBSET Header :
          Send(r, [source |-> s, headers |-> hs \ Blocked],
                  [source |-> s, headers |-> hs \ Blocked])
    BY <1>1
  <2>2. /\ [source |-> s, headers |-> hs \ Blocked] \in Reply
        /\ [source |-> s, headers |-> hs \ Blocked].source = s
    BY RepliesTyped
  <2> QED BY <2>1, <2>2
<1>2. CASE Send(r, ReplyOf("default"), ReplyOf("default"))
  BY <1>2, RepliesTyped DEF ReplyOf
<1> QED BY <1>1, <1>2 DEF Release

MessageType == {"request", "response_needed", "forward_result", "response_info"}

\* A message is added at the end of the request's feed.
LEMMA PublishOne ==
  ASSUME TypeOK, NEW r \in Request, NEW t \in MessageType, Publish(r, <<t>>)
  PROVE  /\ feed' \in [Request -> Seq(MessageType)]
         /\ Len(feed'[r]) = Len(feed[r]) + 1
         /\ \A i \in 1 .. Len(feed[r]) : feed'[r][i] = feed[r][i]
         /\ feed'[r][Len(feed[r]) + 1] = t
         /\ \A q \in Request \ {r} : feed'[q] = feed[q]
<1>1. feed[r] \in Seq(MessageType) /\ feed \in [Request -> Seq(MessageType)]
  BY DEF TypeOK, MessageType
<1>2. feed' = [feed EXCEPT ![r] = feed[r] \o <<t>>]
  BY <1>1 DEF Publish
<1>3. feed[r] \o <<t>> \in Seq(MessageType)
  BY <1>1
<1>4. feed'[r] = feed[r] \o <<t>>
  BY <1>1, <1>2
<1>5. \A q \in Request \ {r} : feed'[q] = feed[q]
  BY <1>1, <1>2
<1>6. feed' \in [Request -> Seq(MessageType)]
  BY <1>1, <1>2, <1>3
<1> QED BY <1>1, <1>4, <1>5, <1>6

\* A feed that starts with the request has announced it.
LEMMA OpenedAnnounced ==
  ASSUME TypeOK, NEW r \in Request, Opened(r)
  PROVE  Announced(r)
<1>1. feed[r] \in Seq(MessageType) /\ feed[r] # <<>>
  BY DEF TypeOK, MessageType, Opened
<1>2. 1 \in DOMAIN feed[r]
  BY <1>1
<1> QED BY <1>2 DEF Opened, Announced

\* What a message leaves true of its request's feed, and what it makes true.
LEMMA PublishKeeps ==
  ASSUME TypeOK, NEW r \in Request, NEW t \in MessageType, Publish(r, <<t>>)
  PROVE  /\ t = "request" \/ Announced(r) => Announced(r)'
         /\ Opened(r) \/ (feed[r] = <<>> /\ t = "request") => Opened(r)'
         /\ Ordered(r) /\ (t \in {"request", "response_needed"} \/ Announced(r)) =>
              Ordered(r)'
         /\ \A q \in Request \ {r} : feed'[q] = feed[q]
<1> DEFINE n == Len(feed[r])
<1>1. /\ feed[r] \in Seq(MessageType) /\ feed'[r] \in Seq(MessageType)
      /\ n \in Nat /\ DOMAIN feed[r] = 1 .. n /\ DOMAIN feed'[r] = 1 .. n + 1
  <2>1. feed[r] \in Seq(MessageType)
    BY DEF TypeOK, MessageType
  <2>2. feed'[r] \in Seq(MessageType) /\ Len(feed'[r]) = n + 1
    BY PublishOne
  <2> QED BY <2>1, <2>2
<1>2. /\ \A i \in 1 .. n : feed'[r][i] = feed[r][i]
      /\ feed'[r][n + 1] = t
      /\ \A q \in Request \ {r} : feed'[q] = feed[q]
  BY PublishOne
<1>3. ASSUME t = "request" \/ Announced(r) PROVE Announced(r)'
  BY <1>1, <1>2, <1>3 DEF Announced
<1>4. ASSUME Opened(r) \/ (feed[r] = <<>> /\ t = "request") PROVE Opened(r)'
  <2>1. feed'[r] # <<>>
    BY <1>1
  <2>2. feed'[r][1] = "request"
    BY <1>1, <1>2, <1>4 DEF Opened
  <2> QED BY <2>1, <2>2 DEF Opened
<1>5. ASSUME Ordered(r), t \in {"request", "response_needed"} \/ Announced(r)
      PROVE  Ordered(r)'
  <2> SUFFICES ASSUME NEW i \in 1 .. n + 1,
                      feed'[r][i] \in {"forward_result", "response_info"}
               PROVE  \E j \in 1 .. i - 1 : feed'[r][j] = "request"
    BY <1>1 DEF Ordered
  <2>1. CASE i \in 1 .. n
    <3>1. feed[r][i] \in {"forward_result", "response_info"}
      BY <1>2, <2>1
    <3>2. PICK j \in 1 .. i - 1 : feed[r][j] = "request"
      BY <1>1, <1>5, <2>1, <3>1 DEF Ordered
    <3>3. j \in 1 .. n /\ feed'[r][j] = "request"
      BY <1>1, <1>2, <2>1, <3>2
    <3> QED BY <3>2, <3>3
  <2>2. CASE i = n + 1
    BY <1>1, <1>2, <1>5, <2>2 DEF Announced
  <2> QED BY <1>1, <2>1, <2>2
<1> QED BY <1>2, <1>3, <1>4, <1>5

Forwards == {r \in Request : bg[r] \notin {"none", "done"}}

\* A forward that starts takes a slot.
LEMMA SlotTaken ==
  ASSUME TypeOK, SlotsAreRunningForwards, NEW r \in Request,
         bg[r] = "none", bg' = [bg EXCEPT ![r] = "started"],
         SlotFree, slots' = slots + 1
  PROVE  SlotsAreRunningForwards' /\ slots' \in 0 .. MaxAsync
<1>1. Forwards' = Forwards \cup {r} /\ r \notin Forwards
  BY DEF TypeOK, Forwards
<1>2. IsFiniteSet(Forwards)
  BY CaptureAssumption, FS_Subset DEF Forwards
<1>3. Cardinality(Forwards') = Cardinality(Forwards) + 1
  BY <1>1, <1>2, FS_AddElement
<1> QED BY <1>3, CaptureAssumption DEF SlotsAreRunningForwards, Forwards, TypeOK, SlotFree

\* A forward that ends gives its slot back.
LEMMA SlotFreed ==
  ASSUME TypeOK, SlotsAreRunningForwards, NEW r \in Request,
         bg[r] \in {"calling", "resulted"}, bg' = [bg EXCEPT ![r] = "done"],
         slots' = slots - 1
  PROVE  SlotsAreRunningForwards' /\ slots' \in 0 .. MaxAsync
<1>1. Forwards' = Forwards \ {r} /\ r \in Forwards
  BY DEF TypeOK, Forwards
<1>2. IsFiniteSet(Forwards)
  BY CaptureAssumption, FS_Subset DEF Forwards
<1>3. Cardinality(Forwards') = Cardinality(Forwards) - 1
  BY <1>1, <1>2, FS_RemoveElement
<1>4. IsFiniteSet(Forwards') /\ Cardinality(Forwards') \in Nat
  BY <1>1, <1>2, FS_RemoveElement, FS_CardinalityType
<1> QED BY <1>3, <1>4, CaptureAssumption DEF SlotsAreRunningForwards, Forwards, TypeOK

\* Other steps leave the slots alone.
LEMMA SlotKept ==
  ASSUME TypeOK, SlotsAreRunningForwards, slots' = slots,
         \A r \in Request : bg'[r] \in {"none", "done"} <=> bg[r] \in {"none", "done"}
  PROVE  SlotsAreRunningForwards' /\ slots' \in 0 .. MaxAsync
<1>1. Forwards' = Forwards
  BY DEF Forwards
<1> QED BY <1>1 DEF SlotsAreRunningForwards, Forwards, TypeOK

-----------------------------------------------------------------------------
(* A step of a handler or of a background forward.                         *)

RequestStep(r) == Serve(r) \/ Background(r)

\* The slots stay the running forwards.
LEMMA SlotStep ==
  ASSUME IInv, NEW r \in Request, RequestStep(r)
  PROVE  SlotsAreRunningForwards' /\ slots' \in 0 .. MaxAsync
<1> USE DEF IInv
<1>1. CASE Refuse(r)
  BY <1>1, SlotKept DEF Refuse, TypeOK, handler, process
<1>2. CASE Lookup(r)
  BY <1>2, SlotKept DEF Lookup, TypeOK, handler, process
<1>3. CASE Insert(r)
  BY <1>3, SlotKept DEF Insert, TypeOK, handler, process
<1>4. CASE InsertFails(r)
  BY <1>4, SlotKept DEF InsertFails, TypeOK, handler, process
<1>5. CASE KeepOutOfStore(r)
  BY <1>5, SlotKept DEF KeepOutOfStore, TypeOK, handler, process
<1>6. CASE Reject(r)
  BY <1>6, SlotKept DEF Reject, TypeOK, handler, process
<1>7. CASE Drop(r)
  BY <1>7, SlotKept DEF Drop, TypeOK, handler, process
<1>8. CASE Announce(r)
  BY <1>8, SlotKept DEF Announce, TypeOK, handler, process
<1>9. CASE BrowserDefault(r)
  BY <1>9, SlotKept DEF BrowserDefault, TypeOK, handler, process
<1>10. CASE Hold(r)
  BY <1>10, SlotKept DEF Hold, TypeOK, handler, process
<1>11. CASE Release(r)
  BY <1>11, SlotKept DEF Release, TypeOK, handler, process
<1>12. CASE SkipForward(r)
  BY <1>12, SlotKept DEF SkipForward, TypeOK, handler, process
<1>13. CASE ForwardInline(r)
  BY <1>13, SlotKept DEF ForwardInline, TypeOK, handler, process
<1>14. CASE InlineResult(r)
  BY <1>14, SlotKept DEF InlineResult, TypeOK, handler, process
<1>15. CASE RecordInline(r)
  BY <1>15, SlotKept DEF RecordInline, TypeOK, handler, process
<1>16. CASE StartBackground(r)
  <2>1. bg[r] = "none"
    BY <1>16 DEF StartBackground, At, IInv, ForwardInv, Early
  <2> QED BY <1>16, <2>1, SlotTaken DEF StartBackground
<1>17. CASE Saturated(r)
  BY <1>17, SlotKept DEF Saturated, TypeOK, handler, process
<1>18. CASE RecordSkipped(r)
  BY <1>18, SlotKept DEF RecordSkipped, TypeOK, handler, process
<1>19. CASE ScriptReply(r)
  BY <1>19, SlotKept DEF ScriptReply, TypeOK, handler, process
<1>20. CASE Passthrough(r)
  BY <1>20, SlotKept DEF Passthrough, TypeOK, handler, process
<1>21. CASE DefaultReply(r)
  BY <1>21, SlotKept DEF DefaultReply, TypeOK, handler, process
<1>22. CASE Inform(r)
  BY <1>22, SlotKept DEF Inform, TypeOK, handler, process
<1>23. CASE RecordReply(r)
  BY <1>23, SlotKept DEF RecordReply, TypeOK, handler, process
<1>24. CASE Mark(r)
  BY <1>24, SlotKept DEF Mark, TypeOK, handler, process
<1>25. CASE CallTarget(r)
  BY <1>25, SlotKept DEF CallTarget, TypeOK, handler, process
<1>26. CASE BackgroundResult(r)
  BY <1>26, SlotKept DEF BackgroundResult, TypeOK, handler, process
<1>27. CASE RecordBackground(r)
  BY <1>27, SlotFreed DEF RecordBackground
<1>28. CASE Panic(r)
  BY <1>28, SlotFreed DEF Panic
<1> QED
  BY <1>1, <1>2, <1>3, <1>4, <1>5, <1>6, <1>7, <1>8, <1>9, <1>10, <1>11,
     <1>12, <1>13, <1>14, <1>15, <1>16, <1>17, <1>18, <1>19, <1>20, <1>21,
     <1>22, <1>23, <1>24, <1>25, <1>26, <1>27, <1>28 DEF RequestStep, Serve,
     Background

\* The state stays well typed.
LEMMA TypeStep ==
  ASSUME IInv, NEW r \in Request, RequestStep(r), slots' \in 0 .. MaxAsync
  PROVE  TypeOK'
<1> USE CaptureAssumption, RepliesTyped
    DEF IInv, TypeOK, handler, process, At, Goto, Publish, Send, Location, Result
<1>1. CASE Refuse(r)
  BY <1>1 DEF Refuse
<1>2. CASE Lookup(r)
  BY <1>2 DEF Lookup
<1>3. CASE Insert(r)
  <2>1. [forward |-> "none", response |-> NoReply] \in Row
    BY DEF Row
  <2> QED BY <1>3, <2>1 DEF Insert
<1>4. CASE InsertFails(r)
  <2>1. CASE ServerMode(r)
    <3>1. sent' = [sent EXCEPT ![r] = ReplyOf("error")] /\ Goto(r, "done")
      BY <1>4, <2>1 DEF InsertFails
    <3>2. UNCHANGED <<process, endpoint, rows, bg, outcome, slots, feed, calls, faulted>>
      BY <1>4 DEF InsertFails
    <3> QED BY <3>1, <3>2
  <2>2. CASE ~ServerMode(r)
    BY <1>4, <2>2 DEF InsertFails
  <2> QED BY <2>1, <2>2
<1>5. CASE KeepOutOfStore(r)
  BY <1>5 DEF KeepOutOfStore
<1>6. CASE Reject(r)
  BY <1>6 DEF Reject
<1>7. CASE Drop(r)
  BY <1>7 DEF Drop
<1>8. CASE Announce(r)
  BY <1>8 DEF Announce
<1>9. CASE BrowserDefault(r)
  BY <1>9 DEF BrowserDefault
<1>10. CASE Hold(r)
  BY <1>10 DEF Hold
<1>11. CASE Release(r)
  <2>1. PICK reply \in Reply : Send(r, reply, reply)
    BY <1>11, ReleaseSends
  <2>2. UNCHANGED <<process, endpoint, rows, bg, outcome, slots, feed, calls, faulted>>
    BY <1>11 DEF Release
  <2> QED BY <2>1, <2>2
<1>12. CASE SkipForward(r)
  BY <1>12 DEF SkipForward
<1>13. CASE ForwardInline(r)
  BY <1>13 DEF ForwardInline
<1>14. CASE InlineResult(r)
  BY <1>14 DEF InlineResult
<1>15. CASE RecordInline(r)
  <2>1. RowWithForward(r, outcome[r]) \in Row
    BY <1>15, RowsTyped DEF RecordInline, At, RecordInv, ReplyInv, Result
  <2>2. rows' \in [Request -> Row \cup {NoRow}] /\ faulted' \in SUBSET Request
    BY <1>15, <2>1, RecordTyped DEF RecordInline
  <2> QED BY <1>15, <2>2 DEF RecordInline
<1>16. CASE StartBackground(r)
  BY <1>16 DEF StartBackground
<1>17. CASE Saturated(r)
  BY <1>17 DEF Saturated
<1>18. CASE RecordSkipped(r)
  <2>1. RowWithForward(r, outcome[r]) \in Row
    BY <1>18, RowsTyped DEF RecordSkipped, At, RecordInv, ReplyInv, Result
  <2>2. rows' \in [Request -> Row \cup {NoRow}] /\ faulted' \in SUBSET Request
    BY <1>18, <2>1, RecordTyped DEF RecordSkipped
  <2> QED BY <1>18, <2>2 DEF RecordSkipped
<1>19. CASE ScriptReply(r)
  <2>1. PICK reply \in Reply, told \in Reply : Send(r, reply, told)
    BY <1>19 DEF ScriptReply
  <2>2. UNCHANGED <<process, endpoint, rows, bg, outcome, slots, feed, calls, faulted>>
    BY <1>19 DEF ScriptReply
  <2> QED BY <2>1, <2>2
<1>20. CASE Passthrough(r)
  <2>1. PICK reply \in Reply, told \in Reply : Send(r, reply, told)
    BY <1>20 DEF Passthrough
  <2>2. UNCHANGED <<process, endpoint, rows, bg, outcome, slots, feed, calls, faulted>>
    BY <1>20 DEF Passthrough
  <2> QED BY <2>1, <2>2
<1>21. CASE DefaultReply(r)
  BY <1>21 DEF DefaultReply
<1>22. CASE Inform(r)
  BY <1>22 DEF Inform
<1>23. CASE RecordReply(r)
  <2>1. RowWithResponse(r, info[r]) \in Row
    BY <1>23, RowsTyped DEF RecordReply, At, RecordInv, ReplyInv, Result
  <2>2. rows' \in [Request -> Row \cup {NoRow}] /\ faulted' \in SUBSET Request
    BY <1>23, <2>1, RecordTyped DEF RecordReply
  <2> QED BY <1>23, <2>2 DEF RecordReply
<1>24. CASE Mark(r)
  <2>1. RowWithForward(r, "in_progress") \in Row
    BY <1>24, RowsTyped DEF Mark, At, RecordInv, ReplyInv, Result
  <2>2. rows' \in [Request -> Row \cup {NoRow}] /\ faulted' \in SUBSET Request
    BY <1>24, <2>1, RecordTyped DEF Mark
  <2> QED BY <1>24, <2>2 DEF Mark
<1>25. CASE CallTarget(r)
  BY <1>25 DEF CallTarget
<1>26. CASE BackgroundResult(r)
  BY <1>26 DEF BackgroundResult
<1>27. CASE RecordBackground(r)
  <2>1. RowWithForward(r, outcome[r]) \in Row
    BY <1>27, RowsTyped DEF RecordBackground, At, RecordInv, ReplyInv, Result
  <2>2. rows' \in [Request -> Row \cup {NoRow}] /\ faulted' \in SUBSET Request
    BY <1>27, <2>1, RecordTyped DEF RecordBackground
  <2> QED BY <1>27, <2>2 DEF RecordBackground
<1>28. CASE Panic(r)
  BY <1>28 DEF Panic
<1> QED
  BY <1>1, <1>2, <1>3, <1>4, <1>5, <1>6, <1>7, <1>8, <1>9, <1>10, <1>11,
     <1>12, <1>13, <1>14, <1>15, <1>16, <1>17, <1>18, <1>19, <1>20, <1>21,
     <1>22, <1>23, <1>24, <1>25, <1>26, <1>27, <1>28 DEF RequestStep, Serve,
     Background

\* No step of a request gives a deleted endpoint a row.
LEMMA OrphanStep ==
  ASSUME IInv, NEW r \in Request, RequestStep(r)
  PROVE  NoOrphanRows'
<1> USE CaptureAssumption DEF IInv, TypeOK, NoOrphanRows, handler, process, Record,
          Updated, CanInsert
<1>1. CASE Refuse(r)
  BY <1>1 DEF Refuse
<1>2. CASE Lookup(r)
  BY <1>2 DEF Lookup
<1>3. CASE Insert(r)
  BY <1>3 DEF Insert
<1>4. CASE InsertFails(r)
  BY <1>4 DEF InsertFails
<1>5. CASE KeepOutOfStore(r)
  BY <1>5 DEF KeepOutOfStore
<1>6. CASE Reject(r)
  BY <1>6 DEF Reject
<1>7. CASE Drop(r)
  BY <1>7 DEF Drop
<1>8. CASE Announce(r)
  BY <1>8 DEF Announce
<1>9. CASE BrowserDefault(r)
  BY <1>9 DEF BrowserDefault
<1>10. CASE Hold(r)
  BY <1>10 DEF Hold
<1>11. CASE Release(r)
  BY <1>11 DEF Release
<1>12. CASE SkipForward(r)
  BY <1>12 DEF SkipForward
<1>13. CASE ForwardInline(r)
  BY <1>13 DEF ForwardInline
<1>14. CASE InlineResult(r)
  BY <1>14 DEF InlineResult
<1>15. CASE RecordInline(r)
  BY <1>15 DEF RecordInline
<1>16. CASE StartBackground(r)
  BY <1>16 DEF StartBackground
<1>17. CASE Saturated(r)
  BY <1>17 DEF Saturated
<1>18. CASE RecordSkipped(r)
  BY <1>18 DEF RecordSkipped
<1>19. CASE ScriptReply(r)
  BY <1>19 DEF ScriptReply
<1>20. CASE Passthrough(r)
  BY <1>20 DEF Passthrough
<1>21. CASE DefaultReply(r)
  BY <1>21 DEF DefaultReply
<1>22. CASE Inform(r)
  BY <1>22 DEF Inform
<1>23. CASE RecordReply(r)
  BY <1>23 DEF RecordReply
<1>24. CASE Mark(r)
  BY <1>24 DEF Mark
<1>25. CASE CallTarget(r)
  BY <1>25 DEF CallTarget
<1>26. CASE BackgroundResult(r)
  BY <1>26 DEF BackgroundResult
<1>27. CASE RecordBackground(r)
  BY <1>27 DEF RecordBackground
<1>28. CASE Panic(r)
  BY <1>28 DEF Panic
<1> QED
  BY <1>1, <1>2, <1>3, <1>4, <1>5, <1>6, <1>7, <1>8, <1>9, <1>10, <1>11,
     <1>12, <1>13, <1>14, <1>15, <1>16, <1>17, <1>18, <1>19, <1>20, <1>21,
     <1>22, <1>23, <1>24, <1>25, <1>26, <1>27, <1>28 DEF RequestStep, Serve,
     Background

\* A request's way to its forward.
LEMMA ForwardStep ==
  ASSUME IInv, NEW r \in Request, RequestStep(r), NEW q \in Request
  PROVE  ForwardInv(q)'
<1> USE CaptureAssumption
    DEF IInv, TypeOK, ForwardInv, RecordInv, ReplyInv, Early, Inline, Running,
        Unanswered, handler, process, At, Goto, Send, ReplyOf, Record, Updated,
        RowWithForward, RowWithResponse, ServerMode, WantsRow, CanInsert,
        Row, Result, Reply, Location
<1>1. CASE Refuse(r)
  BY <1>1 DEF Refuse
<1>2. CASE Lookup(r)
  BY <1>2 DEF Lookup
<1>3. CASE Insert(r)
  BY <1>3 DEF Insert
<1>4. CASE InsertFails(r)
  <2>1. CASE ServerMode(r)
    BY <1>4, <2>1 DEF InsertFails
  <2>2. CASE ~ServerMode(r)
    BY <1>4, <2>2 DEF InsertFails
  <2> QED BY <2>1, <2>2
<1>5. CASE KeepOutOfStore(r)
  BY <1>5 DEF KeepOutOfStore
<1>6. CASE Reject(r)
  BY <1>6 DEF Reject
<1>7. CASE Drop(r)
  BY <1>7 DEF Drop
<1>8. CASE Announce(r)
  BY <1>8 DEF Announce
<1>9. CASE BrowserDefault(r)
  BY <1>9 DEF BrowserDefault
<1>10. CASE Hold(r)
  BY <1>10 DEF Hold
<1>11. CASE Release(r)
  <2>1. PICK reply \in Reply :
          Send(r, reply, reply) /\ reply.source \notin {"error", "signature"}
    BY <1>11, ReleaseSends
  <2>2. At(r, "held") /\ UNCHANGED <<process, endpoint, rows, bg, outcome, slots, feed, calls, faulted>>
    BY <1>11 DEF Release
  <2> QED BY <2>1, <2>2
<1>12. CASE SkipForward(r)
  BY <1>12 DEF SkipForward
<1>13. CASE ForwardInline(r)
  BY <1>13 DEF ForwardInline
<1>14. CASE InlineResult(r)
  BY <1>14 DEF InlineResult
<1>15. CASE RecordInline(r)
  BY <1>15 DEF RecordInline
<1>16. CASE StartBackground(r)
  BY <1>16 DEF StartBackground
<1>17. CASE Saturated(r)
  BY <1>17 DEF Saturated
<1>18. CASE RecordSkipped(r)
  BY <1>18 DEF RecordSkipped
<1>19. CASE ScriptReply(r)
  BY <1>19 DEF ScriptReply
<1>20. CASE Passthrough(r)
  BY <1>20 DEF Passthrough
<1>21. CASE DefaultReply(r)
  BY <1>21 DEF DefaultReply
<1>22. CASE Inform(r)
  BY <1>22 DEF Inform
<1>23. CASE RecordReply(r)
  BY <1>23 DEF RecordReply
<1>24. CASE Mark(r)
  BY <1>24 DEF Mark
<1>25. CASE CallTarget(r)
  BY <1>25 DEF CallTarget
<1>26. CASE BackgroundResult(r)
  BY <1>26 DEF BackgroundResult
<1>27. CASE RecordBackground(r)
  BY <1>27 DEF RecordBackground
<1>28. CASE Panic(r)
  BY <1>28 DEF Panic
<1> QED
  BY <1>1, <1>2, <1>3, <1>4, <1>5, <1>6, <1>7, <1>8, <1>9, <1>10, <1>11,
     <1>12, <1>13, <1>14, <1>15, <1>16, <1>17, <1>18, <1>19, <1>20, <1>21,
     <1>22, <1>23, <1>24, <1>25, <1>26, <1>27, <1>28 DEF RequestStep, Serve,
     Background

\* What a row says of the forward.
LEMMA RecordStep ==
  ASSUME IInv, NEW r \in Request, RequestStep(r), NEW q \in Request
  PROVE  RecordInv(q)'
<1> USE CaptureAssumption
    DEF IInv, TypeOK, ForwardInv, RecordInv, ReplyInv, Early, Inline, Running,
        Unanswered, handler, process, At, Goto, Send, ReplyOf, Record, Updated,
        RowWithForward, RowWithResponse, ServerMode, WantsRow, CanInsert,
        Row, Result, Reply, Location
<1>1. CASE Refuse(r)
  BY <1>1 DEF Refuse
<1>2. CASE Lookup(r)
  BY <1>2 DEF Lookup
<1>3. CASE Insert(r)
  BY <1>3 DEF Insert
<1>4. CASE InsertFails(r)
  BY <1>4 DEF InsertFails
<1>5. CASE KeepOutOfStore(r)
  BY <1>5 DEF KeepOutOfStore
<1>6. CASE Reject(r)
  BY <1>6 DEF Reject
<1>7. CASE Drop(r)
  BY <1>7 DEF Drop
<1>8. CASE Announce(r)
  BY <1>8 DEF Announce
<1>9. CASE BrowserDefault(r)
  BY <1>9 DEF BrowserDefault
<1>10. CASE Hold(r)
  BY <1>10 DEF Hold
<1>11. CASE Release(r)
  BY <1>11 DEF Release
<1>12. CASE SkipForward(r)
  BY <1>12 DEF SkipForward
<1>13. CASE ForwardInline(r)
  BY <1>13 DEF ForwardInline
<1>14. CASE InlineResult(r)
  BY <1>14 DEF InlineResult
<1>15. CASE RecordInline(r)
  BY <1>15 DEF RecordInline
<1>16. CASE StartBackground(r)
  BY <1>16 DEF StartBackground
<1>17. CASE Saturated(r)
  BY <1>17 DEF Saturated
<1>18. CASE RecordSkipped(r)
  BY <1>18 DEF RecordSkipped
<1>19. CASE ScriptReply(r)
  BY <1>19 DEF ScriptReply
<1>20. CASE Passthrough(r)
  BY <1>20 DEF Passthrough
<1>21. CASE DefaultReply(r)
  BY <1>21 DEF DefaultReply
<1>22. CASE Inform(r)
  BY <1>22 DEF Inform
<1>23. CASE RecordReply(r)
  BY <1>23 DEF RecordReply
<1>24. CASE Mark(r)
  BY <1>24 DEF Mark
<1>25. CASE CallTarget(r)
  BY <1>25 DEF CallTarget
<1>26. CASE BackgroundResult(r)
  BY <1>26 DEF BackgroundResult
<1>27. CASE RecordBackground(r)
  BY <1>27 DEF RecordBackground
<1>28. CASE Panic(r)
  BY <1>28 DEF Panic
<1> QED
  BY <1>1, <1>2, <1>3, <1>4, <1>5, <1>6, <1>7, <1>8, <1>9, <1>10, <1>11,
     <1>12, <1>13, <1>14, <1>15, <1>16, <1>17, <1>18, <1>19, <1>20, <1>21,
     <1>22, <1>23, <1>24, <1>25, <1>26, <1>27, <1>28 DEF RequestStep, Serve,
     Background

\* What was sent, and what is recorded of it.
LEMMA ReplyStep ==
  ASSUME IInv, NEW r \in Request, RequestStep(r), NEW q \in Request
  PROVE  ReplyInv(q)'
<1> USE CaptureAssumption
    DEF IInv, TypeOK, ForwardInv, RecordInv, ReplyInv, Early, Inline, Running,
        Unanswered, handler, process, At, Goto, Send, ReplyOf, Record, Updated,
        RowWithForward, RowWithResponse, ServerMode, WantsRow, CanInsert,
        Row, Result, Reply, Location
<1>1. CASE Refuse(r)
  BY <1>1 DEF Refuse
<1>2. CASE Lookup(r)
  BY <1>2 DEF Lookup
<1>3. CASE Insert(r)
  BY <1>3 DEF Insert
<1>4. CASE InsertFails(r)
  BY <1>4 DEF InsertFails
<1>5. CASE KeepOutOfStore(r)
  BY <1>5 DEF KeepOutOfStore
<1>6. CASE Reject(r)
  BY <1>6 DEF Reject
<1>7. CASE Drop(r)
  BY <1>7 DEF Drop
<1>8. CASE Announce(r)
  BY <1>8 DEF Announce
<1>9. CASE BrowserDefault(r)
  BY <1>9 DEF BrowserDefault
<1>10. CASE Hold(r)
  BY <1>10 DEF Hold
<1>11. CASE Release(r)
  BY <1>11 DEF Release
<1>12. CASE SkipForward(r)
  BY <1>12 DEF SkipForward
<1>13. CASE ForwardInline(r)
  BY <1>13 DEF ForwardInline
<1>14. CASE InlineResult(r)
  BY <1>14 DEF InlineResult
<1>15. CASE RecordInline(r)
  BY <1>15 DEF RecordInline
<1>16. CASE StartBackground(r)
  BY <1>16 DEF StartBackground
<1>17. CASE Saturated(r)
  BY <1>17 DEF Saturated
<1>18. CASE RecordSkipped(r)
  BY <1>18 DEF RecordSkipped
<1>19. CASE ScriptReply(r)
  BY <1>19 DEF ScriptReply
<1>20. CASE Passthrough(r)
  BY <1>20 DEF Passthrough
<1>21. CASE DefaultReply(r)
  BY <1>21 DEF DefaultReply
<1>22. CASE Inform(r)
  BY <1>22 DEF Inform
<1>23. CASE RecordReply(r)
  BY <1>23 DEF RecordReply
<1>24. CASE Mark(r)
  BY <1>24 DEF Mark
<1>25. CASE CallTarget(r)
  BY <1>25 DEF CallTarget
<1>26. CASE BackgroundResult(r)
  BY <1>26 DEF BackgroundResult
<1>27. CASE RecordBackground(r)
  BY <1>27 DEF RecordBackground
<1>28. CASE Panic(r)
  BY <1>28 DEF Panic
<1> QED
  BY <1>1, <1>2, <1>3, <1>4, <1>5, <1>6, <1>7, <1>8, <1>9, <1>10, <1>11,
     <1>12, <1>13, <1>14, <1>15, <1>16, <1>17, <1>18, <1>19, <1>20, <1>21,
     <1>22, <1>23, <1>24, <1>25, <1>26, <1>27, <1>28 DEF RequestStep, Serve,
     Background

\* A step of one request leaves the others where they are.
LEMMA OthersStay ==
  ASSUME TypeOK, NEW r \in Request, RequestStep(r), NEW q \in Request \ {r}
  PROVE  /\ pc'[q] = pc[q] /\ bg'[q] = bg[q] /\ calls'[q] = calls[q]
         /\ feed'[q] = feed[q]
<1> USE DEF TypeOK, At, Goto, Send, Publish, handler
<1>1. CASE Refuse(r)
  BY <1>1 DEF Refuse
<1>2. CASE Lookup(r)
  BY <1>2 DEF Lookup
<1>3. CASE Insert(r)
  BY <1>3 DEF Insert
<1>4. CASE InsertFails(r)
  BY <1>4 DEF InsertFails
<1>5. CASE KeepOutOfStore(r)
  BY <1>5 DEF KeepOutOfStore
<1>6. CASE Reject(r)
  BY <1>6 DEF Reject
<1>7. CASE Drop(r)
  BY <1>7 DEF Drop
<1>8. CASE Announce(r)
  BY <1>8 DEF Announce
<1>9. CASE BrowserDefault(r)
  BY <1>9 DEF BrowserDefault
<1>10. CASE Hold(r)
  BY <1>10 DEF Hold
<1>11. CASE Release(r)
  BY <1>11 DEF Release
<1>12. CASE SkipForward(r)
  BY <1>12 DEF SkipForward
<1>13. CASE ForwardInline(r)
  BY <1>13 DEF ForwardInline
<1>14. CASE InlineResult(r)
  BY <1>14 DEF InlineResult
<1>15. CASE RecordInline(r)
  BY <1>15 DEF RecordInline
<1>16. CASE StartBackground(r)
  BY <1>16 DEF StartBackground
<1>17. CASE Saturated(r)
  BY <1>17 DEF Saturated
<1>18. CASE RecordSkipped(r)
  BY <1>18 DEF RecordSkipped
<1>19. CASE ScriptReply(r)
  BY <1>19 DEF ScriptReply
<1>20. CASE Passthrough(r)
  BY <1>20 DEF Passthrough
<1>21. CASE DefaultReply(r)
  BY <1>21 DEF DefaultReply
<1>22. CASE Inform(r)
  BY <1>22 DEF Inform
<1>23. CASE RecordReply(r)
  BY <1>23 DEF RecordReply
<1>24. CASE Mark(r)
  BY <1>24 DEF Mark
<1>25. CASE CallTarget(r)
  BY <1>25 DEF CallTarget
<1>26. CASE BackgroundResult(r)
  BY <1>26 DEF BackgroundResult
<1>27. CASE RecordBackground(r)
  BY <1>27 DEF RecordBackground
<1>28. CASE Panic(r)
  BY <1>28 DEF Panic
<1> QED
  BY <1>1, <1>2, <1>3, <1>4, <1>5, <1>6, <1>7, <1>8, <1>9, <1>10, <1>11,
     <1>12, <1>13, <1>14, <1>15, <1>16, <1>17, <1>18, <1>19, <1>20, <1>21,
     <1>22, <1>23, <1>24, <1>25, <1>26, <1>27, <1>28 DEF RequestStep, Serve,
     Background

\* A request does not start or stop the process.
LEMMA ServerStays ==
  ASSUME NEW r \in Request, RequestStep(r)
  PROVE  server' = server
<1> USE DEF process
<1>1. CASE Refuse(r)
  BY <1>1 DEF Refuse
<1>2. CASE Lookup(r)
  BY <1>2 DEF Lookup
<1>3. CASE Insert(r)
  BY <1>3 DEF Insert
<1>4. CASE InsertFails(r)
  BY <1>4 DEF InsertFails
<1>5. CASE KeepOutOfStore(r)
  BY <1>5 DEF KeepOutOfStore
<1>6. CASE Reject(r)
  BY <1>6 DEF Reject
<1>7. CASE Drop(r)
  BY <1>7 DEF Drop
<1>8. CASE Announce(r)
  BY <1>8 DEF Announce
<1>9. CASE BrowserDefault(r)
  BY <1>9 DEF BrowserDefault
<1>10. CASE Hold(r)
  BY <1>10 DEF Hold
<1>11. CASE Release(r)
  BY <1>11 DEF Release
<1>12. CASE SkipForward(r)
  BY <1>12 DEF SkipForward
<1>13. CASE ForwardInline(r)
  BY <1>13 DEF ForwardInline
<1>14. CASE InlineResult(r)
  BY <1>14 DEF InlineResult
<1>15. CASE RecordInline(r)
  BY <1>15 DEF RecordInline
<1>16. CASE StartBackground(r)
  BY <1>16 DEF StartBackground
<1>17. CASE Saturated(r)
  BY <1>17 DEF Saturated
<1>18. CASE RecordSkipped(r)
  BY <1>18 DEF RecordSkipped
<1>19. CASE ScriptReply(r)
  BY <1>19 DEF ScriptReply
<1>20. CASE Passthrough(r)
  BY <1>20 DEF Passthrough
<1>21. CASE DefaultReply(r)
  BY <1>21 DEF DefaultReply
<1>22. CASE Inform(r)
  BY <1>22 DEF Inform
<1>23. CASE RecordReply(r)
  BY <1>23 DEF RecordReply
<1>24. CASE Mark(r)
  BY <1>24 DEF Mark
<1>25. CASE CallTarget(r)
  BY <1>25 DEF CallTarget
<1>26. CASE BackgroundResult(r)
  BY <1>26 DEF BackgroundResult
<1>27. CASE RecordBackground(r)
  BY <1>27 DEF RecordBackground
<1>28. CASE Panic(r)
  BY <1>28 DEF Panic
<1> QED
  BY <1>1, <1>2, <1>3, <1>4, <1>5, <1>6, <1>7, <1>8, <1>9, <1>10, <1>11,
     <1>12, <1>13, <1>14, <1>15, <1>16, <1>17, <1>18, <1>19, <1>20, <1>21,
     <1>22, <1>23, <1>24, <1>25, <1>26, <1>27, <1>28 DEF RequestStep, Serve,
     Background

\* A step of a request keeps its own feed in order.
LEMMA OwnFeedStep ==
  ASSUME IInv, NEW r \in Request, RequestStep(r)
  PROVE  FeedInv(r)' /\ Ordered(r)'
<1>ordered. Ordered(r)
  BY DEF IInv, RequestAnnouncedFirst, Ordered
<1>quiet. ASSUME feed' = feed
       PROVE  /\ Announced(r)' = Announced(r)
              /\ Opened(r)' = Opened(r)
              /\ Ordered(r)' = Ordered(r)
  BY <1>quiet DEF Announced, Opened, Ordered
<1> USE DEF IInv, TypeOK, ForwardInv, FeedInv, Early, Inline, handler, At, Goto, Send
<1>1. CASE Refuse(r)
  BY <1>1, <1>ordered, <1>quiet DEF Refuse
<1>2. CASE Lookup(r)
  BY <1>2, <1>ordered, <1>quiet DEF Lookup
<1>3. CASE Insert(r)
  BY <1>3, <1>ordered, <1>quiet DEF Insert
<1>4. CASE InsertFails(r)
  <2>1. At(r, "found") /\ (Goto(r, "done") \/ Goto(r, "captured"))
        /\ UNCHANGED <<bg, calls, feed>>
    BY <1>4 DEF InsertFails
  <2> QED BY <1>ordered, <1>quiet, <2>1
<1>5. CASE KeepOutOfStore(r)
  BY <1>5, <1>ordered, <1>quiet DEF KeepOutOfStore
<1>6. CASE Reject(r)
  <2>1. Publish(r, <<"request">>) /\ "request" \in MessageType
    BY <1>6 DEF Reject, MessageType
  <2>2. /\ Announced(r)'
        /\ feed[r] = <<>> => Opened(r)'
        /\ Ordered(r)'
    BY <2>1, <1>ordered, PublishKeeps
  <2> QED BY <1>6, <1>ordered, <2>2 DEF Reject
<1>7. CASE Drop(r)
  <2>1. Publish(r, <<"request">>) /\ "request" \in MessageType
    BY <1>7 DEF Drop, MessageType
  <2>2. /\ Announced(r)'
        /\ feed[r] = <<>> => Opened(r)'
        /\ Ordered(r)'
    BY <2>1, <1>ordered, PublishKeeps
  <2> QED BY <1>7, <1>ordered, <2>2 DEF Drop
<1>8. CASE Announce(r)
  <2>1. Publish(r, <<"request">>) /\ "request" \in MessageType
    BY <1>8 DEF Announce, MessageType
  <2>2. /\ Announced(r)'
        /\ feed[r] = <<>> => Opened(r)'
        /\ Ordered(r)'
    BY <2>1, <1>ordered, PublishKeeps
  <2> QED BY <1>8, <1>ordered, <2>2 DEF Announce
<1>9. CASE BrowserDefault(r)
  <2>1. Publish(r, <<"request">>) /\ "request" \in MessageType
    BY <1>9 DEF BrowserDefault, MessageType
  <2>2. /\ Announced(r)'
        /\ feed[r] = <<>> => Opened(r)'
        /\ Ordered(r)'
    BY <2>1, <1>ordered, PublishKeeps
  <2> QED BY <1>9, <1>ordered, <2>2 DEF BrowserDefault
<1>10. CASE Hold(r)
  <2>1. /\ feed[r] = <<>>
        /\ feed' = [feed EXCEPT ![r] = feed[r] \o <<"response_needed", "request">>]
    BY <1>10 DEF Hold, Publish
  <2>2. feed'[r] = <<"response_needed", "request">>
    BY <2>1
  <2>3. /\ DOMAIN feed'[r] = {1, 2}
        /\ feed'[r][1] = "response_needed" /\ feed'[r][2] = "request"
    BY <2>2
  <2>4. Announced(r)' /\ Ordered(r)'
    BY <2>3 DEF Announced, Ordered
  <2> QED BY <1>10, <1>ordered, <2>4 DEF Hold
<1>11. CASE Release(r)
  BY <1>11, <1>ordered, <1>quiet DEF Release
<1>12. CASE SkipForward(r)
  BY <1>12, <1>ordered, <1>quiet DEF SkipForward
<1>13. CASE ForwardInline(r)
  BY <1>13, <1>ordered, <1>quiet DEF ForwardInline
<1>14. CASE InlineResult(r)
  <2>1. Publish(r, <<"forward_result">>) /\ "forward_result" \in MessageType
    BY <1>14 DEF InlineResult, MessageType
  <2>2. /\ Announced(r) => Announced(r)'
        /\ Opened(r) => Opened(r)'
        /\ Ordered(r) /\ Announced(r) => Ordered(r)'
    BY <2>1, PublishKeeps
  <2> QED BY <1>14, <1>ordered, <2>2 DEF InlineResult
<1>15. CASE RecordInline(r)
  BY <1>15, <1>ordered, <1>quiet DEF RecordInline
<1>16. CASE StartBackground(r)
  BY <1>16, <1>ordered, <1>quiet DEF StartBackground
<1>17. CASE Saturated(r)
  <2>1. Publish(r, <<"forward_result">>) /\ "forward_result" \in MessageType
    BY <1>17 DEF Saturated, MessageType
  <2>2. /\ Announced(r) => Announced(r)'
        /\ Opened(r) => Opened(r)'
        /\ Ordered(r) /\ Announced(r) => Ordered(r)'
    BY <2>1, PublishKeeps
  <2> QED BY <1>17, <1>ordered, <2>2 DEF Saturated
<1>18. CASE RecordSkipped(r)
  BY <1>18, <1>ordered, <1>quiet DEF RecordSkipped
<1>19. CASE ScriptReply(r)
  BY <1>19, <1>ordered, <1>quiet DEF ScriptReply
<1>20. CASE Passthrough(r)
  BY <1>20, <1>ordered, <1>quiet DEF Passthrough
<1>21. CASE DefaultReply(r)
  BY <1>21, <1>ordered, <1>quiet DEF DefaultReply
<1>22. CASE Inform(r)
  <2>1. Publish(r, <<"response_info">>) /\ "response_info" \in MessageType
    BY <1>22 DEF Inform, MessageType
  <2>2. /\ Announced(r) => Announced(r)'
        /\ Opened(r) => Opened(r)'
        /\ Ordered(r) /\ Announced(r) => Ordered(r)'
    BY <2>1, PublishKeeps
  <2> QED BY <1>22, <1>ordered, <2>2 DEF Inform
<1>23. CASE RecordReply(r)
  BY <1>23, <1>ordered, <1>quiet DEF RecordReply
<1>24. CASE Mark(r)
  BY <1>24, <1>ordered, <1>quiet DEF Mark
<1>25. CASE CallTarget(r)
  BY <1>25, <1>ordered, <1>quiet DEF CallTarget
<1>26. CASE BackgroundResult(r)
  <2>1. Publish(r, <<"forward_result">>) /\ "forward_result" \in MessageType
    BY <1>26 DEF BackgroundResult, MessageType
  <2>2. /\ Announced(r) => Announced(r)'
        /\ Opened(r) => Opened(r)'
        /\ Ordered(r) /\ Announced(r) => Ordered(r)'
    BY <2>1, PublishKeeps
  <2>3. Announced(r) /\ Opened(r)
    BY <1>26, OpenedAnnounced DEF BackgroundResult
  <2> QED BY <1>26, <1>ordered, <2>2, <2>3 DEF BackgroundResult
<1>27. CASE RecordBackground(r)
  BY <1>27, <1>ordered, <1>quiet DEF RecordBackground
<1>28. CASE Panic(r)
  BY <1>28, <1>ordered, <1>quiet DEF Panic
<1> QED
  BY <1>1, <1>2, <1>3, <1>4, <1>5, <1>6, <1>7, <1>8, <1>9, <1>10, <1>11,
     <1>12, <1>13, <1>14, <1>15, <1>16, <1>17, <1>18, <1>19, <1>20, <1>21,
     <1>22, <1>23, <1>24, <1>25, <1>26, <1>27, <1>28 DEF RequestStep, Serve,
     Background

\* A step of a request keeps every feed in order.
LEMMA FeedStep ==
  ASSUME IInv, NEW r \in Request, RequestStep(r), NEW q \in Request
  PROVE  FeedInv(q)' /\ Ordered(q)'
<1>1. CASE q = r
  BY <1>1, OwnFeedStep
<1>2. CASE q # r
  <2>1. /\ pc'[q] = pc[q] /\ bg'[q] = bg[q] /\ calls'[q] = calls[q]
        /\ feed'[q] = feed[q]
    BY <1>2, OthersStay DEF IInv
  <2>2. FeedInv(q) /\ Ordered(q)
    BY DEF IInv, RequestAnnouncedFirst, Ordered
  <2> QED BY <2>1, <2>2 DEF FeedInv, Announced, Opened, Ordered
<1> QED BY <1>1, <1>2

-----------------------------------------------------------------------------
(* The steps of the API and of the process.                                *)

\* The endpoint's settings change: handlers keep what they read.
LEMMA UpdateStep ==
  ASSUME IInv, NEW c \in Config, UpdateEndpoint(c)
  PROVE  IInv'
<1>1. /\ endpoint # Deleted /\ endpoint' = c /\ endpoint' \in Config
      /\ UNCHANGED <<process, rows, handler, bg, outcome, slots, sent, feed, calls, faulted>>
  BY DEF UpdateEndpoint
<1>2. TypeOK' /\ NoOrphanRows'
  BY <1>1, CaptureAssumption DEF IInv, TypeOK, NoOrphanRows, process, handler, ConfigRecord
<1>3. SlotsAreRunningForwards' /\ RequestAnnouncedFirst' /\ StopInv'
  BY <1>1 DEF IInv, SlotsAreRunningForwards, RequestAnnouncedFirst, StopInv, HandlersDone,
              ForwardsDone, process, handler
<1>4. ASSUME NEW r \in Request
      PROVE  ForwardInv(r)' /\ RecordInv(r)' /\ ReplyInv(r)' /\ FeedInv(r)'
  BY <1>1 DEF IInv, ForwardInv, RecordInv, ReplyInv, FeedInv, Announced, Opened, ServerMode,
              handler
<1> QED BY <1>2, <1>3, <1>4 DEF IInv

\* Rows disappear, one or all.
LEMMA DeleteStep ==
  ASSUME IInv, DeleteEndpoint \/ \E r \in Request : DeleteRequest(r)
  PROVE  IInv'
<1>1. UNCHANGED <<process, handler, bg, outcome, slots, sent, feed, calls, faulted>>
  BY DEF DeleteEndpoint, DeleteRequest
<1>2. rows' \in [Request -> Row \cup {NoRow}] /\ \A q \in Request : rows'[q] \in {rows[q], NoRow}
  BY DEF DeleteEndpoint, DeleteRequest, IInv, TypeOK
<1>3. TypeOK'
  BY <1>1, <1>2 DEF DeleteEndpoint, DeleteRequest, IInv, TypeOK, process, handler
<1>4. NoOrphanRows'
  BY <1>2 DEF DeleteEndpoint, DeleteRequest, IInv, TypeOK, NoOrphanRows
<1>5. SlotsAreRunningForwards' /\ RequestAnnouncedFirst' /\ StopInv'
  BY <1>1 DEF IInv, SlotsAreRunningForwards, RequestAnnouncedFirst, StopInv, HandlersDone,
              ForwardsDone, process, handler
<1>6. ASSUME NEW r \in Request
      PROVE  ForwardInv(r)' /\ RecordInv(r)' /\ ReplyInv(r)' /\ FeedInv(r)'
  BY <1>1, <1>2 DEF IInv, ForwardInv, RecordInv, ReplyInv, FeedInv, Announced, Opened,
                    ServerMode, handler
<1> QED BY <1>3, <1>4, <1>5, <1>6 DEF IInv

\* The process drains, stops or is killed.
LEMMA ProcessStep ==
  ASSUME IInv, Drain \/ Stop \/ Kill
  PROVE  IInv'
<1>1. UNCHANGED <<serverless, endpoint, rows, handler, bg, outcome, slots, sent, feed, calls,
                  faulted>>
  BY DEF Drain, Stop, Kill
<1>2. TypeOK'
  BY <1>1 DEF Drain, Stop, Kill, IInv, TypeOK, handler
<1>3. StopInv'
  BY <1>1 DEF Drain, Stop, Kill, StopInv, HandlersDone, ForwardsDone, handler
<1>4. NoOrphanRows' /\ SlotsAreRunningForwards' /\ RequestAnnouncedFirst'
  BY <1>1 DEF IInv, NoOrphanRows, SlotsAreRunningForwards, RequestAnnouncedFirst
<1>5. ASSUME NEW r \in Request
      PROVE  ForwardInv(r)' /\ RecordInv(r)' /\ ReplyInv(r)' /\ FeedInv(r)'
  BY <1>1 DEF IInv, ForwardInv, RecordInv, ReplyInv, FeedInv, Announced, Opened, ServerMode,
              handler
<1> QED BY <1>2, <1>3, <1>4, <1>5 DEF IInv

\* A step of a handler or of a background forward keeps the invariant.
LEMMA RequestStepIInv ==
  ASSUME IInv, NEW r \in Request, Alive, RequestStep(r)
  PROVE  IInv'
<1>1. SlotsAreRunningForwards' /\ slots' \in 0 .. MaxAsync
  BY SlotStep
<1>2. TypeOK'
  BY <1>1, TypeStep
<1>3. NoOrphanRows'
  BY OrphanStep
<1>4. ASSUME NEW q \in Request
      PROVE  /\ ForwardInv(q)' /\ RecordInv(q)' /\ ReplyInv(q)' /\ FeedInv(q)'
             /\ Ordered(q)'
  BY ForwardStep, RecordStep, ReplyStep, FeedStep
<1>5. RequestAnnouncedFirst'
  BY <1>4 DEF RequestAnnouncedFirst, Ordered
<1>6. server' = server
  BY ServerStays
<1>7. StopInv'
  BY <1>6 DEF StopInv, Alive
<1> QED BY <1>1, <1>2, <1>3, <1>4, <1>5, <1>7 DEF IInv

\* Every step keeps the invariant.
LEMMA NextIInv == IInv /\ [Next]_vars => IInv'
<1> SUFFICES ASSUME IInv, [Next]_vars PROVE IInv'
  OBVIOUS
<1>1. CASE \E r \in Request : Alive /\ (Serve(r) \/ Background(r))
  BY <1>1, RequestStepIInv DEF RequestStep
<1>2. CASE \E c \in Config : UpdateEndpoint(c)
  BY <1>2, UpdateStep
<1>3. CASE DeleteEndpoint \/ \E r \in Request : DeleteRequest(r)
  BY <1>3, DeleteStep
<1>4. CASE Drain \/ Stop \/ Kill
  BY <1>4, ProcessStep
<1>5. CASE UNCHANGED vars
  BY <1>5 DEF vars, process, handler, IInv, TypeOK, NoOrphanRows, SlotsAreRunningForwards,
              ForwardInv, RecordInv, ReplyInv, FeedInv, Announced, Opened, ServerMode,
              RequestAnnouncedFirst, StopInv, HandlersDone, ForwardsDone
<1> QED BY <1>1, <1>2, <1>3, <1>4, <1>5 DEF Next

\* The invariant holds in every reachable state.
THEOREM Invariance == Spec => []IInv
BY InitIInv, NextIInv, PTL DEF Spec

-----------------------------------------------------------------------------
\* Type correctness of the pipeline.
THEOREM TypeCorrect == Spec => []TypeOK
BY Invariance, PTL DEF IInv

\* No row outlives its endpoint, whatever late inserts and records arrive.
THEOREM NoOrphans == Spec => []NoOrphanRows
BY Invariance, PTL DEF IInv

\* However background forwards end, every slot in use has its forward and the
\* limit holds.
THEOREM SlotsExact == Spec => []SlotsAreRunningForwards
BY Invariance, PTL DEF IInv

\* Nothing is told of a request before the request itself.
THEOREM AnnouncedFirst == Spec => []RequestAnnouncedFirst
BY Invariance, PTL DEF IInv

\* The target is called once, and never for a refused or unstored request.
THEOREM ForwardedOnce == Spec => []ForwardedOnceIfAccepted
<1>1. IInv => ForwardedOnceIfAccepted
  <2> SUFFICES ASSUME IInv, NEW r \in Request, calls[r] > 0
               PROVE  /\ calls[r] = 1
                      /\ r \in stored
                      /\ sent[r] # NoReply => sent[r].source \notin {"error", "signature"}
                      /\ feed[r] # <<>> /\ feed[r][1] = "request"
    BY DEF ForwardedOnceIfAccepted
  <2>1. ForwardInv(r) /\ FeedInv(r)
    BY DEF IInv
  <2> QED BY <2>1 DEF ForwardInv, FeedInv, Opened
<1> QED BY <1>1, Invariance, PTL

\* A background forward that has called its target shows on its row, also after
\* a crash.
THEOREM StartedShows == Spec => []StartedForwardShows
<1>1. IInv => StartedForwardShows
  <2> SUFFICES ASSUME IInv, NEW r \in Request, calls[r] > 0, bg[r] # "none",
                      rows[r] # NoRow, r \notin faulted
               PROVE  rows[r].forward # "none"
    BY DEF StartedForwardShows
  <2>1. ForwardInv(r) /\ RecordInv(r) /\ bg[r] \in Running \cup {"none", "done"}
    BY DEF IInv, TypeOK, Running
  <2>2. bg[r] # "started"
    BY <2>1 DEF ForwardInv
  <2> QED BY <2>1, <2>2 DEF RecordInv
<1> QED BY <1>1, Invariance, PTL

\* A graceful stop leaves no forward open and no reply unrecorded.
THEOREM CleanStop == Spec => []CleanStopClosesRecords
<1>1. IInv => CleanStopClosesRecords
  <2> SUFFICES ASSUME IInv, server = "stopped", NEW r \in Request,
                      rows[r] # NoRow, r \notin faulted
               PROVE  /\ rows[r].forward # "in_progress"
                      /\ rows[r].response # NoReply
                      /\ rows[r].response.source = sent[r].source
                      /\ calls[r] > 0 => rows[r].forward \in {"ok", "failed"}
    BY DEF CleanStopClosesRecords
  <2>1. pc[r] \in {"new", "done"} /\ bg[r] \in {"none", "done"}
    BY DEF IInv, StopInv, HandlersDone, ForwardsDone
  <2>2. ForwardInv(r) /\ RecordInv(r) /\ ReplyInv(r)
    BY DEF IInv
  <2>3. pc[r] = "done"
    BY <2>1, <2>2 DEF RecordInv
  <2>4. rows[r].response \in Reply /\ rows[r].response.source = sent[r].source
    BY <2>2, <2>3 DEF ReplyInv
  <2>5. rows[r].forward # "in_progress" /\ (calls[r] > 0 => rows[r].forward \in {"ok", "failed"})
    BY <2>1, <2>2, <2>3 DEF RecordInv, Inline
  <2> QED BY <2>4, <2>5, CaptureAssumption
<1> QED BY <1>1, Invariance, PTL

\* A recorded result outlives every step of a request.
LEMMA SettleStep ==
  ASSUME IInv, NEW r \in Request, RequestStep(r), NEW q \in Request,
         rows[q] # NoRow, rows[q].forward \in Result, rows'[q] # NoRow
  PROVE  rows'[q].forward = rows[q].forward
<1> USE DEF IInv, TypeOK, RecordInv, Early, Inline, Running, At, Record, Updated,
          RowWithForward, RowWithResponse, Result, CanInsert
<1>1. CASE Refuse(r)
  BY <1>1 DEF Refuse
<1>2. CASE Lookup(r)
  BY <1>2 DEF Lookup
<1>3. CASE Insert(r)
  BY <1>3 DEF Insert
<1>4. CASE InsertFails(r)
  BY <1>4 DEF InsertFails
<1>5. CASE KeepOutOfStore(r)
  BY <1>5 DEF KeepOutOfStore
<1>6. CASE Reject(r)
  BY <1>6 DEF Reject
<1>7. CASE Drop(r)
  BY <1>7 DEF Drop
<1>8. CASE Announce(r)
  BY <1>8 DEF Announce
<1>9. CASE BrowserDefault(r)
  BY <1>9 DEF BrowserDefault
<1>10. CASE Hold(r)
  BY <1>10 DEF Hold
<1>11. CASE Release(r)
  BY <1>11 DEF Release
<1>12. CASE SkipForward(r)
  BY <1>12 DEF SkipForward
<1>13. CASE ForwardInline(r)
  BY <1>13 DEF ForwardInline
<1>14. CASE InlineResult(r)
  BY <1>14 DEF InlineResult
<1>15. CASE RecordInline(r)
  BY <1>15 DEF RecordInline
<1>16. CASE StartBackground(r)
  BY <1>16 DEF StartBackground
<1>17. CASE Saturated(r)
  BY <1>17 DEF Saturated
<1>18. CASE RecordSkipped(r)
  BY <1>18 DEF RecordSkipped
<1>19. CASE ScriptReply(r)
  BY <1>19 DEF ScriptReply
<1>20. CASE Passthrough(r)
  BY <1>20 DEF Passthrough
<1>21. CASE DefaultReply(r)
  BY <1>21 DEF DefaultReply
<1>22. CASE Inform(r)
  BY <1>22 DEF Inform
<1>23. CASE RecordReply(r)
  BY <1>23 DEF RecordReply
<1>24. CASE Mark(r)
  BY <1>24 DEF Mark
<1>25. CASE CallTarget(r)
  BY <1>25 DEF CallTarget
<1>26. CASE BackgroundResult(r)
  BY <1>26 DEF BackgroundResult
<1>27. CASE RecordBackground(r)
  BY <1>27 DEF RecordBackground
<1>28. CASE Panic(r)
  BY <1>28 DEF Panic
<1> QED
  BY <1>1, <1>2, <1>3, <1>4, <1>5, <1>6, <1>7, <1>8, <1>9, <1>10, <1>11,
     <1>12, <1>13, <1>14, <1>15, <1>16, <1>17, <1>18, <1>19, <1>20, <1>21,
     <1>22, <1>23, <1>24, <1>25, <1>26, <1>27, <1>28 DEF RequestStep, Serve,
     Background

\* The result of a forward, once recorded, is never reopened or replaced.
THEOREM RecordSettles == Spec => ForwardRecordSettles
<1>1. IInv /\ [Next]_vars =>
        [\A r \in Request :
           (rows[r] # NoRow /\ rows[r].forward \in Result /\ rows'[r] # NoRow) =>
             rows'[r].forward = rows[r].forward]_vars
  <2> SUFFICES ASSUME IInv, Next, NEW r \in Request,
                      rows[r] # NoRow, rows[r].forward \in Result, rows'[r] # NoRow
               PROVE  rows'[r].forward = rows[r].forward
    OBVIOUS
  <2>1. CASE \E q \in Request : Alive /\ (Serve(q) \/ Background(q))
    BY <2>1, SettleStep DEF RequestStep
  <2>2. CASE DeleteEndpoint \/ \E q \in Request : DeleteRequest(q)
    BY <2>2 DEF DeleteEndpoint, DeleteRequest, IInv, TypeOK
  <2>3. CASE (\E c \in Config : UpdateEndpoint(c)) \/ Drain \/ Stop \/ Kill
    BY <2>3 DEF UpdateEndpoint, Drain, Stop, Kill
  <2> QED BY <2>1, <2>2, <2>3 DEF Next
<1> QED BY <1>1, Invariance, PTL DEF Spec, ForwardRecordSettles
=============================================================================
