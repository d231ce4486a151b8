-------------------------------- MODULE Hub --------------------------------
(***************************************************************************)
(* The pub/sub half of internal/hub/hub.go: subscribers per slug, each     *)
(* with a bounded channel, one ring buffer per browser-mode slug, and the  *)
(* background sweep, which takes the hub lock only for its first and last  *)
(* phase and so interleaves with everything else.  The pending replies,    *)
(* the hub's other half, are in HeldReply.                                 *)
(*                                                                         *)
(* Subscribe, Publish, RemoveBuffer and a client's cleanup each run under  *)
(* h.mu from start to end: each is one action.  A message is its number in *)
(* published, the history of all messages.                                 *)
(***************************************************************************)
EXTENDS RingBuffer, FiniteSets, Functions

CONSTANTS
  Slug,
  Client,          \* *client values: each is subscribed once and closed once
  NoSlug,          \* the slug of a client that has not subscribed
  NoBuffer,        \* a slug without a ring buffer
  ChanCap,         \* capacity of a client's channel, 64 in the code
  MaxSubscribers,  \* maxSubscribersSlug
  MaxPublish,      \* bound on the number of messages
  PublishUntil,    \* bound: the last time at which anything is published
  MaxTime          \* bound on the clock

ASSUME HubAssumption ==
  /\ NoSlug \notin Slug
  /\ ChanCap \in Nat \ {0}
  /\ MaxSubscribers \in Nat \ {0}
  /\ MaxPublish \in Nat
  /\ PublishUntil \in Nat
  /\ MaxTime \in Nat
  /\ IsFiniteSet(Client)

ASSUME BufferAssumption ==
  LET Message == [msg : Nat, createdAt : Nat]
  IN  /\ Blank \notin Message
      /\ NoBuffer \notin [msgs : [Index -> Message \cup {Blank}], pos : Index, full : BOOLEAN]

VARIABLES
  clients,    \* slug -> the registered clients
  ch,         \* client -> the content of its channel
  buffers,    \* slug -> ring buffer, or NoBuffer
  sweeper,    \* the sweep goroutine: phase, slugs to sweep, orphans, emptied
  now,        \* the clock
  published,  \* history: every message published, [slug, buffered]
  removals,   \* history: slug -> parity of its RemoveBuffer calls
  slugOf,     \* history: the slug a client subscribed to
  closed,     \* history: the clients whose channel has been closed
  last,       \* history: client -> the last message its write pump took, or 0
  dropped,    \* history: client -> messages a full channel turned away
  joined      \* history: client -> Len(published) when it subscribed

clientVars == <<clients, ch, slugOf, closed, last, dropped, joined>>
vars == <<clientVars, buffers, sweeper, now, published, removals>>

Number == 1 .. MaxPublish
Buffer == [msgs : [Index -> [msg : Number, createdAt : 0 .. MaxTime] \cup {Blank}],
           pos  : Index,
           full : BOOLEAN]

TypeOK ==
  /\ clients \in [Slug -> SUBSET Client]
  /\ ch \in [Client -> Seq(Number)]
  /\ buffers \in [Slug -> Buffer \cup {NoBuffer}]
  /\ sweeper \in [phase   : {"idle", "sweeping"},
                  left    : SUBSET Slug,
                  orphan  : SUBSET Slug,
                  emptied : SUBSET Slug]
  /\ now \in 0 .. MaxTime
  /\ published \in Seq([slug : Slug, buffered : BOOLEAN])
  /\ Len(published) <= MaxPublish
  /\ removals \in [Slug -> {0, 1}]
  /\ slugOf \in [Client -> Slug \cup {NoSlug}]
  /\ closed \in SUBSET Client
  /\ last \in [Client -> 0 .. MaxPublish]
  /\ dropped \in [Client -> SUBSET Number]
  /\ joined \in [Client -> 0 .. MaxPublish]

Init ==
  /\ clients = [s \in Slug |-> {}]
  /\ ch = [c \in Client |-> <<>>]
  /\ buffers = [s \in Slug |-> NoBuffer]
  /\ sweeper = [phase |-> "idle", left |-> {}, orphan |-> {}, emptied |-> {}]
  /\ now = 0
  /\ published = <<>>
  /\ removals = [s \in Slug |-> 0]
  /\ slugOf = [c \in Client |-> NoSlug]
  /\ closed = {}
  /\ last = [c \in Client |-> 0]
  /\ dropped = [c \in Client |-> {}]
  /\ joined = [c \in Client |-> 0]

\* The messages a drain of slug s would send, oldest first.
Replay(s) ==
  IF buffers[s] = NoBuffer THEN <<>>
  ELSE LET entries == drain(buffers[s])
       IN  [k \in DOMAIN entries |-> entries[k].msg]

\* A non-blocking send of each message in turn: the channel keeps what fits.
Fill(q) == SubSeq(q, 1, IF Len(q) < ChanCap THEN Len(q) ELSE ChanCap)

-----------------------------------------------------------------------------
(* Subscribe, and the cleanup function it returns.                         *)

BelowLimit(s) == Cardinality(clients[s]) < MaxSubscribers

\* At the subscriber limit the code returns nil, nil: nothing changes.
Subscribe(c, s) ==
  /\ slugOf[c] = NoSlug
  /\ BelowLimit(s)
  /\ clients' = [clients EXCEPT ![s] = @ \cup {c}]
  /\ slugOf' = [slugOf EXCEPT ![c] = s]
  /\ ch' = [ch EXCEPT ![c] = Fill(Replay(s))]
  /\ dropped' = [dropped EXCEPT ![c] = Range(Replay(s)) \ Range(Fill(Replay(s)))]
  /\ joined' = [joined EXCEPT ![c] = Len(published)]
  /\ UNCHANGED <<closed, last, buffers, sweeper, now, published, removals>>

\* Fault: cleanup closes the channel and forgets to unregister the client.
CleanupWithoutDelete(c) ==
  /\ slugOf[c] # NoSlug /\ c \notin closed
  /\ closed' = closed \cup {c}
  /\ UNCHANGED <<clients, ch, slugOf, last, dropped, joined,
                 buffers, sweeper, now, published, removals>>

\* The write pump ended: unregister, and only then close the channel.  Nobody
\* reads a closed channel, so what is left in it is forgotten here.
Cleanup(c) ==
  /\ slugOf[c] # NoSlug /\ c \notin closed
  /\ clients' = [clients EXCEPT ![slugOf[c]] = @ \ {c}]
  /\ closed' = closed \cup {c}
  /\ ch' = [ch EXCEPT ![c] = <<>>]
  /\ last' = [last EXCEPT ![c] = 0]
  /\ dropped' = [dropped EXCEPT ![c] = {}]
  /\ joined' = [joined EXCEPT ![c] = 0]
  /\ UNCHANGED <<slugOf, buffers, sweeper, now, published, removals>>

\* The write pump takes the next message.
Receive(c) ==
  /\ slugOf[c] # NoSlug /\ c \notin closed
  /\ ch[c] # <<>>
  /\ last' = [last EXCEPT ![c] = Head(ch[c])]
  /\ ch' = [ch EXCEPT ![c] = Tail(@)]
  /\ UNCHANGED <<clients, slugOf, closed, dropped, joined,
                 buffers, sweeper, now, published, removals>>

-----------------------------------------------------------------------------
(* Publish and RemoveBuffer.                                               *)

\* A buffered message creates the slug's buffer on first use.
Buffered(s, n) ==
  push(IF buffers[s] = NoBuffer THEN newRingBuffer ELSE buffers[s], n, now)

Store(s, n, useBuffer) ==
  IF useBuffer THEN [buffers EXCEPT ![s] = Buffered(s, n)] ELSE buffers

\* Fault: every open channel is served, whatever slug it belongs to.
ListenersOfAnySlug(s) == UNION {clients[t] : t \in Slug}

Listeners(s) == clients[s]

Publish(s, useBuffer) ==
  LET n == Len(published) + 1
      sentTo == {c \in Listeners(s) : Len(ch[c]) < ChanCap}
  IN  /\ n <= MaxPublish /\ now <= PublishUntil
      /\ published' = Append(published, [slug |-> s, buffered |-> useBuffer])
      /\ buffers' = Store(s, n, useBuffer)
      /\ ch' = [c \in Client |-> IF c \in sentTo THEN Append(ch[c], n) ELSE ch[c]]
      /\ dropped' = [c \in Client |-> IF c \in Listeners(s) \ sentTo
                                        THEN dropped[c] \cup {n} ELSE dropped[c]]
      /\ UNCHANGED <<clients, slugOf, closed, last, joined, sweeper, now, removals>>

\* The endpoint was deleted or renamed.  A sweep under way keeps its pointer.
RemoveBuffer(s) ==
  /\ buffers' = [buffers EXCEPT ![s] = NoBuffer]
  /\ sweeper' = [sweeper EXCEPT !.orphan = @ \cup (sweeper.left \cap {s})]
  /\ removals' = [removals EXCEPT ![s] = 1 - @]
  /\ UNCHANGED <<clientVars, now, published>>

-----------------------------------------------------------------------------
(* The sweep: copy the map under the read lock, sweep each buffer under its *)
(* own lock only, then delete the empty ones under the write lock.          *)

SweepBegin ==
  /\ sweeper.phase = "idle"
  /\ sweeper' = [phase   |-> "sweeping",
                 left    |-> {s \in Slug : buffers[s] # NoBuffer},
                 orphan  |-> {},
                 emptied |-> {}]
  /\ UNCHANGED <<clientVars, buffers, now, published, removals>>

\* A buffer still in the map is swept; one that was removed since the copy is
\* swept too, but nobody reads it again: whether it came out empty is left open.
SweepOne(s) ==
  /\ sweeper.phase = "sweeping"
  /\ s \in sweeper.left
  /\ \E empty \in BOOLEAN :
       /\ s \notin sweeper.orphan =>
            empty = IsEmpty(sweepExpired(buffers[s], now))
       /\ buffers' = IF s \in sweeper.orphan THEN buffers
                     ELSE [buffers EXCEPT ![s] = sweepExpired(@, now)]
       /\ sweeper' = [sweeper EXCEPT !.left = @ \ {s},
                        !.emptied = IF empty THEN @ \cup {s} ELSE @]
  /\ UNCHANGED <<clientVars, now, published, removals>>

\* Fault: the buffers found empty are deleted without looking again.
DeleteEmptiedBlindly(b) == NoBuffer

\* Fault: an emptied buffer stays in the map.
KeepEmptied(b) == IF b = NoBuffer THEN NoBuffer ELSE sweepExpired(b, now)

\* The second look, under the write lock: a message may have come in since.
DeleteEmptied(b) ==
  IF b = NoBuffer \/ IsEmpty(sweepExpired(b, now)) THEN NoBuffer
                                                   ELSE sweepExpired(b, now)

SweepEnd ==
  /\ sweeper.phase = "sweeping"
  /\ sweeper.left = {}
  /\ buffers' = [s \in Slug |-> IF s \in sweeper.emptied
                                  THEN DeleteEmptied(buffers[s]) ELSE buffers[s]]
  /\ sweeper' = [phase |-> "idle", left |-> {}, orphan |-> {}, emptied |-> {}]
  /\ UNCHANGED <<clientVars, now, published, removals>>

Tick ==
  /\ now < MaxTime
  /\ now' = now + 1
  /\ UNCHANGED <<clientVars, buffers, sweeper, published, removals>>

-----------------------------------------------------------------------------
Next ==
  \/ \E c \in Client, s \in Slug : Subscribe(c, s)
  \/ \E c \in Client : Receive(c)
  \/ \E c \in Client : Cleanup(c)
  \/ \E s \in Slug, useBuffer \in BOOLEAN : Publish(s, useBuffer)
  \/ \E s \in Slug : RemoveBuffer(s)
  \/ SweepBegin
  \/ \E s \in Slug : SweepOne(s)
  \/ SweepEnd
  \/ Tick

Spec == Init /\ [][Next]_vars

\* The sweep goroutine runs until Stop, and time passes.
Fairness ==
  /\ WF_vars(SweepBegin)
  /\ \A s \in Slug : WF_vars(SweepOne(s))
  /\ WF_vars(SweepEnd)
  /\ WF_vars(Tick)

FairSpec == Spec /\ Fairness

-----------------------------------------------------------------------------
Open(c) == slugOf[c] # NoSlug /\ c \notin closed

\* Publish never sends on a closed channel, which would panic the server: the
\* clients registered for a slug are exactly those that subscribed to it and
\* have not been closed, whatever order subscriptions, cleanups and publishes
\* interleave in (Subscribe, its cleanup, Publish).
RegisteredIffOpen ==
  \A s \in Slug : clients[s] = {c \in Client : slugOf[c] = s /\ c \notin closed}

\* The subscriber limit holds for every slug at all times (M-09).
SubscriberLimit == \A s \in Slug : Cardinality(clients[s]) <= MaxSubscribers

\* A subscriber receives messages of its own slug only, in publish order and
\* each at most once, across the seam between the catch-up replay and the live
\* messages that follow it (Subscribe flushes and registers in one critical
\* section; drain reads oldest first).  Every message a client gets passes
\* through its channel.
InOrderOfOwnSlug ==
  \A c \in Client : \A i \in DOMAIN ch[c] :
    /\ last[c] < ch[c][i]
    /\ \A j \in DOMAIN ch[c] : i < j => ch[c][i] < ch[c][j]
    /\ published[ch[c][i]].slug = slugOf[c]

\* No silent gap: an open subscriber gets every message of its slug published
\* after it joined, and from the first replayed message on every buffered one,
\* except those its own full channel turned away (the slow consumer of Publish
\* and the flush of Subscribe, which both drop).
GapOnlyFromFullChannel ==
  \A c \in Client, n \in 1 .. Len(published) :
    /\ Open(c)
    /\ published[n].slug = slugOf[c]
    /\ last[c] < n
    /\ \/ n > joined[c]
       \/ published[n].buffered /\ (last[c] # 0 \/ \E i \in DOMAIN ch[c] : ch[c][i] < n)
    => n \in Range(ch[c]) \cup dropped[c]

\* A subscriber that joins is sent every buffered message of its slug that has
\* not reached its TTL: it "first receives what it missed".  Holds when the
\* ring is no larger than a client's channel.
CatchUpComplete ==
  [][\A c \in Client :
       (slugOf[c] = NoSlug /\ slugOf'[c] # NoSlug) =>
         LET s == slugOf'[c]
         IN  buffers[s] # NoBuffer =>
               \A i \in Index :
                 (buffers[s].msgs[i] # Blank /\ ~Expired(buffers[s].msgs[i], now)) =>
                   buffers[s].msgs[i].msg \in Range(ch'[c])]_vars

\* A slug that no longer receives traffic does not keep its buffer forever:
\* once publishing has stopped and the TTL has passed, the sweep has deleted
\* every buffer, also one a late publish created again after RemoveBuffer.
BuffersReclaimed == <>[](\A s \in Slug : buffers[s] = NoBuffer)

\* The catch-up store as a bounded log with a TTL: what the sweep clears, and
\* when, cannot be told from outside.
Kept(s) ==
  IF buffers[s] = NoBuffer THEN <<>>
  ELSE LET slots == readOrder(buffers[s])
       IN  Without(slots, {e \in Range(slots) : e = Blank \/ Expired(e, now)})

CatchUp == INSTANCE CatchUpLog
             WITH log <- [s \in Slug |-> Kept(s)], now <- now, Message <- Number

ImplementsCatchUpLog == CatchUp!Spec
=============================================================================
