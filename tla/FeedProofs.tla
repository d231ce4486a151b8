----------------------------- MODULE FeedProofs -----------------------------
(***************************************************************************)
(* Proofs about how requests get to a dashboard: what the hub keeps and    *)
(* delivers, and what a tab shows of it.                                   *)
(*                                                                         *)
(* Hub, for any number of slugs and clients, any limit and any sizes of    *)
(* buffers and channels: registrations, what the buffers hold, and what    *)
(* clients are sent.                                                       *)
(*                                                                         *)
(* TabStore, for any number of calls in flight, requests, deletions and    *)
(* failures: the list a tab shows has its type and shows no request twice. *)
(* That is not inductive: a load shows what the server has listed earlier, *)
(* and a deletion that fails shows the list from before it.  EachOnce says *)
(* the same of every answer and every backup a call in flight still holds. *)
(***************************************************************************)
EXTENDS Hub, TabStore, RingBufferProofs

\* The part of the state that registrations are made of.
ClientsTyped ==
  /\ clients \in [Slug -> SUBSET Client]
  /\ slugOf \in [Client -> Slug \cup {NoSlug}]
  /\ closed \in SUBSET Client

\* A client whose channel is closed has subscribed once.
ClosedSubscribed == \A c \in closed : slugOf[c] # NoSlug

\* The inductive invariant: the limit is only provable together with the fact
\* that a client which subscribes was registered nowhere before.
Registered == ClientsTyped /\ ClosedSubscribed /\ RegisteredIffOpen /\ SubscriberLimit

-----------------------------------------------------------------------------
\* Nobody is registered when the hub starts.
LEMMA InitRegistered == Init => Registered
<1> SUFFICES ASSUME Init PROVE Registered
  OBVIOUS
<1>1. ClientsTyped /\ ClosedSubscribed /\ RegisteredIffOpen
  BY HubAssumption DEF Init, ClientsTyped, ClosedSubscribed, RegisteredIffOpen
<1>2. SubscriberLimit
  <2>1. Cardinality({}) = 0
    BY FS_EmptySet
  <2> QED BY <2>1, HubAssumption DEF Init, SubscriberLimit
<1> QED BY <1>1, <1>2 DEF Registered

\* A subscription registers a client that was not registered.
LEMMA SubscribeRegistered ==
  ASSUME Registered, NEW c \in Client, NEW s \in Slug, Subscribe(c, s)
  PROVE  Registered'
<1>1. /\ slugOf[c] = NoSlug /\ Cardinality(clients[s]) < MaxSubscribers
      /\ clients' = [clients EXCEPT ![s] = @ \cup {c}]
      /\ slugOf' = [slugOf EXCEPT ![c] = s]
      /\ closed' = closed
  BY DEF Subscribe, BelowLimit
<1>2. c \notin clients[s] /\ c \notin closed
  <2>1. c \notin clients[s]
    BY <1>1, HubAssumption DEF Registered, RegisteredIffOpen
  <2>2. c \notin closed
    BY <1>1 DEF Registered, ClosedSubscribed
  <2> QED BY <2>1, <2>2
<1>3. ClientsTyped'
  BY <1>1 DEF Registered, ClientsTyped
<1>4. RegisteredIffOpen'
  BY <1>1, <1>2, HubAssumption DEF Registered, ClientsTyped, RegisteredIffOpen
<1>5. SubscriberLimit'
  <2>1. IsFiniteSet(clients[s])
    BY HubAssumption, FS_Subset DEF Registered, ClientsTyped
  <2>2. Cardinality(clients[s] \cup {c}) = Cardinality(clients[s]) + 1
    BY <1>2, <2>1, FS_AddElement
  <2>3. Cardinality(clients[s]) \in Nat
    BY <2>1, FS_CardinalityType
  <2>4. Cardinality(clients'[s]) <= MaxSubscribers
    BY <1>1, <2>2, <2>3, HubAssumption DEF Registered, ClientsTyped
  <2>5. \A t \in Slug \ {s} : clients'[t] = clients[t]
    BY <1>1 DEF Registered, ClientsTyped
  <2> QED BY <2>4, <2>5 DEF Registered, SubscriberLimit
<1>6. ClosedSubscribed'
  BY <1>1 DEF Registered, ClientsTyped, ClosedSubscribed
<1> QED BY <1>3, <1>4, <1>5, <1>6 DEF Registered

\* A cleanup takes the client out before it closes the channel.
LEMMA CleanupRegistered ==
  ASSUME Registered, NEW c \in Client, Cleanup(c)
  PROVE  Registered'
<1> DEFINE s == slugOf[c]
<1>1. /\ s \in Slug /\ c \notin closed
      /\ clients' = [clients EXCEPT ![s] = @ \ {c}]
      /\ closed' = closed \cup {c} /\ slugOf' = slugOf
  BY DEF Cleanup, Registered, ClientsTyped
<1>2. ClientsTyped' /\ ClosedSubscribed'
  BY <1>1, HubAssumption DEF Registered, ClientsTyped, ClosedSubscribed
<1>3. RegisteredIffOpen'
  BY <1>1 DEF Registered, ClientsTyped, RegisteredIffOpen
<1>4. SubscriberLimit'
  <2>1. IsFiniteSet(clients[s]) /\ c \in clients[s]
    BY <1>1, HubAssumption, FS_Subset DEF Registered, ClientsTyped, RegisteredIffOpen
  <2>2. Cardinality(clients[s] \ {c}) = Cardinality(clients[s]) - 1
    BY <2>1, FS_RemoveElement
  <2>3. Cardinality(clients[s]) \in Nat
    BY <2>1, FS_CardinalityType
  <2>4. Cardinality(clients'[s]) <= MaxSubscribers
    BY <1>1, <2>2, <2>3, HubAssumption DEF Registered, ClientsTyped, SubscriberLimit
  <2>5. \A t \in Slug \ {s} : clients'[t] = clients[t]
    BY <1>1 DEF Registered, ClientsTyped
  <2> QED BY <2>4, <2>5 DEF Registered, SubscriberLimit
<1> QED BY <1>2, <1>3, <1>4 DEF Registered

\* Every other step leaves the registrations alone.
LEMMA NextRegistered == Registered /\ [Next]_vars => Registered'
<1> SUFFICES ASSUME Registered, [Next]_vars PROVE Registered'
  OBVIOUS
<1>1. CASE \E c \in Client, s \in Slug : Subscribe(c, s)
  BY <1>1, SubscribeRegistered
<1>2. CASE \E c \in Client : Cleanup(c)
  BY <1>2, CleanupRegistered
<1>3. CASE UNCHANGED <<clients, slugOf, closed>>
  BY <1>3 DEF Registered, ClientsTyped, ClosedSubscribed, RegisteredIffOpen, SubscriberLimit
<1>4. CASE \E c \in Client : Receive(c)
  BY <1>3, <1>4 DEF Receive
<1>5. CASE \E s \in Slug, useBuffer \in BOOLEAN : Publish(s, useBuffer)
  BY <1>3, <1>5 DEF Publish
<1>6. CASE \E s \in Slug : RemoveBuffer(s) \/ SweepOne(s)
  BY <1>3, <1>6 DEF RemoveBuffer, SweepOne, clientVars
<1>7. CASE SweepBegin \/ SweepEnd \/ Tick \/ UNCHANGED vars
  BY <1>3, <1>7 DEF SweepBegin, SweepEnd, Tick, vars, clientVars
<1> QED BY <1>1, <1>2, <1>4, <1>5, <1>6, <1>7 DEF Next

\* The invariant holds in every reachable state.
THEOREM Invariance == Spec => []Registered
BY InitRegistered, NextRegistered, PTL DEF Spec

\* Publish never meets a closed channel, for any number of clients and slugs.
THEOREM NoSendOnClosed == Spec => []RegisteredIffOpen
BY Invariance, PTL DEF Registered

\* No slug ever has more subscribers than the limit.
THEOREM LimitHolds == Spec => []SubscriberLimit
BY Invariance, PTL DEF Registered

-----------------------------------------------------------------------------
(* What the buffers hold.                                                  *)

Held == [msg : Number, createdAt : 0 .. MaxTime]

Logged(log, s, n) == n \in 1 .. Len(log) /\ log[n] = [slug |-> s, buffered |-> TRUE]

Holds(b, n) == \E i \in Index : b.msgs[i] # Blank /\ b.msgs[i].msg = n

\* b is in order, holds buffered messages of s in the order of publishing, and
\* with one of them all later ones.
Sound(b, s, t, log) ==
  /\ b \in Buffer
  /\ Orderly(b, t)
  /\ \A i \in Index : b.msgs[i] # Blank => Logged(log, s, b.msgs[i].msg)
  /\ \A i, j \in Index :
       b.msgs[i] # Blank /\ b.msgs[j] # Blank /\ Place(b, i) < Place(b, j)
         => b.msgs[i].msg < b.msgs[j].msg
  /\ \A i \in Index : \A n \in 1 .. Len(log) :
       b.msgs[i] # Blank /\ b.msgs[i].msg <= n /\ Logged(log, s, n) => Holds(b, n)

BuffersSound == \A s \in Slug : buffers[s] # NoBuffer => Sound(buffers[s], s, now, published)

\* A buffer the sweep still has to visit is in the map unless it was removed.
SweepsBuffers == \A s \in sweeper.left \ sweeper.orphan : buffers[s] # NoBuffer

Buffering == TypeOK /\ SweepsBuffers /\ BuffersSound

\* Entries are not blank, a buffer is not the mark of a missing one.
LEMMA HeldFacts ==
  /\ Buffer = BufferOf(Held)
  /\ Blank \notin Held
  /\ \A e \in Held : e.createdAt \in Int /\ e.msg \in Nat
  /\ NoBuffer \notin Buffer
  /\ Number \subseteq Nat
<1>1. Buffer = BufferOf(Held) /\ Number \subseteq Nat /\ 0 .. MaxTime \subseteq Nat
  BY HubAssumption DEF Buffer, BufferOf, Held, Number
<1> DEFINE Message == [msg : Nat, createdAt : Nat]
<1>2. Held \subseteq Message
  BY <1>1 DEF Held
<1>3. NoBuffer \notin BufferOf(Message) /\ Blank \notin Message
  BY BufferAssumption DEF BufferOf
<1>4. BufferOf(Held) \subseteq BufferOf(Message)
  <2> SUFFICES ASSUME NEW b \in BufferOf(Held) PROVE b \in BufferOf(Message)
    OBVIOUS
  <2> HIDE DEF Message
  <2>1. b.msgs \in [Index -> Held \cup {Blank}] /\ b.pos \in Index /\ b.full \in BOOLEAN
        /\ b = [msgs |-> b.msgs, pos |-> b.pos, full |-> b.full]
    BY DEF BufferOf
  <2>2. b.msgs \in [Index -> Message \cup {Blank}]
    BY <1>2, <2>1
  <2> QED BY <2>1, <2>2 DEF BufferOf
<1>5. Blank \notin Held /\ \A e \in Held : e.createdAt \in Int /\ e.msg \in Nat
  BY <1>1, <1>2, <1>3 DEF Held
<1> QED BY <1>1, <1>3, <1>4, <1>5

\* An entry of a typed buffer.
LEMMA EntryTyped ==
  ASSUME NEW b \in Buffer, NEW i \in Index, b.msgs[i] # Blank
  PROVE  b.msgs[i] \in Held /\ b.msgs[i].msg \in Nat /\ b.msgs[i].createdAt \in Int
BY HeldFacts DEF BufferOf

\* A message that is not buffered for s changes nothing of its buffer.
LEMMA SoundOther ==
  ASSUME NEW b, NEW s, NEW t, NEW S, NEW log \in Seq(S), NEW e \in S,
         e # [slug |-> s, buffered |-> TRUE], Sound(b, s, t, log)
  PROVE  Sound(b, s, t, Append(log, e))
<1> DEFINE new == Append(log, e)
<1>1. /\ Len(new) = Len(log) + 1 /\ Len(log) \in Nat /\ new[Len(log) + 1] = e
      /\ \A n \in 1 .. Len(log) : new[n] = log[n]
  BY AppendProperties
<1> HIDE DEF new
<1>2. \A n : Logged(new, s, n) <=> Logged(log, s, n)
  BY <1>1 DEF Logged
<1>3. \A n : Logged(log, s, n) => n \in 1 .. Len(log)
  BY DEF Logged
<1> QED BY <1>2, <1>3 DEF Sound, new

\* A new buffer holds nothing, which is sound for any slug at any time.
LEMMA SoundNew ==
  ASSUME NEW s, NEW t, NEW log
  PROVE  Sound(newRingBuffer, s, t, log)
<1>1. newRingBuffer \in Buffer /\ Orderly(newRingBuffer, t)
  BY NewOrderly, HeldFacts
<1>2. \A i \in Index : newRingBuffer.msgs[i] = Blank
  BY DEF newRingBuffer
<1> QED BY <1>1, <1>2 DEF Sound

\* A push of the message that is published now.
LEMMA SoundPush ==
  ASSUME NEW b, NEW s, NEW t \in 0 .. MaxTime, NEW S, NEW log \in Seq(S), [slug |-> s, buffered |-> TRUE] \in S,
         Len(log) + 1 <= MaxPublish, Sound(b, s, t, log)
  PROVE  Sound(push(b, Len(log) + 1, t), s, t, Append(log, [slug |-> s, buffered |-> TRUE]))
<1> DEFINE new == Append(log, [slug |-> s, buffered |-> TRUE])
           m == Len(log) + 1
           c == push(b, m, t)
<1>1. /\ Len(new) = m /\ m \in Nat /\ Len(log) \in Nat /\ new[m] = [slug |-> s, buffered |-> TRUE]
      /\ \A n \in 1 .. Len(log) : new[n] = log[n]
  BY AppendProperties
<1>2. Entry(m, t) \in Held /\ Entry(m, t) # Blank /\ t \in Int /\ Entry(m, t).msg = m
  BY <1>1, HeldFacts, HubAssumption DEF Entry, Held, Number
<1>3. b \in BufferOf(Held) /\ Orderly(b, t) /\ b.pos \in Index /\ Size \in Nat
  BY HeldFacts, SizeAssumption DEF Sound, BufferOf
<1>4. /\ c \in BufferOf(Held)
      /\ \A i \in Index :
           /\ c.msgs[i] = IF i = b.pos THEN Entry(m, t) ELSE b.msgs[i]
           /\ Place(c, i) = IF i = b.pos THEN Size - 1 ELSE Place(b, i) - 1
  BY <1>2, <1>3, PushPlaces
<1>5. Orderly(c, t)
  BY <1>2, <1>3, HeldFacts, PushOrderly
<1>6. \A i \in Index : Place(b, i) \in 0 .. Size - 1
  BY <1>3, PlaceAt
<1>7. \A i \in Index : b.msgs[i] # Blank => b.msgs[i].msg \in Nat
  BY <1>3, EntryTyped DEF Sound
<1> HIDE DEF new, c
<1>8. \A n : Logged(new, s, n) <=> (Logged(log, s, n) \/ n = m)
  BY <1>1 DEF Logged, m
<1>9. \A n : Logged(log, s, n) => n \in 1 .. Len(log) /\ n < m
  BY <1>1 DEF Logged, m
<1> HIDE DEF m
<1>10. \A i \in Index : c.msgs[i] # Blank => Logged(new, s, c.msgs[i].msg)
  BY <1>2, <1>4, <1>8 DEF Sound
<1>11. ASSUME NEW i \in Index, NEW j \in Index, c.msgs[i] # Blank, c.msgs[j] # Blank, Place(c, i) < Place(c, j)
       PROVE  c.msgs[i].msg < c.msgs[j].msg
  <2>1. i # b.pos /\ b.msgs[i] # Blank /\ c.msgs[i] = b.msgs[i]
    BY <1>3, <1>4, <1>6, <1>11
  <2>2. CASE j = b.pos
    BY <1>2, <1>4, <1>9, <2>1, <2>2 DEF Sound
  <2>3. CASE j # b.pos
    BY <1>3, <1>4, <1>6, <1>11, <2>1, <2>3 DEF Sound
  <2> QED BY <2>2, <2>3
<1>12. ASSUME NEW i \in Index, NEW n \in 1 .. Len(new),
              c.msgs[i] # Blank, c.msgs[i].msg <= n, Logged(new, s, n)
       PROVE  Holds(c, n)
  <2>1. CASE n = m
    BY <1>2, <1>3, <1>4, <2>1 DEF Holds
  <2>2. CASE n # m
    <3>1. Logged(log, s, n) /\ n \in 1 .. Len(log) /\ n < m
      BY <1>8, <1>9, <1>12, <2>2
    <3>2. i # b.pos /\ b.msgs[i] # Blank /\ c.msgs[i] = b.msgs[i]
      BY <1>1, <1>2, <1>4, <1>12, <3>1
    <3>3. PICK j \in Index : b.msgs[j] # Blank /\ b.msgs[j].msg = n
      BY <1>12, <3>1, <3>2 DEF Sound, Holds
    <3>4. j # b.pos
      <4> SUFFICES ASSUME j = b.pos PROVE FALSE
        OBVIOUS
      <4>1. Place(b, j) = 0 /\ Place(b, i) \in 0 .. Size - 1 /\ Place(b, i) # 0
        BY <1>3, <1>6, <3>2 DEF Place, Index
      <4>2. b.msgs[j].msg < b.msgs[i].msg
        BY <3>2, <3>3, <4>1 DEF Sound
      <4> QED BY <1>7, <1>12, <3>2, <3>3, <4>2
    <3> QED BY <1>4, <3>3, <3>4 DEF Holds
  <2> QED BY <2>1, <2>2
<1> QED BY <1>4, <1>5, <1>10, <1>11, <1>12, HeldFacts DEF Sound, new, c, m

\* Distinct slots have distinct places.
LEMMA PlacesDiffer ==
  ASSUME NEW b, b.pos \in Index, NEW i \in Index, NEW j \in Index
  PROVE  i = j \/ Place(b, i) < Place(b, j) \/ Place(b, j) < Place(b, i)
BY SizeAssumption DEF Place, Index

\* What the sweep leaves is what was pushed last.
LEMMA SoundSweep ==
  ASSUME NEW b, NEW s, NEW t \in 0 .. MaxTime, NEW log, Len(log) \in Nat, Sound(b, s, t, log)
  PROVE  Sound(sweepExpired(b, t), s, t, log)
<1> DEFINE c == sweepExpired(b, t)
<1>1. b \in BufferOf(Held) /\ b \in Buffer /\ Orderly(b, t) /\ b.pos \in Index /\ t \in Int
  BY HeldFacts, HubAssumption DEF Sound, BufferOf
<1>2. /\ c \in BufferOf(Held)
      /\ \A i \in Index :
           /\ c.msgs[i] = IF b.msgs[i] # Blank /\ Expired(b.msgs[i], t) THEN Blank ELSE b.msgs[i]
           /\ Place(c, i) = Place(b, i)
  BY <1>1, SweepSlots
<1>3. Orderly(c, t)
  BY <1>1, HeldFacts, SweepOrderly
<1> HIDE DEF c
<1>4. \A i \in Index : c.msgs[i] # Blank => c.msgs[i] = b.msgs[i] /\ b.msgs[i] # Blank /\ ~Expired(b.msgs[i], t)
  BY <1>2
<1>5. ASSUME NEW i \in Index, NEW n \in 1 .. Len(log),
             c.msgs[i] # Blank, c.msgs[i].msg <= n, Logged(log, s, n)
      PROVE  Holds(c, n)
  <2>1. c.msgs[i] = b.msgs[i] /\ b.msgs[i] # Blank /\ ~Expired(b.msgs[i], t)
    BY <1>4, <1>5
  <2>2. PICK j \in Index : b.msgs[j] # Blank /\ b.msgs[j].msg = n
    BY <1>5, <2>1 DEF Sound, Holds
  <2>3. /\ b.msgs[i].msg \in Nat /\ b.msgs[j].msg \in Nat
        /\ b.msgs[i].createdAt \in Int /\ b.msgs[j].createdAt \in Int
    BY <1>1, <2>1, <2>2, EntryTyped
  <2>4. ~(Place(b, j) < Place(b, i))
    BY <1>5, <2>1, <2>2, <2>3 DEF Sound
  <2>5. i = j \/ Place(b, i) < Place(b, j)
    BY <1>1, <2>4, PlacesDiffer
  <2>6. b.msgs[i].createdAt <= b.msgs[j].createdAt
    BY <1>1, <2>1, <2>2, <2>3, <2>5 DEF Orderly, OldestFirst
  <2>7. ~Expired(b.msgs[j], t)
    BY <1>1, <2>1, <2>3, <2>6, TTLAssumption DEF Expired
  <2> QED BY <1>2, <2>2, <2>7 DEF Holds
<1> QED BY <1>2, <1>3, <1>4, <1>5, HeldFacts DEF Sound, c

\* Time alone changes nothing of it.
LEMMA SoundLater ==
  ASSUME NEW b, NEW s, NEW t \in Int, NEW u \in Int, t <= u, NEW log, Sound(b, s, t, log)
  PROVE  Sound(b, s, u, log)
<1>1. Orderly(b, u)
  BY HeldFacts, LaterOrderly DEF Sound
<1> QED BY <1>1 DEF Sound

-----------------------------------------------------------------------------
(* What a new subscriber is sent.                                          *)

\* The channels hold numbers of messages.
Increasing(q) == \A i, j \in DOMAIN q : i < j => q[i] < q[j]

\* A drain of a sound buffer: every message it holds, in the order of publishing.
LEMMA DrainFacts ==
  ASSUME NEW b, NEW s, NEW t, NEW log, Len(log) \in Nat, Sound(b, s, t, log)
  PROVE  /\ Len(drain(b)) \in 0 .. Size
         /\ DOMAIN drain(b) = 1 .. Len(drain(b))
         /\ \A k \in DOMAIN drain(b) : \E i \in Index : b.msgs[i] # Blank /\ drain(b)[k] = b.msgs[i]
         /\ \A k, l \in DOMAIN drain(b) : k < l => drain(b)[k].msg < drain(b)[l].msg
         /\ \A i \in Index : b.msgs[i] # Blank => \E k \in DOMAIN drain(b) : drain(b)[k] = b.msgs[i]
<1>1. b \in BufferOf(Held) /\ Orderly(b, t) /\ b.pos \in Index /\ Size \in Nat
  BY HeldFacts, SizeAssumption DEF Sound, BufferOf
<1>2. PICK n \in 0 .. Size :
        /\ drain(b) = LastSlots(b, n)
        /\ \A p \in 0 .. Size - 1 : b.msgs[At(b, p)] = Blank <=> p < Size - n
  BY <1>1, HeldFacts, DrainIsLast DEF Orderly
<1>3. /\ \A i \in Index : Place(b, i) \in 0 .. Size - 1 /\ At(b, Place(b, i)) = i
      /\ \A p \in 0 .. Size - 1 : At(b, p) \in Index /\ Place(b, At(b, p)) = p
  BY <1>1, PlaceAt
<1>4. \A p \in Size - n .. Size - 1 : b.msgs[At(b, p)] # Blank
  BY <1>1, <1>2
<1>5. drain(b) \in Seq(Held) /\ Len(drain(b)) = n
  BY <1>1, <1>2, <1>4, LastSlotsInSeq
<1>6. DOMAIN drain(b) = 1 .. n /\ \A k \in 1 .. n : drain(b)[k] = b.msgs[At(b, Size - n + k - 1)]
  BY <1>2 DEF LastSlots
<1>7. \A k \in 1 .. n : /\ Size - n + k - 1 \in Size - n .. Size - 1
                        /\ Size - n + k - 1 \in 0 .. Size - 1
  BY <1>1
<1>8. \A k \in 1 .. n : At(b, Size - n + k - 1) \in Index /\ drain(b)[k] = b.msgs[At(b, Size - n + k - 1)]
                        /\ b.msgs[At(b, Size - n + k - 1)] # Blank
                        /\ Place(b, At(b, Size - n + k - 1)) = Size - n + k - 1
  BY <1>3, <1>4, <1>6, <1>7
<1>9. ASSUME NEW k \in 1 .. n, NEW l \in 1 .. n, k < l PROVE drain(b)[k].msg < drain(b)[l].msg
  <2> DEFINE i == At(b, Size - n + k - 1)
             j == At(b, Size - n + l - 1)
  <2>1. Place(b, i) < Place(b, j)
    <3>1. Place(b, i) = Size - n + k - 1 /\ Place(b, j) = Size - n + l - 1
      BY <1>8
    <3> HIDE DEF i, j
    <3> QED BY <1>1, <1>9, <3>1
  <2>2. /\ i \in Index /\ b.msgs[i] # Blank /\ drain(b)[k] = b.msgs[i]
        /\ j \in Index /\ b.msgs[j] # Blank /\ drain(b)[l] = b.msgs[j]
    BY <1>8
  <2> HIDE DEF i, j
  <2> QED BY <2>1, <2>2 DEF Sound
<1>10. ASSUME NEW i \in Index, b.msgs[i] # Blank
       PROVE  \E k \in 1 .. n : drain(b)[k] = b.msgs[i]
  <2> DEFINE k == Place(b, i) - (Size - n) + 1
  <2>1. Place(b, i) \in 0 .. Size - 1 /\ ~(Place(b, i) < Size - n)
    BY <1>2, <1>3, <1>10
  <2>2. k \in 1 .. n /\ Size - n + k - 1 = Place(b, i)
    BY <1>1, <2>1
  <2>3. drain(b)[k] = b.msgs[At(b, Place(b, i))]
    BY <1>6, <2>2
  <2>4. drain(b)[k] = b.msgs[i]
    BY <1>3, <2>3
  <2> HIDE DEF k
  <2> QED BY <2>2, <2>4
<1> QED BY <1>5, <1>6, <1>8, <1>9, <1>10

\* What Replay sends: buffered messages of the slug, each once and in the order
\* of publishing, and with one of them all later ones.
LEMMA ReplayFacts ==
  ASSUME Buffering, NEW s \in Slug
  PROVE  /\ Replay(s) \in Seq(Number) /\ Len(Replay(s)) <= Size
         /\ Increasing(Replay(s))
         /\ \A k \in DOMAIN Replay(s) : Logged(published, s, Replay(s)[k])
         /\ \A k \in DOMAIN Replay(s), n \in 1 .. Len(published) :
              Replay(s)[k] <= n /\ Logged(published, s, n) => n \in Range(Replay(s))
         /\ buffers[s] # NoBuffer =>
              \A i \in Index : buffers[s].msgs[i] # Blank => buffers[s].msgs[i].msg \in Range(Replay(s))
<1> DEFINE b == buffers[s]
           q == Replay(s)
           d == drain(b)
<1>1. CASE b = NoBuffer
  <2>1. q = <<>> /\ DOMAIN q = {} /\ q \in Seq(Number) /\ Len(q) = 0
    BY <1>1 DEF Replay
  <2> HIDE DEF q
  <2> QED BY <1>1, <2>1, SizeAssumption DEF Increasing, q
<1>2. CASE b # NoBuffer
  <2>1. Sound(b, s, now, published) /\ Len(published) \in Nat /\ Len(published) <= MaxPublish
    BY <1>2 DEF Buffering, BuffersSound, TypeOK
  <2> DEFINE n == Len(d)
  <2>2. /\ n \in 0 .. Size
        /\ DOMAIN d = 1 .. n
        /\ \A k \in 1 .. n : \E i \in Index : b.msgs[i] # Blank /\ d[k] = b.msgs[i]
        /\ \A k, l \in 1 .. n : k < l => d[k].msg < d[l].msg
        /\ \A i \in Index : b.msgs[i] # Blank => \E k \in 1 .. n : d[k] = b.msgs[i]
    <3> HIDE DEF b, n
    <3> QED BY <2>1, DrainFacts DEF n
  <2>3. q = [k \in 1 .. n |-> d[k].msg]
    BY <1>2, <2>2 DEF Replay
  <2>4. \A k \in 1 .. n : Logged(published, s, q[k]) /\ q[k] \in Number
    <3> SUFFICES ASSUME NEW k \in 1 .. n PROVE Logged(published, s, q[k]) /\ q[k] \in Number
      OBVIOUS
    <3>1. PICK i \in Index : b.msgs[i] # Blank /\ d[k] = b.msgs[i]
      BY <2>2
    <3>2. Logged(published, s, q[k])
      BY <2>1, <2>3, <3>1 DEF Sound
    <3> QED BY <2>1, <3>2, HubAssumption DEF Logged, Number
  <2>5. q \in Seq(Number) /\ Len(q) = n /\ DOMAIN q = 1 .. n /\ Size \in Nat
    <3> HIDE DEF d, n
    <3> QED BY <2>2, <2>3, <2>4, SizeAssumption
  <2>6. Increasing(q)
    BY <2>2, <2>3, <2>5 DEF Increasing
  <2>7. \A i \in Index : b.msgs[i] # Blank => b.msgs[i].msg \in Range(q)
    <3> SUFFICES ASSUME NEW i \in Index, b.msgs[i] # Blank PROVE b.msgs[i].msg \in Range(q)
      OBVIOUS
    <3>1. PICK k \in 1 .. n : d[k] = b.msgs[i]
      BY <2>2
    <3>2. q[k] = b.msgs[i].msg
      BY <2>3, <3>1
    <3> QED BY <2>5, <3>2 DEF Range
  <2>8. ASSUME NEW k \in DOMAIN q, NEW m \in 1 .. Len(published), q[k] <= m, Logged(published, s, m)
        PROVE  m \in Range(q)
    <3>1. PICK i \in Index : b.msgs[i] # Blank /\ d[k] = b.msgs[i]
      BY <2>2, <2>5
    <3>2. Holds(b, m)
      BY <2>1, <2>3, <2>5, <2>8, <3>1 DEF Sound
    <3> QED BY <2>7, <3>2 DEF Holds
  <2> HIDE DEF q
  <2> QED BY <2>2, <2>4, <2>5, <2>6, <2>7, <2>8 DEF q
<1> QED BY <1>1, <1>2

\* A flush puts in the channel what it can take.
LEMMA FillFacts ==
  ASSUME NEW q \in Seq(Number)
  PROVE  /\ Fill(q) \in Seq(Number)
         /\ DOMAIN Fill(q) \subseteq DOMAIN q
         /\ \A k \in DOMAIN Fill(q) : Fill(q)[k] = q[k]
         /\ Len(q) <= ChanCap => Fill(q) = q
<1> DEFINE cut == IF Len(q) < ChanCap THEN Len(q) ELSE ChanCap
<1>1. cut \in 0 .. Len(q) /\ cut \in Nat /\ (Len(q) <= ChanCap => cut = Len(q)) /\ 1 \in Int
  BY HubAssumption
<1>2. Fill(q) = SubSeq(q, 1, cut)
  BY DEF Fill
<1> HIDE DEF cut
<1>3. /\ SubSeq(q, 1, cut) \in Seq(Number) /\ Len(SubSeq(q, 1, cut)) = cut
      /\ \A k \in 1 .. cut : SubSeq(q, 1, cut)[k] = q[k]
  BY <1>1, SubSeqProperties
<1>4. cut = Len(q) => SubSeq(q, 1, cut) = q
  BY <1>3
<1> QED BY <1>1, <1>2, <1>3, <1>4

\* The invariant holds at the start.
LEMMA InitBuffering == Init => Buffering
<1> SUFFICES ASSUME Init PROVE Buffering
  OBVIOUS
<1>1. TypeOK
  <2>1. \A S : <<>> \in Seq(S) /\ Len(<<>>) = 0
    OBVIOUS
  <2> QED BY <2>1, HubAssumption DEF Init, TypeOK
<1> QED BY <1>1 DEF Init, Buffering, SweepsBuffers, BuffersSound

\* A step that leaves the clock, the buffers and the log alone keeps them sound.
LEMMA SameBuffering ==
  ASSUME Buffering, TypeOK', UNCHANGED <<buffers, sweeper, now, published>>
  PROVE  Buffering'
BY DEF Buffering, SweepsBuffers, BuffersSound

\* Steps of one client.
LEMMA ClientBuffering ==
  ASSUME Buffering, NEW c \in Client,
         (\E s \in Slug : Subscribe(c, s)) \/ Receive(c) \/ Cleanup(c)
  PROVE  Buffering'
<1>1. CASE \E s \in Slug : Subscribe(c, s)
  <2>1. PICK s \in Slug : Subscribe(c, s)
    BY <1>1
  <2>2. Replay(s) \in Seq(Number) /\ Fill(Replay(s)) \in Seq(Number)
    BY ReplayFacts, FillFacts
  <2>3. Range(Replay(s)) \subseteq Number
    BY <2>2 DEF Range
  <2>4. Len(published) \in 0 .. MaxPublish
    BY HubAssumption DEF Buffering, TypeOK
  <2>5. TypeOK'
    BY <2>1, <2>2, <2>3, <2>4 DEF Subscribe, Buffering, TypeOK
  <2> QED BY <2>1, <2>5, SameBuffering DEF Subscribe
<1>2. CASE Receive(c)
  <2>1. ch[c] \in Seq(Number) /\ ch[c] # <<>>
    BY <1>2 DEF Receive, Buffering, TypeOK
  <2>2. Head(ch[c]) \in Number /\ Tail(ch[c]) \in Seq(Number)
    BY <2>1, HeadTailProperties
  <2>3. TypeOK'
    BY <1>2, <2>2, HubAssumption DEF Receive, Buffering, TypeOK, Number
  <2> QED BY <1>2, <2>3, SameBuffering DEF Receive
<1>3. CASE Cleanup(c)
  <2>1. <<>> \in Seq(Number)
    OBVIOUS
  <2>2. TypeOK'
    BY <1>3, <2>1, HubAssumption DEF Cleanup, Buffering, TypeOK
  <2> QED BY <1>3, <2>2, SameBuffering DEF Cleanup
<1> QED BY <1>1, <1>2, <1>3

\* A message published is pushed as the newest, or changes no buffer.
LEMMA PublishBuffering ==
  ASSUME Buffering, NEW s \in Slug, NEW useBuffer \in BOOLEAN, Publish(s, useBuffer)
  PROVE  Buffering'
<1> DEFINE n == Len(published) + 1
           e == [slug |-> s, buffered |-> useBuffer]
           E == [slug : Slug, buffered : BOOLEAN]
           b == IF buffers[s] = NoBuffer THEN newRingBuffer ELSE buffers[s]
<1>1. /\ n <= MaxPublish
      /\ published' = Append(published, e)
      /\ buffers' = IF useBuffer THEN [buffers EXCEPT ![s] = push(b, n, now)] ELSE buffers
      /\ sweeper' = sweeper /\ now' = now
  BY DEF Publish, Store, Buffered
<1>2. published \in Seq(E) /\ e \in E /\ Len(published) \in Nat /\ now \in 0 .. MaxTime
      /\ [slug |-> s, buffered |-> TRUE] \in E
  BY DEF Buffering, TypeOK
<1>3. published' \in Seq(E) /\ Len(published') = n /\ n \in Number
  BY <1>1, <1>2, AppendProperties, HubAssumption DEF Number
<1>4. Sound(b, s, now, published)
  BY SoundNew DEF Buffering, BuffersSound
<1>5. ASSUME useBuffer PROVE Sound(push(b, n, now), s, now, published')
  <2>1. e = [slug |-> s, buffered |-> TRUE]
    BY <1>5
  <2> HIDE DEF b
  <2> QED BY <1>1, <1>2, <1>4, <2>1, SoundPush
<1>6. ASSUME NEW t \in Slug, buffers'[t] # NoBuffer, t # s \/ ~useBuffer
      PROVE  Sound(buffers'[t], t, now, published')
  <2>1. buffers'[t] = buffers[t] /\ e # [slug |-> t, buffered |-> TRUE]
    BY <1>1, <1>6 DEF Buffering, TypeOK
  <2>2. Sound(buffers[t], t, now, published)
    BY <1>6, <2>1 DEF Buffering, BuffersSound
  <2>3. Sound(buffers[t], t, now, Append(published, e))
    <3> HIDE DEF e, E
    <3> QED BY <1>2, <2>1, <2>2, SoundOther
  <2> QED BY <1>1, <2>1, <2>3
<1>7. useBuffer => buffers'[s] = push(b, n, now) /\ push(b, n, now) \in Buffer /\ push(b, n, now) # NoBuffer
  <2> HIDE DEF b
  <2> QED BY <1>1, <1>5, HeldFacts DEF Sound, Buffering, TypeOK
<1>8. BuffersSound'
  <2> HIDE DEF b, n
  <2> QED BY <1>1, <1>5, <1>6, <1>7 DEF BuffersSound
<1>9. buffers' \in [Slug -> Buffer \cup {NoBuffer}]
  <2> HIDE DEF b, n
  <2> QED BY <1>1, <1>7 DEF Buffering, TypeOK
<1>10. ch' \in [Client -> Seq(Number)] /\ dropped' \in [Client -> SUBSET Number]
  <2> HIDE DEF n
  <2>1. \A c \in Client : ch[c] \in Seq(Number) /\ Append(ch[c], n) \in Seq(Number)
                          /\ dropped[c] \in SUBSET Number /\ dropped[c] \cup {n} \in SUBSET Number
    BY <1>3, AppendProperties DEF Buffering, TypeOK
  <2> QED BY <2>1 DEF Publish, n
<1>11. TypeOK'
  <2> HIDE DEF n
  <2> QED BY <1>1, <1>3, <1>9, <1>10 DEF Publish, Buffering, TypeOK
<1>12. SweepsBuffers'
  <2> HIDE DEF b, n
  <2> QED BY <1>1, <1>7 DEF Buffering, SweepsBuffers, TypeOK
<1> QED BY <1>1, <1>8, <1>11, <1>12 DEF Buffering

SweeperType == [phase   : {"idle", "sweeping"},
                left    : SUBSET Slug,
                orphan  : SUBSET Slug,
                emptied : SUBSET Slug]

\* How the sweeper's record is changed.
LEMMA SweeperFacts ==
  ASSUME Buffering
  PROVE  /\ \A S \in SUBSET Slug, T \in SUBSET Slug :
              [sweeper EXCEPT !.left = @ \ S, !.emptied = T] \in SweeperType
         /\ \A S \in SUBSET Slug :
              LET after == [sweeper EXCEPT !.orphan = @ \cup (sweeper.left \cap S)]
              IN  /\ after \in SweeperType
                  /\ after.left = sweeper.left
                  /\ after.orphan = sweeper.orphan \cup (sweeper.left \cap S)
<1>1. sweeper \in SweeperType
  BY DEF Buffering, TypeOK, SweeperType
<1> QED BY <1>1 DEF SweeperType

\* The sweep only takes out what is expired, and deletes only what is empty.
LEMMA SweepBuffering ==
  ASSUME Buffering, SweepBegin \/ (\E s \in Slug : SweepOne(s)) \/ SweepEnd
  PROVE  Buffering'
<1>1. Len(published) \in Nat /\ now \in 0 .. MaxTime
  BY DEF Buffering, TypeOK
<1>2. ASSUME NEW s \in Slug, buffers[s] # NoBuffer
      PROVE  /\ Sound(sweepExpired(buffers[s], now), s, now, published)
             /\ sweepExpired(buffers[s], now) \in Buffer
             /\ sweepExpired(buffers[s], now) # NoBuffer
  <2>1. Sound(buffers[s], s, now, published)
    BY <1>2 DEF Buffering, BuffersSound
  <2>2. Sound(sweepExpired(buffers[s], now), s, now, published)
    BY <1>1, <2>1, SoundSweep
  <2> QED BY <2>2, HeldFacts DEF Sound
<1>3. CASE SweepBegin
  BY <1>3 DEF SweepBegin, clientVars, Buffering, TypeOK, SweepsBuffers, BuffersSound
<1>4. CASE \E s \in Slug : SweepOne(s)
  <2>1. PICK s \in Slug : SweepOne(s)
    BY <1>4
  <2>2. /\ s \in sweeper.left
        /\ buffers' = IF s \in sweeper.orphan THEN buffers
                      ELSE [buffers EXCEPT ![s] = sweepExpired(buffers[s], now)]
        /\ \E emptied \in SUBSET Slug :
             sweeper' = [sweeper EXCEPT !.left = @ \ {s}, !.emptied = emptied]
        /\ UNCHANGED <<now, published>>
    BY <2>1 DEF SweepOne, Buffering, TypeOK
  <2>3. s \notin sweeper.orphan => buffers[s] # NoBuffer
    BY <2>2 DEF Buffering, SweepsBuffers
  <2>4. \A t \in Slug : \/ buffers'[t] = buffers[t]
                        \/ buffers[t] # NoBuffer /\ buffers'[t] = sweepExpired(buffers[t], now)
    BY <2>2, <2>3 DEF Buffering, TypeOK
  <2>5. buffers' \in [Slug -> Buffer \cup {NoBuffer}]
    BY <1>2, <2>2, <2>3 DEF Buffering, TypeOK
  <2>6. BuffersSound'
    BY <1>2, <2>2, <2>4 DEF Buffering, BuffersSound
  <2>7. SweepsBuffers'
    BY <1>2, <2>2, <2>4 DEF Buffering, SweepsBuffers, TypeOK
  <2>8. sweeper' \in SweeperType
    <3>1. PICK emptied \in SUBSET Slug : sweeper' = [sweeper EXCEPT !.left = @ \ {s}, !.emptied = emptied]
      BY <2>2
    <3>2. {s} \in SUBSET Slug
      OBVIOUS
    <3>3. [sweeper EXCEPT !.left = @ \ {s}, !.emptied = emptied] \in SweeperType
      BY <3>2, SweeperFacts
    <3> QED BY <3>1, <3>3
  <2>9. UNCHANGED <<clientVars, now, published, removals>>
    BY <2>1 DEF SweepOne
  <2>10. TypeOK'
    BY <2>5, <2>8, <2>9 DEF clientVars, Buffering, TypeOK, SweeperType
  <2> QED BY <2>6, <2>7, <2>10 DEF Buffering
<1>5. CASE SweepEnd
  <2>1. \A t \in Slug : \/ buffers'[t] = buffers[t]
                        \/ buffers'[t] = NoBuffer
                        \/ buffers[t] # NoBuffer /\ buffers'[t] = sweepExpired(buffers[t], now)
    BY <1>5 DEF SweepEnd, DeleteEmptied
  <2>2. buffers' \in [Slug -> Buffer \cup {NoBuffer}]
    BY <1>2, <1>5, <2>1 DEF SweepEnd, Buffering, TypeOK
  <2>3. BuffersSound'
    BY <1>2, <1>5, <2>1 DEF SweepEnd, Buffering, BuffersSound
  <2> QED BY <1>5, <2>2, <2>3 DEF SweepEnd, clientVars, Buffering, SweepsBuffers, TypeOK
<1> QED BY <1>3, <1>4, <1>5

\* Every step keeps the buffers sound.
LEMMA NextBuffering == Buffering /\ [Next]_vars => Buffering'
<1> SUFFICES ASSUME Buffering, [Next]_vars PROVE Buffering'
  OBVIOUS
<1>1. CASE \E c \in Client : (\E s \in Slug : Subscribe(c, s)) \/ Receive(c) \/ Cleanup(c)
  BY <1>1, ClientBuffering
<1>2. CASE \E s \in Slug, useBuffer \in BOOLEAN : Publish(s, useBuffer)
  BY <1>2, PublishBuffering
<1>3. CASE \E s \in Slug : RemoveBuffer(s)
  <2>1. PICK s \in Slug : RemoveBuffer(s)
    BY <1>3
  <2>2. /\ buffers' = [buffers EXCEPT ![s] = NoBuffer]
        /\ sweeper' = [sweeper EXCEPT !.orphan = @ \cup (sweeper.left \cap {s})]
        /\ removals' = [removals EXCEPT ![s] = 1 - @]
        /\ UNCHANGED <<clientVars, now, published>>
    BY <2>1 DEF RemoveBuffer
  <2>3. buffers' \in [Slug -> Buffer \cup {NoBuffer}] /\ removals' \in [Slug -> {0, 1}]
    <3>1. buffers \in [Slug -> Buffer \cup {NoBuffer}] /\ removals \in [Slug -> {0, 1}]
      BY DEF Buffering, TypeOK
    <3>2. 1 - removals[s] \in {0, 1}
      BY <3>1
    <3> QED BY <2>2, <3>1, <3>2
  <2>4. /\ sweeper' \in SweeperType
        /\ sweeper'.left = sweeper.left
        /\ sweeper'.orphan = sweeper.orphan \cup (sweeper.left \cap {s})
    <3>1. {s} \in SUBSET Slug
      OBVIOUS
    <3> DEFINE after == [sweeper EXCEPT !.orphan = @ \cup (sweeper.left \cap {s})]
    <3>2. /\ after \in SweeperType
          /\ after.left = sweeper.left
          /\ after.orphan = sweeper.orphan \cup (sweeper.left \cap {s})
      BY <3>1, SweeperFacts
    <3>3. sweeper' = after
      BY <2>2
    <3> HIDE DEF after
    <3> QED BY <3>2, <3>3
  <2>5. TypeOK'
    <3>1. UNCHANGED <<clients, ch, slugOf, closed, last, dropped, joined, now, published>>
      BY <2>2 DEF clientVars
    <3>2. sweeper' \in SweeperType
      BY <2>4
    <3> QED BY <2>3, <3>1, <3>2 DEF Buffering, TypeOK, SweeperType
  <2>6. \A t \in Slug : buffers'[t] = IF t = s THEN NoBuffer ELSE buffers[t]
    BY <2>2 DEF Buffering, TypeOK
  <2>7. BuffersSound'
    BY <2>2, <2>6 DEF Buffering, BuffersSound
  <2>8. SweepsBuffers'
    <3> SUFFICES ASSUME NEW t \in sweeper'.left \ sweeper'.orphan PROVE buffers'[t] # NoBuffer
      BY DEF SweepsBuffers
    <3>1. t \in sweeper.left \ sweeper.orphan /\ t # s
      BY <2>4
    <3>2. t \in Slug /\ buffers[t] # NoBuffer
      BY <3>1 DEF Buffering, SweepsBuffers, TypeOK
    <3> QED BY <2>6, <3>1, <3>2
  <2> QED BY <2>5, <2>7, <2>8 DEF Buffering
<1>4. CASE SweepBegin \/ (\E s \in Slug : SweepOne(s)) \/ SweepEnd
  BY <1>4, SweepBuffering
<1>5. CASE Tick
  <2>1. now \in Int /\ now + 1 \in 0 .. MaxTime /\ now <= now + 1
    BY <1>5, HubAssumption DEF Tick, Buffering, TypeOK
  <2>2. BuffersSound'
    BY <1>5, <2>1, SoundLater DEF Tick, Buffering, BuffersSound
  <2> QED BY <1>5, <2>1, <2>2 DEF Tick, clientVars, Buffering, TypeOK, SweepsBuffers
<1>6. CASE UNCHANGED vars
  BY <1>6 DEF vars, clientVars, Buffering, TypeOK, SweepsBuffers, BuffersSound
<1> QED BY <1>1, <1>2, <1>3, <1>4, <1>5, <1>6 DEF Next

\* The buffers of every reachable state are sound: push, the sweep and its
\* second look, RemoveBuffer and the clock keep the order of what they hold.
THEOREM BufferingHolds == Spec => []Buffering
BY InitBuffering, NextBuffering, PTL DEF Spec

\* The state of the hub has its type after every Subscribe, Publish, cleanup,
\* removal and sweep, for any number of slugs, clients and messages.
THEOREM TypeCorrect == Spec => []TypeOK
BY BufferingHolds, PTL DEF Buffering

-----------------------------------------------------------------------------
(* What the clients are sent.                                              *)

\* Channels hold messages that have been published; who is not connected has
\* none and has received none.
Known ==
  \A c \in Client :
    /\ last[c] <= Len(published)
    /\ \A i \in DOMAIN ch[c] : ch[c][i] <= Len(published)
    /\ ~Open(c) => ch[c] = <<>> /\ last[c] = 0

Delivering == Registered /\ Buffering /\ Known /\ InOrderOfOwnSlug /\ GapOnlyFromFullChannel

\* The types of what a client is sent, as one fact.
LEMMA Types ==
  ASSUME Buffering
  PROVE  /\ \A c \in Client :
              /\ ch[c] \in Seq(Number) /\ DOMAIN ch[c] = 1 .. Len(ch[c]) /\ Len(ch[c]) \in Nat
              /\ \A i \in DOMAIN ch[c] : ch[c][i] \in Nat \ {0}
              /\ last[c] \in Nat /\ joined[c] \in Nat
         /\ Len(published) \in Nat
         /\ \A n \in 1 .. Len(published) : published[n] \in [slug : Slug, buffered : BOOLEAN]
<1>1. Number \subseteq Nat \ {0} /\ 0 .. MaxPublish \subseteq Nat
  BY HubAssumption DEF Number
<1>2. \A c \in Client : ch[c] \in Seq(Number) /\ last[c] \in Nat /\ joined[c] \in Nat
  BY <1>1 DEF Buffering, TypeOK
<1>3. \A q \in Seq(Number) : /\ DOMAIN q = 1 .. Len(q) /\ Len(q) \in Nat
                             /\ \A i \in DOMAIN q : q[i] \in Number
  OBVIOUS
<1>4. published \in Seq([slug : Slug, buffered : BOOLEAN])
  BY DEF Buffering, TypeOK
<1>5. Len(published) \in Nat
      /\ \A n \in 1 .. Len(published) : published[n] \in [slug : Slug, buffered : BOOLEAN]
  <2> DEFINE E == [slug : Slug, buffered : BOOLEAN]
  <2>1. published \in Seq(E)
    BY <1>4
  <2> HIDE DEF E
  <2>2. Len(published) \in Nat /\ \A n \in 1 .. Len(published) : published[n] \in E
    BY <2>1
  <2> QED BY <2>2 DEF E
<1>6. ASSUME NEW c \in Client
      PROVE  /\ ch[c] \in Seq(Number) /\ DOMAIN ch[c] = 1 .. Len(ch[c]) /\ Len(ch[c]) \in Nat
             /\ \A i \in DOMAIN ch[c] : ch[c][i] \in Nat \ {0}
             /\ last[c] \in Nat /\ joined[c] \in Nat
  <2>1. ch[c] \in Seq(Number) /\ last[c] \in Nat /\ joined[c] \in Nat
    BY <1>2
  <2> DEFINE q == ch[c]
  <2> HIDE DEF q
  <2>2. DOMAIN q = 1 .. Len(q) /\ Len(q) \in Nat /\ \A i \in DOMAIN q : q[i] \in Number
    BY <1>3, <2>1 DEF q
  <2> QED BY <1>1, <2>1, <2>2 DEF q
<1> QED BY <1>5, <1>6

\* Nobody has been sent anything when the hub starts.
LEMMA InitDelivering == Init => Delivering
<1> SUFFICES ASSUME Init PROVE Delivering
  OBVIOUS
<1>1. \A c \in Client : ch[c] = <<>> /\ DOMAIN ch[c] = {} /\ last[c] = 0 /\ ~Open(c)
  BY DEF Init, Open
<1>2. Len(published) = 0
  BY DEF Init
<1>3. Known /\ InOrderOfOwnSlug /\ GapOnlyFromFullChannel
  BY <1>1, <1>2 DEF Known, InOrderOfOwnSlug, GapOnlyFromFullChannel
<1> QED BY <1>3, InitRegistered, InitBuffering DEF Delivering

\* A client that is left alone while nothing is published has what it had.
Untouched(c) ==
  /\ ch'[c] = ch[c] /\ last'[c] = last[c] /\ joined'[c] = joined[c]
  /\ dropped'[c] = dropped[c] /\ slugOf'[c] = slugOf[c] /\ (c \in closed' <=> c \in closed)

\* The three claims about one client.
KnownTo(c) ==
  /\ last[c] <= Len(published)
  /\ \A i \in DOMAIN ch[c] : ch[c][i] <= Len(published)
  /\ ~Open(c) => ch[c] = <<>> /\ last[c] = 0

InOrderTo(c) ==
  \A i \in DOMAIN ch[c] :
    /\ last[c] < ch[c][i]
    /\ \A j \in DOMAIN ch[c] : i < j => ch[c][i] < ch[c][j]
    /\ published[ch[c][i]].slug = slugOf[c]

NoGapTo(c) ==
  \A n \in 1 .. Len(published) :
    /\ Open(c)
    /\ published[n].slug = slugOf[c]
    /\ last[c] < n
    /\ \/ n > joined[c]
       \/ published[n].buffered /\ (last[c] # 0 \/ \E i \in DOMAIN ch[c] : ch[c][i] < n)
    => n \in Range(ch[c]) \cup dropped[c]

Served(c) == KnownTo(c) /\ InOrderTo(c) /\ NoGapTo(c)

\* The invariant, client by client.
LEMMA Delivered ==
  /\ Delivering <=> Registered /\ Buffering /\ \A c \in Client : Served(c)
  /\ Delivering' <=> Registered' /\ Buffering' /\ \A c \in Client : Served(c)'
<1>1. Delivering <=> Registered /\ Buffering /\ \A c \in Client : Served(c)
  BY DEF Delivering, Known, InOrderOfOwnSlug, GapOnlyFromFullChannel, Served, KnownTo, InOrderTo, NoGapTo
<1>2. Delivering' <=> Registered' /\ Buffering' /\ \A c \in Client : Served(c)'
  BY DEF Delivering, Known, InOrderOfOwnSlug, GapOnlyFromFullChannel, Served, KnownTo, InOrderTo, NoGapTo
<1> QED BY <1>1, <1>2

\* Its promise is kept.
LEMMA UntouchedServed ==
  ASSUME NEW c \in Client, Served(c), Untouched(c), published' = published
  PROVE  Served(c)'
<1>1. Open(c)' <=> Open(c)
  BY DEF Untouched, Open
<1> QED BY <1>1 DEF Untouched, Served, KnownTo, InOrderTo, NoGapTo

\* A client that subscribes is sent the catch-up log and then what is published.
LEMMA SubscribeServed ==
  ASSUME Delivering, NEW c \in Client, NEW s \in Slug, Subscribe(c, s)
  PROVE  Served(c)'
<1> DEFINE r == Replay(s)
           q == Fill(r)
           total == Len(published)
<1>1. /\ ch'[c] = q /\ slugOf'[c] = s /\ joined'[c] = total
      /\ dropped'[c] = Range(r) \ Range(q)
      /\ published' = published /\ last' = last /\ closed' = closed
      /\ slugOf[c] = NoSlug
  <2> HIDE DEF r, q
  <2>1. Buffering
    BY DEF Delivering
  <2>2. Subscribe(c, s) => ch'[c] = q /\ slugOf'[c] = s /\ joined'[c] = total /\ dropped'[c] = Range(r) \ Range(q)
    BY <2>1 DEF Buffering, TypeOK, Subscribe, r, q
  <2> QED BY <2>2 DEF Subscribe
<1>2. last[c] = 0
  <2>1. ~Open(c)
    BY <1>1 DEF Open
  <2> QED BY <2>1 DEF Delivering, Known
<1>3. c \notin closed
  BY <1>1 DEF Delivering, Registered, ClosedSubscribed
<1>4. Buffering
  BY DEF Delivering
<1>5. /\ r \in Seq(Number)
      /\ Increasing(r)
      /\ \A k \in DOMAIN r : Logged(published, s, r[k])
      /\ \A k \in DOMAIN r, n \in 1 .. total :
           r[k] <= n /\ Logged(published, s, n) => n \in Range(r)
  BY <1>4, ReplayFacts
<1> HIDE DEF r
<1>6. DOMAIN q \subseteq DOMAIN r /\ \A k \in DOMAIN q : q[k] = r[k]
  BY <1>5, FillFacts
<1> HIDE DEF q
<1>7. total \in Nat /\ \A n \in 1 .. total : published[n] \in [slug : Slug, buffered : BOOLEAN]
  BY <1>4, Types
<1>8. \A k \in DOMAIN q : /\ q[k] \in 1 .. total /\ q[k] = r[k]
                          /\ published[q[k]].slug = s
  BY <1>5, <1>6 DEF Logged
<1>9. KnownTo(c)'
  BY <1>1, <1>2, <1>3, <1>7, <1>8, HubAssumption DEF KnownTo, Open
<1>10. InOrderTo(c)'
  <2>1. \A k, l \in DOMAIN q : k < l => q[k] < q[l]
    BY <1>5, <1>6 DEF Increasing
  <2> QED BY <1>1, <1>2, <1>7, <1>8, <2>1 DEF InOrderTo
<1>11. NoGapTo(c)'
  <2> SUFFICES ASSUME NEW n \in 1 .. total, published[n].slug = s,
                      \/ n > total
                      \/ published[n].buffered /\ (last[c] # 0 \/ \E i \in DOMAIN q : q[i] < n)
               PROVE  n \in Range(q) \cup (Range(r) \ Range(q))
    BY <1>1 DEF NoGapTo
  <2>1. PICK i \in DOMAIN q : q[i] < n
    BY <1>2, <1>7
  <2>2. published[n].buffered
    BY <1>7
  <2>3. published[n] \in [slug : Slug, buffered : BOOLEAN]
    BY <1>7
  <2>4. Logged(published, s, n)
    BY <2>2, <2>3 DEF Logged
  <2>5. i \in DOMAIN r /\ r[i] <= n
    BY <1>6, <1>7, <1>8, <2>1
  <2> QED BY <1>5, <2>4, <2>5
<1> QED BY <1>9, <1>10, <1>11 DEF Served

\* A client takes the oldest message from its channel.
LEMMA ReceiveServed ==
  ASSUME Delivering, NEW c \in Client, Receive(c)
  PROVE  Served(c)'
<1> DEFINE q == ch[c]
           total == Len(published)
<1>1. /\ q # <<>> /\ ch'[c] = Tail(q) /\ last'[c] = q[1]
      /\ published' = published /\ joined' = joined /\ dropped' = dropped
      /\ slugOf' = slugOf /\ closed' = closed /\ Open(c)
  BY DEF Receive, Open, Delivering, Buffering, TypeOK
<1>2. /\ q \in Seq(Number) /\ DOMAIN q = 1 .. Len(q) /\ Len(q) \in Nat
      /\ \A i \in DOMAIN q : q[i] \in Nat \ {0}
      /\ last[c] \in Nat /\ joined[c] \in Nat /\ total \in Nat
  BY Types DEF Delivering
<1>3. Served(c)
  BY Delivered
<1> DEFINE t == Tail(q)
<1>4. /\ Len(q) > 0 /\ 1 \in DOMAIN q /\ DOMAIN t = 1 .. Len(q) - 1
      /\ \A i \in DOMAIN t : i + 1 \in DOMAIN q /\ t[i] = q[i + 1]
  BY <1>1, <1>2
<1> HIDE DEF t
<1>5. \A j \in DOMAIN q : j # 1 => j - 1 \in DOMAIN t /\ t[j - 1] = q[j]
  BY <1>2, <1>4
<1> HIDE DEF q
<1>6. KnownTo(c)'
  BY <1>1, <1>3, <1>4 DEF Served, KnownTo, Open, q, t
<1>7. InOrderTo(c)'
  <2>1. InOrderTo(c)
    BY <1>3 DEF Served
  <2>2. \A i \in DOMAIN t : q[1] < t[i] /\ published[t[i]].slug = slugOf[c]
    BY <1>2, <1>4, <2>1 DEF InOrderTo, q
  <2>3. \A i, j \in DOMAIN t : i < j => t[i] < t[j]
    <3>1. \A i, j \in DOMAIN q : i < j => q[i] < q[j]
      BY <2>1 DEF InOrderTo, q
    <3>2. \A i, j \in DOMAIN t : i < j => i + 1 < j + 1
      BY <1>2, <1>4
    <3> QED BY <1>4, <3>1, <3>2
  <2> QED BY <1>1, <2>2, <2>3 DEF InOrderTo, t
<1>8. NoGapTo(c)'
  <2> SUFFICES ASSUME NEW n \in 1 .. total, published[n].slug = slugOf[c], q[1] < n,
                      \/ n > joined[c]
                      \/ published[n].buffered
               PROVE  n \in Range(t) \cup dropped[c]
    BY <1>1 DEF NoGapTo, t
  <2>1. last[c] < q[1]
    BY <1>3, <1>4 DEF Served, InOrderTo, q
  <2>2. last[c] < n
    BY <1>2, <1>4, <2>1
  <2>3. n \in Range(q) \cup dropped[c]
    BY <1>1, <1>3, <1>4, <2>2 DEF Served, NoGapTo, q
  <2>4. n \in Range(q) => n \in Range(t)
    BY <1>2, <1>4, <1>5 DEF Range
  <2> QED BY <2>3, <2>4
<1> QED BY <1>6, <1>7, <1>8 DEF Served

\* A published message goes to every open client of its slug, or is counted as
\* turned away by a full channel.
LEMMA PublishServed ==
  ASSUME Delivering, NEW c \in Client,
         NEW s \in Slug, NEW useBuffer \in BOOLEAN, Publish(s, useBuffer)
  PROVE  Served(c)'
<1> DEFINE q == ch[c]
           total == Len(published)
           n == total + 1
           e == [slug |-> s, buffered |-> useBuffer]
           listens == c \in clients[s]
           fits == Len(q) < ChanCap
<1>1. /\ published' = Append(published, e)
      /\ last'[c] = last[c] /\ joined'[c] = joined[c]
      /\ slugOf'[c] = slugOf[c] /\ (c \in closed' <=> c \in closed)
      /\ ch'[c] = IF listens /\ fits THEN Append(q, n) ELSE q
      /\ dropped'[c] = IF listens /\ ~fits THEN dropped[c] \cup {n} ELSE dropped[c]
  BY DEF Publish, Listeners
<1>2. listens <=> Open(c) /\ slugOf[c] = s
  BY HubAssumption DEF Delivering, Registered, RegisteredIffOpen, Open
<1>3. /\ q \in Seq(Number) /\ DOMAIN q = 1 .. Len(q) /\ Len(q) \in Nat
      /\ \A i \in DOMAIN q : q[i] \in Nat \ {0}
      /\ last[c] \in Nat /\ joined[c] \in Nat /\ total \in Nat
      /\ \A m \in 1 .. total : published[m] \in [slug : Slug, buffered : BOOLEAN]
  BY Types DEF Delivering
<1>4. KnownTo(c) /\ InOrderTo(c) /\ NoGapTo(c)
  BY Delivered DEF Served
<1>5. published \in Seq([slug : Slug, buffered : BOOLEAN]) /\ e \in [slug : Slug, buffered : BOOLEAN]
  BY DEF Delivering, Buffering, TypeOK
<1> DEFINE new == Append(published, e)
<1>6. /\ Len(new) = n /\ new[n] = e /\ e.slug = s
      /\ \A m \in 1 .. total : new[m] = published[m]
  <2> DEFINE E == [slug : Slug, buffered : BOOLEAN]
  <2>1. published \in Seq(E) /\ e \in E /\ e.slug = s
    BY <1>5
  <2> HIDE DEF E, e
  <2> QED BY <2>1, AppendProperties
<1> DEFINE t == ch'[c]
<1>7. /\ DOMAIN q \subseteq DOMAIN t
      /\ \A i \in DOMAIN q : t[i] = q[i]
      /\ \A i \in DOMAIN t \ DOMAIN q : t[i] = n /\ listens /\ \A j \in DOMAIN t : j # i => j \in DOMAIN q /\ j < i
      /\ listens /\ fits => n \in Range(t)
  <2>1. CASE listens /\ fits
    <3> DEFINE a == Append(q, n)
    <3>1. n \in Number
      BY <1>3, HubAssumption DEF Publish, Number
    <3>2. q \in Seq(Number)
      BY <1>3
    <3> HIDE DEF q, n
    <3>3. /\ DOMAIN a = 1 .. Len(q) + 1 /\ a[Len(q) + 1] = n
          /\ \A i \in 1 .. Len(q) : a[i] = q[i]
      BY <3>1, <3>2, AppendProperties
    <3>4. t = a
      BY <1>1, <2>1 DEF q, n
    <3> HIDE DEF t, a
    <3>5. DOMAIN q = 1 .. Len(q) /\ Len(q) \in Nat
      BY <1>3 DEF q
    <3>6. DOMAIN q \subseteq DOMAIN t /\ \A i \in DOMAIN q : t[i] = q[i]
      BY <3>3, <3>4, <3>5
    <3>7. \A i \in DOMAIN t \ DOMAIN q : i = Len(q) + 1
      BY <3>3, <3>4, <3>5
    <3>8. \A j \in DOMAIN t : j # Len(q) + 1 => j \in DOMAIN q /\ j < Len(q) + 1
      BY <3>3, <3>4, <3>5
    <3>9. Len(q) + 1 \in DOMAIN t /\ t[Len(q) + 1] = n
      BY <3>3, <3>4, <3>5
    <3>10. n \in Range(t)
      BY <3>9 DEF Range
    <3> HIDE DEF listens, fits
    <3> QED BY <2>1, <3>6, <3>7, <3>8, <3>9, <3>10
  <2>2. CASE ~(listens /\ fits)
    <3>1. t = q
      BY <1>1, <2>2
    <3> QED BY <2>2, <3>1
  <2> QED BY <2>1, <2>2
<1>8. Open(c)' <=> Open(c)
  BY <1>1 DEF Open
<1> HIDE DEF listens, fits, e
<1>9. \A i \in DOMAIN q : q[i] <= total
  BY <1>4 DEF KnownTo
<1>10. \A i \in DOMAIN t : t[i] \in 1 .. n
  <2> HIDE DEF t, q, total
  <2> QED BY <1>3, <1>7, <1>9
<1>11. ~Open(c) => t = q
  <2> HIDE DEF t, q
  <2> QED BY <1>1, <1>2 DEF t, q
<1>12. KnownTo(c)'
  <2>1. last[c] <= n
    <3>1. last[c] <= total
      BY <1>4 DEF KnownTo
    <3> QED BY <1>3, <3>1
  <2>2. \A i \in DOMAIN t : t[i] <= n
    BY <1>10
  <2> HIDE DEF t, q, n, new
  <2> QED BY <1>1, <1>4, <1>6, <1>8, <1>11, <2>1, <2>2 DEF KnownTo, t, q, new
<1>13. InOrderTo(c)'
  <2>1. \A i \in DOMAIN q : /\ last[c] < q[i] /\ published[q[i]].slug = slugOf[c]
                            /\ q[i] \in 1 .. total
    BY <1>3, <1>4, <1>9 DEF InOrderTo
  <2>2. \A i, j \in DOMAIN q : i < j => q[i] < q[j]
    BY <1>4 DEF InOrderTo
  <2>3. last[c] < n
    <3>1. last[c] <= total
      BY <1>4 DEF KnownTo
    <3> QED BY <1>3, <3>1
  <2>4. \A i \in DOMAIN t : last[c] < t[i] /\ new[t[i]].slug = slugOf[c]
    <3> HIDE DEF t, q, new, n, total
    <3> QED BY <1>2, <1>6, <1>7, <2>1, <2>3
  <2>5. \A i \in DOMAIN q : q[i] < n
    BY <1>3, <2>1
  <2>6. \A i \in DOMAIN t : i \in Int
    <3> HIDE DEF t, q, n
    <3> SUFFICES ASSUME NEW i \in DOMAIN t PROVE i \in Int
      OBVIOUS
    <3>1. CASE i \in DOMAIN q
      BY <1>3, <3>1 DEF q
    <3>2. CASE i \notin DOMAIN q
      BY <1>1, <1>3, <1>7, <3>2 DEF q, t
    <3> QED BY <3>1, <3>2
  <2>7. \A i, j \in DOMAIN t : i < j => t[i] < t[j]
    <3> SUFFICES ASSUME NEW i \in DOMAIN t, NEW j \in DOMAIN t, i < j PROVE t[i] < t[j]
      OBVIOUS
    <3> HIDE DEF t, q, n
    <3>1. i \in DOMAIN q
      BY <1>7, <2>6
    <3>2. CASE j \in DOMAIN q
      BY <1>7, <2>2, <3>1, <3>2
    <3>3. CASE j \notin DOMAIN q
      BY <1>7, <2>5, <3>1, <3>3
    <3> QED BY <3>2, <3>3
  <2> HIDE DEF t, new
  <2> QED BY <1>1, <2>4, <2>7 DEF InOrderTo, t, new
<1>14. NoGapTo(c)'
  <2> SUFFICES ASSUME NEW m \in 1 .. n, Open(c), new[m].slug = slugOf[c], last[c] < m,
                      \/ m > joined[c]
                      \/ new[m].buffered /\ (last[c] # 0 \/ \E i \in DOMAIN t : t[i] < m)
               PROVE  m \in Range(t) \cup dropped'[c]
    BY <1>1, <1>6, <1>8 DEF NoGapTo
  <2>1. CASE m = n
    <3> HIDE DEF t, q, n
    <3>1. listens
      BY <1>2, <1>6, <2>1
    <3> QED BY <1>1, <1>7, <2>1, <3>1
  <2>2. CASE m # n
    <3>1. m \in 1 .. total /\ m < n /\ new[m] = published[m]
      BY <1>3, <1>6, <2>2
    <3>2. (\E i \in DOMAIN t : t[i] < m) => \E i \in DOMAIN q : q[i] < m
      <4> SUFFICES ASSUME NEW i \in DOMAIN t, t[i] < m PROVE \E k \in DOMAIN q : q[k] < m
        OBVIOUS
      <4>1. t[i] # n
        BY <1>3, <3>1
      <4> HIDE DEF t, q, n
      <4> QED BY <1>7, <4>1
    <3>3. m \in Range(q) \cup dropped[c]
      BY <1>4, <3>1, <3>2 DEF NoGapTo
    <3>4. Range(q) \subseteq Range(t)
      <4> HIDE DEF t, q
      <4> QED BY <1>7 DEF Range
    <3>5. dropped[c] \subseteq dropped'[c]
      BY <1>1
    <3> QED BY <3>3, <3>4, <3>5
  <2> QED BY <2>1, <2>2
<1> QED BY <1>12, <1>13, <1>14 DEF Served

\* Every step keeps the promise to every client.
LEMMA NextDelivering == Delivering /\ [Next]_vars => Delivering'
<1> SUFFICES ASSUME Delivering, [Next]_vars PROVE Delivering'
  OBVIOUS
<1>1. Registered' /\ Buffering'
  BY NextRegistered, NextBuffering DEF Delivering
<1>2. \A c \in Client : Served(c)
  BY Delivered
<1>3. clients \in [Slug -> SUBSET Client] /\ ch \in [Client -> Seq(Number)]
      /\ slugOf \in [Client -> Slug \cup {NoSlug}] /\ last \in [Client -> 0 .. MaxPublish]
      /\ dropped \in [Client -> SUBSET Number] /\ joined \in [Client -> 0 .. MaxPublish]
  BY DEF Delivering, Buffering, TypeOK
<1>4. SUFFICES ASSUME NEW c \in Client PROVE Served(c)'
  BY <1>1, Delivered
<1>5. CASE published' = published /\ Untouched(c)
  BY <1>2, <1>5, UntouchedServed
<1>6. CASE \E d \in Client, s \in Slug : Subscribe(d, s)
  <2>1. PICK d \in Client, s \in Slug : Subscribe(d, s)
    BY <1>6
  <2>2. CASE d = c
    BY <2>1, <2>2, SubscribeServed
  <2>3. CASE d # c
    BY <1>3, <1>5, <2>1, <2>3 DEF Subscribe, Untouched
  <2> QED BY <2>2, <2>3
<1>7. CASE \E d \in Client : Receive(d)
  <2>1. PICK d \in Client : Receive(d)
    BY <1>7
  <2>2. CASE d = c
    BY <2>1, <2>2, ReceiveServed
  <2>3. CASE d # c
    BY <1>3, <1>5, <2>1, <2>3 DEF Receive, Untouched
  <2> QED BY <2>2, <2>3
<1>8. CASE \E d \in Client : Cleanup(d)
  <2>1. PICK d \in Client : Cleanup(d)
    BY <1>8
  <2>2. CASE d = c
    <3>1. /\ ch'[c] = <<>> /\ DOMAIN ch'[c] = {} /\ last'[c] = 0
          /\ c \in closed' /\ published' = published
      BY <1>3, <2>1, <2>2 DEF Cleanup
    <3>2. Len(published) \in Nat /\ ~Open(c)'
      BY <3>1, Types DEF Delivering, Open
    <3> QED BY <3>1, <3>2 DEF Served, KnownTo, InOrderTo, NoGapTo
  <2>3. CASE d # c
    BY <1>3, <1>5, <2>1, <2>3 DEF Cleanup, Untouched
  <2> QED BY <2>2, <2>3
<1>9. CASE \E s \in Slug, useBuffer \in BOOLEAN : Publish(s, useBuffer)
  BY <1>9, PublishServed
<1>10. CASE UNCHANGED <<clientVars, published>>
  BY <1>5, <1>10 DEF clientVars, Untouched
<1>11. CASE \E s \in Slug : RemoveBuffer(s) \/ SweepOne(s)
  BY <1>10, <1>11 DEF RemoveBuffer, SweepOne
<1>12. CASE SweepBegin \/ SweepEnd \/ Tick \/ UNCHANGED vars
  BY <1>10, <1>12 DEF SweepBegin, SweepEnd, Tick, vars
<1> QED BY <1>6, <1>7, <1>8, <1>9, <1>11, <1>12 DEF Next

\* The invariant of delivery holds in every reachable state, whatever order
\* Subscribe, Publish, cleanups, the sweep and removals come in.
THEOREM DeliveringHolds == Spec => []Delivering
BY InitDelivering, NextDelivering, PTL DEF Spec

\* A subscriber gets messages of its own slug only, each at most once and in the
\* order of publishing, replayed or live, whatever else happens at the same time.
THEOREM DeliveredInOrder == Spec => []InOrderOfOwnSlug
BY DeliveringHolds, PTL DEF Delivering

\* Whatever an open subscriber misses after its first message, its own full
\* channel has turned away.
THEOREM OnlyFullChannelLoses == Spec => []GapOnlyFromFullChannel
BY DeliveringHolds, PTL DEF Delivering

\* If the ring is no larger than a client's channel, a client that joins is sent
\* everything the buffer of its slug holds.  (With the defaults it is larger: 100
\* slots and room for 64 messages.)
THEOREM NothingMissed == ASSUME Size <= ChanCap PROVE Spec => CatchUpComplete
<1> DEFINE Sent(c) ==
             (slugOf[c] = NoSlug /\ slugOf'[c] # NoSlug) =>
               LET s == slugOf'[c]
               IN  buffers[s] # NoBuffer =>
                     \A i \in Index :
                       (buffers[s].msgs[i] # Blank /\ ~Expired(buffers[s].msgs[i], now)) =>
                         buffers[s].msgs[i].msg \in Range(ch'[c])
<1>1. ASSUME Buffering, [Next]_vars PROVE [\A c \in Client : Sent(c)]_vars
  <2>1. CASE \E c \in Client, s \in Slug : Subscribe(c, s)
    <3>1. PICK c \in Client, s \in Slug : Subscribe(c, s)
      BY <2>1
    <3>2. \A d \in Client \ {c} : slugOf'[d] = slugOf[d]
      BY <3>1 DEF Subscribe, Buffering, TypeOK
    <3>3. /\ Replay(s) \in Seq(Number) /\ Len(Replay(s)) <= Size
          /\ buffers[s] # NoBuffer =>
               \A i \in Index : buffers[s].msgs[i] # Blank => buffers[s].msgs[i].msg \in Range(Replay(s))
      BY <1>1, ReplayFacts
    <3>4. Fill(Replay(s)) = Replay(s)
      <4>1. Len(Replay(s)) \in Nat /\ Len(Replay(s)) <= ChanCap
        BY <3>3, SizeAssumption, HubAssumption
      <4> QED BY <3>3, <4>1, FillFacts
    <3>5. slugOf'[c] = s /\ ch'[c] = Replay(s)
      BY <1>1, <3>1, <3>4 DEF Subscribe, Buffering, TypeOK
    <3>6. Sent(c)
      BY <3>3, <3>5
    <3> QED BY <3>2, <3>6
  <2>2. CASE UNCHANGED slugOf
    BY <2>2
  <2>3. CASE \E c \in Client : Receive(c) \/ Cleanup(c)
    BY <2>2, <2>3 DEF Receive, Cleanup
  <2>4. CASE \E s \in Slug, useBuffer \in BOOLEAN : Publish(s, useBuffer)
    BY <2>2, <2>4 DEF Publish
  <2>5. CASE \E s \in Slug : RemoveBuffer(s) \/ SweepOne(s)
    BY <2>2, <2>5 DEF RemoveBuffer, SweepOne, clientVars
  <2>6. CASE SweepBegin \/ SweepEnd \/ Tick \/ UNCHANGED vars
    BY <2>2, <2>6 DEF SweepBegin, SweepEnd, Tick, vars, clientVars
  <2> QED BY <1>1, <2>1, <2>3, <2>4, <2>5, <2>6 DEF Next
<1>2. Buffering /\ [Next]_vars => [\A c \in Client : Sent(c)]_vars
  BY <1>1
<1> QED BY <1>2, BufferingHolds, PTL DEF Spec, CatchUpComplete

-----------------------------------------------------------------------------
(* The ring buffers implement the log of CatchUpLog.                       *)

\* The log's elements are as the buffer's, and the instance's operators are the
\* ones of this module.
LEMMA SameOperators ==
  ASSUME NEW log, NEW t
  PROVE  CatchUp!Fresh(log, t) = Without(log, {e \in Range(log) : Expired(e, t)})
<1>1. \A X : CatchUp!Without(log, X) = Without(log, X)
  BY DEF CatchUp!Without, Without, CatchUp!Appended, Appended
<1>2. CatchUp!Range(log) = Range(log)
  BY DEF CatchUp!Range, Range
<1> QED BY <1>1, <1>2 DEF CatchUp!Fresh, Expired

\* What a slug's buffer, if it has one, would replay at time t.
KeptOf(b, t) == IF b = NoBuffer THEN <<>> ELSE Unexpired(b, t)

Log == [s \in Slug |-> KeptOf(buffers[s], now)]

\* It is the log the refinement maps to.
LEMMA LogIsKept == Log = [s \in Slug |-> Kept(s)] /\ Log' = [s \in Slug |-> Kept(s)]'
BY DEF Log, KeptOf, Kept, Unexpired

\* What the refinement needs of one slug's buffer.
LEMMA SlugFacts ==
  ASSUME Buffering, NEW s \in Slug
  PROVE  /\ buffers[s] # NoBuffer => buffers[s] \in BufferOf(Held) /\ Orderly(buffers[s], now)
         /\ now \in Int
BY HeldFacts, HubAssumption DEF Buffering, BuffersSound, Sound, TypeOK

\* A buffered message is appended to the log of its slug, and the oldest one
\* goes when there is no room.
LEMMA PublishAppends ==
  ASSUME Buffering, NEW s \in Slug, Publish(s, TRUE)
  PROVE  CatchUp!Publish(s, Len(published) + 1)
<1> DEFINE n == Len(published) + 1
           e == Entry(n, now)
           b == IF buffers[s] = NoBuffer THEN newRingBuffer ELSE buffers[s]
           longer == Append(Log[s], e)
<1>1. /\ buffers' = [buffers EXCEPT ![s] = push(b, n, now)]
      /\ now' = now /\ removals' = removals
      /\ n <= MaxPublish
  BY DEF Publish, Store, Buffered
<1>2. buffers \in [Slug -> Buffer \cup {NoBuffer}] /\ Len(published) \in Nat /\ now \in 0 .. MaxTime /\ now \in Int
  BY HubAssumption DEF Buffering, TypeOK
<1>3. b \in BufferOf(Held) /\ Orderly(b, now) /\ Unexpired(b, now) = Log[s]
  <2>1. CASE buffers[s] = NoBuffer
    BY <1>2, <2>1, NewOrderly, UnexpiredNew DEF Log, KeptOf
  <2>2. CASE buffers[s] # NoBuffer
    BY <2>2, SlugFacts DEF Log, KeptOf
  <2> QED BY <2>1, <2>2
<1>4. e \in Held
  BY <1>1, <1>2 DEF Entry, Held, Number
<1> HIDE DEF b
<1>5. push(b, n, now) # NoBuffer
  <2>1. push(b, n, now) \in BufferOf(Held)
    BY <1>3, <1>4, PushPlaces
  <2> QED BY <2>1, HeldFacts
<1>6. Unexpired(push(b, n, now), now) =
        IF Len(longer) > Size THEN SubSeq(longer, Len(longer) - Size + 1, Len(longer)) ELSE longer
  <2>1. Entry(n, now) \in Held /\ Blank \notin Held /\ \A x \in Held : x.createdAt \in Int
    BY <1>4, HeldFacts
  <2>2. b \in BufferOf(Held) /\ Orderly(b, now) /\ now \in Int
    BY <1>2, <1>3
  <2> DEFINE after == Append(Unexpired(b, now), Entry(n, now))
  <2> HIDE DEF n
  <2>3. Unexpired(push(b, n, now), now) =
          IF Len(after) > Size THEN SubSeq(after, Len(after) - Size + 1, Len(after)) ELSE after
    BY <2>1, <2>2, UnexpiredPush
  <2> QED BY <1>3, <2>3
<1>7. Log' = [Log EXCEPT ![s] = Unexpired(push(b, n, now), now)]
  BY <1>1, <1>2, <1>5 DEF Log, KeptOf
<1> HIDE DEF n
<1>8. Log' = [Log EXCEPT ![s] = IF Len(longer) > Size THEN CatchUp!Newest(longer) ELSE longer]
  BY <1>6, <1>7 DEF CatchUp!Newest
<1> HIDE DEF longer
<1>9. longer = Append(Log[s], [msg |-> n, createdAt |-> now])
  BY DEF longer, Entry
<1> QED BY <1>1, <1>8, <1>9, LogIsKept DEF CatchUp!Publish, n

\* Steps that cannot be told from outside.
LEMMA SweepHidden ==
  ASSUME Buffering, UNCHANGED <<now, removals>>,
         \A s \in Slug :
           \/ buffers'[s] = buffers[s]
           \/ /\ buffers[s] # NoBuffer
              /\ \/ buffers'[s] = sweepExpired(buffers[s], now)
                 \/ buffers'[s] = NoBuffer /\ IsEmpty(sweepExpired(buffers[s], now))
  PROVE  Log' = Log
<1> SUFFICES ASSUME NEW s \in Slug PROVE KeptOf(buffers'[s], now) = KeptOf(buffers[s], now)
  BY DEF Log
<1>1. CASE buffers'[s] = buffers[s]
  BY <1>1
<1>2. CASE buffers[s] # NoBuffer
  <2>1. /\ buffers[s] \in BufferOf(Held) /\ Orderly(buffers[s], now) /\ now \in Int
    BY <1>2, SlugFacts
  <2>2. /\ Unexpired(sweepExpired(buffers[s], now), now) = Unexpired(buffers[s], now)
        /\ IsEmpty(sweepExpired(buffers[s], now)) => Unexpired(buffers[s], now) = <<>>
    BY <2>1, HeldFacts, UnexpiredSweep
  <2>3. sweepExpired(buffers[s], now) # NoBuffer
    <3>1. sweepExpired(buffers[s], now) \in BufferOf(Held)
      BY <2>1, SweepSlots
    <3> QED BY <3>1, HeldFacts
  <2> QED BY <1>1, <1>2, <2>2, <2>3 DEF KeptOf
<1> QED BY <1>1, <1>2

\* Time takes the expired messages out.
LEMMA TickExpires ==
  ASSUME Buffering, Tick
  PROVE  CatchUp!Tick
<1>1. now' = now + 1 /\ buffers' = buffers /\ removals' = removals
      /\ now \in Int /\ now' \in Int /\ now <= now'
  BY HubAssumption DEF Tick, Buffering, TypeOK
<1>2. ASSUME NEW s \in Slug
      PROVE  KeptOf(buffers[s], now') = CatchUp!Fresh(Log[s], now')
  <2> DEFINE u == now'
  <2> HIDE DEF u
  <2>1. CatchUp!Fresh(Log[s], u) = Without(Log[s], {e \in Range(Log[s]) : Expired(e, u)})
    BY SameOperators
  <2>2. CASE buffers[s] = NoBuffer
    BY <2>1, <2>2, EmptyWithout DEF Log, KeptOf, u
  <2>3. CASE buffers[s] # NoBuffer
    <3>1. buffers[s] \in BufferOf(Held) /\ Orderly(buffers[s], now)
      BY <2>3, SlugFacts
    <3>2. LET log == Unexpired(buffers[s], now)
          IN  Unexpired(buffers[s], u) = Without(log, {e \in Range(log) : Expired(e, u)})
      BY <1>1, <3>1, HeldFacts, UnexpiredLater DEF u
    <3>3. Log[s] = Unexpired(buffers[s], now) /\ KeptOf(buffers[s], u) = Unexpired(buffers[s], u)
      BY <2>3 DEF Log, KeptOf
    <3> QED BY <2>1, <3>2, <3>3 DEF u
  <2> QED BY <2>2, <2>3
<1>3. Log' = [s \in Slug |-> CatchUp!Fresh(Log[s], now')]
  BY <1>1, <1>2 DEF Log
<1> QED BY <1>1, <1>3, LogIsKept DEF CatchUp!Tick

\* Every step of the hub is a step of the log, or none.
LEMMA StepRefines == Buffering /\ [Next]_vars => [CatchUp!Next]_(CatchUp!vars)
<1> SUFFICES ASSUME Buffering, [Next]_vars PROVE [CatchUp!Next]_(CatchUp!vars)
  OBVIOUS
<1>1. CASE UNCHANGED <<Log, removals, now>>
  BY <1>1, LogIsKept DEF CatchUp!vars
<1>2. CASE UNCHANGED <<buffers, removals, now>>
  BY <1>1, <1>2 DEF Log
<1>3. CASE \E c \in Client : (\E s \in Slug : Subscribe(c, s)) \/ Receive(c) \/ Cleanup(c)
  BY <1>2, <1>3 DEF Subscribe, Receive, Cleanup
<1>4. CASE \E s \in Slug : Publish(s, TRUE)
  <2>1. PICK s \in Slug : Publish(s, TRUE)
    BY <1>4
  <2>2. Len(published) + 1 \in Number
    BY <2>1 DEF Publish, Number, Buffering, TypeOK
  <2>3. CatchUp!Publish(s, Len(published) + 1)
    BY <2>1, PublishAppends
  <2> QED BY <2>2, <2>3 DEF CatchUp!Next
<1>5. CASE \E s \in Slug : Publish(s, FALSE)
  BY <1>2, <1>5 DEF Publish, Store
<1>6. CASE \E s \in Slug : RemoveBuffer(s)
  <2>1. PICK s \in Slug : RemoveBuffer(s)
    BY <1>6
  <2>2. buffers' = [buffers EXCEPT ![s] = NoBuffer] /\ now' = now
        /\ removals' = [removals EXCEPT ![s] = 1 - @] /\ buffers \in [Slug -> Buffer \cup {NoBuffer}]
    BY <2>1 DEF RemoveBuffer, Buffering, TypeOK
  <2>3. Log' = [Log EXCEPT ![s] = <<>>]
    BY <2>2 DEF Log, KeptOf
  <2>4. CatchUp!Forget(s)
    BY <2>2, <2>3, LogIsKept DEF CatchUp!Forget
  <2> QED BY <2>4 DEF CatchUp!Next
<1>7. CASE SweepBegin
  BY <1>2, <1>7 DEF SweepBegin
<1>8. CASE \E s \in Slug : SweepOne(s)
  <2>1. PICK s \in Slug : SweepOne(s)
    BY <1>8
  <2>2. /\ buffers' = IF s \in sweeper.orphan THEN buffers
                      ELSE [buffers EXCEPT ![s] = sweepExpired(buffers[s], now)]
        /\ UNCHANGED <<now, removals>>
    BY <2>1 DEF SweepOne
  <2>3. s \notin sweeper.orphan => buffers[s] # NoBuffer
    BY <2>1 DEF SweepOne, Buffering, SweepsBuffers
  <2>4. \A t \in Slug : \/ buffers'[t] = buffers[t]
                        \/ buffers[t] # NoBuffer /\ buffers'[t] = sweepExpired(buffers[t], now)
    BY <2>2, <2>3 DEF Buffering, TypeOK
  <2>5. Log' = Log
    BY <2>2, <2>4, SweepHidden
  <2> QED BY <1>1, <2>2, <2>5
<1>9. CASE SweepEnd
  <2>1. \A t \in Slug :
          \/ buffers'[t] = buffers[t]
          \/ /\ buffers[t] # NoBuffer
             /\ \/ buffers'[t] = sweepExpired(buffers[t], now)
                \/ buffers'[t] = NoBuffer /\ IsEmpty(sweepExpired(buffers[t], now))
    BY <1>9 DEF SweepEnd, DeleteEmptied
  <2>2. UNCHANGED <<now, removals>>
    BY <1>9 DEF SweepEnd
  <2>3. Log' = Log
    BY <2>1, <2>2, SweepHidden
  <2> QED BY <1>1, <2>2, <2>3
<1>10. CASE Tick
  BY <1>10, TickExpires DEF CatchUp!Next
<1>11. CASE UNCHANGED vars
  BY <1>2, <1>11 DEF vars
<1>12. ASSUME \E s \in Slug, useBuffer \in BOOLEAN : Publish(s, useBuffer)
       PROVE  (\E s \in Slug : Publish(s, TRUE)) \/ (\E s \in Slug : Publish(s, FALSE))
  BY <1>12
<1> QED BY <1>3, <1>4, <1>5, <1>6, <1>7, <1>8, <1>9, <1>10, <1>11, <1>12 DEF Next

\* The hub starts with nothing logged.
LEMMA InitRefines == Init => CatchUp!Init
<1> SUFFICES ASSUME Init PROVE CatchUp!Init
  OBVIOUS
<1>1. Log = [s \in Slug |-> <<>>]
  BY DEF Init, Log, KeptOf
<1> QED BY <1>1, LogIsKept DEF Init, CatchUp!Init

\* From outside, the ring buffers, the three-phase sweep and the deletion of
\* emptied buffers are the bounded log with a TTL.
THEOREM RefinesCatchUpLog == Spec => ImplementsCatchUpLog
BY InitRefines, StepRefines, BufferingHolds, PTL DEF Spec, ImplementsCatchUpLog, CatchUp!Spec

-----------------------------------------------------------------------------
(* TabStore.                                                               *)

\* What is shown, what the server has answered and what an edit may roll back
\* to: lists of requests, each once.
Distinct(list) == list \in Seq(Request) /\ IsInjective(list)

EachOnce ==
  /\ Distinct(items)
  /\ \A c \in Call : call[c] # Idle => Distinct(call[c].rows) /\ Distinct(call[c].backup)

TabInv == TabTypeOK /\ EachOnce

LEMMA EmptyDistinct == Distinct(<<>>)
BY DEF Distinct, IsInjective

\* The server lists every request it has once, the newest first.
LEMMA NewestFirstDistinct ==
  ASSUME stored \in SUBSET Request, NEW n \in Nat
  PROVE  Distinct(NewestFirst(n))
<1> DEFINE above == [r \in stored |-> Cardinality(Newer(r))]
           m == Cardinality(Newest(n))
<1>1. IsFiniteSet(stored) /\ stored \subseteq Nat
  <2>1. IsFiniteSet(1 .. MaxRequests) /\ 1 .. MaxRequests \subseteq Nat
    BY TabAssumption, FS_Interval
  <2> QED BY <2>1, FS_Subset DEF Request
<1>2. \A r \in stored : /\ Newer(r) \subseteq stored /\ IsFiniteSet(Newer(r)) /\ above[r] \in Nat
                        /\ above[r] = Cardinality(Newer(r))
  <2> TAKE r \in stored
  <2>1. Newer(r) \subseteq stored
    BY DEF Newer
  <2> QED BY <1>1, <2>1, FS_Subset, FS_CardinalityType
<1>3. IsFiniteSet(Newest(n)) /\ m \in Nat
  <2>1. Newest(n) \subseteq stored
    BY DEF Newest
  <2> QED BY <1>1, <2>1, FS_Subset, FS_CardinalityType
<1>4. Newest(n) \subseteq stored /\ \A x, y : x \in Newer(y) <=> x \in stored /\ x > y
  BY DEF Newest, Newer
<1>5. DOMAIN NewestFirst(n) = 1 .. m
      /\ \A i \in 1 .. m : NewestFirst(n)[i] = CHOOSE r \in stored : Cardinality(Newer(r)) = i - 1
  BY DEF NewestFirst
<1> HIDE DEF above, m
<1>6. ASSUME NEW p \in stored, NEW q \in stored, p < q PROVE above[q] < above[p]
  <2>1. p \in Nat /\ q \in Nat
    BY <1>1
  <2>2. Newer(q) \subseteq Newer(p)
    <3> SUFFICES ASSUME NEW x \in Newer(q) PROVE x \in Newer(p)
      OBVIOUS
    <3>1. x \in stored /\ x > q /\ x \in Nat
      BY <1>1, <1>4
    <3> QED BY <1>4, <1>6, <2>1, <3>1
  <2>3. q \in Newer(p) /\ q \notin Newer(q)
    BY <1>4, <1>6, <2>1
  <2>4. Cardinality(Newer(q)) <= Cardinality(Newer(p)) /\ Cardinality(Newer(q)) # Cardinality(Newer(p))
    BY <1>2, <2>2, <2>3, FS_Subset
  <2> QED BY <1>2, <2>4
<1>7. ASSUME NEW r \in stored, NEW s \in stored, above[r] = above[s] PROVE r = s
  <2>1. r \in Nat /\ s \in Nat /\ above[r] \in Nat
    BY <1>1, <1>2
  <2>2. ~(r < s) /\ ~(s < r)
    BY <1>6, <1>7, <2>1
  <2> QED BY <2>1, <2>2
<1> DEFINE D == {above[r] : r \in stored}
<1>8. ASSUME NEW r \in stored, above[r] # 0 PROVE above[r] - 1 \in D
  <2>1. Newer(r) # {} /\ Newer(r) \in SUBSET Nat
    BY <1>1, <1>2, <1>8, FS_EmptySet
  <2>2. PICK s \in Newer(r) : \A q \in Newer(r) : s <= q
    BY <2>1, Least
  <2>3. s \in stored /\ s \in Nat /\ r \in Nat /\ s > r
    BY <1>1, <1>4
  <2>4. Newer(s) = Newer(r) \ {s}
    <3>1. ASSUME NEW x PROVE x \in Newer(s) <=> x \in Newer(r) \ {s}
      <4>1. CASE x \in stored
        <5>1. x \in Nat
          BY <1>1, <4>1
        <5>2. x \in Newer(r) => s <= x
          BY <2>2
        <5> QED BY <1>4, <2>3, <5>1, <5>2
      <4>2. CASE x \notin stored
        BY <1>4, <4>2
      <4> QED BY <4>1, <4>2
    <3> QED BY <3>1
  <2>5. above[s] = above[r] - 1
    BY <1>2, <2>2, <2>3, <2>4, FS_RemoveElement
  <2> QED BY <2>3, <2>5
<1>9. D \in SUBSET Nat /\ \A k \in D : k # 0 => k - 1 \in D
  BY <1>2, <1>8
<1>10. \A r \in stored : above[r] \in D
  OBVIOUS
<1> HIDE DEF D
<1>11. ASSUME NEW j \in Nat, j \notin D, NEW k \in D PROVE k < j
  <2> DEFINE T == {t \in D : t > j}
  <2> SUFFICES ASSUME T # {} PROVE FALSE
    BY <1>9, <1>11
  <2>1. T \in SUBSET Nat
    BY <1>9
  <2> HIDE DEF T
  <2>2. PICK t \in T : \A u \in T : t <= u
    BY <2>1, Least
  <2>3. t \in D /\ t > j /\ t \in Nat
    BY <2>1 DEF T
  <2>4. t - 1 \in D /\ t - 1 # j
    BY <1>9, <1>11, <2>3
  <2>5. t - 1 \in T
    BY <2>3, <2>4 DEF T
  <2> QED BY <2>2, <2>3, <2>5
<1>12. ASSUME NEW i \in 1 .. m PROVE \E r \in stored : above[r] = i - 1
  <2> SUFFICES ASSUME i - 1 \notin D PROVE FALSE
    BY DEF D
  <2>1. \A r \in stored : above[r] \in 0 .. i - 2
    <3> TAKE r \in stored
    <3>1. i - 1 \in Nat
      BY <1>3
    <3>2. above[r] \in D /\ above[r] \in Nat
      BY <1>2, <1>10
    <3>3. above[r] < i - 1
      BY <1>11, <3>1, <3>2
    <3> QED BY <3>1, <3>2, <3>3
  <2> DEFINE f == [r \in Newest(n) |-> above[r]]
  <2>2. f \in Injection(Newest(n), 0 .. i - 2)
    <3>1. f \in [Newest(n) -> 0 .. i - 2]
      BY <1>4, <2>1
    <3>2. IsInjective(f)
      BY <1>4, <1>7 DEF IsInjective
    <3> QED BY <3>1, <3>2 DEF Injection
  <2>3. i - 2 \in Int /\ i \in Int /\ i >= 1
    BY <1>3
  <2>4. IsFiniteSet(0 .. i - 2) /\ Cardinality(0 .. i - 2) = i - 1
    <3>1. \A b \in Int : IsFiniteSet(0 .. b) /\ Cardinality(0 .. b) = IF 0 > b THEN 0 ELSE b - 0 + 1
      BY FS_Interval, 0 \in Int
    <3>2. Cardinality(0 .. i - 2) = IF 0 > i - 2 THEN 0 ELSE (i - 2) - 0 + 1
      BY <2>3, <3>1
    <3> HIDE DEF m
    <3>3. (IF 0 > i - 2 THEN 0 ELSE (i - 2) - 0 + 1) = i - 1
      BY <2>3
    <3> QED BY <2>3, <3>1, <3>2, <3>3
  <2>5. m <= i - 1
    BY <2>2, <2>4, FS_Injection DEF m
  <2> QED BY <1>3, <2>3, <2>5
<1> DEFINE list == NewestFirst(n)
<1>13. \A i \in 1 .. m : list[i] \in stored /\ above[list[i]] = i - 1
  <2> TAKE i \in 1 .. m
  <2>1. \E r \in stored : Cardinality(Newer(r)) = i - 1
    BY <1>2, <1>12
  <2>2. list[i] \in stored /\ Cardinality(Newer(list[i])) = i - 1
    BY <1>5, <2>1
  <2> QED BY <1>2, <2>2
<1>14. DOMAIN list = 1 .. m /\ list = [i \in 1 .. m |-> list[i]]
  BY DEF NewestFirst, m
<1> HIDE DEF list
<1>15. list \in Seq(Request)
  BY <1>3, <1>13, <1>14
<1>16. IsInjective(list)
  <2> SUFFICES ASSUME NEW i \in 1 .. m, NEW j \in 1 .. m, list[i] = list[j] PROVE i = j
    BY <1>14 DEF IsInjective
  <2>1. i - 1 = j - 1
    BY <1>13
  <2> QED BY <1>3, <2>1
<1> QED BY <1>15, <1>16 DEF Distinct, list

\* What a call in flight carries.
LEMMA CallTyped ==
  ASSUME TabTypeOK, NEW c \in Call, call[c] # Idle
  PROVE  call[c] \in CallState
BY DEF TabTypeOK

\* A call in flight that leaves the list shown alone.
LEMMA AskedDistinct ==
  ASSUME NEW op \in {"load", "catchUp", "remove", "clearAll"}, NEW id \in Request \cup {0},
         NEW backup, Distinct(backup)
  PROVE  /\ Asked(op, id, backup) \in CallState
         /\ Distinct(Asked(op, id, backup).rows) /\ Distinct(Asked(op, id, backup).backup)
<1>1. <<>> \in Seq(Request) /\ Distinct(<<>>)
  BY EmptyDistinct
<1> QED BY <1>1 DEF Asked, CallState, Distinct

LEMMA InitHolds == TabInit => TabInv
<1> SUFFICES ASSUME TabInit PROVE TabInv
  OBVIOUS
<1>1. Distinct(<<>>) /\ <<>> \in Seq(Request)
  BY EmptyDistinct
<1>2. Asked("load", 0, <<>>) \in CallState
      /\ Distinct(Asked("load", 0, <<>>).rows) /\ Distinct(Asked("load", 0, <<>>).backup)
  BY <1>1, AskedDistinct
<1>3. PICK c \in Call : call = [d \in Call |-> IF d = c THEN Asked("load", 0, <<>>) ELSE Idle]
  BY DEF TabInit
<1>4. \A d \in Call : call[d] = Asked("load", 0, <<>>) \/ call[d] = Idle
  BY <1>3
<1>5. call \in [Call -> CallState \cup {Idle}]
  BY <1>2, <1>3
<1>6. EachOnce
  BY <1>1, <1>2, <1>4 DEF TabInit, EachOnce
<1>7. TabTypeOK
  BY <1>1, <1>5, TabAssumption DEF TabInit, TabTypeOK, Request
<1> QED BY <1>6, <1>7 DEF TabInv

\* A step of one call: the list shown is without repetition, and so is what the
\* call carries afterwards.
LEMMA CallKeeps ==
  ASSUME TabInv, NEW c \in Call, NEW state, call' = [call EXCEPT ![c] = state],
         \/ state = Idle
         \/ state \in CallState /\ Distinct(state.rows) /\ Distinct(state.backup),
         Distinct(items')
  PROVE  EachOnce' /\ call' \in [Call -> CallState \cup {Idle}] /\ items' \in Seq(Request)
<1>1. call \in [Call -> CallState \cup {Idle}]
  BY DEF TabInv, TabTypeOK
<1>2. call'[c] = state /\ \A d \in Call \ {c} : call'[d] = call[d]
  BY <1>1
<1>3. call' \in [Call -> CallState \cup {Idle}]
  BY <1>1
<1>4. \A d \in Call : call'[d] # Idle => Distinct(call'[d].rows) /\ Distinct(call'[d].backup)
  BY <1>2 DEF TabInv, EachOnce
<1>5. items' \in Seq(Request)
  BY DEF Distinct
<1>6. EachOnce'
  BY <1>4 DEF EachOnce, Distinct
<1> QED BY <1>3, <1>5, <1>6

\* The steps that put something else in the list, or keep it for a rollback.
LEMMA EditsKeep ==
  ASSUME TabInv, NEW c \in Call,
         catchUp(c) \/ (\E r \in Request : remove(c, r)) \/ clearAll(c)
  PROVE  TabInv'
<1>1. Distinct(items) /\ items \in Seq(Request) /\ 0 \in Request \cup {0}
  BY DEF TabInv, EachOnce, Distinct
<1>2. CASE catchUp(c)
  <2> DEFINE state == Asked("catchUp", 0, <<>>)
  <2>1. state \in CallState /\ Distinct(state.rows) /\ Distinct(state.backup)
    BY EmptyDistinct, AskedDistinct
  <2> HIDE DEF state
  <2>2. call' = [call EXCEPT ![c] = state] /\ items' = items
    BY <1>2 DEF catchUp, Begin, state
  <2>3. EachOnce' /\ call' \in [Call -> CallState \cup {Idle}] /\ items' \in Seq(Request)
    BY <1>1, <2>1, <2>2, CallKeeps
  <2> QED BY <1>2, <2>3 DEF catchUp, TabInv, TabTypeOK
<1>3. CASE \E r \in Request : remove(c, r)
  <2>1. PICK r \in Request : remove(c, r)
    BY <1>3
  <2> DEFINE state == Asked("remove", r, items)
  <2>2. state \in CallState /\ Distinct(state.rows) /\ Distinct(state.backup)
    BY <1>1, AskedDistinct
  <2> HIDE DEF state
  <2>3. call' = [call EXCEPT ![c] = state] /\ items' = Without(items, {r})
    BY <2>1 DEF remove, Begin, state
  <2>4. Distinct(items')
    BY <1>1, <2>3, WithoutKeeps DEF Distinct
  <2>5. EachOnce' /\ call' \in [Call -> CallState \cup {Idle}] /\ items' \in Seq(Request)
    BY <2>2, <2>3, <2>4, CallKeeps
  <2>6. edits' \in 0 .. MaxEdits
    BY <2>1, TabAssumption DEF remove, TabInv, TabTypeOK
  <2> QED BY <2>1, <2>5, <2>6 DEF remove, TabInv, TabTypeOK
<1>4. CASE clearAll(c)
  <2> DEFINE state == Asked("clearAll", 0, items)
  <2>1. state \in CallState /\ Distinct(state.rows) /\ Distinct(state.backup)
    BY <1>1, AskedDistinct
  <2> HIDE DEF state
  <2>2. call' = [call EXCEPT ![c] = state] /\ items' = <<>>
    BY <1>4 DEF clearAll, Begin, state
  <2>3. EachOnce' /\ call' \in [Call -> CallState \cup {Idle}] /\ items' \in Seq(Request)
    BY <2>1, <2>2, EmptyDistinct, CallKeeps
  <2>4. edits' \in 0 .. MaxEdits
    BY <1>4, TabAssumption DEF clearAll, TabInv, TabTypeOK
  <2> QED BY <1>4, <2>3, <2>4 DEF clearAll, TabInv, TabTypeOK
<1> QED BY <1>2, <1>3, <1>4

\* The server's steps: what it lists, it lists once.
LEMMA ServeKeeps ==
  ASSUME TabInv, NEW c \in Call, Serve(c)
  PROVE  TabInv'
<1>1. call[c] # Idle
  BY DEF Serve, ListRequests, CountRequests, DeleteOnServer, Idle
<1>2. call[c] \in CallState
  BY <1>1, CallTyped DEF TabInv
<1>3. /\ Distinct(call[c].rows) /\ Distinct(call[c].backup) /\ Distinct(items)
      /\ stored \in SUBSET Request
  BY <1>1 DEF TabInv, EachOnce, TabTypeOK
<1>4. ASSUME NEW rows, Distinct(rows), NEW at \in {"asked", "listed", "answered"}, NEW more \in BOOLEAN
      PROVE  LET state == [call[c] EXCEPT !.at = at, !.rows = rows, !.more = more]
             IN  state \in CallState /\ Distinct(state.rows) /\ Distinct(state.backup)
  BY <1>2, <1>3, <1>4 DEF CallState, Distinct
<1>5. ASSUME NEW rows, Distinct(rows), NEW at \in {"asked", "listed", "answered"}, NEW more \in BOOLEAN,
             call' = [call EXCEPT ![c] = [call[c] EXCEPT !.at = at, !.rows = rows, !.more = more]],
             items' = items
      PROVE  EachOnce' /\ call' \in [Call -> CallState \cup {Idle}] /\ items' \in Seq(Request)
  <2> DEFINE state == [call[c] EXCEPT !.at = at, !.rows = rows, !.more = more]
  <2>1. state \in CallState /\ Distinct(state.rows) /\ Distinct(state.backup)
    BY <1>4, <1>5
  <2>2. call' = [call EXCEPT ![c] = state]
    BY <1>5
  <2> HIDE DEF state
  <2> QED BY <1>3, <1>5, <2>1, <2>2, CallKeeps
<1>6. call \in [Call -> CallState \cup {Idle}] /\ call[c].more \in BOOLEAN
      /\ call[c] = [op |-> call[c].op, id |-> call[c].id, at |-> call[c].at,
                    rows |-> call[c].rows, more |-> call[c].more, backup |-> call[c].backup]
  BY <1>2 DEF TabInv, TabTypeOK, CallState
<1>7. CASE ListRequests(c)
  <2>1. Distinct(NewestFirst(Page)) /\ Distinct(NewestFirst(Check))
    BY <1>3, NewestFirstDistinct, TabAssumption
  <2>2. PICK rows \in {NewestFirst(Page), NewestFirst(Check)}, at \in {"asked", "listed", "answered"} :
          call' = [call EXCEPT ![c].at = at, ![c].rows = rows]
    BY <1>7 DEF ListRequests
  <2>3. call' = [call EXCEPT ![c] = [call[c] EXCEPT !.at = at, !.rows = rows, !.more = call[c].more]]
    BY <1>6, <2>2
  <2>4. EachOnce' /\ call' \in [Call -> CallState \cup {Idle}] /\ items' \in Seq(Request)
    BY <1>5, <1>6, <1>7, <2>1, <2>3 DEF ListRequests
  <2> QED BY <1>7, <2>4 DEF ListRequests, TabInv, TabTypeOK
<1>8. CASE CountRequests(c)
  <2> DEFINE more == Cardinality(stored) > Len(call[c].rows)
  <2>1. call' = [call EXCEPT ![c].at = "answered", ![c].more = more] /\ more \in BOOLEAN
    <3>1. call' = [call EXCEPT ![c].at = "answered", ![c].more = more]
      BY <1>8 DEF CountRequests
    <3>2. more \in BOOLEAN
      OBVIOUS
    <3> QED BY <3>1, <3>2
  <2> HIDE DEF more
  <2>2. call' = [call EXCEPT ![c] = [call[c] EXCEPT !.at = "answered", !.rows = call[c].rows, !.more = more]]
    BY <1>6, <2>1
  <2>3. EachOnce' /\ call' \in [Call -> CallState \cup {Idle}] /\ items' \in Seq(Request)
    BY <1>3, <1>5, <1>8, <2>1, <2>2 DEF CountRequests
  <2> QED BY <1>8, <2>3 DEF CountRequests, TabInv, TabTypeOK
<1>9. CASE DeleteOnServer(c)
  <2>1. call' = [call EXCEPT ![c].at = "answered"]
    BY <1>9 DEF DeleteOnServer
  <2>2. call' = [call EXCEPT ![c] = [call[c] EXCEPT !.at = "answered", !.rows = call[c].rows, !.more = call[c].more]]
    BY <1>6, <2>1
  <2>3. EachOnce' /\ call' \in [Call -> CallState \cup {Idle}] /\ items' \in Seq(Request)
    BY <1>3, <1>5, <1>6, <1>9, <2>2 DEF DeleteOnServer
  <2>4. stored' \in SUBSET Request
    BY <1>3, <1>9 DEF DeleteOnServer
  <2> QED BY <1>9, <2>3, <2>4 DEF DeleteOnServer, TabInv, TabTypeOK
<1> QED BY <1>7, <1>8, <1>9 DEF Serve

\* Two lists without repetition that have nothing in common make one.
LEMMA JoinedDistinct ==
  ASSUME NEW p, Distinct(p), NEW q, Distinct(q), Range(p) \cap Range(q) = {}
  PROVE  Distinct(p \o q)
<1> DEFINE j == p \o q
           m == Len(p)
           n == Len(q)
<1>1. /\ p \in Seq(Request) /\ q \in Seq(Request) /\ m \in Nat /\ n \in Nat
      /\ DOMAIN p = 1 .. m /\ DOMAIN q = 1 .. n
  BY DEF Distinct
<1>2. /\ j \in Seq(Request) /\ DOMAIN j = 1 .. m + n
      /\ \A i \in 1 .. m + n : j[i] = IF i <= m THEN p[i] ELSE q[i - m]
  BY <1>1
<1> HIDE DEF j, m, n
<1>3. \A i \in 1 .. m + n : IF i <= m THEN i \in DOMAIN p ELSE i - m \in DOMAIN q
  BY <1>1
<1>4. ASSUME NEW a \in 1 .. m + n, NEW b \in 1 .. m + n, j[a] = j[b] PROVE a = b
  <2>1. CASE a <= m /\ b <= m
    BY <1>2, <1>3, <1>4, <2>1 DEF Distinct, IsInjective
  <2>2. CASE ~(a <= m) /\ ~(b <= m)
    <3>1. a - m = b - m
      BY <1>2, <1>3, <1>4, <2>2 DEF Distinct, IsInjective
    <3> QED BY <1>1, <3>1
  <2>3. CASE (a <= m /\ ~(b <= m)) \/ (~(a <= m) /\ b <= m)
    BY <1>2, <1>3, <1>4, <2>3 DEF Range
  <2> QED BY <2>1, <2>2, <2>3
<1> QED BY <1>2, <1>4 DEF Distinct, IsInjective, j

\* The code after the await, and a call that fails.
LEMMA ResumeKeeps ==
  ASSUME TabInv, NEW c \in Call, Resume(c) \/ Fail(c)
  PROVE  TabInv'
<1>1. call[c] # Idle
  BY DEF Resume, Fail, Loaded, Reload, CaughtUp, Deleted, Await, Idle
<1>2. /\ Distinct(call[c].rows) /\ Distinct(call[c].backup) /\ Distinct(items)
      /\ Distinct(<<>>)
  BY <1>1, EmptyDistinct DEF TabInv, EachOnce
<1>3. ASSUME Done(c), Distinct(items')
      PROVE  EachOnce' /\ call' \in [Call -> CallState \cup {Idle}] /\ items' \in Seq(Request)
  <2>1. call' = [call EXCEPT ![c] = Idle]
    BY <1>3 DEF Done
  <2> QED BY <1>3, <2>1, CallKeeps
<1>4. CASE Loaded(c)
  <2>1. EachOnce' /\ call' \in [Call -> CallState \cup {Idle}] /\ items' \in Seq(Request)
    BY <1>2, <1>3, <1>4 DEF Loaded
  <2> QED BY <1>4, <2>1 DEF Loaded, TabInv, TabTypeOK
<1>5. CASE Reload(c)
  <2> DEFINE state == Asked("load", 0, <<>>)
  <2>1. state \in CallState /\ Distinct(state.rows) /\ Distinct(state.backup)
    BY EmptyDistinct, AskedDistinct
  <2> HIDE DEF state
  <2>2. call' = [call EXCEPT ![c] = state] /\ items' = items
    BY <1>5 DEF Reload, state
  <2>3. EachOnce' /\ call' \in [Call -> CallState \cup {Idle}] /\ items' \in Seq(Request)
    BY <1>2, <2>1, <2>2, CallKeeps
  <2> QED BY <1>5, <2>3 DEF Reload, TabInv, TabTypeOK
<1>6. CASE CaughtUp(c)
  <2>1. Distinct(Missing(c)) /\ Range(Missing(c)) \cap Range(items) = {}
    BY <1>2, WithoutKeeps DEF Missing, Distinct
  <2>2. items' = Missing(c) \o items /\ Done(c)
    BY <1>6 DEF CaughtUp
  <2>3. Distinct(Missing(c) \o items)
    BY <1>2, <2>1, JoinedDistinct
  <2>4. EachOnce' /\ call' \in [Call -> CallState \cup {Idle}] /\ items' \in Seq(Request)
    BY <1>3, <2>2, <2>3
  <2> QED BY <1>6, <2>4 DEF CaughtUp, TabInv, TabTypeOK
<1>7. CASE Deleted(c)
  <2>1. EachOnce' /\ call' \in [Call -> CallState \cup {Idle}] /\ items' \in Seq(Request)
    BY <1>2, <1>3, <1>7 DEF Deleted
  <2> QED BY <1>7, <2>1 DEF Deleted, TabInv, TabTypeOK
<1>8. CASE Fail(c)
  <2>1. items' \in {<<>>, items, call[c].backup}
    BY <1>8 DEF Fail
  <2>2. EachOnce' /\ call' \in [Call -> CallState \cup {Idle}] /\ items' \in Seq(Request)
    BY <1>2, <1>3, <1>8, <2>1 DEF Fail
  <2>3. failures' \in 0 .. MaxFailures
    BY <1>8, TabAssumption DEF Fail, TabInv, TabTypeOK
  <2>4. loading' \in BOOLEAN
    BY <1>8 DEF Fail, TabInv, TabTypeOK
  <2>5. UNCHANGED <<stored, captured, unheard, edits>>
    BY <1>8 DEF Fail
  <2> QED BY <2>2, <2>3, <2>4, <2>5 DEF TabInv, TabTypeOK
<1> QED BY <1>4, <1>5, <1>6, <1>7, <1>8 DEF Resume

\* Requests that come in, and their live messages.
LEMMA MessagesKeep ==
  ASSUME TabInv, Capture \/ (\E r \in Request : LoseMessage(r) \/ prepend(r))
  PROVE  TabInv'
<1>1. CASE Capture
  <2>1. captured' \in Request
    BY <1>1, TabAssumption DEF Capture, TabInv, TabTypeOK, Request
  <2>2. stored' \in SUBSET Request /\ unheard' \in SUBSET Request
    BY <1>1, <2>1 DEF Capture, TabInv, TabTypeOK
  <2>3. UNCHANGED <<items, loading, call, edits, failures>>
    BY <1>1 DEF Capture
  <2> QED BY <2>1, <2>2, <2>3 DEF TabInv, TabTypeOK, EachOnce, Distinct
<1>2. CASE \E r \in Request : LoseMessage(r)
  BY <1>2 DEF LoseMessage, TabInv, TabTypeOK, EachOnce, Distinct
<1>3. CASE \E r \in Request : prepend(r)
  <2>1. PICK r \in Request : prepend(r)
    BY <1>3
  <2>2. Distinct(items)
    BY DEF TabInv, EachOnce
  <2>3. Distinct(items')
    <3>1. CASE r \in Range(items)
      BY <2>1, <2>2, <3>1 DEF prepend
    <3>2. CASE r \notin Range(items)
      <4> DEFINE p == <<r>>
      <4>1. p \in Seq(Request) /\ DOMAIN p = {1} /\ p[1] = r
        OBVIOUS
      <4> HIDE DEF p
      <4>2. Distinct(p) /\ Range(p) \cap Range(items) = {}
        BY <3>2, <4>1 DEF Distinct, IsInjective, Range
      <4>3. items' = p \o items
        BY <2>1, <3>2 DEF prepend, p
      <4> QED BY <2>2, <4>2, <4>3, JoinedDistinct
    <3> QED BY <3>1, <3>2
  <2>4. unheard' \in SUBSET Request /\ UNCHANGED <<stored, captured, loading, call, edits, failures>>
    BY <2>1 DEF prepend, TabInv, TabTypeOK
  <2> QED BY <2>3, <2>4 DEF TabInv, TabTypeOK, EachOnce, Distinct
<1> QED BY <1>1, <1>2, <1>3

LEMMA NextHolds == TabInv /\ [TabNext]_tabVars => TabInv'
<1> SUFFICES ASSUME TabInv, [TabNext]_tabVars PROVE TabInv'
  OBVIOUS
<1>1. CASE Capture \/ (\E r \in Request : LoseMessage(r) \/ prepend(r))
  BY <1>1, MessagesKeep
<1>2. CASE \E c \in Call : catchUp(c) \/ (\E r \in Request : remove(c, r)) \/ clearAll(c)
  BY <1>2, EditsKeep
<1>3. CASE \E c \in Call : Serve(c)
  BY <1>3, ServeKeeps
<1>4. CASE \E c \in Call : Resume(c) \/ Fail(c)
  BY <1>4, ResumeKeeps
<1>5. CASE UNCHANGED tabVars
  BY <1>5 DEF tabVars, TabInv, TabTypeOK, EachOnce, Distinct
<1> QED BY <1>1, <1>2, <1>3, <1>4, <1>5 DEF TabNext

\* Whatever loads, catch-ups, deletions and their failures overlap, no list the
\* tab shows or may roll back to has a request twice.
THEOREM TabInvariance == TabSpec => []TabInv
BY InitHolds, NextHolds, PTL DEF TabSpec

\* The tab's list, its calls in flight and the server's rows keep their types.
THEOREM TabTypeCorrect == TabSpec => []TabTypeOK
BY TabInvariance, PTL DEF TabInv

\* A request is shown once, whichever of load, live message (prepend) and
\* catchUp brings it, and after a rollback of remove or clearAll.
THEOREM ShowsOnce == TabSpec => []ShownOnce
<1>1. TabInv => ShownOnce
  BY DEF TabInv, EachOnce, Distinct, ShownOnce
<1> QED BY <1>1, TabInvariance, PTL
=============================================================================
