-------------------------- MODULE RingBufferProofs --------------------------
(***************************************************************************)
(* What draining a ring buffer returns, for every size and every content,  *)
(* and what pushing and sweeping keep of its order.                        *)
(***************************************************************************)
EXTENDS RingBuffer, ListProofs

-----------------------------------------------------------------------------
(* The order of a buffer.                                                  *)

BufferOf(E) == [msgs : [Index -> E \cup {Blank}], pos : Index, full : BOOLEAN]

\* How many slots come before slot i when all are read from pos, and the slot
\* that comes after so many.
Place(b, i) == IF i >= b.pos THEN i - b.pos ELSE i - b.pos + Size
At(b, p) == IF b.pos + p < Size THEN b.pos + p ELSE b.pos + p - Size

\* The last n slots read.
LastSlots(b, n) == [k \in 1 .. n |-> b.msgs[At(b, Size - n + k - 1)]]

\* Blank slots come before all others.
BlanksFirst(b) ==
  \A i, j \in Index :
    Place(b, i) < Place(b, j) /\ b.msgs[j] = Blank => b.msgs[i] = Blank

\* Until the first wrap, the slots from pos on have not been written.
UnwrittenBlank(b) == ~b.full => \A i \in Index : i >= b.pos => b.msgs[i] = Blank

\* Entries are read oldest first, and none is from the future.
OldestFirst(b, t) ==
  \A i, j \in Index :
    b.msgs[i] # Blank /\ b.msgs[j] # Blank =>
      /\ b.msgs[i].createdAt <= t
      /\ Place(b, i) < Place(b, j) => b.msgs[i].createdAt <= b.msgs[j].createdAt

Orderly(b, t) == BlanksFirst(b) /\ UnwrittenBlank(b) /\ OldestFirst(b, t)

\* At and Place are each other's inverse.
LEMMA PlaceAt ==
  ASSUME NEW b, b.pos \in Index
  PROVE  /\ \A i \in Index : Place(b, i) \in 0 .. Size - 1 /\ At(b, Place(b, i)) = i
         /\ \A p \in 0 .. Size - 1 : At(b, p) \in Index /\ Place(b, At(b, p)) = p
BY SizeAssumption DEF Place, At, Index

\* Adding one modulo Size is adding one, except at the last slot.
LEMMA FollowingIsNext ==
  ASSUME NEW i \in Index
  PROVE  Following(i) = IF i = Size - 1 THEN 0 ELSE i + 1
<1>1. Size \in Nat /\ Size > 0 /\ i \in Nat /\ i < Size
  BY SizeAssumption DEF Index
<1>2. CASE i = Size - 1
  <2>1. Following(i) = Size % Size
    BY <1>1, <1>2 DEF Following
  <2>2. Size % Size = 0
    BY <1>1
  <2> QED BY <1>2, <2>1, <2>2
<1>3. CASE i # Size - 1
  <2>1. i + 1 \in 0 .. Size - 1
    BY <1>1, <1>3
  <2>2. (i + 1) % Size = i + 1
    BY <1>1, <2>1
  <2> QED BY <1>3, <2>2 DEF Following
<1> QED BY <1>2, <1>3

\* A push gives the slot it writes the last place, and all others the one before.
LEMMA PushPlaces ==
  ASSUME NEW E, NEW b \in BufferOf(E), NEW m, NEW t, Entry(m, t) \in E
  PROVE  /\ push(b, m, t) \in BufferOf(E)
         /\ \A i \in Index :
              /\ push(b, m, t).msgs[i] = IF i = b.pos THEN Entry(m, t) ELSE b.msgs[i]
              /\ Place(push(b, m, t), i) = IF i = b.pos THEN Size - 1 ELSE Place(b, i) - 1
         /\ push(b, m, t).pos = Following(b.pos)
         /\ push(b, m, t).full <=> (b.full \/ b.pos = Size - 1)
<1> DEFINE c == push(b, m, t)
<1>1. /\ c.msgs = [b.msgs EXCEPT ![b.pos] = Entry(m, t)]
      /\ c.pos = Following(b.pos)
      /\ c.full = (b.full \/ Following(b.pos) = 0)
      /\ c = [msgs |-> c.msgs, pos |-> c.pos, full |-> c.full]
  BY DEF push
<1>2. /\ b.pos \in Index /\ b.full \in BOOLEAN /\ b.msgs \in [Index -> E \cup {Blank}]
      /\ Size \in Nat /\ Size > 0
  BY SizeAssumption DEF BufferOf
<1> HIDE DEF c
<1>3. c.pos = IF b.pos = Size - 1 THEN 0 ELSE b.pos + 1
  BY <1>1, <1>2, FollowingIsNext
<1>4. c.pos \in Index
  BY <1>2, <1>3 DEF Index
<1>5. c.full <=> (b.full \/ b.pos = Size - 1)
  <2>1. Following(b.pos) = 0 <=> b.pos = Size - 1
    BY <1>1, <1>2, <1>3 DEF Index
  <2> QED BY <1>1, <2>1, Zenon
<1>6. c \in BufferOf(E)
  <2>1. c.msgs \in [Index -> E \cup {Blank}]
    BY <1>1, <1>2
  <2>2. c.full \in BOOLEAN
    BY <1>1, Zenon
  <2> QED BY <1>1, <1>4, <2>1, <2>2 DEF BufferOf
<1>7. ASSUME NEW i \in Index
      PROVE  /\ c.msgs[i] = IF i = b.pos THEN Entry(m, t) ELSE b.msgs[i]
             /\ Place(c, i) = IF i = b.pos THEN Size - 1 ELSE Place(b, i) - 1
  <2>1. c.msgs[i] = IF i = b.pos THEN Entry(m, t) ELSE b.msgs[i]
    BY <1>1, <1>2
  <2>2. Place(c, i) = IF i = b.pos THEN Size - 1 ELSE Place(b, i) - 1
    BY <1>2, <1>3 DEF Place, Index
  <2> QED BY <2>1, <2>2
<1> QED BY <1>1, <1>5, <1>6, <1>7 DEF c

\* A new buffer is in order.
LEMMA NewOrderly ==
  ASSUME NEW E, NEW t
  PROVE  newRingBuffer \in BufferOf(E) /\ Orderly(newRingBuffer, t)
<1>1. 0 \in Index
  BY SizeAssumption DEF Index
<1>2. newRingBuffer \in BufferOf(E) /\ \A i \in Index : newRingBuffer.msgs[i] = Blank
  BY <1>1 DEF newRingBuffer, BufferOf
<1> QED BY <1>2 DEF Orderly, BlanksFirst, UnwrittenBlank, OldestFirst

\* A push at a time no entry is later than keeps the order.
LEMMA PushOrderly ==
  ASSUME NEW E, \A e \in E : e.createdAt \in Int, Blank \notin E,
         NEW b \in BufferOf(E), NEW m, NEW t, Entry(m, t) \in E, Orderly(b, t)
  PROVE  Orderly(push(b, m, t), t)
<1> DEFINE c == push(b, m, t)
<1>1. /\ c \in BufferOf(E)
      /\ \A i \in Index : /\ c.msgs[i] = IF i = b.pos THEN Entry(m, t) ELSE b.msgs[i]
                          /\ Place(c, i) = IF i = b.pos THEN Size - 1 ELSE Place(b, i) - 1
      /\ c.pos = Following(b.pos)
      /\ c.full <=> (b.full \/ b.pos = Size - 1)
  BY PushPlaces
<1> HIDE DEF c
<1>2. /\ b.pos \in Index /\ b.msgs \in [Index -> E \cup {Blank}]
      /\ Entry(m, t) # Blank /\ Entry(m, t).createdAt = t /\ t \in Int
      /\ \A i \in Index : Place(b, i) \in 0 .. Size - 1
  BY PlaceAt DEF BufferOf, Entry
<1>3. BlanksFirst(c)
  <2> SUFFICES ASSUME NEW i \in Index, NEW j \in Index, Place(c, i) < Place(c, j), c.msgs[j] = Blank
               PROVE  c.msgs[i] = Blank
    BY DEF BlanksFirst
  <2>1. j # b.pos /\ b.msgs[j] = Blank
    BY <1>1, <1>2
  <2>2. i # b.pos /\ Place(b, i) < Place(b, j)
    BY <1>1, <1>2, <2>1, SizeAssumption
  <2> QED BY <1>1, <2>1, <2>2 DEF Orderly, BlanksFirst
<1>4. UnwrittenBlank(c)
  <2> SUFFICES ASSUME ~c.full, NEW i \in Index, i >= c.pos PROVE c.msgs[i] = Blank
    BY DEF UnwrittenBlank
  <2>1. ~b.full /\ c.pos = b.pos + 1
    BY <1>1, <1>2, FollowingIsNext
  <2>2. i >= b.pos /\ i # b.pos
    BY <1>2, <2>1 DEF Index
  <2> QED BY <1>1, <2>1, <2>2 DEF Orderly, UnwrittenBlank
<1>5. OldestFirst(c, t)
  <2> SUFFICES ASSUME NEW i \in Index, NEW j \in Index, c.msgs[i] # Blank, c.msgs[j] # Blank
               PROVE  /\ c.msgs[i].createdAt <= t
                      /\ Place(c, i) < Place(c, j) => c.msgs[i].createdAt <= c.msgs[j].createdAt
    BY DEF OldestFirst
  <2>1. \A k \in Index : c.msgs[k] # Blank => c.msgs[k].createdAt <= t
    BY <1>1, <1>2 DEF Orderly, OldestFirst
  <2>2. ASSUME Place(c, i) < Place(c, j) PROVE c.msgs[i].createdAt <= c.msgs[j].createdAt
    <3>1. i # b.pos
      BY <1>1, <1>2, <2>2, SizeAssumption
    <3>2. CASE j = b.pos
      BY <1>1, <1>2, <2>1, <3>2
    <3>3. CASE j # b.pos
      BY <1>1, <1>2, <2>2, <3>1, <3>3 DEF Orderly, OldestFirst
    <3> QED BY <3>2, <3>3
  <2> QED BY <2>1, <2>2
<1> QED BY <1>3, <1>4, <1>5 DEF Orderly, c

\* A sweep blanks what has expired and moves nothing.
LEMMA SweepSlots ==
  ASSUME NEW E, NEW b \in BufferOf(E), NEW t
  PROVE  LET c == sweepExpired(b, t)
         IN  /\ c \in BufferOf(E) /\ c.pos = b.pos /\ c.full = b.full
             /\ \A i \in Index :
                  /\ c.msgs[i] = IF b.msgs[i] # Blank /\ Expired(b.msgs[i], t) THEN Blank ELSE b.msgs[i]
                  /\ Place(c, i) = Place(b, i)
<1> DEFINE swept == [i \in Index |-> IF b.msgs[i] # Blank /\ Expired(b.msgs[i], t) THEN Blank ELSE b.msgs[i]]
<1>1. /\ b.msgs \in [Index -> E \cup {Blank}] /\ b.pos \in Index /\ b.full \in BOOLEAN
      /\ b = [msgs |-> b.msgs, pos |-> b.pos, full |-> b.full]
  BY DEF BufferOf
<1>2. sweepExpired(b, t) = [msgs |-> swept, pos |-> b.pos, full |-> b.full]
  BY <1>1 DEF sweepExpired
<1>3. swept \in [Index -> E \cup {Blank}]
  BY <1>1
<1> QED BY <1>1, <1>2, <1>3 DEF BufferOf, Place

\* A sweep keeps the order: what it clears is the oldest.
LEMMA SweepOrderly ==
  ASSUME NEW E, \A e \in E : e.createdAt \in Int, NEW b \in BufferOf(E),
         NEW t \in Int, NEW now_ \in Int, Orderly(b, now_)
  PROVE  Orderly(sweepExpired(b, t), now_)
<1> DEFINE c == sweepExpired(b, t)
<1>1. /\ c \in BufferOf(E) /\ c.pos = b.pos /\ c.full = b.full
      /\ \A i \in Index :
           /\ c.msgs[i] = IF b.msgs[i] # Blank /\ Expired(b.msgs[i], t) THEN Blank ELSE b.msgs[i]
           /\ Place(c, i) = Place(b, i)
  BY SweepSlots
<1> HIDE DEF c
<1>2. b.msgs \in [Index -> E \cup {Blank}]
  BY DEF BufferOf
<1>3. BlanksFirst(c)
  <2> SUFFICES ASSUME NEW i \in Index, NEW j \in Index, Place(b, i) < Place(b, j), c.msgs[j] = Blank,
                      b.msgs[i] # Blank
               PROVE  Expired(b.msgs[i], t)
    BY <1>1 DEF BlanksFirst
  <2>1. b.msgs[j] # Blank
    BY DEF Orderly, BlanksFirst
  <2>2. Expired(b.msgs[j], t)
    BY <1>1, <2>1
  <2>3. b.msgs[i].createdAt <= b.msgs[j].createdAt
    BY <2>1 DEF Orderly, OldestFirst
  <2>4. b.msgs[i].createdAt \in Int /\ b.msgs[j].createdAt \in Int
    BY <1>2, <2>1
  <2> QED BY <2>2, <2>3, <2>4, TTLAssumption DEF Expired
<1>4. UnwrittenBlank(c)
  BY <1>1 DEF Orderly, UnwrittenBlank
<1>5. OldestFirst(c, now_)
  BY <1>1 DEF Orderly, OldestFirst
<1> QED BY <1>3, <1>4, <1>5 DEF Orderly, c

\* Time only makes entries older.
LEMMA LaterOrderly ==
  ASSUME NEW E, \A e \in E : e.createdAt \in Int, NEW b \in BufferOf(E),
         NEW t \in Int, NEW u \in Int, t <= u, Orderly(b, t)
  PROVE  Orderly(b, u)
<1>1. b.msgs \in [Index -> E \cup {Blank}]
  BY DEF BufferOf
<1> QED BY <1>1 DEF Orderly, OldestFirst

-----------------------------------------------------------------------------
(* Reading the buffer.                                                     *)

\* What is read is the last slots: all of them, or those before pos.
LEMMA ReadIsLast ==
  ASSUME NEW E, NEW b \in BufferOf(E)
  PROVE  LET n == IF b.full THEN Size ELSE b.pos
         IN  /\ n \in 0 .. Size
             /\ readOrder(b) = LastSlots(b, n)
             /\ readOrder(b) \in Seq(E \cup {Blank})
             /\ Len(readOrder(b)) = n
<1> DEFINE n == IF b.full THEN Size ELSE b.pos
<1>1. /\ Size \in Nat /\ Size > 0 /\ b.pos \in Index /\ b.full \in BOOLEAN
      /\ b.msgs \in [Index -> E \cup {Blank}]
  BY SizeAssumption DEF BufferOf
<1>2. n \in 0 .. Size
  BY <1>1 DEF Index
<1>3. \A k \in 1 .. n : At(b, Size - n + k - 1) \in Index
  BY <1>1, <1>2 DEF At, Index
<1>4. readOrder(b) = LastSlots(b, n)
  <2>1. CASE b.full
    <3>1. ASSUME NEW k \in 1 .. Size PROVE (b.pos + k - 1) % Size = At(b, k - 1)
      <4>1. CASE b.pos + k - 1 < Size
        <5>1. b.pos + k - 1 \in 0 .. Size - 1
          BY <1>1, <4>1 DEF Index
        <5> QED BY <1>1, <4>1, <5>1 DEF At
      <4>2. CASE b.pos + k - 1 >= Size
        <5>1. b.pos + k - 1 - Size \in 0 .. Size - 1
          BY <1>1, <4>2 DEF Index
        <5>2. (b.pos + k - 1 - Size) % Size = b.pos + k - 1 - Size
          BY <1>1, <5>1
        <5>3. (b.pos + k - 1 - Size + Size) % Size = (b.pos + k - 1 - Size) % Size
          BY <1>1, <5>1
        <5>4. b.pos + k - 1 - Size + Size = b.pos + k - 1
          BY <1>1 DEF Index
        <5> QED BY <1>1, <4>2, <5>2, <5>3, <5>4 DEF At, Index
      <4> QED BY <1>1, <4>1, <4>2 DEF Index
    <3>2. readOrder(b) = [k \in 1 .. Size |-> b.msgs[(b.pos + k - 1) % Size]] /\ n = Size
      BY <2>1 DEF readOrder
    <3>3. LastSlots(b, n) = [k \in 1 .. Size |-> b.msgs[At(b, k - 1)]]
      <4>1. \A k \in 1 .. Size : Size - Size + k - 1 = k - 1
        BY <1>1
      <4> QED BY <3>2, <4>1 DEF LastSlots
    <3> QED BY <3>1, <3>2, <3>3
  <2>2. CASE ~b.full
    <3>1. readOrder(b) = [k \in 1 .. b.pos |-> b.msgs[k - 1]] /\ n = b.pos
      BY <2>2 DEF readOrder
    <3>2. \A k \in 1 .. b.pos : At(b, Size - b.pos + k - 1) = k - 1
      BY <1>1 DEF At, Index
    <3> QED BY <3>1, <3>2 DEF LastSlots
  <2> QED BY <2>1, <2>2
<1>5. LastSlots(b, n) \in Seq(E \cup {Blank}) /\ Len(LastSlots(b, n)) = n
  BY <1>1, <1>2, <1>3 DEF LastSlots
<1> QED BY <1>2, <1>4, <1>5

\* If the slots that are left out, G, come first, what remains is the last ones.
LEMMA RestIsLast ==
  ASSUME NEW E, NEW b \in BufferOf(E), UnwrittenBlank(b), NEW X, NEW G \in SUBSET Index,
         \A i \in Index : b.msgs[i] = Blank => i \in G,
         \A i, j \in Index : Place(b, i) < Place(b, j) /\ j \in G => i \in G,
         \A k \in 1 .. Len(readOrder(b)) : \A i \in Index :
           readOrder(b)[k] = b.msgs[i] => (readOrder(b)[k] \in X <=> i \in G)
  PROVE  \E n \in 0 .. Size :
           /\ Without(readOrder(b), X) = LastSlots(b, n)
           /\ \A p \in 0 .. Size - 1 : At(b, p) \in G <=> p < Size - n
<1> DEFINE R == readOrder(b)
           L == IF b.full THEN Size ELSE b.pos
           T == {n \in Nat : n <= L /\ \A p \in 0 .. Size - 1 : p < Size - n => At(b, p) \in G}
<1>1. /\ L \in 0 .. Size /\ R = LastSlots(b, L) /\ R \in Seq(E \cup {Blank}) /\ Len(R) = L
      /\ Size \in Nat /\ Size > 0 /\ b.pos \in Index /\ b.full \in BOOLEAN
  <2>1. /\ L \in 0 .. Size /\ R = LastSlots(b, L) /\ R \in Seq(E \cup {Blank}) /\ Len(R) = L
    BY ReadIsLast
  <2> QED BY <2>1, SizeAssumption DEF BufferOf
<1>2. \A p \in 0 .. Size - 1 : At(b, p) \in Index /\ Place(b, At(b, p)) = p
  BY <1>1, PlaceAt
<1>3. L \in T
  <2> SUFFICES ASSUME NEW p \in 0 .. Size - 1, p < Size - L PROVE At(b, p) \in G
    BY <1>1
  <2>1. ~b.full /\ At(b, p) >= b.pos
    BY <1>1 DEF At, Index
  <2> QED BY <1>2, <2>1 DEF UnwrittenBlank
<1> HIDE DEF L, R
<1>4. PICK n \in T : \A m \in T : n <= m
  <2>1. T \in SUBSET Nat
    OBVIOUS
  <2> HIDE DEF T
  <2> QED BY <1>3, <2>1, Least
<1>5. n \in Nat /\ n <= L /\ n \in 0 .. Size
  BY <1>1
<1>6. ASSUME NEW p \in 0 .. Size - 1 PROVE At(b, p) \in G <=> p < Size - n
  <2>1. ASSUME p >= Size - n, At(b, p) \in G PROVE FALSE
    <3>1. \A q \in 0 .. Size - 1 : q < p => At(b, q) \in G
      BY <1>2, <2>1
    <3>2. \A q \in 0 .. Size - 1 : q < Size - (Size - 1 - p) => At(b, q) \in G
      BY <1>1, <2>1, <3>1
    <3>3. Size - 1 - p \in Nat /\ Size - 1 - p < n /\ Size - 1 - p <= L
      BY <1>1, <1>5, <2>1
    <3>4. Size - 1 - p \in T
      BY <3>2, <3>3
    <3> HIDE DEF T
    <3> QED BY <1>1, <1>4, <1>5, <3>3, <3>4
  <2> QED BY <1>1, <1>4, <1>5, <2>1
<1> DEFINE cut == L - n
<1>7. \A k \in 1 .. L : /\ Size - L + k - 1 \in 0 .. Size - 1
                        /\ R[k] = b.msgs[At(b, Size - L + k - 1)]
  BY <1>1 DEF LastSlots
<1>8. \A k \in 1 .. L : R[k] \in X <=> At(b, Size - L + k - 1) \in G
  BY <1>1, <1>2, <1>7 DEF R
<1>9. \A k \in 1 .. L : R[k] \in X <=> k <= cut
  BY <1>1, <1>5, <1>6, <1>7, <1>8
<1>10. Without(R, X) = SubSeq(R, cut + 1, L)
  <2>1. cut \in 0 .. Len(R)
    BY <1>1, <1>5
  <2>2. \A k \in 1 .. cut : R[k] \in X
    BY <1>1, <1>5, <1>9
  <2>3. \A k \in cut + 1 .. Len(R) : R[k] \notin X
    BY <1>1, <1>5, <1>9
  <2> HIDE DEF cut
  <2> QED BY <1>1, <2>1, <2>2, <2>3, WithoutPrefix
<1>11. SubSeq(R, cut + 1, L) = LastSlots(b, n)
  <2>1. /\ SubSeq(R, cut + 1, L) \in Seq(E \cup {Blank})
        /\ Len(SubSeq(R, cut + 1, L)) = n
        /\ \A k \in 1 .. n : SubSeq(R, cut + 1, L)[k] = R[cut + k]
    BY <1>1, <1>5, SubSeqProperties
  <2>2. SubSeq(R, cut + 1, L) = [k \in 1 .. n |-> R[cut + k]]
    BY <2>1, LenProperties
  <2>3. \A k \in 1 .. n : R[cut + k] = b.msgs[At(b, Size - n + k - 1)]
    <3> TAKE k \in 1 .. n
    <3>1. cut + k \in 1 .. L /\ Size - L + (cut + k) - 1 = Size - n + k - 1
      BY <1>1, <1>5
    <3> QED BY <1>7, <3>1
  <2> QED BY <2>2, <2>3 DEF LastSlots
<1> QED BY <1>5, <1>6, <1>10, <1>11 DEF R

\* Blank, or too old to be replayed at time t.
Gone(b, i, t) == b.msgs[i] = Blank \/ Expired(b.msgs[i], t)

\* What drain returns is the last slots, and those are the ones with a message.
LEMMA DrainIsLast ==
  ASSUME NEW E, Blank \notin E, NEW b \in BufferOf(E), UnwrittenBlank(b), BlanksFirst(b)
  PROVE  \E n \in 0 .. Size :
           /\ drain(b) = LastSlots(b, n)
           /\ \A p \in 0 .. Size - 1 : b.msgs[At(b, p)] = Blank <=> p < Size - n
<1> DEFINE G == {i \in Index : b.msgs[i] = Blank}
<1>1. \A i, j \in Index : Place(b, i) < Place(b, j) /\ j \in G => i \in G
  BY DEF BlanksFirst
<1>2. \A i \in Index : b.msgs[i] = Blank => i \in G
  OBVIOUS
<1>3. \A k \in 1 .. Len(readOrder(b)) : \A i \in Index :
        readOrder(b)[k] = b.msgs[i] => (readOrder(b)[k] \in {Blank} <=> i \in G)
  OBVIOUS
<1>4. G \in SUBSET Index
  OBVIOUS
<1> HIDE DEF G
<1>5. PICK n \in 0 .. Size :
        /\ Without(readOrder(b), {Blank}) = LastSlots(b, n)
        /\ \A p \in 0 .. Size - 1 : At(b, p) \in G <=> p < Size - n
  BY <1>1, <1>2, <1>3, <1>4, RestIsLast
<1>6. b.pos \in Index
  BY DEF BufferOf
<1>7. \A p \in 0 .. Size - 1 : At(b, p) \in Index
  BY <1>6, PlaceAt
<1> QED BY <1>5, <1>7 DEF drain, G

\* What is left of it without what has expired.
Unexpired(b, t) ==
  LET slots == readOrder(b)
  IN  Without(slots, {e \in Range(slots) : e = Blank \/ Expired(e, t)})

\* That, too, is the last slots.
LEMMA UnexpiredIsLast ==
  ASSUME NEW E, \A e \in E : e.createdAt \in Int, NEW b \in BufferOf(E),
         NEW t \in Int, NEW u, Orderly(b, u)
  PROVE  \E n \in 0 .. Size :
           /\ Unexpired(b, t) = LastSlots(b, n)
           /\ \A p \in 0 .. Size - 1 : Gone(b, At(b, p), t) <=> p < Size - n
<1> DEFINE R == readOrder(b)
           X == {e \in Range(R) : e = Blank \/ Expired(e, t)}
           G == {i \in Index : Gone(b, i, t)}
<1>1. b.msgs \in [Index -> E \cup {Blank}] /\ b.pos \in Index
  BY DEF BufferOf
<1>2. ASSUME NEW i \in Index, NEW j \in Index, Place(b, i) < Place(b, j), j \in G
      PROVE  i \in G
  <2>1. CASE b.msgs[i] = Blank
    BY <2>1 DEF Gone
  <2>2. CASE b.msgs[i] # Blank
    <3>1. b.msgs[j] # Blank
      BY <1>2, <2>2 DEF Orderly, BlanksFirst
    <3>2. b.msgs[i].createdAt <= b.msgs[j].createdAt
      BY <1>2, <2>2, <3>1 DEF Orderly, OldestFirst
    <3>3. b.msgs[i].createdAt \in Int /\ b.msgs[j].createdAt \in Int
      BY <1>1, <2>2, <3>1
    <3>4. Expired(b.msgs[j], t)
      BY <1>2, <3>1 DEF Gone
    <3> QED BY <3>2, <3>3, <3>4, TTLAssumption DEF Expired, Gone
  <2> QED BY <2>1, <2>2
<1>3. \A i \in Index : b.msgs[i] = Blank => i \in G
  BY DEF Gone
<1>4. \A k \in 1 .. Len(R) : R[k] \in Range(R)
  <2>1. R \in Seq(E \cup {Blank})
    BY ReadIsLast
  <2> HIDE DEF R
  <2>2. DOMAIN R = 1 .. Len(R)
    BY <2>1, LenProperties
  <2> QED BY <2>2 DEF Range
<1>5. \A k \in 1 .. Len(R) : \A i \in Index : R[k] = b.msgs[i] => (R[k] \in X <=> i \in G)
  BY <1>4 DEF Gone
<1>6. G \in SUBSET Index /\ UnwrittenBlank(b)
  BY DEF Orderly
<1> HIDE DEF G, X
<1>7. PICK n \in 0 .. Size :
        /\ Without(R, X) = LastSlots(b, n)
        /\ \A p \in 0 .. Size - 1 : At(b, p) \in G <=> p < Size - n
  BY <1>2, <1>3, <1>5, <1>6, RestIsLast
<1>8. \A p \in 0 .. Size - 1 : At(b, p) \in Index
  BY <1>1, PlaceAt
<1>9. Unexpired(b, t) = Without(R, X)
  BY DEF Unexpired, X
<1> QED BY <1>7, <1>8, <1>9 DEF G

\* How many slots remain is determined by which are gone.
LEMMA CountIsUnique ==
  ASSUME NEW G, NEW m \in 0 .. Size, NEW n \in 0 .. Size,
         \A p \in 0 .. Size - 1 : p \in G <=> p < Size - m,
         \A p \in 0 .. Size - 1 : p \in G <=> p < Size - n
  PROVE  m = n
<1>1. Size \in Nat
  BY SizeAssumption
<1>2. CASE m < n
  <2>1. Size - n \in 0 .. Size - 1
    BY <1>1, <1>2
  <2>2. Size - n < Size - m /\ ~(Size - n < Size - n)
    BY <1>1, <1>2
  <2> QED BY <2>1, <2>2
<1>3. CASE n < m
  <2>1. Size - m \in 0 .. Size - 1
    BY <1>1, <1>3
  <2>2. Size - m < Size - n /\ ~(Size - m < Size - m)
    BY <1>1, <1>3
  <2> QED BY <2>1, <2>2
<1> QED BY <1>1, <1>2, <1>3

\* The slots of a push, by their places.
LEMMA PushShifts ==
  ASSUME NEW E, NEW b \in BufferOf(E), NEW m, NEW t, Entry(m, t) \in E
  PROVE  \A p \in 0 .. Size - 1 :
           push(b, m, t).msgs[At(push(b, m, t), p)] =
             IF p = Size - 1 THEN Entry(m, t) ELSE b.msgs[At(b, p + 1)]
<1> DEFINE c == push(b, m, t)
<1>1. /\ c \in BufferOf(E)
      /\ \A i \in Index :
              /\ c.msgs[i] = IF i = b.pos THEN Entry(m, t) ELSE b.msgs[i]
              /\ Place(c, i) = IF i = b.pos THEN Size - 1 ELSE Place(b, i) - 1
  BY PushPlaces
<1> HIDE DEF c
<1>2. c.pos \in Index /\ b.pos \in Index /\ Size \in Nat
  BY <1>1, SizeAssumption DEF BufferOf
<1>3. ASSUME NEW p \in 0 .. Size - 1
      PROVE  c.msgs[At(c, p)] = IF p = Size - 1 THEN Entry(m, t) ELSE b.msgs[At(b, p + 1)]
  <2>1. At(c, p) \in Index /\ Place(c, At(c, p)) = p
    BY <1>2, PlaceAt
  <2>2. CASE p = Size - 1
    <3>1. Place(b, At(c, p)) \in 0 .. Size - 1
      BY <1>2, <2>1, PlaceAt
    <3>2. At(c, p) = b.pos
      BY <1>1, <1>2, <2>1, <2>2, <3>1
    <3>3. c.msgs[At(c, p)] = Entry(m, t)
      BY <1>1, <1>2, <3>2
    <3> QED BY <2>2, <3>3
  <2>3. CASE p # Size - 1
    <3>1. At(c, p) # b.pos /\ Place(b, At(c, p)) = p + 1
      <4>1. Place(b, At(c, p)) \in 0 .. Size - 1
        BY <1>2, <2>1, PlaceAt
      <4> QED BY <1>1, <1>2, <2>1, <2>3, <4>1
    <3>2. At(b, p + 1) = At(c, p)
      BY <1>2, <2>1, <3>1, PlaceAt
    <3>3. c.msgs[At(c, p)] = b.msgs[At(c, p)]
      BY <1>1, <2>1, <3>1
    <3> QED BY <2>3, <3>2, <3>3
  <2> QED BY <2>2, <2>3
<1> QED BY <1>3 DEF c

-----------------------------------------------------------------------------
(* The buffer as a log of its last entries that have not expired.          *)

\* The last slots are a sequence of entries, if none of them is blank.
LEMMA LastSlotsInSeq ==
  ASSUME NEW E, NEW b \in BufferOf(E), NEW n \in 0 .. Size,
         \A p \in Size - n .. Size - 1 : b.msgs[At(b, p)] # Blank
  PROVE  LastSlots(b, n) \in Seq(E) /\ Len(LastSlots(b, n)) = n
<1>1. b.msgs \in [Index -> E \cup {Blank}] /\ b.pos \in Index /\ Size \in Nat
  BY SizeAssumption DEF BufferOf
<1>2. \A k \in 1 .. n : /\ Size - n + k - 1 \in 0 .. Size - 1
                        /\ Size - n + k - 1 \in Size - n .. Size - 1
  BY <1>1
<1>3. \A k \in 1 .. n : b.msgs[At(b, Size - n + k - 1)] \in E
  BY <1>1, <1>2, PlaceAt
<1> QED BY <1>1, <1>3 DEF LastSlots

\* A new buffer has nothing to replay.
LEMMA UnexpiredNew == ASSUME NEW t \in Int PROVE Unexpired(newRingBuffer, t) = <<>>
<1> DEFINE E == [msg : {}, createdAt : Int]
<1>1. newRingBuffer \in BufferOf(E) /\ Orderly(newRingBuffer, t)
  BY NewOrderly
<1>2. \A e \in E : e.createdAt \in Int
  OBVIOUS
<1> HIDE DEF E
<1>3. PICK n \in 0 .. Size :
        /\ Unexpired(newRingBuffer, t) = LastSlots(newRingBuffer, n)
        /\ \A p \in 0 .. Size - 1 : Gone(newRingBuffer, At(newRingBuffer, p), t) <=> p < Size - n
  BY <1>1, <1>2, UnexpiredIsLast
<1>4. newRingBuffer.pos \in Index
  BY <1>1 DEF BufferOf
<1>5. \A p \in 0 .. Size - 1 : Gone(newRingBuffer, At(newRingBuffer, p), t)
  BY <1>4, PlaceAt DEF Gone, newRingBuffer
<1>6. n = 0
  <2>1. Size - 1 \in 0 .. Size - 1
    BY SizeAssumption
  <2> QED BY <1>3, <1>5, <2>1, SizeAssumption
<1> QED BY <1>3, <1>6 DEF LastSlots

\* A push adds its entry, and takes the oldest out of a full log.
LEMMA UnexpiredPush ==
  ASSUME NEW E, \A e \in E : e.createdAt \in Int, Blank \notin E,
         NEW b \in BufferOf(E), NEW m, NEW t \in Int, Entry(m, t) \in E, Orderly(b, t)
  PROVE  LET longer == Append(Unexpired(b, t), Entry(m, t))
         IN  Unexpired(push(b, m, t), t) =
               IF Len(longer) > Size THEN SubSeq(longer, Len(longer) - Size + 1, Len(longer))
                                     ELSE longer
<1> DEFINE c == push(b, m, t)
           e == Entry(m, t)
           log == Unexpired(b, t)
           longer == Append(log, e)
<1>1. PICK n \in 0 .. Size :
        /\ log = LastSlots(b, n)
        /\ \A p \in 0 .. Size - 1 : Gone(b, At(b, p), t) <=> p < Size - n
  BY UnexpiredIsLast
<1>2. c \in BufferOf(E) /\ Orderly(c, t)
  BY PushPlaces, PushOrderly
<1>3. \A p \in 0 .. Size - 1 :
        c.msgs[At(c, p)] = IF p = Size - 1 THEN e ELSE b.msgs[At(b, p + 1)]
  BY PushShifts
<1>4. PICK k \in 0 .. Size :
        /\ Unexpired(c, t) = LastSlots(c, k)
        /\ \A p \in 0 .. Size - 1 : Gone(c, At(c, p), t) <=> p < Size - k
  BY <1>2, UnexpiredIsLast
<1> HIDE DEF c, log
<1>5. e # Blank /\ e.createdAt = t /\ Size \in Nat /\ Size > 0
  BY SizeAssumption DEF Entry
<1> HIDE DEF e
<1>6. k = IF n < Size THEN n + 1 ELSE Size
  <2> DEFINE k2 == IF n < Size THEN n + 1 ELSE Size
             G == {p \in 0 .. Size - 1 : Gone(c, At(c, p), t)}
  <2>1. ~Gone(c, At(c, Size - 1), t)
    <3>1. c.msgs[At(c, Size - 1)] = e
      BY <1>3, <1>5
    <3> QED BY <1>5, <3>1, TTLAssumption DEF Gone, Expired
  <2>2. ASSUME NEW p \in 0 .. Size - 2 PROVE Gone(c, At(c, p), t) <=> Gone(b, At(b, p + 1), t)
    BY <1>3, <1>5 DEF Gone
  <2>3. ASSUME NEW p \in 0 .. Size - 1 PROVE p \in G <=> p < Size - k2
    <3>1. CASE p = Size - 1
      BY <1>5, <2>1, <3>1
    <3>2. CASE p # Size - 1
      <4>1. p \in 0 .. Size - 2 /\ p + 1 \in 0 .. Size - 1
        BY <1>5, <3>2
      <4>2. p \in G <=> p + 1 < Size - n
        BY <1>1, <2>2, <4>1
      <4> QED BY <1>5, <4>1, <4>2
    <3> QED BY <3>1, <3>2
  <2>4. \A p \in 0 .. Size - 1 : p \in G <=> p < Size - k
    BY <1>4
  <2>5. k2 \in 0 .. Size
    BY <1>5
  <2> HIDE DEF G, k2
  <2>6. k = k2
    BY <2>3, <2>4, <2>5, CountIsUnique
  <2> QED BY <2>6 DEF k2
<1>7. log \in Seq(E) /\ Len(log) = n
  <2>1. \A p \in Size - n .. Size - 1 : b.msgs[At(b, p)] # Blank
    BY <1>1, <1>5 DEF Gone
  <2> QED BY <1>1, <2>1, LastSlotsInSeq
<1>8. /\ longer \in Seq(E) /\ Len(longer) = n + 1 /\ longer[n + 1] = e
      /\ \A j \in 1 .. n : longer[j] = log[j]
  BY <1>7, AppendProperties DEF e
<1>9. \A j \in 1 .. n : log[j] = b.msgs[At(b, Size - n + j - 1)]
  BY <1>1 DEF LastSlots
<1>10. ASSUME NEW j \in 1 .. k PROVE LastSlots(c, k)[j] = longer[n + 1 - k + j]
  <2>1. LastSlots(c, k)[j] = c.msgs[At(c, Size - k + j - 1)] /\ Size - k + j - 1 \in 0 .. Size - 1
    BY <1>5 DEF LastSlots
  <2>2. CASE j = k
    <3>1. Size - k + j - 1 = Size - 1 /\ n + 1 - k + j = n + 1
      BY <1>5, <2>2
    <3> QED BY <1>3, <1>8, <2>1, <3>1
  <2>3. CASE j # k
    <3>1. n + 1 - k + j \in 1 .. n
      BY <1>5, <1>6, <2>3
    <3>2. Size - k + j - 1 # Size - 1 /\ Size - k + j - 1 + 1 = Size - n + (n + 1 - k + j) - 1
      BY <1>5, <2>3
    <3>3. c.msgs[At(c, Size - k + j - 1)] = b.msgs[At(b, Size - k + j - 1 + 1)]
      BY <1>3, <2>1, <3>2
    <3> QED BY <1>8, <1>9, <2>1, <3>1, <3>2, <3>3
  <2> QED BY <2>2, <2>3
<1>11. LastSlots(c, k) \in Seq(E) /\ Len(LastSlots(c, k)) = k
  <2>1. \A p \in Size - k .. Size - 1 : c.msgs[At(c, p)] # Blank
    BY <1>4, <1>5 DEF Gone
  <2> QED BY <1>2, <2>1, LastSlotsInSeq
<1> HIDE DEF longer
<1>12. CASE n < Size
  <2>1. LastSlots(c, k) = longer
    BY <1>5, <1>6, <1>8, <1>10, <1>11, <1>12, SeqEqual
  <2> QED BY <1>4, <1>5, <1>8, <1>12, <2>1 DEF longer, log, c, e
<1>13. CASE n = Size
  <2> DEFINE newest == SubSeq(longer, Len(longer) - Size + 1, Len(longer))
  <2>1. /\ newest \in Seq(E) /\ Len(newest) = Size
        /\ \A j \in 1 .. Size : newest[j] = longer[1 + j]
    <3>1. Len(longer) - Size + 1 = 2 /\ Len(longer) = Size + 1
      BY <1>5, <1>8, <1>13
    <3>2. \A i \in 2 .. Size + 1 : longer[i] \in E
      BY <1>5, <1>8, <3>1, ElementOfSeq
    <3> QED BY <1>5, <3>1, <3>2, SubSeqProperties
  <2> HIDE DEF newest
  <2>2. LastSlots(c, k) = newest
    BY <1>5, <1>6, <1>10, <1>11, <1>13, <2>1, SeqEqual
  <2>3. Unexpired(c, t) = newest /\ Len(longer) > Size
    BY <1>4, <1>5, <1>8, <1>13, <2>2
  <2> QED BY <2>3, Zenon DEF longer, log, c, e, newest
<1> QED BY <1>5, <1>12, <1>13

\* What a sweep clears was no longer in the log.
LEMMA UnexpiredSweep ==
  ASSUME NEW E, \A e \in E : e.createdAt \in Int, Blank \notin E,
         NEW b \in BufferOf(E), NEW t \in Int, Orderly(b, t)
  PROVE  /\ Unexpired(sweepExpired(b, t), t) = Unexpired(b, t)
         /\ IsEmpty(sweepExpired(b, t)) => Unexpired(b, t) = <<>>
<1> DEFINE c == sweepExpired(b, t)
<1>1. /\ c \in BufferOf(E) /\ c.pos = b.pos
      /\ \A i \in Index : c.msgs[i] = IF b.msgs[i] # Blank /\ Expired(b.msgs[i], t) THEN Blank ELSE b.msgs[i]
  BY SweepSlots
<1>2. Orderly(c, t)
  BY SweepOrderly
<1>3. PICK n \in 0 .. Size :
        /\ Unexpired(b, t) = LastSlots(b, n)
        /\ \A p \in 0 .. Size - 1 : Gone(b, At(b, p), t) <=> p < Size - n
  BY UnexpiredIsLast
<1> HIDE DEF c
<1>4. PICK k \in 0 .. Size :
        /\ Unexpired(c, t) = LastSlots(c, k)
        /\ \A p \in 0 .. Size - 1 : Gone(c, At(c, p), t) <=> p < Size - k
  BY <1>1, <1>2, UnexpiredIsLast
<1>5. Size \in Nat /\ Size > 0 /\ b.pos \in Index
  BY SizeAssumption DEF BufferOf
<1>6. \A p \in 0 .. Size - 1 : At(c, p) = At(b, p) /\ At(b, p) \in Index
  BY <1>1, <1>5, PlaceAt DEF At
<1>7. \A i \in Index : Gone(c, i, t) <=> Gone(b, i, t)
  BY <1>1 DEF Gone
<1>8. k = n
  <2> DEFINE G == {p \in 0 .. Size - 1 : Gone(b, At(b, p), t)}
  <2>1. \A p \in 0 .. Size - 1 : p \in G <=> p < Size - n
    BY <1>3
  <2>2. \A p \in 0 .. Size - 1 : p \in G <=> p < Size - k
    BY <1>4, <1>6, <1>7
  <2> HIDE DEF G
  <2> QED BY <2>1, <2>2, CountIsUnique
<1>9. LastSlots(c, n) = LastSlots(b, n)
  <2>1. ASSUME NEW j \in 1 .. n PROVE c.msgs[At(c, Size - n + j - 1)] = b.msgs[At(b, Size - n + j - 1)]
    <3> DEFINE p == Size - n + j - 1
    <3>1. p \in 0 .. Size - 1 /\ ~(p < Size - n)
      BY <1>5
    <3> HIDE DEF p
    <3>2. ~Gone(b, At(b, p), t)
      BY <1>3, <3>1
    <3>3. c.msgs[At(c, p)] = b.msgs[At(b, p)]
      BY <1>1, <1>6, <3>1, <3>2 DEF Gone
    <3> QED BY <3>3 DEF p
  <2> QED BY <2>1 DEF LastSlots
<1>10. ASSUME IsEmpty(c) PROVE Unexpired(b, t) = <<>>
  <2>1. \A p \in 0 .. Size - 1 : Gone(b, At(b, p), t)
    BY <1>6, <1>7, <1>10 DEF IsEmpty, Gone
  <2>2. n = 0
    <3>1. Size - 1 \in 0 .. Size - 1
      BY <1>5
    <3> QED BY <1>3, <1>5, <2>1, <3>1
  <2> QED BY <1>3, <2>2 DEF LastSlots
<1> QED BY <1>3, <1>4, <1>8, <1>9, <1>10 DEF c

\* What is left later is left of what is left now.
LEMMA UnexpiredLater ==
  ASSUME NEW E, \A e \in E : e.createdAt \in Int, Blank \notin E,
         NEW b \in BufferOf(E), NEW t \in Int, NEW u \in Int, t <= u, Orderly(b, t)
  PROVE  LET log == Unexpired(b, t)
         IN  Unexpired(b, u) = Without(log, {e \in Range(log) : Expired(e, u)})
<1> DEFINE log == Unexpired(b, t)
           X == {e \in Range(log) : Expired(e, u)}
<1>1. PICK n \in 0 .. Size :
        /\ log = LastSlots(b, n)
        /\ \A p \in 0 .. Size - 1 : Gone(b, At(b, p), t) <=> p < Size - n
  BY UnexpiredIsLast
<1>2. PICK k \in 0 .. Size :
        /\ Unexpired(b, u) = LastSlots(b, k)
        /\ \A p \in 0 .. Size - 1 : Gone(b, At(b, p), u) <=> p < Size - k
  BY UnexpiredIsLast
<1> HIDE DEF log
<1>3. /\ Size \in Nat /\ Size > 0 /\ b.pos \in Index /\ b.msgs \in [Index -> E \cup {Blank}]
      /\ \A p \in 0 .. Size - 1 : At(b, p) \in Index
  BY SizeAssumption, PlaceAt DEF BufferOf
<1>4. log \in Seq(E) /\ Len(log) = n
  <2>1. \A p \in Size - n .. Size - 1 : b.msgs[At(b, p)] # Blank
    BY <1>1, <1>3 DEF Gone
  <2> QED BY <1>1, <2>1, LastSlotsInSeq
<1>5. k <= n
  <2> SUFFICES ASSUME n < k PROVE FALSE
    BY <1>3
  <2>1. Size - k \in 0 .. Size - 1 /\ Size - k < Size - n /\ ~(Size - k < Size - k)
    BY <1>3
  <2>2. Gone(b, At(b, Size - k), t) /\ ~Gone(b, At(b, Size - k), u)
    BY <1>1, <1>2, <2>1
  <2>3. b.msgs[At(b, Size - k)] \in E
    BY <1>3, <2>1, <2>2 DEF Gone
  <2> QED BY <2>2, <2>3, TTLAssumption DEF Gone, Expired
<1>6. ASSUME NEW j \in 1 .. n
      PROVE  /\ log[j] = b.msgs[At(b, Size - n + j - 1)]
             /\ log[j] \in X <=> j <= n - k
  <2> DEFINE p == Size - n + j - 1
  <2>1. p \in 0 .. Size - 1 /\ ~(p < Size - n) /\ (p < Size - k <=> j <= n - k)
    BY <1>3, <1>5
  <2>2. log[j] = b.msgs[At(b, p)]
    BY <1>1 DEF LastSlots
  <2> HIDE DEF p
  <2>3. log[j] \in Range(log)
    BY <1>4 DEF Range
  <2>4. Expired(log[j], u) <=> p < Size - k
    <3>1. ~Gone(b, At(b, p), t)
      BY <1>1, <2>1
    <3>2. Gone(b, At(b, p), u) <=> p < Size - k
      BY <1>2, <2>1
    <3> QED BY <2>2, <3>1, <3>2 DEF Gone
  <2> QED BY <2>1, <2>2, <2>3, <2>4 DEF p
<1> HIDE DEF X
<1> DEFINE cut == n - k
<1>7. Without(log, X) = SubSeq(log, cut + 1, n)
  <2>1. /\ cut \in 0 .. Len(log)
        /\ \A j \in 1 .. cut : log[j] \in X
        /\ \A j \in cut + 1 .. Len(log) : log[j] \notin X
    BY <1>3, <1>4, <1>5, <1>6
  <2> HIDE DEF cut
  <2> QED BY <1>4, <2>1, WithoutPrefix
<1>8. SubSeq(log, cut + 1, n) = LastSlots(b, k)
  <2>1. /\ SubSeq(log, cut + 1, n) \in Seq(E)
        /\ Len(SubSeq(log, cut + 1, n)) = k
        /\ \A j \in 1 .. k : SubSeq(log, cut + 1, n)[j] = log[cut + j]
    BY <1>3, <1>4, <1>5, SubSeqProperties
  <2>2. SubSeq(log, cut + 1, n) = [j \in 1 .. k |-> log[cut + j]]
    BY <2>1, LenProperties
  <2>3. \A j \in 1 .. k : log[cut + j] = b.msgs[At(b, Size - k + j - 1)]
    <3> TAKE j \in 1 .. k
    <3>1. cut + j \in 1 .. n /\ Size - n + (cut + j) - 1 = Size - k + j - 1
      BY <1>3, <1>5
    <3> QED BY <1>6, <3>1
  <2> QED BY <2>2, <2>3 DEF LastSlots
<1> QED BY <1>2, <1>7, <1>8 DEF log, X
=============================================================================
