---------------------------- MODULE PartsProofs ----------------------------
(***************************************************************************)
(* Proofs about the components that share no state with others and that    *)
(* MCParts runs side by side.                                              *)
(*                                                                         *)
(* ReplayBuffer, for every Size, TTL, set of messages and bound: the       *)
(* buffer's slots mirror the push history through every wrap and sweep, an *)
(* entry goes missing only by expiry or overwriting, and what drain        *)
(* returns is the end of the history.                                      *)
(*                                                                         *)
(* ClientAddress and RateLimiter, which decide whether a request gets to   *)
(* the capture handler and as whose.  SenderKnown, for any networks and    *)
(* any number of proxies, needs to know what the last entries of           *)
(* X-Forwarded-For are: Relayed says that they mirror the path.            *)
(* WithinRate, for any clients, rate, burst, clock and bounds with a       *)
(* bucket that is full again before it is forgotten, also holds for a      *)
(* client that is forgotten and known again.  It is not inductive: it says *)
(* nothing of what a bucket still holds.  Within keeps, for each client,   *)
(* tokens and granted requests together under what the bucket can have     *)
(* held.                                                                   *)
(*                                                                         *)
(* Signature: ResignedWasSigned and ResignedVerifies, for any bodies, ids, *)
(* configurations and clock.  A request under way is Genuine, whoever sent *)
(* it, and what goes out is SignedAgain, whatever a script made of the     *)
(* headers.                                                                *)
(*                                                                         *)
(* Forwarder: AttemptsExplained, for any number of forwards and retries    *)
(* and any addresses.  Every action is about one forward, so the invariant *)
(* is a predicate of that forward's values.  What has to be added to       *)
(* AttemptsExplained is what holds before a forward returns: that an       *)
(* attempt is left, and that the target has not settled it by its answer.  *)
(*                                                                         *)
(* ScriptPool, for any number of calls and any pool size: the bound on the *)
(* runtimes, that a script starts in a clean one, and that only late calls *)
(* leave runtimes behind.                                                  *)
(***************************************************************************)
EXTENDS ReplayBuffer, ClientAddress, RateLimiter, Signature, Forwarder, ScriptPool, RingBufferProofs

-----------------------------------------------------------------------------
(* ReplayBuffer.                                                             *)

Slot == [msg : Message, createdAt : Nat] \cup {Blank}

\* A fresh buffer satisfies the invariant: no slot is written yet.
LEMMA InitIInv == Init => IInv
<1> SUFFICES ASSUME Init PROVE IInv
  OBVIOUS
<1>1. 0 \in Index /\ Size > 0
  BY SizeAssumption DEF Index
<1>2. TypeOK
  BY <1>1 DEF Init, TypeOK, newRingBuffer
<1>3. \A i \in Index : PushNumber(i) \notin 1 .. Len(pushed)
  BY <1>1 DEF Init, PushNumber, Rank, newRingBuffer
<1>4. FullCountsPushes /\ SlotsMirrorHistory /\ BlankOnlyWhenExpired
  BY <1>3 DEF Init, FullCountsPushes, SlotsMirrorHistory, BlankOnlyWhenExpired,
              newRingBuffer
<1> QED BY <1>2, <1>4 DEF IInv

\* A push renumbers nothing: every slot but the one it writes keeps its push
\* number, and the slot it writes gets the number of the new push.
LEMMA PushKeepsNumbers ==
  ASSUME IInv, NEW m \in Message, Push(m), NEW i \in Index
  PROVE  PushNumber(i)' = IF i = rb.pos THEN Len(pushed) + 1 ELSE PushNumber(i)
<1>1. /\ Size \in Nat /\ Size > 0 /\ rb.pos \in Nat /\ rb.pos < Size
      /\ i \in Nat /\ i < Size
      /\ Len(pushed) \in Nat /\ Len(pushed') = Len(pushed) + 1
  BY SizeAssumption DEF IInv, TypeOK, Index, Push
<1>2. rb'.pos = IF rb.pos = Size - 1 THEN 0 ELSE rb.pos + 1
  BY <1>1, FollowingIsNext DEF Push, push, Index
<1>3. PushNumber(i)' = Len(pushed') - Size + 1
                         + IF i >= rb'.pos THEN i - rb'.pos ELSE i - rb'.pos + Size
  BY DEF PushNumber, Rank
<1>4. PushNumber(i) = Len(pushed) - Size + 1
                        + IF i >= rb.pos THEN i - rb.pos ELSE i - rb.pos + Size
  BY DEF PushNumber, Rank
<1>5. CASE rb.pos = Size - 1
  BY <1>1, <1>2, <1>3, <1>4, <1>5
<1>6. CASE rb.pos # Size - 1
  <2>1. rb'.pos = rb.pos + 1
    BY <1>2, <1>6
  <2>2. CASE i > rb.pos
    BY <1>1, <1>3, <1>4, <2>1, <2>2
  <2>3. CASE i = rb.pos
    BY <1>1, <1>3, <2>1, <2>3
  <2>4. CASE i < rb.pos
    BY <1>1, <1>3, <1>4, <2>1, <2>4
  <2> QED BY <1>1, <2>2, <2>3, <2>4
<1> QED BY <1>5, <1>6

\* Each push keeps the invariant.
LEMMA PushIInv ==
  ASSUME IInv, NEW m \in Message, Push(m)
  PROVE  IInv'
<1> DEFINE e == Entry(m, now)
<1>1. /\ Size \in Nat /\ Size > 0
      /\ rb.pos \in Index /\ rb.pos \in Nat /\ rb.pos < Size
      /\ rb.full \in BOOLEAN
      /\ rb.msgs \in [Index -> Slot]
      /\ pushed \in Seq([msg : Message, createdAt : Nat])
      /\ Len(pushed) \in Nat
      /\ e \in [msg : Message, createdAt : Nat]
  BY SizeAssumption DEF IInv, TypeOK, Slot, Index, Entry
<1>2. /\ rb'.msgs = [rb.msgs EXCEPT ![rb.pos] = e]
      /\ rb'.pos = Following(rb.pos)
      /\ rb'.full = (rb.full \/ Following(rb.pos) = 0)
      /\ rb' = [msgs |-> rb'.msgs, pos |-> rb'.pos, full |-> rb'.full]
      /\ now' = now
      /\ pushed' = Append(pushed, e)
  BY DEF Push, push
<1>3. Following(rb.pos) = IF rb.pos = Size - 1 THEN 0 ELSE rb.pos + 1
  BY <1>1, FollowingIsNext
<1>4. /\ Len(pushed') = Len(pushed) + 1
      /\ pushed'[Len(pushed) + 1] = e
      /\ \A n \in 1 .. Len(pushed) : pushed'[n] = pushed[n]
  BY <1>1, <1>2
<1>5. TypeOK'
  <2>1. rb'.msgs \in [Index -> Slot]
    BY <1>1, <1>2 DEF Slot
  <2>2. rb'.pos \in Index /\ rb'.full \in BOOLEAN
    BY <1>1, <1>2, <1>3 DEF Index
  <2>3. pushed' \in Seq([msg : Message, createdAt : Nat])
    BY <1>1, <1>2
  <2> QED BY <1>2, <2>1, <2>2, <2>3 DEF TypeOK, Slot, IInv
<1>6. FullCountsPushes'
  <2>1. rb'.full <=> (rb.full \/ rb.pos = Size - 1)
    <3>1. Following(rb.pos) = 0 <=> rb.pos = Size - 1
      BY <1>1, <1>3
    <3>2. rb'.full = (rb.full \/ Following(rb.pos) = 0)
      BY <1>2
    <3> QED BY <3>1, <3>2, Zenon
  <2>2. CASE rb.full
    BY <1>1, <1>4, <2>1, <2>2 DEF IInv, FullCountsPushes
  <2>3. CASE ~rb.full
    <3>1. Len(pushed) = rb.pos
      BY <2>3 DEF IInv, FullCountsPushes
    <3>2. CASE rb.pos = Size - 1
      BY <1>1, <1>4, <2>1, <3>1, <3>2 DEF FullCountsPushes
    <3>3. CASE rb.pos # Size - 1
      BY <1>1, <1>2, <1>3, <1>4, <2>1, <2>3, <3>1, <3>3 DEF FullCountsPushes
    <3> QED BY <3>2, <3>3
  <2> QED BY <2>2, <2>3
<1>7. \A i \in Index : PushNumber(i)' = IF i = rb.pos THEN Len(pushed) + 1
                                                     ELSE PushNumber(i)
  BY PushKeepsNumbers
<1>8. \A i \in Index : rb'.msgs[i] = IF i = rb.pos THEN e ELSE rb.msgs[i]
  BY <1>1, <1>2
<1>9. e # Blank
  BY <1>1, MessageAssumption
<1>10. ASSUME NEW i \in Index, i # rb.pos, PushNumber(i) \in 1 .. Len(pushed) + 1
       PROVE  PushNumber(i) \in 1 .. Len(pushed)
  BY <1>1, <1>10 DEF PushNumber, Rank, Index
<1>11. SlotsMirrorHistory'
  <2> SUFFICES ASSUME NEW i \in Index, rb'.msgs[i] # Blank
               PROVE  /\ PushNumber(i)' \in 1 .. Len(pushed')
                      /\ rb'.msgs[i] = pushed'[PushNumber(i)']
    BY DEF SlotsMirrorHistory
  <2>1. CASE i = rb.pos
    BY <1>1, <1>4, <1>7, <1>8, <2>1
  <2>2. CASE i # rb.pos
    <3>1. PushNumber(i) \in 1 .. Len(pushed) /\ rb.msgs[i] = pushed[PushNumber(i)]
      BY <1>8, <2>2 DEF IInv, SlotsMirrorHistory
    <3> QED BY <1>1, <1>4, <1>7, <1>8, <2>2, <3>1
  <2> QED BY <2>1, <2>2
<1>12. BlankOnlyWhenExpired'
  <2> SUFFICES ASSUME NEW i \in Index, rb'.msgs[i] = Blank,
                      PushNumber(i)' \in 1 .. Len(pushed')
               PROVE  Expired(pushed'[PushNumber(i)'], now')
    BY DEF BlankOnlyWhenExpired, Expired
  <2>1. i # rb.pos /\ rb.msgs[i] = Blank
    BY <1>8, <1>9
  <2>2. PushNumber(i) \in 1 .. Len(pushed)
    BY <1>4, <1>7, <1>10, <2>1
  <2>3. Expired(pushed[PushNumber(i)], now)
    BY <2>1, <2>2 DEF IInv, BlankOnlyWhenExpired
  <2> QED BY <1>2, <1>4, <1>7, <2>1, <2>2, <2>3
<1> QED BY <1>5, <1>6, <1>11, <1>12 DEF IInv

\* A sweep keeps the invariant: it clears only what has expired.
LEMMA SweepIInv ==
  ASSUME IInv, Sweep
  PROVE  IInv'
<1>1. /\ rb'.pos = rb.pos /\ rb'.full = rb.full
      /\ now' = now /\ pushed' = pushed
      /\ rb' = [msgs |-> rb'.msgs, pos |-> rb.pos, full |-> rb.full]
      /\ rb'.msgs = [i \in Index |->
                       IF rb.msgs[i] # Blank /\ Expired(rb.msgs[i], now)
                         THEN Blank ELSE rb.msgs[i]]
  BY DEF Sweep, sweepExpired, IInv, TypeOK
<1>2. TypeOK'
  BY <1>1 DEF IInv, TypeOK
<1>3. \A i \in Index : PushNumber(i)' = PushNumber(i)
  BY <1>1 DEF PushNumber, Rank
<1>4. FullCountsPushes'
  BY <1>1 DEF IInv, FullCountsPushes
<1>5. SlotsMirrorHistory'
  BY <1>1, <1>3 DEF IInv, SlotsMirrorHistory
<1>6. BlankOnlyWhenExpired'
  <2> SUFFICES ASSUME NEW i \in Index, rb'.msgs[i] = Blank,
                      PushNumber(i) \in 1 .. Len(pushed)
               PROVE  Expired(pushed[PushNumber(i)], now)
    BY <1>1, <1>3 DEF BlankOnlyWhenExpired
  <2>1. CASE rb.msgs[i] = Blank
    BY <2>1 DEF IInv, BlankOnlyWhenExpired
  <2>2. CASE rb.msgs[i] # Blank
    BY <1>1, <2>2 DEF IInv, SlotsMirrorHistory
  <2> QED BY <2>1, <2>2
<1> QED BY <1>2, <1>4, <1>5, <1>6 DEF IInv

\* Time passing keeps the invariant: what has expired stays expired.
LEMMA TickIInv ==
  ASSUME IInv, Tick
  PROVE  IInv'
<1>1. rb' = rb /\ pushed' = pushed /\ now' = now + 1 /\ now \in Nat
  BY DEF Tick, IInv, TypeOK
<1>2. \A i \in Index : PushNumber(i)' = PushNumber(i)
  BY <1>1 DEF PushNumber, Rank
<1>3. \A n \in 1 .. Len(pushed) : Expired(pushed[n], now) => Expired(pushed[n], now')
  <2> TAKE n \in 1 .. Len(pushed)
  <2>1. pushed[n] \in [msg : Message, createdAt : Nat]
    <3>1. pushed \in Seq([msg : Message, createdAt : Nat])
      BY DEF IInv, TypeOK
    <3> QED BY <3>1, ElementOfSeq
  <2> QED BY <1>1, <2>1, TTLAssumption DEF Expired
<1>4. TypeOK' /\ FullCountsPushes' /\ SlotsMirrorHistory'
  BY <1>1, <1>2 DEF IInv, TypeOK, FullCountsPushes, SlotsMirrorHistory
<1>5. BlankOnlyWhenExpired'
  BY <1>1, <1>2, <1>3 DEF IInv, BlankOnlyWhenExpired
<1> QED BY <1>4, <1>5 DEF IInv

LEMMA NextIInv == IInv /\ [Next]_vars => IInv'
<1> SUFFICES ASSUME IInv, [Next]_vars PROVE IInv'
  OBVIOUS
<1>1. CASE \E m \in Message : Push(m)
  BY <1>1, PushIInv
<1>2. CASE Sweep
  BY <1>2, SweepIInv
<1>3. CASE Tick
  BY <1>3, TickIInv
<1>4. CASE UNCHANGED vars
  BY <1>4 DEF vars, IInv, TypeOK, FullCountsPushes, SlotsMirrorHistory,
              BlankOnlyWhenExpired, PushNumber, Rank
<1> QED BY <1>1, <1>2, <1>3, <1>4 DEF Next

\* The inductive invariant holds throughout.
THEOREM Invariance == Spec => []IInv
BY InitIInv, NextIInv, PTL DEF Spec

\* The buffer is well formed: pos never leaves the slice.
THEOREM TypeCorrect == Spec => []TypeOK
<1>1. IInv => TypeOK
  BY DEF IInv
<1> QED BY Invariance, <1>1, PTL

\* Reading from pos is reading the last Size pushes oldest first, for every
\* buffer size and through every wrap and sweep.
THEOREM SlotsInOrder == Spec => []SlotsMirrorHistory
<1>1. IInv => SlotsMirrorHistory
  BY DEF IInv
<1> QED BY Invariance, <1>1, PTL

\* An entry that newer pushes did not overwrite is missing only if it expired.
THEOREM NothingLostEarly == Spec => []BlankOnlyWhenExpired
<1>1. IInv => BlankOnlyWhenExpired
  BY DEF IInv
<1> QED BY Invariance, <1>1, PTL

-----------------------------------------------------------------------------
\* The buffer stays in order: blanks first, then oldest first.
InOrder == IInv /\ Orderly(rb, now)

PushedEntry == [msg : Message, createdAt : Nat]

LEMMA BufferTyped ==
  ASSUME TypeOK
  PROVE  /\ rb \in BufferOf(PushedEntry) /\ now \in Nat
         /\ Blank \notin PushedEntry /\ \A e \in PushedEntry : e.createdAt \in Int
BY MessageAssumption DEF TypeOK, BufferOf, PushedEntry

LEMMA InitInOrder == Init => InOrder
BY InitIInv, NewOrderly DEF Init, InOrder

LEMMA NextInOrder == InOrder /\ [Next]_vars => InOrder'
<1> SUFFICES ASSUME InOrder, [Next]_vars PROVE InOrder'
  OBVIOUS
<1>1. IInv'
  <2>1. IInv /\ [Next]_vars => IInv'
    BY NextIInv
  <2> QED BY <2>1 DEF InOrder
<1>2. /\ rb \in BufferOf(PushedEntry) /\ now \in Nat
      /\ Blank \notin PushedEntry /\ \A e \in PushedEntry : e.createdAt \in Int
  BY BufferTyped DEF InOrder, IInv
<1>3. Orderly(rb, now)
  BY DEF InOrder
<1>4. CASE \E m \in Message : Push(m)
  <2>1. PICK m \in Message : rb' = push(rb, m, now) /\ now' = now
    BY <1>4 DEF Push
  <2>2. Entry(m, now) \in PushedEntry
    BY <1>2 DEF Entry, PushedEntry
  <2>3. Orderly(push(rb, m, now), now)
    BY <1>2, <1>3, <2>2, PushOrderly
  <2> QED BY <1>1, <2>1, <2>3 DEF InOrder
<1>5. CASE Sweep
  <2>1. Orderly(sweepExpired(rb, now), now)
    BY <1>2, <1>3, SweepOrderly
  <2> QED BY <1>1, <1>5, <2>1 DEF InOrder, Sweep
<1>6. CASE Tick
  <2>1. Orderly(rb, now + 1)
    BY <1>2, <1>3, LaterOrderly
  <2> QED BY <1>1, <1>6, <2>1 DEF InOrder, Tick
<1>7. CASE UNCHANGED vars
  BY <1>1, <1>3, <1>7 DEF vars, InOrder
<1> QED BY <1>4, <1>5, <1>6, <1>7 DEF Next

\* A buffer in order that mirrors the history drains to the history's end.
LEMMA InOrderDrains == InOrder => DrainIsRecentSuffix
<1> SUFFICES ASSUME InOrder PROVE DrainIsRecentSuffix
  OBVIOUS
<1>1. /\ rb \in BufferOf(PushedEntry) /\ Blank \notin PushedEntry
      /\ pushed \in Seq(PushedEntry) /\ Len(pushed) \in Nat
      /\ rb.pos \in Index /\ Size \in Nat /\ Size > 0
  BY BufferTyped, SizeAssumption DEF InOrder, IInv, TypeOK, PushedEntry
<1>2. PICK n \in 0 .. Size :
        /\ drain(rb) = LastSlots(rb, n)
        /\ \A p \in 0 .. Size - 1 : rb.msgs[At(rb, p)] = Blank <=> p < Size - n
  BY <1>1, DrainIsLast DEF InOrder, Orderly
<1>3. ASSUME NEW p \in 0 .. Size - 1
      PROVE  At(rb, p) \in Index /\ PushNumber(At(rb, p)) = Len(pushed) - Size + 1 + p
  <2>1. At(rb, p) \in Index /\ Place(rb, At(rb, p)) = p
    BY <1>1, PlaceAt
  <2>2. Rank(At(rb, p)) = p
    BY <2>1 DEF Rank, Place
  <2> QED BY <2>1, <2>2 DEF PushNumber
<1> DEFINE cut == Len(pushed) - n
<1>4. ASSUME NEW k \in 1 .. n
      PROVE  /\ Len(pushed) - n + k \in 1 .. Len(pushed)
             /\ LastSlots(rb, n)[k] = pushed[Len(pushed) - n + k]
  <2> DEFINE p == Size - n + k - 1
  <2>1. p \in 0 .. Size - 1 /\ ~(p < Size - n) /\ Len(pushed) - Size + 1 + p = Len(pushed) - n + k
    BY <1>1
  <2>2. LastSlots(rb, n)[k] = rb.msgs[At(rb, p)]
    BY DEF LastSlots
  <2> HIDE DEF p
  <2>3. rb.msgs[At(rb, p)] # Blank
    BY <1>2, <2>1
  <2>4. /\ PushNumber(At(rb, p)) \in 1 .. Len(pushed)
        /\ rb.msgs[At(rb, p)] = pushed[PushNumber(At(rb, p))]
    BY <1>3, <2>1, <2>3 DEF InOrder, IInv, SlotsMirrorHistory
  <2> QED BY <1>3, <2>1, <2>2, <2>4
<1>5. cut \in 0 .. Len(pushed)
  <2>1. CASE n = 0
    BY <1>1, <2>1
  <2>2. CASE n # 0
    <3>1. 1 \in 1 .. n
      BY <2>2
    <3> QED BY <1>1, <1>4, <3>1
  <2> QED BY <2>1, <2>2
<1>6. drain(rb) = SubSeq(pushed, cut + 1, Len(pushed))
  <2>1. /\ SubSeq(pushed, cut + 1, Len(pushed)) \in Seq(PushedEntry)
        /\ Len(SubSeq(pushed, cut + 1, Len(pushed))) = n
        /\ \A k \in 1 .. n : SubSeq(pushed, cut + 1, Len(pushed))[k] = pushed[cut + k]
    BY <1>1, <1>5, SubSeqProperties
  <2>2. SubSeq(pushed, cut + 1, Len(pushed)) = [k \in 1 .. n |-> pushed[cut + k]]
    BY <2>1, LenProperties
  <2>3. LastSlots(rb, n) = [k \in 1 .. n |-> pushed[cut + k]]
    BY <1>4 DEF LastSlots
  <2> QED BY <1>2, <2>2, <2>3
<1>7. Len(pushed) - cut <= Size
  BY <1>1
<1>8. ASSUME NEW m \in 1 .. cut, ~(m <= Len(pushed) - Size) PROVE Expired(pushed[m], now)
  <2> DEFINE p == m - 1 + Size - Len(pushed)
  <2>1. p \in 0 .. Size - 1 /\ p < Size - n /\ Len(pushed) - Size + 1 + p = m
    BY <1>1, <1>5, <1>8
  <2> HIDE DEF p
  <2>2. rb.msgs[At(rb, p)] = Blank
    BY <1>2, <2>1
  <2>3. PushNumber(At(rb, p)) = m /\ m \in 1 .. Len(pushed) /\ At(rb, p) \in Index
    BY <1>1, <1>3, <1>5, <2>1
  <2> QED BY <2>2, <2>3 DEF InOrder, IInv, BlankOnlyWhenExpired
<1> HIDE DEF cut
<1> QED BY <1>5, <1>6, <1>7, <1>8 DEF DrainIsRecentSuffix

\* A client that subscribes is sent a suffix of everything pushed, without a gap,
\* and what it is not sent was overwritten or has expired.
THEOREM DrainsRecentSuffix == Spec => []DrainIsRecentSuffix
<1>1. Spec => []InOrder
  BY InitInOrder, NextInOrder, PTL DEF Spec
<1> QED BY <1>1, InOrderDrains, PTL

-----------------------------------------------------------------------------
(* ClientAddress and RateLimiter.                                            *)

\* Everybody on the path but its first is a trusted proxy, and the last entries
\* of the header are those the proxies saw, in the order of the path.
Relayed ==
  /\ path \in Seq(Host)
  /\ xForwardedFor \in Seq(Named \cup {NoAddress})
  /\ \A i \in 2..Len(path) : path[i] \in Trusted
  /\ Len(path) >= 2 => Len(xForwardedFor) >= Len(path) - 1
  /\ \A i \in 1..Len(path) - 1 : xForwardedFor[Len(xForwardedFor) - Len(path) + 1 + i] = path[i]

LEMMA InitRelayed == AddressInit => Relayed
BY DEF AddressInit, Relayed

LEMMA SendRelayed ==
  ASSUME SendRequest
  PROVE Relayed'
<1>1. PICK s \in Host, n \in 0..MaxWritten :
        path' = <<s>> /\ xForwardedFor' \in [1..n -> Named \cup {NoAddress}]
  BY DEF SendRequest
<1>2. path' \in Seq(Host) /\ Len(path') = 1
  BY <1>1
<1>3. xForwardedFor' \in Seq(Named \cup {NoAddress})
  BY <1>1, AddressAssumption
<1> QED BY <1>2, <1>3 DEF Relayed

LEMMA RelayRelayed ==
  ASSUME Relayed, NEW proxy \in Trusted, Relay(proxy)
  PROVE Relayed'
<1> DEFINE n == Len(path)
           m == Len(xForwardedFor)
<1>1. /\ n \in Nat \ {0} /\ m \in Nat
      /\ path' = Append(path, proxy)
      /\ xForwardedFor' = Append(xForwardedFor, path[n])
  <2>1. path # <<>> /\ path \in Seq(Host) /\ xForwardedFor \in Seq(Named \cup {NoAddress})
    BY DEF Relay, Relayed
  <2> QED BY <2>1 DEF Relay
<1>2. path[n] \in Host /\ proxy \in Host /\ path[n] \in Named \cup {NoAddress}
  BY <1>1, AddressAssumption DEF Relayed
<1>3. path' \in Seq(Host) /\ xForwardedFor' \in Seq(Named \cup {NoAddress})
  BY <1>1, <1>2 DEF Relayed
<1>4. Len(path') = n + 1 /\ Len(xForwardedFor') = m + 1
  BY <1>1 DEF Relayed
<1>5. \A i \in 2..Len(path') : path'[i] \in Trusted
  BY <1>1, <1>4 DEF Relayed
<1>6. Len(path') >= 2 => Len(xForwardedFor') >= Len(path') - 1
  BY <1>1, <1>4 DEF Relayed
<1>7. ASSUME NEW i \in 1..Len(path') - 1
      PROVE  xForwardedFor'[Len(xForwardedFor') - Len(path') + 1 + i] = path'[i]
  <2>1. CASE i = n
    BY <1>1, <1>4, <2>1 DEF Relayed
  <2>2. CASE i # n
    <3>1. i \in 1..n - 1 /\ m - n + 1 + i \in 1..m
      BY <1>1, <1>4, <2>2 DEF Relayed
    <3>2. xForwardedFor[m - n + 1 + i] = path[i]
      BY <3>1 DEF Relayed
    <3> QED BY <1>1, <1>4, <3>1, <3>2 DEF Relayed
  <2> QED BY <2>1, <2>2
<1> QED BY <1>3, <1>5, <1>6, <1>7 DEF Relayed

LEMMA MaxIs ==
  ASSUME NEW S, S \subseteq Int, NEW k \in S, \A j \in S : j <= k
  PROVE Max(S) = k
<1>1. \A x \in S : (\A y \in S : x >= y) => x = k
  OBVIOUS
<1>2. \A y \in S : k >= y
  OBVIOUS
<1> QED BY <1>1, <1>2 DEF Max

\* The sender's entry is the last that is nobody trusted: its own proxy wrote
\* it, and those behind it wrote each other.
LEMMA RelayedKnown == Relayed => SenderKnown
<1> SUFFICES ASSUME Relayed, path # <<>>, path[1] \notin Trusted
             PROVE  ClientIP(path[Len(path)], xForwardedFor, xRealIP) = path[1]
  BY DEF SenderKnown
<1> DEFINE n == Len(path)
           m == Len(xForwardedFor)
           k == m - n + 2
<1>1. n \in Nat \ {0} /\ m \in Nat /\ path[1] \in Host
  BY DEF Relayed
<1>2. CASE n = 1
  BY <1>2 DEF ClientIP
<1>3. CASE n # 1
  <2>0. n \in Int /\ m \in Int /\ n >= 2 /\ n \in 2..n /\ 1 \in 1..n - 1
    <3>1. n \in Nat /\ n # 0 /\ m \in Nat
      BY <1>1
    <3>2. n # 1
      BY <1>3
    <3> HIDE DEF n, m
    <3> QED BY <3>1, <3>2
  <2>1. path[n] \in Trusted /\ k \in 1..m
    <3>1. path[n] \in Trusted /\ m >= n - 1
      BY <2>0 DEF Relayed
    <3> QED BY <2>0, <3>1
  <2>2. xForwardedFor[k] = path[1]
    <3>1. m - n + 1 + 1 = k
      BY <2>0
    <3>2. xForwardedFor[m - n + 1 + 1] = path[1]
      BY <2>0 DEF Relayed
    <3> QED BY <3>1, <3>2
  <2>3. path[1] # NoAddress
    BY <1>1, AddressAssumption
  <2>4. DOMAIN xForwardedFor = 1..m
    BY DEF Relayed
  <2>5. k \in Outside(xForwardedFor)
    BY <2>1, <2>2, <2>3, <2>4 DEF Outside
  <2>6. ASSUME NEW j \in Outside(xForwardedFor), j > k
        PROVE FALSE
    <3>1. j \in 1..m /\ xForwardedFor[j] \notin Trusted
      BY <2>4 DEF Outside
    <3>2. j - m + n - 1 \in 2..n - 1
      BY <1>1, <1>3, <2>6, <3>1
    <3>3. xForwardedFor[j] = path[j - m + n - 1]
      <4>1. m - n + 1 + (j - m + n - 1) = j /\ j - m + n - 1 \in 1..n - 1
        BY <1>1, <3>1, <3>2
      <4> QED BY <4>1 DEF Relayed
    <3>4. path[j - m + n - 1] \in Trusted
      BY <1>1, <3>2 DEF Relayed
    <3> QED BY <3>1, <3>3, <3>4
  <2>7. Outside(xForwardedFor) \subseteq Int
    BY <2>4 DEF Outside
  <2>8. Max(Outside(xForwardedFor)) = k
    <3>1. \A j \in Outside(xForwardedFor) : j <= k
      BY <1>1, <2>6, <2>7
    <3> HIDE DEF k
    <3> QED BY <2>5, <2>7, <3>1, MaxIs
  <2> QED BY <2>1, <2>2, <2>5, <2>8 DEF ClientIP
<1> QED BY <1>2, <1>3

\* The rate limiter and the stored request know a sender by its own address,
\* whatever it wrote into X-Forwarded-For and X-Real-IP, through any number of
\* trusted proxies (ClientIP).
THEOREM SenderIsKnown == AddressSpec => []SenderKnown
<1>1. Relayed /\ [AddressNext]_addressVars => Relayed'
  <2> SUFFICES ASSUME Relayed, [AddressNext]_addressVars PROVE Relayed'
    OBVIOUS
  <2>1. CASE SendRequest
    BY <2>1, SendRelayed
  <2>2. CASE \E proxy \in Trusted : Relay(proxy)
    BY <2>2, RelayRelayed
  <2>3. CASE UNCHANGED addressVars
    BY <2>3 DEF addressVars, Relayed
  <2> QED BY <2>1, <2>2, <2>3 DEF AddressNext
<1> QED BY InitRelayed, <1>1, RelayedKnown, PTL DEF AddressSpec

-----------------------------------------------------------------------------

Full == Burst * Unit

\* What the window's requests have cost, and what the rate gives from s to t.
Cost(n) == n * Unit
Refill(s, t) == Rate * (t - s)

\* A client with a bucket: what was granted and what is left stay under the
\* bucket and its refills up to when it was last looked at; before the window's
\* first request nothing was granted.
KnownWithin(c) ==
  /\ 0 <= tokens[c]
  /\ tokens[c] <= Full
  /\ lastSeen[c] >= since => tokens[c] + Cost(granted[c]) <= Full + Refill(since, lastSeen[c])
  /\ lastSeen[c] < since => granted[c] = 0

\* A client without one has used no more than the refills, so that it may be
\* given a full bucket.
UnknownWithin(c) == Cost(granted[c]) <= Refill(since, time)

Within ==
  /\ LimiterTypeOK
  /\ since <= time
  /\ \A c \in Client :
       /\ lastSeen[c] <= time
       /\ c \in clients => KnownWithin(c)
       /\ c \notin clients => UnknownWithin(c)

\* The arithmetic the steps need, with the products in one place.
LEMMA FullFacts == Full \in Nat /\ Unit \in Nat /\ Unit <= Full
BY LimiterAssumption DEF Full

LEMMA RefillFacts ==
  ASSUME NEW s \in Int, NEW t \in Int
  PROVE  /\ Refill(s, t) \in Int
         /\ s <= t => Refill(s, t) >= 0
         /\ Refill(s, s) = 0
<1>1. Refill(s, t) \in Int /\ Refill(s, s) = 0
  BY LimiterAssumption DEF Refill
<1>2. s <= t => Refill(s, t) >= 0
  BY LimiterAssumption DEF Refill
<1> QED BY <1>1, <1>2

LEMMA RefillAdds ==
  ASSUME NEW s \in Int, NEW t \in Int, NEW u \in Int
  PROVE  Refill(s, t) + Refill(t, u) = Refill(s, u)
BY LimiterAssumption DEF Refill

LEMMA CostFacts ==
  /\ Cost(0) = 0
  /\ \A n \in Nat : Cost(n) \in Nat /\ Cost(n + 1) = Cost(n) + Unit
<1>1. Cost(0) = 0
  BY LimiterAssumption DEF Cost
<1>2. \A n \in Nat : Cost(n) \in Nat
  BY LimiterAssumption DEF Cost
<1>3. \A n \in Nat : Cost(n + 1) = Cost(n) + Unit
  BY LimiterAssumption DEF Cost
<1> QED BY <1>1, <1>2, <1>3

\* A bucket nobody looked at for longer than ForgetAfter has been refilled.
LEMMA FullWhenForgotten ==
  ASSUME NEW s \in Nat, NEW t \in Nat, s + ForgetAfter < t
  PROVE  Full <= Refill(s, t)
<1>1. Refill(s, t) = Rate * ForgetAfter + Rate * (t - (s + ForgetAfter))
  BY LimiterAssumption DEF Refill
<1>2. Rate * (t - (s + ForgetAfter)) >= 0
  BY LimiterAssumption
<1>3. Rate * ForgetAfter \in Int /\ Rate * (t - (s + ForgetAfter)) \in Int
  BY LimiterAssumption
<1>4. Full <= Rate * ForgetAfter
  BY RefillAssumption DEF Full
<1> QED BY <1>1, <1>2, <1>3, <1>4, FullFacts

\* The numbers of a client, and how they add up.
LEMMA Numbers ==
  ASSUME Within, NEW c \in Client
  PROVE  /\ tokens[c] \in Int /\ lastSeen[c] \in Nat /\ granted[c] \in Nat
         /\ time \in Nat /\ since \in Nat /\ since <= time /\ lastSeen[c] <= time
         /\ Refill(since, time) \in Int /\ Refill(since, time) >= 0
         /\ Refill(lastSeen[c], time) \in Int /\ Refill(lastSeen[c], time) >= 0
         /\ Refill(since, lastSeen[c]) \in Int
         /\ Refill(since, lastSeen[c]) + Refill(lastSeen[c], time) = Refill(since, time)
         /\ Cost(granted[c]) \in Nat
         /\ Cost(granted[c] + 1) = Cost(granted[c]) + Unit
<1>1. /\ tokens[c] \in Int /\ lastSeen[c] \in Nat /\ granted[c] \in Nat
      /\ time \in Nat /\ since \in Nat /\ since <= time /\ lastSeen[c] <= time
  BY DEF Within, LimiterTypeOK
<1>2. /\ time \in Int /\ since \in Int /\ lastSeen[c] \in Int
  BY <1>1
<1>3. Refill(since, time) \in Int /\ Refill(since, time) >= 0
  BY <1>1, <1>2, RefillFacts
<1>4. Refill(lastSeen[c], time) \in Int /\ Refill(lastSeen[c], time) >= 0
  BY <1>1, <1>2, RefillFacts
<1>5. Refill(since, lastSeen[c]) \in Int
  BY <1>2, RefillFacts
<1>6. Refill(since, lastSeen[c]) + Refill(lastSeen[c], time) = Refill(since, time)
  BY <1>2, RefillAdds
<1>7. Cost(granted[c]) \in Nat /\ Cost(granted[c] + 1) = Cost(granted[c]) + Unit
  BY <1>1, CostFacts
<1> QED BY <1>1, <1>3, <1>4, <1>5, <1>6, <1>7

\* What a look at a known client's bucket finds.
LEMMA RefilledFacts ==
  ASSUME Within, NEW c \in clients
  PROVE  /\ Refilled(c) \in Nat
         /\ Refilled(c) <= Full
         /\ Refilled(c) + Cost(granted[c]) <= Full + Refill(since, time)
<1>1. c \in Client /\ KnownWithin(c)
  BY DEF Within, LimiterTypeOK
<1>2. /\ tokens[c] \in Int /\ lastSeen[c] \in Nat /\ granted[c] \in Nat
      /\ time \in Nat /\ since \in Nat /\ since <= time /\ lastSeen[c] <= time
      /\ Refill(since, time) \in Int /\ Refill(since, time) >= 0
      /\ Refill(lastSeen[c], time) \in Int /\ Refill(lastSeen[c], time) >= 0
      /\ Refill(since, lastSeen[c]) \in Int
      /\ Refill(since, lastSeen[c]) + Refill(lastSeen[c], time) = Refill(since, time)
      /\ Cost(granted[c]) \in Nat
  BY <1>1, Numbers
<1>3. (time - lastSeen[c]) * Rate = Refill(lastSeen[c], time)
  BY <1>2, LimiterAssumption DEF Refill
<1>4. Refilled(c) = IF tokens[c] + Refill(lastSeen[c], time) > Full
                    THEN Full ELSE tokens[c] + Refill(lastSeen[c], time)
  BY <1>3 DEF Refilled, Full
<1>5. Refilled(c) \in Nat /\ Refilled(c) <= Full
  BY <1>1, <1>2, <1>4, FullFacts DEF KnownWithin
<1>6. CASE lastSeen[c] >= since
  <2>1. Refilled(c) <= tokens[c] + Refill(lastSeen[c], time)
    BY <1>1, <1>2, <1>4, FullFacts DEF KnownWithin
  <2>2. tokens[c] + Cost(granted[c]) <= Full + Refill(since, lastSeen[c])
    BY <1>1, <1>6 DEF KnownWithin
  <2> QED BY <2>1, <2>2, <1>1, <1>2, <1>5, FullFacts
<1>7. CASE lastSeen[c] < since
  <2>1. Cost(granted[c]) = 0
    BY <1>1, <1>7, CostFacts DEF KnownWithin
  <2> QED BY <2>1, <1>2, <1>5, FullFacts
<1> QED BY <1>2, <1>5, <1>6, <1>7

\* It holds at the start, where nobody is known.
LEMMA InitWithin == LimiterInit => Within
<1> SUFFICES ASSUME LimiterInit PROVE Within
  OBVIOUS
<1>1. LimiterTypeOK
  BY DEF LimiterInit, LimiterTypeOK
<1>2. \A c \in Client : UnknownWithin(c) /\ lastSeen[c] <= time /\ c \notin clients
  BY RefillFacts, CostFacts DEF LimiterInit, UnknownWithin
<1> QED BY <1>1, <1>2 DEF Within, LimiterInit

\* A request that is let through.
LEMMA AllowWithin ==
  ASSUME Within, NEW c \in Client, Allow(c)
  PROVE  Within'
<1> USE DEF Within
<1>1. /\ clients' = clients \cup {c}
      /\ granted' = [granted EXCEPT ![c] = @ + 1]
      /\ lastSeen' = [lastSeen EXCEPT ![c] = time]
      /\ UNCHANGED <<time, since>>
  BY DEF Allow, AllowKnown, AllowNew, Grant, See, LimiterTypeOK
<1>2. PICK u \in Nat : /\ tokens' = [tokens EXCEPT ![c] = u]
                       /\ u <= Full
                       /\ u + Cost(granted[c] + 1) <= Full + Refill(since, time)
  <2>1. /\ granted[c] \in Nat
        /\ Cost(granted[c]) \in Nat
        /\ Cost(granted[c] + 1) = Cost(granted[c]) + Unit
        /\ Refill(since, time) \in Int
        /\ Unit \in Nat
    BY Numbers, FullFacts
  <2>2. CASE AllowKnown(c)
    <3>1. /\ tokens' = [tokens EXCEPT ![c] = Refilled(c) - Unit]
          /\ c \in clients
          /\ Refilled(c) >= Unit
      BY <2>2 DEF AllowKnown, See
    <3>2. /\ Refilled(c) \in Nat
          /\ Refilled(c) <= Full
          /\ Refilled(c) + Cost(granted[c]) <= Full + Refill(since, time)
      BY <3>1, RefilledFacts
    <3>3. Full \in Nat
      BY FullFacts
    <3>4. /\ Refilled(c) - Unit \in Nat
          /\ Refilled(c) - Unit <= Full
          /\ (Refilled(c) - Unit) + Cost(granted[c] + 1) <= Full + Refill(since, time)
      BY <3>1, <3>2, <3>3, <2>1
    <3> QED BY <3>1, <3>4
  <2>3. CASE AllowNew(c)
    <3>1. tokens' = [tokens EXCEPT ![c] = Full - Unit] /\ c \notin clients
      BY <2>3 DEF AllowNew, See, Full
    <3>2. Cost(granted[c]) <= Refill(since, time)
      BY <3>1 DEF UnknownWithin
    <3>3. /\ Full - Unit \in Nat
          /\ Full - Unit <= Full
          /\ (Full - Unit) + Cost(granted[c] + 1) <= Full + Refill(since, time)
      BY <3>2, <2>1, FullFacts
    <3> QED BY <3>1, <3>3
  <2> QED BY <2>2, <2>3 DEF Allow
<1>3. LimiterTypeOK'
  BY <1>1, <1>2 DEF LimiterTypeOK
<1>4. ASSUME NEW d \in Client
      PROVE  /\ lastSeen'[d] <= time'
             /\ d \in clients' => KnownWithin(d)'
             /\ d \notin clients' => UnknownWithin(d)'
  <2>1. CASE d = c
    <3>1. /\ lastSeen'[c] = time /\ tokens'[c] = u /\ granted'[c] = granted[c] + 1
          /\ time' = time /\ since' = since /\ time \in Nat /\ since \in Nat
          /\ c \in clients'
      BY <1>1, <1>2 DEF LimiterTypeOK
    <3>2. KnownWithin(c)'
      BY <3>1, <1>2 DEF KnownWithin
    <3> QED BY <2>1, <3>1, <3>2
  <2>2. CASE d # c
    <3>1. /\ lastSeen'[d] = lastSeen[d] /\ tokens'[d] = tokens[d] /\ granted'[d] = granted[d]
          /\ time' = time /\ since' = since
          /\ d \in clients' <=> d \in clients
      BY <1>1, <1>2, <2>2 DEF LimiterTypeOK
    <3> QED BY <3>1 DEF KnownWithin, UnknownWithin
  <2> QED BY <2>1, <2>2
<1> QED BY <1>1, <1>3, <1>4

\* A request that is refused; a known client's bucket is refilled by it.
LEMMA RefuseWithin ==
  ASSUME Within, NEW c \in Client, Refuse(c)
  PROVE  Within'
<1> USE DEF Within
<1>1. CASE RefuseKnown(c)
  <2>1. /\ c \in clients
        /\ tokens' = [tokens EXCEPT ![c] = Refilled(c)]
        /\ lastSeen' = [lastSeen EXCEPT ![c] = time]
        /\ UNCHANGED <<clients, granted, time, since>>
    BY <1>1 DEF RefuseKnown, See
  <2>2. /\ Refilled(c) \in Nat
        /\ Refilled(c) <= Full
        /\ Refilled(c) + Cost(granted[c]) <= Full + Refill(since, time)
    BY <2>1, RefilledFacts
  <2>3. LimiterTypeOK'
    BY <2>1, <2>2 DEF LimiterTypeOK
  <2>4. ASSUME NEW d \in Client
        PROVE  /\ lastSeen'[d] <= time'
               /\ d \in clients' => KnownWithin(d)'
               /\ d \notin clients' => UnknownWithin(d)'
    <3>1. CASE d = c
      <4>1. /\ lastSeen'[c] = time /\ tokens'[c] = Refilled(c) /\ granted'[c] = granted[c]
            /\ time' = time /\ since' = since /\ time \in Nat /\ since \in Nat
        BY <2>1 DEF LimiterTypeOK
      <4>2. KnownWithin(c)'
        BY <4>1, <2>2 DEF KnownWithin
      <4> QED BY <3>1, <4>1, <4>2, <2>1
    <3>2. CASE d # c
      <4>1. /\ lastSeen'[d] = lastSeen[d] /\ tokens'[d] = tokens[d] /\ granted'[d] = granted[d]
            /\ time' = time /\ since' = since /\ clients' = clients
        BY <2>1, <3>2 DEF LimiterTypeOK
      <4> QED BY <4>1 DEF KnownWithin, UnknownWithin
    <3> QED BY <3>1, <3>2
  <2> QED BY <2>1, <2>3, <2>4
<1>2. CASE RefuseNew(c)
  BY <1>2 DEF RefuseNew, limiterVars, LimiterTypeOK, KnownWithin, UnknownWithin
<1> QED BY <1>1, <1>2 DEF Refuse

\* A client that is forgotten has a bucket that is full by now, so what was
\* granted to it is covered by the refills alone.
LEMMA CleanupWithin ==
  ASSUME Within, cleanup
  PROVE  Within'
<1> USE DEF Within
<1>1. /\ clients' = {c \in clients : ~Stale(c)}
      /\ UNCHANGED <<tokens, lastSeen, time, since, granted>>
  BY DEF cleanup
<1>2. LimiterTypeOK'
  BY <1>1 DEF LimiterTypeOK
<1>3. ASSUME NEW c \in Client, c \in clients, Stale(c)
      PROVE  UnknownWithin(c)
  <2>1. KnownWithin(c)
    BY <1>3
  <2>2. /\ tokens[c] \in Int /\ lastSeen[c] \in Nat /\ granted[c] \in Nat
        /\ time \in Nat /\ since \in Nat
        /\ Full \in Nat
        /\ Refill(since, time) \in Int /\ Refill(since, time) >= 0
        /\ Refill(lastSeen[c], time) \in Int
        /\ Refill(since, lastSeen[c]) \in Int
        /\ Refill(since, lastSeen[c]) + Refill(lastSeen[c], time) = Refill(since, time)
        /\ Cost(granted[c]) \in Nat
    BY Numbers, FullFacts
  <2>3. Full <= Refill(lastSeen[c], time)
    BY <2>2, <1>3, FullWhenForgotten DEF Stale
  <2>4. CASE lastSeen[c] >= since
    BY <2>1, <2>2, <2>3, <2>4 DEF KnownWithin, UnknownWithin
  <2>5. CASE lastSeen[c] < since
    BY <2>1, <2>2, <2>5, CostFacts DEF KnownWithin, UnknownWithin
  <2> QED BY <2>2, <2>4, <2>5
<1>4. ASSUME NEW c \in Client
      PROVE  /\ lastSeen'[c] <= time'
             /\ c \in clients' => KnownWithin(c)'
             /\ c \notin clients' => UnknownWithin(c)'
  BY <1>1, <1>3 DEF KnownWithin, UnknownWithin
<1> QED BY <1>1, <1>2, <1>4

\* Time passes, and so more has been refilled; or a new window is opened, in
\* which nothing has been granted.
LEMMA ClockWithin ==
  ASSUME Within, Pass \/ OpenWindow
  PROVE  Within'
<1> USE DEF Within
<1>1. CASE Pass
  <2>1. time' = time + 1 /\ UNCHANGED <<clients, tokens, lastSeen, since, granted>>
    BY <1>1 DEF Pass
  <2>2. LimiterTypeOK' /\ since' <= time'
    BY <2>1 DEF LimiterTypeOK
  <2>3. ASSUME NEW c \in Client
        PROVE  /\ lastSeen'[c] <= time'
               /\ c \in clients' => KnownWithin(c)'
               /\ c \notin clients' => UnknownWithin(c)'
    <3>1. /\ time \in Int /\ since \in Int /\ time + 1 \in Int
          /\ lastSeen[c] \in Nat /\ lastSeen[c] <= time
          /\ Cost(granted[c]) \in Nat
          /\ Refill(since, time) \in Int
      BY Numbers
    <3>2. Refill(since, time + 1) \in Int
      BY <3>1, RefillFacts
    <3>3. Refill(time, time + 1) \in Int /\ Refill(time, time + 1) >= 0
      <4>1. time <= time + 1
        BY <3>1
      <4> QED BY <3>1, <4>1, RefillFacts
    <3>4. Refill(since, time) + Refill(time, time + 1) = Refill(since, time + 1)
      BY <3>1, RefillAdds
    <3>5. c \in clients' => KnownWithin(c)'
      BY <2>1 DEF KnownWithin
    <3>6. c \notin clients' => UnknownWithin(c)'
      BY <2>1, <3>1, <3>2, <3>4, <3>3 DEF UnknownWithin
    <3>7. lastSeen'[c] <= time'
      BY <2>1, <3>1
    <3> QED BY <3>5, <3>6, <3>7
  <2> QED BY <2>2, <2>3
<1>2. CASE OpenWindow
  <2>1. /\ since' = time
        /\ granted' = [c \in Client |-> 0]
        /\ UNCHANGED <<clients, tokens, lastSeen, time>>
    BY <1>2 DEF OpenWindow
  <2>2. LimiterTypeOK' /\ since' <= time'
    BY <2>1 DEF LimiterTypeOK
  <2>3. ASSUME NEW c \in Client
        PROVE  /\ lastSeen'[c] <= time'
               /\ c \in clients' => KnownWithin(c)'
               /\ c \notin clients' => UnknownWithin(c)'
    <3>1. /\ time \in Nat /\ lastSeen[c] \in Nat /\ tokens[c] \in Int /\ lastSeen[c] <= time
          /\ granted'[c] = 0 /\ time' = time /\ since' = time
          /\ tokens' = tokens /\ lastSeen' = lastSeen /\ clients' = clients
      BY <2>1 DEF LimiterTypeOK
    <3>2. /\ Refill(time, time) = 0
          /\ Cost(0) = 0
          /\ Full \in Nat
      BY <3>1, FullFacts, RefillFacts, CostFacts
    <3>3. c \notin clients' => UnknownWithin(c)'
      BY <3>1, <3>2 DEF UnknownWithin
    <3>4. ASSUME c \in clients PROVE KnownWithin(c)'
      <4>1. 0 <= tokens[c] /\ tokens[c] <= Full
        BY <3>4 DEF KnownWithin
      <4>2. lastSeen[c] >= time => lastSeen[c] = time
        BY <3>1
      <4> QED BY <3>1, <3>2, <4>1, <4>2 DEF KnownWithin
    <3> QED BY <3>1, <3>3, <3>4
  <2> QED BY <2>2, <2>3
<1> QED BY <1>1, <1>2

\* Every step keeps it.
LEMMA NextWithin == Within /\ [LimiterNext]_limiterVars => Within'
<1> SUFFICES ASSUME Within, [LimiterNext]_limiterVars PROVE Within'
  OBVIOUS
<1>1. CASE \E c \in Client : Allow(c)
  BY <1>1, AllowWithin
<1>2. CASE \E c \in Client : Refuse(c)
  BY <1>2, RefuseWithin
<1>3. CASE cleanup
  BY <1>3, CleanupWithin
<1>4. CASE Pass \/ OpenWindow
  BY <1>4, ClockWithin
<1>5. CASE UNCHANGED limiterVars
  BY <1>5 DEF limiterVars, Within, LimiterTypeOK, KnownWithin, UnknownWithin
<1> QED BY <1>1, <1>2, <1>3, <1>4, <1>5 DEF LimiterNext

LEMMA WithinImpliesRate == Within => WithinRate
<1> SUFFICES ASSUME Within, NEW c \in Client
             PROVE  Cost(granted[c]) <= Full + Refill(since, time)
  BY DEF WithinRate, Cost, Full, Refill
<1>1. Cost(granted[c]) \in Nat /\ Refill(since, time) \in Int /\ Full \in Nat
  BY Numbers, FullFacts
<1>2. CASE c \in clients
  BY <1>1, <1>2, RefilledFacts
<1>3. CASE c \notin clients
  BY <1>1, <1>3 DEF Within, UnknownWithin
<1> QED BY <1>2, <1>3

\* allow never lets through more than burst requests plus the refills of the
\* time that passed, for every rate, burst and number of clients.
THEOREM RateHolds == LimiterSpec => []WithinRate
<1>1. LimiterSpec => []Within
  BY InitWithin, NextWithin, PTL DEF LimiterSpec
<1> QED BY <1>1, WithinImpliesRate, PTL

\* The limiter's state keeps its type; times and counts are never negative.
THEOREM LimiterTypeCorrect == LimiterSpec => []LimiterTypeOK
<1>1. LimiterSpec => []Within
  BY InitWithin, NextWithin, PTL DEF LimiterSpec
<1> QED BY <1>1, PTL DEF Within

-----------------------------------------------------------------------------
(* Signature, Forwarder and ScriptPool.                                      *)

\* What is in a request's headers: signatures with the secret only if they were
\* made; and the verdict is on these headers.
Genuine(r) ==
  /\ r = [cfg |-> r.cfg, headers |-> r.headers, body |-> r.body, at |-> r.at, verdict |-> r.verdict]
  /\ r.at \in Int
  /\ r.verdict = check(r.cfg, r.headers, r.body, r.at)
  /\ \E id, ts, sigs :
       /\ id \in Id \cup {Nothing} /\ ts \in 0..LastTick \cup {Nothing}
       /\ r.headers = Canonical(id, ts, sigs)
       /\ \A e \in sigs : e.key = "secret" => e \in made

\* What was signed again: the request was worth it, and the headers are fresh.
SignedAgain(o) ==
  /\ Resignable(request.cfg, request.verdict)
  /\ o.at \in 0..clock
  /\ \E id \in Id : o.headers = Fresh(id, o.body, o.at)

SignatureIInv ==
  /\ clock \in 0..LastTick
  /\ request # Nothing \/ outgoing # Nothing => Genuine(request)
  /\ outgoing # Nothing => SignedAgain(outgoing)

LEMMA Gets ==
  ASSUME NEW id, NEW ts, NEW sigs
  PROVE  /\ Get(Canonical(id, ts, sigs), "id") = id
         /\ Get(Canonical(id, ts, sigs), "timestamp") = ts
         /\ Get(Canonical(id, ts, sigs), "signature") = sigs
BY DEF Get, Canonical, Name, Spelling

LEMMA InitSignature == SignatureInit => SignatureIInv
BY SignatureAssumption DEF SignatureInit, SignatureIInv

\* A verdict that allows signing again is the secret's.
LEMMA VerdictOfSecret ==
  ASSUME NEW cfg, NEW h, NEW body, NEW at, Resignable(cfg, check(cfg, h, body, at))
  PROVE  /\ ~(at - Get(h, "timestamp") > Tolerance)
         /\ Get(h, "timestamp") # Nothing
         /\ SignHMAC(Get(h, "id"), Get(h, "timestamp"), body) \in Get(h, "signature")
<1>1. /\ cfg.secret = "secret"
      /\ check(cfg, h, body, at).scheme = "v1"
      /\ check(cfg, h, body, at).status = "verified"
      /\ check(cfg, h, body, at) # Nothing
  BY DEF Resignable
<1>2. check(cfg, h, body, at) = Check("secret", cfg.publicKey, h, body, at)
  BY <1>1 DEF check
<1>3. VerifyHMAC("secret", h, body, at) = "verified"
  BY <1>1, <1>2, SignatureAssumption DEF Check
<1>4. verify(h, body, at, "v1", "secret") = "verified"
  BY <1>3 DEF VerifyHMAC
<1> QED BY <1>4 DEF verify, SignHMAC

LEMMA PassTimeKeeps ==
  ASSUME SignatureIInv, PassTime
  PROVE  SignatureIInv'
<1>1. clock' \in 0..LastTick /\ clock \in Int /\ clock' = clock + 1
  BY SignatureAssumption DEF SignatureIInv, PassTime
<1>2. UNCHANGED <<made, request, outgoing>>
  BY DEF PassTime
<1>3. (request # Nothing \/ outgoing # Nothing => Genuine(request))'
  BY <1>2 DEF SignatureIInv, Genuine
<1>4. (outgoing # Nothing => SignedAgain(outgoing))'
  BY <1>1, <1>2 DEF SignatureIInv, SignedAgain
<1> QED BY <1>1, <1>3, <1>4 DEF SignatureIInv

\* More signatures make no request less genuine.
LEMMA GenuineGrows ==
  ASSUME NEW r, Genuine(r), made \subseteq made'
  PROVE  Genuine(r)'
BY DEF Genuine

LEMMA SenderSignsKeeps ==
  ASSUME SignatureIInv, SenderSigns
  PROVE  SignatureIInv'
<1>1. made \subseteq made' /\ UNCHANGED <<clock, request, outgoing>>
  BY DEF SenderSigns
<1>2. request # Nothing \/ outgoing # Nothing => Genuine(request)'
  BY <1>1, GenuineGrows DEF SignatureIInv
<1> QED BY <1>1, <1>2 DEF SignatureIInv, SignedAgain, Genuine

LEMMA ReceiveKeeps ==
  ASSUME SignatureIInv, Receive
  PROVE  SignatureIInv'
<1>1. PICK cfg \in Settings, body \in Body, id \in Id \cup {Nothing}, ts \in 0..LastTick \cup {Nothing} :
        \E own \in SUBSET {[version |-> v, key |-> IF v = "v1" THEN "another" ELSE "public",
                            id |-> id, ts |-> ts, body |-> body] : v \in {"v1", "v1a"}},
           copied \in SUBSET made :
          LET h == Canonical(id, ts, own \cup copied)
          IN request' = [cfg |-> cfg, headers |-> h, body |-> body, at |-> clock,
                         verdict |-> check(cfg, h, body, clock)]
  BY DEF Receive
<1>2. PICK own \in SUBSET {[version |-> v, key |-> IF v = "v1" THEN "another" ELSE "public",
                            id |-> id, ts |-> ts, body |-> body] : v \in {"v1", "v1a"}},
           copied \in SUBSET made :
        request' = [cfg |-> cfg, headers |-> Canonical(id, ts, own \cup copied), body |-> body, at |-> clock,
                    verdict |-> check(cfg, Canonical(id, ts, own \cup copied), body, clock)]
  BY <1>1
<1>3. UNCHANGED <<clock, made, outgoing>> /\ outgoing = Nothing
  BY DEF Receive
<1>4. \A e \in own \cup copied : e.key = "secret" => e \in made
  <2>1. \A e \in own : e.key \in {"another", "public"}
    OBVIOUS
  <2> QED BY <2>1
<1>5. clock \in Int
  BY SignatureAssumption DEF SignatureIInv
<1>6. Genuine(request)'
  <2>1. request'.at \in Int
    BY <1>2, <1>5
  <2>2. request'.verdict = check(request'.cfg, request'.headers, request'.body, request'.at)
    BY <1>2
  <2>3. request'.headers = Canonical(id, ts, own \cup copied)
    BY <1>2
  <2>4. request' = [cfg |-> request'.cfg, headers |-> request'.headers, body |-> request'.body,
                    at |-> request'.at, verdict |-> request'.verdict]
    BY <1>2
  <2> QED BY <1>3, <1>4, <2>1, <2>2, <2>3, <2>4 DEF Genuine
<1> QED BY <1>3, <1>6 DEF SignatureIInv

\* The ids that are signed are ids.
LEMMA TransformedIds ==
  ASSUME Genuine(request), NEW h \in Transformed(request.headers), NEW id \in ResignId(h, OwnId)
  PROVE  id \in Id
<1>1. PICK i, ts, sigs : i \in Id \cup {Nothing} /\ request.headers = Canonical(i, ts, sigs)
  BY DEF Genuine
<1>2. \A s \in Spelling : h["id"][s] \in Id \cup {Nothing}
  <2>1. CASE h = request.headers
    BY <1>1, <2>1 DEF Canonical, NoHeader, Name, Spelling
  <2>2. CASE h = Canonical(Nothing, Nothing, {})
    BY <2>2 DEF Canonical, NoHeader, Name, Spelling
  <2>3. CASE h = [n \in Name |-> [s \in Spelling |-> request.headers[n][IF s = "other" THEN "canonical" ELSE "other"]]]
    BY <1>1, <2>3 DEF Canonical, NoHeader, Name, Spelling
  <2>4. CASE h = [n \in Name |-> [s \in Spelling |-> Get(request.headers, n)]]
    BY <1>1, <2>4, Gets DEF Name, Spelling
  <2> QED BY <2>1, <2>2, <2>3, <2>4 DEF Transformed
<1> QED BY <1>2, SignatureAssumption DEF ResignId

LEMMA SignForwardKeeps ==
  ASSUME SignatureIInv, SignForward
  PROVE  SignatureIInv'
<1>1. PICK body \in Body, h \in Transformed(request.headers) : \E id \in ResignId(h, OwnId) :
        /\ outgoing' = [headers |-> Resign(h, id, body, clock), body |-> body, at |-> clock]
        /\ made' = made \cup {SignHMAC(id, clock, body)}
  BY DEF SignForward
<1>2. PICK id \in ResignId(h, OwnId) :
        /\ outgoing' = [headers |-> Resign(h, id, body, clock), body |-> body, at |-> clock]
        /\ made' = made \cup {SignHMAC(id, clock, body)}
  BY <1>1
<1>3. /\ request # Nothing
      /\ Resignable(request.cfg, request.verdict)
      /\ UNCHANGED <<clock, request>>
  BY DEF SignForward
<1>4. Genuine(request) /\ clock \in 0..LastTick
  BY <1>3 DEF SignatureIInv
<1>5. Genuine(request)'
  <2>1. Genuine(request) /\ made \subseteq made'
    BY <1>2, <1>4
  <2> QED BY <1>3, <2>1 DEF Genuine
<1>6. SignedAgain(outgoing)'
  <2>1. id \in Id
    BY <1>4, TransformedIds
  <2>2. outgoing'.at = clock /\ outgoing'.headers = Fresh(id, outgoing'.body, outgoing'.at)
    BY <1>2 DEF Resign
  <2>3. clock \in 0..clock
    BY <1>4, SignatureAssumption
  <2> QED BY <1>3, <2>1, <2>2, <2>3 DEF SignedAgain
<1> QED BY <1>3, <1>4, <1>5, <1>6 DEF SignatureIInv

LEMMA ResignRequestKeeps ==
  ASSUME SignatureIInv, ResignRequest
  PROVE  SignatureIInv'
<1> DEFINE incoming == check(request.cfg, request.headers, request.body, clock)
           id == IF Get(request.headers, "id") = Nothing THEN OwnId ELSE Get(request.headers, "id")
<1>1. PICK body \in Body :
        /\ Resignable(request.cfg, incoming)
        /\ request' = [request EXCEPT !.at = clock, !.verdict = incoming]
        /\ outgoing' = [headers |-> Fresh(id, body, clock), body |-> body, at |-> clock]
        /\ made' = made \cup {SignHMAC(id, clock, body)}
  BY DEF ResignRequest
<1>2. request # Nothing /\ UNCHANGED clock
  BY DEF ResignRequest
<1>3. Genuine(request) /\ clock \in 0..LastTick
  BY <1>2 DEF SignatureIInv
<1>4. PICK i, ts, sigs :
        /\ i \in Id \cup {Nothing} /\ ts \in 0..LastTick \cup {Nothing}
        /\ request.headers = Canonical(i, ts, sigs)
        /\ \A e \in sigs : e.key = "secret" => e \in made
  BY <1>3 DEF Genuine
<1>5. request' = [cfg |-> request.cfg, headers |-> request.headers, body |-> request.body,
                  at |-> clock, verdict |-> incoming]
  <2>1. request = [cfg |-> request.cfg, headers |-> request.headers, body |-> request.body,
                   at |-> request.at, verdict |-> request.verdict]
    BY <1>3 DEF Genuine
  <2> HIDE DEF incoming
  <2> QED BY <1>1, <2>1
<1>6. Genuine(request)'
  <2>1. /\ request'.at = clock /\ clock \in Int
        /\ request'.verdict = check(request'.cfg, request'.headers, request'.body, request'.at)
        /\ request'.headers = Canonical(i, ts, sigs)
        /\ request' = [cfg |-> request'.cfg, headers |-> request'.headers, body |-> request'.body,
                       at |-> request'.at, verdict |-> request'.verdict]
    BY <1>3, <1>4, <1>5, SignatureAssumption
  <2>2. \A e \in sigs : e.key = "secret" => e \in made'
    BY <1>1, <1>4
  <2> QED BY <1>4, <2>1, <2>2 DEF Genuine
<1>7. SignedAgain(outgoing)'
  <2>1. id \in Id
    BY <1>4, Gets, SignatureAssumption
  <2>2. outgoing'.at = clock /\ outgoing'.headers = Fresh(id, outgoing'.body, outgoing'.at)
    <3> HIDE DEF id
    <3> QED BY <1>1
  <2>3. clock \in 0..clock
    BY <1>3, SignatureAssumption
  <2>4. Resignable(request'.cfg, request'.verdict)
    BY <1>1, <1>5
  <2> HIDE DEF id
  <2> QED BY <1>2, <2>1, <2>2, <2>3, <2>4 DEF SignedAgain
<1> QED BY <1>2, <1>3, <1>6, <1>7 DEF SignatureIInv

LEMMA StepSignature == SignatureIInv /\ [SignatureNext]_signatureVars => SignatureIInv'
<1> SUFFICES ASSUME SignatureIInv, [SignatureNext]_signatureVars PROVE SignatureIInv'
  OBVIOUS
<1>1. CASE PassTime
  BY <1>1, PassTimeKeeps
<1>2. CASE SenderSigns
  BY <1>2, SenderSignsKeeps
<1>3. CASE Receive
  BY <1>3, ReceiveKeeps
<1>4. CASE SignForward
  BY <1>4, SignForwardKeeps
<1>5. CASE ResignRequest
  BY <1>5, ResignRequestKeeps
<1>6. CASE NextRequest
  BY <1>6 DEF NextRequest, SignatureIInv
<1>7. CASE UNCHANGED signatureVars
  BY <1>7 DEF signatureVars, SignatureIInv, Genuine, SignedAgain
<1> QED BY <1>1, <1>2, <1>3, <1>4, <1>5, <1>6, <1>7 DEF SignatureNext

\* Whatever the server signs came with a signature of the same secret, over
\* what was received, within the tolerance (secretBox.resign and its callers).
THEOREM SignsOnlyWhatWasSigned == SignatureSpec => []ResignedWasSigned
<1>1. SignatureIInv => ResignedWasSigned
  <2> SUFFICES ASSUME SignatureIInv, outgoing # Nothing
               PROVE  \E e \in Get(request.headers, "signature") \cap made :
                        /\ e = SignHMAC(Get(request.headers, "id"), Get(request.headers, "timestamp"), request.body)
                        /\ request.at - e.ts <= Tolerance
    BY DEF ResignedWasSigned
  <2>1. Genuine(request) /\ Resignable(request.cfg, request.verdict)
    BY DEF SignatureIInv, SignedAgain
  <2>2. PICK id, ts, sigs :
          /\ id \in Id \cup {Nothing} /\ ts \in 0..LastTick \cup {Nothing}
          /\ request.headers = Canonical(id, ts, sigs)
          /\ \A e \in sigs : e.key = "secret" => e \in made
    BY <2>1 DEF Genuine
  <2>3. Resignable(request.cfg, check(request.cfg, request.headers, request.body, request.at))
    BY <2>1 DEF Genuine
  <2>4. /\ ~(request.at - ts > Tolerance) /\ ts # Nothing
        /\ SignHMAC(id, ts, request.body) \in sigs
    BY <2>2, <2>3, Gets, VerdictOfSecret
  <2>5. SignHMAC(id, ts, request.body).key = "secret" /\ SignHMAC(id, ts, request.body).ts = ts
    BY DEF SignHMAC
  <2>6. SignHMAC(id, ts, request.body) \in Get(request.headers, "signature") \cap made
    BY <2>2, <2>4, <2>5, Gets
  <2>7. request.at - ts <= Tolerance
    BY <2>1, <2>2, <2>4, SignatureAssumption DEF Genuine
  <2> QED BY <2>2, <2>5, <2>6, <2>7, Gets
<1> QED BY InitSignature, StepSignature, <1>1, PTL DEF SignatureSpec

\* A target with the secret accepts what was signed again, within the tolerance
\* (Resign against Check).
THEOREM TargetAccepts == SignatureSpec => []ResignedVerifies
<1>1. SignatureIInv => ResignedVerifies
  <2> SUFFICES ASSUME SignatureIInv, outgoing # Nothing, clock - outgoing.at <= Tolerance,
                      NEW id \in Reads(outgoing.headers)["id"],
                      NEW ts \in Reads(outgoing.headers)["timestamp"],
                      NEW sigs \in Reads(outgoing.headers)["signature"]
               PROVE  Check("secret", Nothing, Canonical(id, ts, sigs), outgoing.body, clock)
                        = [status |-> "verified", scheme |-> "v1"]
    BY DEF ResignedVerifies
  <2>1. PICK i \in Id : outgoing.headers = Fresh(i, outgoing.body, outgoing.at)
    BY DEF SignatureIInv, SignedAgain
  <2>2. outgoing.at \in 0..clock /\ clock \in 0..LastTick
    BY DEF SignatureIInv, SignedAgain
  <2> DEFINE sig == SignHMAC(i, outgoing.at, outgoing.body)
  <2>3. id = i /\ ts = outgoing.at /\ sigs = {sig}
    BY <2>1 DEF Reads, Fresh, Canonical, NoHeader, Name, Spelling
  <2>4. verify(Canonical(i, outgoing.at, {sig}), outgoing.body, clock, "v1", "secret") = "verified"
    <3>1. i # Nothing /\ outgoing.at # Nothing /\ {sig} # {}
      BY <2>2, SignatureAssumption
    <3>2. ~(clock - outgoing.at > Tolerance \/ outgoing.at - clock > Tolerance)
      BY <2>2, SignatureAssumption
    <3>3. sig = [version |-> "v1", key |-> "secret", id |-> i, ts |-> outgoing.at, body |-> outgoing.body]
      BY DEF SignHMAC
    <3> HIDE DEF sig
    <3> QED BY <3>1, <3>2, <3>3, Gets DEF verify
  <2> HIDE DEF sig
  <2>5. VerifyHMAC("secret", Canonical(id, ts, sigs), outgoing.body, clock) = "verified"
    BY <2>3, <2>4 DEF VerifyHMAC
  <2> QED BY <2>5, SignatureAssumption DEF Check
<1> QED BY InitSignature, StepSignature, <1>1, PTL DEF SignatureSpec

-----------------------------------------------------------------------------

\* A failure that may pass.
Passing(r) == r.error # "address" /\ r.status \in {0, 429} \cup 500..599

Cancelled(r) == [r EXCEPT !.error = "context"]

\* A status that is reported is the target's last answer.
Reports(r, sv) == r.status # 0 => sv # <<>> /\ sv[Len(sv)].status = r.status

\* Of the target's answers only the last settles anything.
Unsettled(sv) == \A i \in DOMAIN sv : i = Len(sv) \/ Inconclusive(sv[i])

\* What AttemptsExplained says of a forward in phase ph that made the attempts
\* ts and returned res, and whose target answered sv; rep says whether it may be
\* replayed, done whether its context ended.
Explained(ph, ts, res, sv, rep, done) ==
  /\ Len(ts) <= MaxRetries + 1
  /\ \A i \in DOMAIN ts : (i = Len(ts) /\ ph = "returned") \/ Passing(ts[i])
  /\ Unsettled(sv)
  /\ ~rep => Len(sv) <= Len(ts) + (IF ph = "sent" THEN 1 ELSE 0)
  /\ ph = "returned" =>
       /\ ts # <<>>
       /\ res = ts[Len(ts)] \/ (done /\ res = Cancelled(ts[Len(ts)]))
       /\ Reports(res, sv)

\* What holds on the way: before another attempt the last answer, if the target
\* got the request at all, does not settle the forward.
Underway(ph, ts, sv) ==
  /\ ph # "returned" => /\ Len(ts) <= MaxRetries
                        /\ sv = <<>> \/ Inconclusive(sv[Len(sv)])
  /\ ph = "pausing" => ts # <<>> /\ Reports(ts[Len(ts)], sv)
  /\ ph = "sent" => sv # <<>>

JobInv(j) ==
  /\ Explained(forward[j], tries[j], result[j], served[j], j \in replayable, j \in expired)
  /\ Underway(forward[j], tries[j], served[j])

ForwardIInv == ForwardTypeOK /\ \A j \in Job : JobInv(j)

\* An attempt is repeated only after a failure that may pass.
LEMMA RepeatablePasses ==
  ASSUME NEW r \in Result, Repeatable(r)
  PROVE  Passing(r)
<1>1. r.status \in {0, 200, 302, 404, 429, 500} /\ r.error # "address"
  BY DEF Result, Status, Repeatable, blocked
<1>2. r.status = 0 \/ r.status >= 500 \/ r.status = 429
  BY DEF Repeatable, isRetryable
<1>3. r.status \in {0, 429} \cup 500..599
  BY <1>1, <1>2
<1> QED BY <1>1, <1>3 DEF Passing

\* One more attempt, or answer, in the list.
LEMMA OneMore ==
  ASSUME NEW S, NEW ts \in Seq(S), NEW r \in S
  PROVE  /\ Append(ts, r) \in Seq(S)
         /\ Len(ts) \in Nat
         /\ Len(Append(ts, r)) = Len(ts) + 1
         /\ Append(ts, r)[Len(ts) + 1] = r
         /\ Append(ts, r) # <<>>
         /\ \A i \in DOMAIN Append(ts, r) :
              \/ i = Len(ts) + 1
              \/ i \in DOMAIN ts /\ Append(ts, r)[i] = ts[i]
OBVIOUS

\* The answer to the last request that got there.
LEMMA LastAnswer ==
  ASSUME NEW sv \in Seq(Answer), sv # <<>>, NEW a \in Answer
  PROVE  LET after == [sv EXCEPT ![Len(sv)] = a]
         IN /\ after \in Seq(Answer)
            /\ after # <<>>
            /\ Len(after) = Len(sv)
            /\ after[Len(after)] = a
            /\ \A i \in DOMAIN after : i = Len(after) \/ (i \in DOMAIN sv /\ after[i] = sv[i])
OBVIOUS

LEMMA InitForward == ForwardInit => ForwardIInv
<1> SUFFICES ASSUME ForwardInit PROVE ForwardIInv
  OBVIOUS
<1>1. ForwardTypeOK
  BY DEF ForwardInit, ForwardTypeOK, ForwardPhase
<1>2. ASSUME NEW j \in Job PROVE JobInv(j)
  BY ForwarderAssumption DEF ForwardInit, JobInv, Explained, Underway, Unsettled
<1> QED BY <1>1, <1>2 DEF ForwardIInv

\* What the steps share: the other forwards are left alone.
LEMMA OneForward ==
  ASSUME ForwardIInv, NEW j \in Job,
         NEW ph \in ForwardPhase, NEW ts \in Seq(Result), NEW res \in Result \cup {NoResult},
         NEW sv \in Seq(Answer),
         forward' = [forward EXCEPT ![j] = ph],
         tries' = [tries EXCEPT ![j] = ts],
         result' = [result EXCEPT ![j] = res],
         served' = [served EXCEPT ![j] = sv],
         replayable' \in {replayable, replayable \cup {j}},
         expired' = expired,
         Explained(ph, ts, res, sv, j \in replayable, j \in expired),
         Underway(ph, ts, sv)
  PROVE  ForwardIInv'
<1>1. ForwardTypeOK'
  BY DEF ForwardIInv, ForwardTypeOK
<1>2. ASSUME NEW k \in Job PROVE JobInv(k)'
  <2>1. CASE k = j
    <3>1. /\ forward'[k] = ph /\ tries'[k] = ts /\ result'[k] = res /\ served'[k] = sv
          /\ expired' = expired
      BY <2>1 DEF ForwardIInv, ForwardTypeOK
    <3>2. Explained(ph, ts, res, sv, j \in replayable', j \in expired)
      BY DEF Explained
    <3> QED BY <3>1, <3>2, <2>1 DEF JobInv
  <2>2. CASE k # j
    <3>1. /\ forward'[k] = forward[k] /\ tries'[k] = tries[k] /\ result'[k] = result[k]
          /\ served'[k] = served[k] /\ expired' = expired
      BY <2>2 DEF ForwardIInv, ForwardTypeOK
    <3>2. JobInv(k)
      BY DEF ForwardIInv
    <3>3. (k \in replayable') = (k \in replayable)
      BY <2>2
    <3> QED BY <3>1, <3>2, <3>3 DEF JobInv
  <2> QED BY <2>1, <2>2
<1> QED BY <1>1, <1>2 DEF ForwardIInv

\* Every attempt ends in Attempted.
LEMMA AttemptedIInv ==
  ASSUME ForwardIInv, NEW j \in Job, NEW r \in Result, NEW after \in Seq(Answer),
         forward[j] \in {"trying", "sent"},
         served' = [served EXCEPT ![j] = after],
         Len(after) = Len(served[j]),
         Unsettled(after),
         Reports(r, after),
         Repeatable(r) => after = <<>> \/ Inconclusive(after[Len(after)]),
         Attempted(j, r)
  PROVE  ForwardIInv'
<1> DEFINE ts == tries[j]
           more == Append(ts, r)
           rep == j \in replayable
           done == j \in expired
<1>1. /\ ts \in Seq(Result) /\ served[j] \in Seq(Answer) /\ result[j] \in Result \cup {NoResult}
      /\ Explained(forward[j], ts, result[j], served[j], rep, done)
      /\ Underway(forward[j], ts, served[j])
  BY DEF ForwardIInv, ForwardTypeOK, JobInv
<1>2. /\ Repeatable(r) /\ Len(ts) < MaxRetries
           => /\ Explained("pausing", more, result[j], after, rep, done)
              /\ Underway("pausing", more, after)
      /\ Explained("returned", more, r, after, rep, done)
      /\ Underway("returned", more, after)
  <2> HIDE DEF ts, rep, done
  <2>1. /\ Len(ts) \in Nat /\ Len(more) = Len(ts) + 1
        /\ more[Len(more)] = r /\ more # <<>>
    BY <1>1, OneMore
  <2>2. /\ MaxRetries \in Nat
        /\ Len(ts) <= MaxRetries
        /\ \A i \in DOMAIN ts : Passing(ts[i])
    BY <1>1, ForwarderAssumption DEF Explained, Underway
  <2>3. ~rep => Len(after) <= Len(more)
    BY <1>1, <2>1 DEF Explained
  <2>4. \A i \in DOMAIN more : i = Len(more) \/ Passing(more[i])
    BY <1>1, <2>1, <2>2, OneMore
  <2> HIDE DEF more
  <2>5. Explained("returned", more, r, after, rep, done) /\ Underway("returned", more, after)
    BY <2>1, <2>2, <2>3, <2>4 DEF Explained, Underway
  <2>6. ASSUME Repeatable(r), Len(ts) < MaxRetries
        PROVE  /\ Explained("pausing", more, result[j], after, rep, done)
               /\ Underway("pausing", more, after)
    <3>1. \A i \in DOMAIN more : Passing(more[i])
      BY <2>1, <2>4, <2>6, RepeatablePasses
    <3> QED BY <2>1, <2>2, <2>3, <2>6, <3>1 DEF Explained, Underway
  <2> QED BY <2>5, <2>6
<1>3. Append(ts, r) \in Seq(Result)
  BY <1>1, OneMore
<1>4. /\ tries' = [tries EXCEPT ![j] = Append(ts, r)]
      /\ replayable' \in {replayable, replayable \cup {j}}
      /\ expired' = expired
  BY DEF Attempted, ForwardIInv, ForwardTypeOK
<1>5. CASE Repeatable(r) /\ Len(ts) < MaxRetries
  <2>1. /\ forward' = [forward EXCEPT ![j] = "pausing"]
        /\ result' = [result EXCEPT ![j] = result[j]]
    BY <1>5 DEF Attempted, ForwardIInv, ForwardTypeOK
  <2>2. "pausing" \in ForwardPhase
    BY DEF ForwardPhase
  <2> QED BY <1>1, <1>2, <1>3, <1>4, <1>5, <2>1, <2>2, OneForward
<1>6. CASE ~(Repeatable(r) /\ Len(ts) < MaxRetries)
  <2>1. /\ forward' = [forward EXCEPT ![j] = "returned"]
        /\ result' = [result EXCEPT ![j] = r]
    BY <1>6 DEF Attempted
  <2>2. "returned" \in ForwardPhase
    BY DEF ForwardPhase
  <2> QED BY <1>1, <1>2, <1>3, <1>4, <2>1, <2>2, OneForward
<1> QED BY <1>5, <1>6

\* An attempt that ends without a new answer has no status to report.
LEMMA UnansweredIInv ==
  ASSUME ForwardIInv, NEW j \in Job, NEW e \in Error,
         forward[j] \in {"trying", "sent"},
         Attempted(j, [status |-> 0, error |-> e]), served' = served
  PROVE  ForwardIInv'
<1> DEFINE r == [status |-> 0, error |-> e]
<1>1. r \in Result /\ Reports(r, served[j])
  BY DEF Result, Status, Reports
<1>2. /\ served[j] \in Seq(Answer)
      /\ served' = [served EXCEPT ![j] = served[j]]
      /\ Unsettled(served[j])
      /\ served[j] = <<>> \/ Inconclusive(served[j][Len(served[j])])
  BY DEF ForwardIInv, ForwardTypeOK, JobInv, Explained, Underway
<1> HIDE DEF r
<1> QED BY <1>1, <1>2, AttemptedIInv DEF r

\* One that ends with the target's answer a.
LEMMA AnsweredIInv ==
  ASSUME ForwardIInv, NEW j \in Job, NEW r \in Result, NEW a \in Answer,
         forward[j] = "sent", Answers(j, a), Attempted(j, r),
         r.status # 0 => a.status = r.status,
         Repeatable(r) => Inconclusive(a)
  PROVE  ForwardIInv'
<1> DEFINE after == [served[j] EXCEPT ![Len(served[j])] = a]
<1>1. /\ served \in [Job -> Seq(Answer)] /\ served[j] \in Seq(Answer) /\ served[j] # <<>>
      /\ Unsettled(served[j])
  BY DEF ForwardIInv, ForwardTypeOK, JobInv, Explained, Underway
<1>2. /\ after \in Seq(Answer) /\ after # <<>> /\ Len(after) = Len(served[j])
      /\ after[Len(after)] = a
      /\ Unsettled(after)
  BY <1>1, LastAnswer DEF Unsettled
<1>3. served' = [served EXCEPT ![j] = after]
  BY <1>1 DEF Answers
<1>4. Reports(r, after) /\ (Repeatable(r) => Inconclusive(after[Len(after)]))
  BY <1>2 DEF Reports
<1> HIDE DEF after
<1> QED BY <1>2, <1>3, <1>4, AttemptedIInv

\* The steps in which the request gets to the target once more.
LEMMA ServeIInv ==
  ASSUME ForwardIInv, NEW j \in Job, Send(j) \/ SendAgain(j)
  PROVE  ForwardIInv'
<1> DEFINE more == Append(served[j], NoAnswer)
<1>1. /\ tries[j] \in Seq(Result) /\ served[j] \in Seq(Answer)
      /\ result[j] \in Result \cup {NoResult}
      /\ Explained(forward[j], tries[j], result[j], served[j], j \in replayable, j \in expired)
      /\ Underway(forward[j], tries[j], served[j])
  BY DEF ForwardIInv, ForwardTypeOK, JobInv
<1>2. /\ forward' = [forward EXCEPT ![j] = "sent"]
      /\ tries' = [tries EXCEPT ![j] = tries[j]]
      /\ result' = [result EXCEPT ![j] = result[j]]
      /\ served' = [served EXCEPT ![j] = more]
      /\ replayable' \in {replayable, replayable \cup {j}} /\ expired' = expired
      /\ forward[j] \in {"trying", "sent"}
      /\ forward[j] = "trying" \/ j \in replayable
  BY DEF Send, SendAgain, Serve, ForwardIInv, ForwardTypeOK
<1>3. NoAnswer \in Answer /\ Inconclusive(NoAnswer)
  BY DEF NoAnswer, Answer, Status, Inconclusive
<1>4. /\ more \in Seq(Answer) /\ more # <<>> /\ Len(more) = Len(served[j]) + 1
      /\ more[Len(more)] = NoAnswer /\ Len(tries[j]) \in Nat /\ Len(served[j]) \in Nat
  BY <1>1, <1>3, OneMore
<1>5. \A i \in DOMAIN more : Inconclusive(more[i])
  <2>1. \A i \in DOMAIN served[j] : Inconclusive(served[j][i])
    BY <1>1, <1>2 DEF Explained, Underway, Unsettled
  <2> QED BY <2>1, <1>1, <1>3, OneMore
<1> HIDE DEF more
<1>6. /\ Explained("sent", tries[j], result[j], more, j \in replayable, j \in expired)
      /\ Underway("sent", tries[j], more)
  <2>1. /\ Len(tries[j]) <= MaxRetries /\ Len(tries[j]) <= MaxRetries + 1
        /\ \A i \in DOMAIN tries[j] : Passing(tries[j][i])
    BY <1>1, <1>2, <1>4, ForwarderAssumption DEF Explained, Underway
  <2>2. Unsettled(more) /\ Inconclusive(more[Len(more)])
    BY <1>3, <1>4, <1>5 DEF Unsettled
  <2>3. ASSUME j \notin replayable PROVE Len(served[j]) <= Len(tries[j])
    <3>1. forward[j] = "trying" /\ forward[j] # "sent"
      BY <1>2, <2>3
    <3>2. j \notin replayable => Len(served[j]) <= Len(tries[j]) + (IF forward[j] = "sent" THEN 1 ELSE 0)
      BY <1>1 DEF Explained
    <3> QED BY <1>4, <2>3, <3>1, <3>2
  <2>4. j \notin replayable => Len(more) <= Len(tries[j]) + 1
    BY <1>4, <2>3
  <2>5. Explained("sent", tries[j], result[j], more, j \in replayable, j \in expired)
    BY <2>1, <2>2, <2>4 DEF Explained
  <2>6. Underway("sent", tries[j], more)
    BY <1>4, <2>1, <2>2 DEF Underway
  <2> QED BY <2>5, <2>6
<1>7. "sent" \in ForwardPhase
  BY DEF ForwardPhase
<1> QED BY <1>1, <1>2, <1>4, <1>6, <1>7, OneForward

\* The steps of one forward.
LEMMA StepIInv ==
  ASSUME ForwardIInv, NEW j \in Job, ForwardOne(j) \/ Progress(j)
  PROVE  ForwardIInv'
<1>1. /\ tries[j] \in Seq(Result) /\ served[j] \in Seq(Answer)
      /\ result[j] \in Result \cup {NoResult}
      /\ Explained(forward[j], tries[j], result[j], served[j], j \in replayable, j \in expired)
      /\ Underway(forward[j], tries[j], served[j])
  BY DEF ForwardIInv, ForwardTypeOK, JobInv
<1>2. /\ tries = [tries EXCEPT ![j] = tries[j]]
      /\ result = [result EXCEPT ![j] = result[j]]
      /\ served = [served EXCEPT ![j] = served[j]]
  BY DEF ForwardIInv, ForwardTypeOK
<1>3. CASE ForwardOne(j) \/ Retry(j)
  <2>1. /\ forward[j] \in {"none", "pausing"}
        /\ forward' = [forward EXCEPT ![j] = "trying"]
        /\ tries' = tries /\ result' = result /\ served' = served /\ expired' = expired
        /\ replayable' \in {replayable, replayable \cup {j}}
    BY <1>3 DEF ForwardOne, Retry
  <2>2. /\ Explained("trying", tries[j], result[j], served[j], j \in replayable, j \in expired)
        /\ Underway("trying", tries[j], served[j])
    BY <1>1, <2>1 DEF Explained, Underway
  <2>3. /\ tries' = [tries EXCEPT ![j] = tries[j]]
        /\ result' = [result EXCEPT ![j] = result[j]]
        /\ served' = [served EXCEPT ![j] = served[j]]
    BY <1>2, <2>1
  <2>4. "trying" \in ForwardPhase
    BY DEF ForwardPhase
  <2> QED BY <1>1, <2>1, <2>2, <2>3, <2>4, OneForward
<1>4. CASE Send(j) \/ SendAgain(j)
  BY <1>4, ServeIInv
<1>5. CASE CancelPause(j)
  <2>1. /\ forward[j] = "pausing" /\ j \in expired
        /\ forward' = [forward EXCEPT ![j] = "returned"]
        /\ result' = [result EXCEPT ![j] = Cancelled(tries[j][Len(tries[j])])]
        /\ tries' = tries /\ served' = served /\ replayable' = replayable /\ expired' = expired
    BY <1>5 DEF CancelPause, Last, Cancelled
  <2>2. tries[j] # <<>> /\ tries[j][Len(tries[j])] \in Result
    BY <1>1, <2>1 DEF Underway
  <2>3. /\ Cancelled(tries[j][Len(tries[j])]) \in Result
        /\ Cancelled(tries[j][Len(tries[j])]).status = tries[j][Len(tries[j])].status
    BY <2>2 DEF Cancelled, Result, Error
  <2>4. /\ Explained("returned", tries[j], Cancelled(tries[j][Len(tries[j])]),
                     served[j], j \in replayable, j \in expired)
        /\ Underway("returned", tries[j], served[j])
    BY <1>1, <2>1, <2>2, <2>3 DEF Explained, Underway, Reports
  <2>5. "returned" \in ForwardPhase
    BY DEF ForwardPhase
  <2> QED BY <1>1, <1>2, <2>1, <2>3, <2>4, <2>5, OneForward
<1>6. CASE NotSent(j)
  <2>1. PICK e \in Error : Attempted(j, [status |-> 0, error |-> e])
    BY <1>6 DEF NotSent
  <2> QED BY <1>6, <2>1, UnansweredIInv DEF NotSent
<1>7. CASE AnswerLost(j)
  <2>1. PICK e \in {"network", "context", "address"} : Attempted(j, [status |-> 0, error |-> e])
    BY <1>7 DEF AnswerLost
  <2>2. e \in Error
    BY DEF Error
  <2> QED BY <1>7, <2>1, <2>2, UnansweredIInv DEF AnswerLost
<1>8. CASE Answered(j)
  <2>1. PICK s \in Status \ {0}, e \in {"none", "body"} :
          /\ Answers(j, [status |-> s, barred |-> FALSE])
          /\ Attempted(j, [status |-> s, error |-> e])
    BY <1>8 DEF Answered
  <2> DEFINE r == [status |-> s, error |-> e]
             a == [status |-> s, barred |-> FALSE]
  <2>2. r \in Result /\ a \in Answer /\ a.status = r.status
    BY DEF Result, Error, Answer
  <2>3. Repeatable(r) => Inconclusive(a)
    BY <2>2, RepeatablePasses DEF Passing, Inconclusive
  <2> HIDE DEF r, a
  <2> QED BY <1>8, <2>1, <2>2, <2>3, AnsweredIInv DEF Answered, r, a
<1>9. CASE RedirectBarred(j)
  <2> DEFINE r == [status |-> 0, error |-> "redirect"]
             a == [status |-> 302, barred |-> TRUE]
  <2>1. r \in Result /\ a \in Answer /\ r.status = 0 /\ Inconclusive(a)
    BY DEF Result, Error, Status, Answer, Inconclusive
  <2>2. forward[j] = "sent" /\ Answers(j, a) /\ Attempted(j, r)
    BY <1>9 DEF RedirectBarred
  <2> HIDE DEF r, a
  <2> QED BY <2>1, <2>2, AnsweredIInv
<1> QED BY <1>3, <1>4, <1>5, <1>6, <1>7, <1>8, <1>9 DEF Progress

\* The end of a context only widens what is allowed of its forward.
LEMMA ExpireIInv ==
  ASSUME ForwardIInv, NEW j \in Job, Expire(j)
  PROVE  ForwardIInv'
<1>1. /\ UNCHANGED <<forward, tries, result, served, replayable>>
      /\ expired' \in SUBSET Job /\ expired \subseteq expired'
  BY DEF Expire, ForwardIInv, ForwardTypeOK
<1>2. ASSUME NEW k \in Job PROVE JobInv(k)'
  <2>1. JobInv(k)
    BY DEF ForwardIInv
  <2> QED BY <1>1, <2>1 DEF JobInv, Explained
<1> QED BY <1>1, <1>2 DEF ForwardIInv, ForwardTypeOK

LEMMA NextForward == ForwardIInv /\ [ForwardNext]_forwardVars => ForwardIInv'
<1> SUFFICES ASSUME ForwardIInv, [ForwardNext]_forwardVars PROVE ForwardIInv'
  OBVIOUS
<1>1. CASE ForwardNext
  BY <1>1, StepIInv, ExpireIInv DEF ForwardNext
<1>2. CASE UNCHANGED forwardVars
  BY <1>2 DEF forwardVars, ForwardIInv, ForwardTypeOK, JobInv
<1> QED BY <1>1, <1>2

LEMMA ForwardIInvExplains == ForwardIInv => AttemptsExplained
<1> SUFFICES ASSUME ForwardIInv PROVE AttemptsExplained
  OBVIOUS
<1>1. ASSUME NEW j \in Job
      PROVE  Explained(forward[j], tries[j], result[j], served[j], j \in replayable, j \in expired)
  BY DEF ForwardIInv, JobInv
<1> QED BY <1>1 DEF AttemptsExplained, Explained, Unsettled, Passing, Cancelled, Reports, Last

\* A target that gets a webhook again had not answered the time before in a way
\* that settles it, and got it no more often than it was tried unless the
\* transport may replay it; the returned outcome is the last one.
THEOREM AttemptsAreExplained == ForwardSpec => []AttemptsExplained
<1>1. ForwardSpec => []ForwardIInv
  BY InitForward, NextForward, PTL DEF ForwardSpec
<1> QED BY <1>1, ForwardIInvExplains, PTL

\* The forwards' state keeps its type, through retries and lost answers.
THEOREM ForwardTypeCorrect == ForwardSpec => []ForwardTypeOK
<1>1. ForwardSpec => []ForwardIInv
  BY InitForward, NextForward, PTL DEF ForwardSpec
<1> QED BY <1>1, PTL DEF ForwardIInv

-----------------------------------------------------------------------------
\* A step that is about one call, and the others.
CallStep(w) == Enter(w) \/ Execute(w) \/ Return(w)

\* The workers whose call is in one of the places S.
In(S) == {w \in Worker : call[w] \in S}

\* Those that put their runtime back too late, or did not in the end.
Passed == {w \in late : call[w] # "resetting"}

\* No call gets past the slots channel's capacity.
SlotsBounded == slots <= PoolSize

\* Once Close has begun nobody passes the ready check, and when it has ended
\* those that passed it before are in late.
NoneSneaksIn ==
  /\ closer # "open" => ~ready
  /\ closer = "closed" => In({"resetting"}) \subseteq late

PoolIInv ==
  /\ PoolTypeOK
  /\ SlotsBounded
  /\ RuntimesBounded
  /\ OnlyCleanHandedOut
  /\ NoneSneaksIn
  /\ LeftoversAreLate

USE DEF WithSlot, WithRuntime, Occupying, Runtime

-----------------------------------------------------------------------------
\* Counting the members of a subset of the workers.
LEMMA CountIsNat ==
  ASSUME NEW T \in SUBSET Worker
  PROVE  IsFiniteSet(T) /\ Cardinality(T) \in Nat
BY PoolAssumption, FS_Subset, FS_CardinalityType

\* When call w goes from one place to another, the number of calls in the
\* places S changes by w's alone.
LEMMA CountAfterMove ==
  ASSUME NEW f, NEW w \in Worker, NEW b, NEW S, DOMAIN f = Worker
  PROVE  /\ f[w] \notin S /\ b \in S
              => Cardinality({v \in Worker : [f EXCEPT ![w] = b][v] \in S})
                   = Cardinality({v \in Worker : f[v] \in S}) + 1
         /\ f[w] \in S /\ b \notin S
              => Cardinality({v \in Worker : [f EXCEPT ![w] = b][v] \in S})
                   = Cardinality({v \in Worker : f[v] \in S}) - 1
         /\ (f[w] \in S <=> b \in S)
              => {v \in Worker : [f EXCEPT ![w] = b][v] \in S} = {v \in Worker : f[v] \in S}
<1> DEFINE old == {v \in Worker : f[v] \in S}
           new == {v \in Worker : [f EXCEPT ![w] = b][v] \in S}
<1>1. IsFiniteSet(old)
  BY CountIsNat
<1>2. CASE f[w] \notin S /\ b \in S
  <2>1. new = old \cup {w} /\ w \notin old
    BY <1>2
  <2> QED BY <1>1, <1>2, <2>1, FS_AddElement
<1>3. CASE f[w] \in S /\ b \notin S
  <2>1. new = old \ {w} /\ w \in old
    BY <1>3
  <2> QED BY <1>1, <1>3, <2>1, FS_RemoveElement
<1>4. CASE f[w] \in S <=> b \in S
  BY <1>4
<1> QED BY <1>2, <1>3, <1>4

\* The same for a step of the pool.
LEMMA Moves ==
  ASSUME PoolTypeOK, NEW w \in Worker, NEW a, NEW b, Go(w, a, b), NEW S
  PROVE  /\ a \notin S /\ b \in S => Cardinality(In(S))' = Cardinality(In(S)) + 1
         /\ a \in S /\ b \notin S => Cardinality(In(S))' = Cardinality(In(S)) - 1
         /\ (a \in S <=> b \in S) => Cardinality(In(S))' = Cardinality(In(S))
<1>1. DOMAIN call = Worker /\ call[w] = a /\ call' = [call EXCEPT ![w] = b]
  BY DEF PoolTypeOK, Go
<1>2. /\ In(S) = {v \in Worker : call[v] \in S}
      /\ In(S)' = {v \in Worker : [call EXCEPT ![w] = b][v] \in S}
  BY <1>1 DEF In
<1>3. /\ a \notin S /\ b \in S
           => Cardinality({v \in Worker : [call EXCEPT ![w] = b][v] \in S})
                = Cardinality({v \in Worker : call[v] \in S}) + 1
      /\ a \in S /\ b \notin S
           => Cardinality({v \in Worker : [call EXCEPT ![w] = b][v] \in S})
                = Cardinality({v \in Worker : call[v] \in S}) - 1
      /\ (a \in S <=> b \in S)
           => {v \in Worker : [call EXCEPT ![w] = b][v] \in S} = {v \in Worker : call[v] \in S}
  BY <1>1, CountAfterMove
<1> QED BY <1>2, <1>3

-----------------------------------------------------------------------------
\* Before the first call nothing is held and nothing is idle.
LEMMA InitPool == PoolInit => PoolIInv
<1> SUFFICES ASSUME PoolInit PROVE PoolIInv
  OBVIOUS
<1>1. PoolTypeOK
  BY DEF PoolInit, PoolTypeOK
<1>2. /\ {w \in Worker : call[w] \in Occupying} = {}
      /\ {w \in Worker : call[w] \in WithSlot} = {}
  BY DEF PoolInit
<1>3. SlotsBounded /\ RuntimesBounded
  <2>1. Len(idle) = 0 /\ slots = 0 /\ PoolSize \in Nat
    BY PoolAssumption DEF PoolInit
  <2>2. /\ Cardinality({w \in Worker : call[w] \in Occupying}) = 0
        /\ Cardinality({w \in Worker : call[w] \in WithSlot}) = 0
    BY <1>2, FS_EmptySet
  <2> QED BY <2>1, <2>2 DEF SlotsBounded, RuntimesBounded
<1>4. OnlyCleanHandedOut /\ NoneSneaksIn /\ LeftoversAreLate
  BY DEF PoolInit, OnlyCleanHandedOut, NoneSneaksIn, LeftoversAreLate
<1> QED BY <1>1, <1>3, <1>4 DEF PoolIInv

\* What the three operations on the idle channel give.
LEMMA IdleTypes ==
  ASSUME PoolTypeOK
  PROVE  /\ Len(idle) \in Nat
         /\ idle # <<>> => /\ Head(idle) \in Runtime
                           /\ Tail(idle) \in Seq(Runtime)
                           /\ Len(Tail(idle)) = Len(idle) - 1
                           /\ Len(idle) > 0
                           /\ Head(idle) = idle[1]
                           /\ \A i \in DOMAIN Tail(idle) :
                                i + 1 \in DOMAIN idle /\ Tail(idle)[i] = idle[i + 1]
         /\ \A rt \in Runtime :
              /\ Append(idle, rt) \in Seq(Runtime)
              /\ Len(Append(idle, rt)) = Len(idle) + 1
              /\ \A i \in DOMAIN Append(idle, rt) :
                   \/ i \in DOMAIN idle /\ Append(idle, rt)[i] = idle[i]
                   \/ Append(idle, rt)[i] = rt
<1>1. idle \in Seq(Runtime) /\ Len(idle) \in Nat
  BY DEF PoolTypeOK
<1>2. CASE idle # <<>>
  BY <1>1, <1>2
<1>3. \A rt \in Runtime :
        /\ Append(idle, rt) \in Seq(Runtime)
        /\ Len(Append(idle, rt)) = Len(idle) + 1
        /\ \A i \in DOMAIN Append(idle, rt) :
             \/ i \in DOMAIN idle /\ Append(idle, rt)[i] = idle[i]
             \/ Append(idle, rt)[i] = rt
  BY <1>1
<1> QED BY <1>1, <1>2, <1>3

\* Who holds a slot is counted.
LEMMA HolderCounts ==
  ASSUME PoolTypeOK, RuntimesBounded, NEW w \in Worker, call[w] \in WithSlot
  PROVE  slots > 0
<1> DEFINE holders == {v \in Worker : call[v] \in WithSlot}
<1>1. IsFiniteSet(holders) /\ Cardinality(holders) \in Nat
  BY CountIsNat
<1>2. holders # {} /\ slots = Cardinality(holders)
  BY DEF RuntimesBounded
<1> QED BY <1>1, <1>2, FS_EmptySet

\* Types, one step after the other.
LEMMA NextPoolTypeOK ==
  ASSUME PoolTypeOK, RuntimesBounded, PoolNext
  PROVE  PoolTypeOK'
<1> USE DEF PoolTypeOK, Go, Hold
<1>1. ASSUME NEW w \in Worker, CallStep(w) PROVE PoolTypeOK'
  <2>1. CASE Enter(w)
    BY <2>1 DEF Enter
  <2>2. CASE Acquire(w)
    BY <2>2 DEF Acquire
  <2>3. CASE TakeIdle(w)
    <3>1. Head(idle) \in Runtime /\ Tail(idle) \in Seq(Runtime)
      BY <2>3, IdleTypes DEF TakeIdle
    <3> QED BY <3>1, <2>3 DEF TakeIdle
  <2>4. CASE NoneIdle(w)
    BY <2>4 DEF NoneIdle
  <2>5. CASE Create(w)
    BY <2>5 DEF Create
  <2>6. CASE CreateFails(w)
    BY <2>6 DEF CreateFails
  <2>7. CASE Finish(w)
    BY <2>7 DEF Finish
  <2>8. CASE Break(w)
    BY <2>8 DEF Break
  <2>9. CASE Recycle(w)
    BY <2>9 DEF Recycle
  <2>10. CASE PutBack(w)
    <3>1. Append(idle, "clean") \in Seq(Runtime)
      BY IdleTypes
    <3> QED BY <3>1, <2>10 DEF PutBack
  <2>11. CASE ThrowAway(w)
    BY <2>11 DEF ThrowAway
  <2>12. CASE CloseRuntime(w)
    BY <2>12 DEF CloseRuntime
  <2>13. CASE GiveUpWaiting(w)
    BY <2>13 DEF GiveUpWaiting
  <2>14. CASE Release(w)
    <3>1. slots > 0
      BY <2>14, HolderCounts DEF Release
    <3> QED BY <3>1, <2>14 DEF Release
  <2> QED BY <1>1, <2>1, <2>2, <2>3, <2>4, <2>5, <2>6, <2>7, <2>8, <2>9, <2>10, <2>11,
             <2>12, <2>13, <2>14 DEF CallStep, Execute, Return
<1>2. ASSUME NEW w \in Worker, SenderLeaves(w) PROVE PoolTypeOK'
  BY <1>2 DEF SenderLeaves
<1>3. CASE CloserStep
  <2>1. CASE BeginClose
    BY <2>1 DEF BeginClose
  <2>2. CASE DrainOne
    BY <2>2, IdleTypes DEF DrainOne
  <2>3. CASE EndClose
    BY <2>3 DEF EndClose
  <2> QED BY <1>3, <2>1, <2>2, <2>3 DEF CloserStep
<1> QED BY <1>1, <1>2, <1>3 DEF PoolNext, CallStep

-----------------------------------------------------------------------------
\* The counts after a call's step, from where it goes and what it does to idle
\* and slots.
LEMMA CallStepBounded ==
  ASSUME PoolIInv, NEW w \in Worker, CallStep(w)
  PROVE  RuntimesBounded' /\ SlotsBounded'
<1>1. /\ PoolTypeOK
      /\ Len(idle) \in Nat /\ slots \in Nat /\ slots <= PoolSize
      /\ Cardinality(In(Occupying)) \in Nat
      /\ Cardinality(In(WithSlot)) \in Nat
      /\ PoolSize \in Nat
      /\ Len(idle) + Cardinality(In(Occupying)) <= PoolSize
      /\ slots = Cardinality(In(WithSlot))
  <2>1. /\ PoolTypeOK
        /\ Len(idle) \in Nat /\ slots \in Nat /\ slots <= PoolSize
        /\ PoolSize \in Nat
    BY IdleTypes, PoolAssumption DEF PoolIInv, PoolTypeOK, SlotsBounded
  <2>2. Cardinality(In(Occupying)) \in Nat /\ Cardinality(In(WithSlot)) \in Nat
    BY CountIsNat DEF In
  <2>3. /\ Len(idle) + Cardinality(In(Occupying)) <= PoolSize
        /\ slots = Cardinality(In(WithSlot))
    BY DEF PoolIInv, RuntimesBounded, In
  <2> QED BY <2>1, <2>2, <2>3
<1>2. SUFFICES /\ Len(idle') + Cardinality(In(Occupying))' <= PoolSize
               /\ slots' = Cardinality(In(WithSlot))'
               /\ slots' <= PoolSize
  BY DEF RuntimesBounded, SlotsBounded, In
<1>3. CASE Enter(w) \/ GiveUpWaiting(w)
  <2>1. /\ idle' = idle /\ slots' = slots
        /\ \E a, b \in {"none", "waiting"} : Go(w, a, b)
    BY <1>3 DEF Enter, GiveUpWaiting
  <2>2. /\ Cardinality(In(Occupying))' = Cardinality(In(Occupying))
        /\ Cardinality(In(WithSlot))' = Cardinality(In(WithSlot))
    <3>1. PICK a, b \in {"none", "waiting"} : Go(w, a, b)
      BY <2>1
    <3>2. a \notin WithSlot /\ b \notin WithSlot /\ a \notin Occupying /\ b \notin Occupying
      OBVIOUS
    <3> QED BY <3>1, <3>2, <1>1, Moves
  <2> QED BY <1>1, <2>1, <2>2
<1>4. CASE Acquire(w)
  <2>1. idle' = idle /\ slots' = slots + 1 /\ slots < PoolSize /\ Go(w, "waiting", "choosing")
    BY <1>4 DEF Acquire
  <2>2. Cardinality(In(Occupying))' = Cardinality(In(Occupying))
    <3>1. "waiting" \notin Occupying /\ "choosing" \notin Occupying
      OBVIOUS
    <3> QED BY <2>1, <3>1, <1>1, Moves
  <2>3. Cardinality(In(WithSlot))' = Cardinality(In(WithSlot)) + 1
    <3>1. "waiting" \notin WithSlot /\ "choosing" \in WithSlot
      OBVIOUS
    <3> QED BY <2>1, <3>1, <1>1, Moves
  <2> QED BY <1>1, <2>1, <2>2, <2>3
<1>5. CASE TakeIdle(w)
  <2>1. /\ Len(idle') = Len(idle) - 1
        /\ slots' = slots
        /\ Go(w, "choosing", "running")
    BY <1>5, <1>1, IdleTypes DEF TakeIdle
  <2>2. Cardinality(In(Occupying))' = Cardinality(In(Occupying)) + 1
    <3>1. "choosing" \notin Occupying /\ "running" \in Occupying
      OBVIOUS
    <3> QED BY <2>1, <3>1, <1>1, Moves
  <2>3. Cardinality(In(WithSlot))' = Cardinality(In(WithSlot))
    <3>1. "choosing" \in WithSlot /\ "running" \in WithSlot
      OBVIOUS
    <3> QED BY <2>1, <3>1, <1>1, Moves
  <2> QED BY <1>1, <2>1, <2>2, <2>3
<1>6. CASE NoneIdle(w)
  <2>1. /\ idle' = idle /\ idle = <<>> /\ slots' = slots
        /\ Go(w, "choosing", "creating")
    BY <1>6 DEF NoneIdle
  <2>2. Cardinality(In(Occupying))' = Cardinality(In(Occupying)) + 1
    <3>1. "choosing" \notin Occupying /\ "creating" \in Occupying
      OBVIOUS
    <3> QED BY <2>1, <3>1, <1>1, Moves
  <2>3. Cardinality(In(WithSlot))' = Cardinality(In(WithSlot))
    <3>1. "choosing" \in WithSlot /\ "creating" \in WithSlot
      OBVIOUS
    <3> QED BY <2>1, <3>1, <1>1, Moves
  <2>4. Cardinality(In(Occupying)) < Cardinality(In(WithSlot))
    <3>1. IsFiniteSet(In(WithSlot))
      BY CountIsNat DEF In
    <3>2. /\ In(Occupying) \in SUBSET In(WithSlot)
          /\ w \in In(WithSlot) /\ w \notin In(Occupying)
      BY <2>1 DEF In, Go
    <3>3. /\ Cardinality(In(Occupying)) <= Cardinality(In(WithSlot))
          /\ Cardinality(In(WithSlot)) = Cardinality(In(Occupying))
               => In(WithSlot) = In(Occupying)
      BY <3>1, <3>2, FS_Subset
    <3> QED BY <3>2, <3>3, <1>1
  <2>5. Len(idle) = 0
    BY <2>1
  <2> QED BY <1>1, <2>1, <2>2, <2>3, <2>4, <2>5
<1>7. CASE Create(w) \/ Finish(w) \/ Break(w) \/ Recycle(w) \/ ThrowAway(w)
  <2>1. /\ idle' = idle /\ slots' = slots
        /\ \E a, b \in Occupying : Go(w, a, b)
    <3>1. CASE Create(w)
      BY <3>1 DEF Create
    <3>2. CASE Finish(w)
      BY <3>2 DEF Finish
    <3>3. CASE Break(w)
      BY <3>3 DEF Break
    <3>4. CASE Recycle(w)
      BY <3>4 DEF Recycle
    <3>5. CASE ThrowAway(w)
      BY <3>5 DEF ThrowAway
    <3> QED BY <1>7, <3>1, <3>2, <3>3, <3>4, <3>5
  <2>2. /\ Cardinality(In(Occupying))' = Cardinality(In(Occupying))
        /\ Cardinality(In(WithSlot))' = Cardinality(In(WithSlot))
    <3>1. PICK a, b \in Occupying : Go(w, a, b)
      BY <2>1
    <3>2. a \in WithSlot /\ b \in WithSlot
      OBVIOUS
    <3> QED BY <3>1, <3>2, <1>1, Moves
  <2> QED BY <1>1, <2>1, <2>2
<1>8. CASE CreateFails(w) \/ CloseRuntime(w)
  <2>1. /\ idle' = idle /\ slots' = slots
        /\ \E a \in Occupying : Go(w, a, "releasing")
    BY <1>8 DEF CreateFails, CloseRuntime
  <2>2. PICK a \in Occupying : Go(w, a, "releasing")
    BY <2>1
  <2>3. a \in WithSlot /\ "releasing" \in WithSlot /\ "releasing" \notin Occupying
    OBVIOUS
  <2>4. Cardinality(In(Occupying))' = Cardinality(In(Occupying)) - 1
    BY <2>2, <2>3, <1>1, Moves
  <2>5. Cardinality(In(WithSlot))' = Cardinality(In(WithSlot))
    BY <2>2, <2>3, <1>1, Moves
  <2> QED BY <1>1, <2>1, <2>4, <2>5
<1>9. CASE PutBack(w)
  <2>1. /\ Len(idle') = Len(idle) + 1
        /\ slots' = slots
        /\ Go(w, "resetting", "releasing")
    BY <1>9, <1>1, IdleTypes DEF PutBack
  <2>2. /\ "resetting" \in Occupying /\ "releasing" \notin Occupying
        /\ "resetting" \in WithSlot /\ "releasing" \in WithSlot
    OBVIOUS
  <2>3. Cardinality(In(Occupying))' = Cardinality(In(Occupying)) - 1
    BY <2>1, <2>2, <1>1, Moves
  <2>4. Cardinality(In(WithSlot))' = Cardinality(In(WithSlot))
    BY <2>1, <2>2, <1>1, Moves
  <2> QED BY <1>1, <2>1, <2>3, <2>4
<1>10. CASE Release(w)
  <2>1. idle' = idle /\ slots' = slots - 1 /\ Go(w, "releasing", "none")
    BY <1>10 DEF Release
  <2>2. /\ "none" \notin Occupying /\ "releasing" \notin Occupying
        /\ "none" \notin WithSlot /\ "releasing" \in WithSlot
    OBVIOUS
  <2>3. Cardinality(In(Occupying))' = Cardinality(In(Occupying))
    BY <2>1, <2>2, <1>1, Moves
  <2>4. Cardinality(In(WithSlot))' = Cardinality(In(WithSlot)) - 1
    BY <2>1, <2>2, <1>1, Moves
  <2> QED BY <1>1, <2>1, <2>3, <2>4
<1> QED BY <1>3, <1>4, <1>5, <1>6, <1>7, <1>8, <1>9, <1>10 DEF CallStep, Execute, Return

\* Close only takes runtimes away, and a sender that leaves changes nothing.
LEMMA OutsideBounded ==
  ASSUME PoolIInv, CloserStep \/ \E w \in Worker : SenderLeaves(w)
  PROVE  RuntimesBounded' /\ SlotsBounded'
<1>1. /\ call' = call /\ slots' = slots
      /\ Len(idle') \in Nat /\ Len(idle') <= Len(idle)
  <2>1. PoolTypeOK /\ Len(idle) \in Nat
    BY IdleTypes DEF PoolIInv
  <2>2. CASE DrainOne
    BY <2>1, <2>2, IdleTypes DEF DrainOne
  <2>3. CASE BeginClose \/ EndClose \/ \E w \in Worker : SenderLeaves(w)
    BY <2>1, <2>3 DEF BeginClose, EndClose, SenderLeaves
  <2> QED BY <2>2, <2>3 DEF CloserStep
<1>2. /\ Len(idle) \in Nat /\ PoolSize \in Nat
      /\ Cardinality({w \in Worker : call[w] \in Occupying}) \in Nat
  BY IdleTypes, PoolAssumption, CountIsNat DEF PoolIInv
<1>3. /\ Len(idle) + Cardinality({w \in Worker : call[w] \in Occupying}) <= PoolSize
      /\ slots = Cardinality({w \in Worker : call[w] \in WithSlot})
      /\ slots <= PoolSize
  BY DEF PoolIInv, RuntimesBounded, SlotsBounded
<1>4. /\ Len(idle') + Cardinality({w \in Worker : call[w] \in Occupying}) <= PoolSize
      /\ slots' = Cardinality({w \in Worker : call[w] \in WithSlot})
      /\ slots' <= PoolSize
  BY <1>1, <1>2, <1>3
<1> QED BY <1>1, <1>4 DEF RuntimesBounded, SlotsBounded

-----------------------------------------------------------------------------
\* Only PutBack, after the reset, puts a runtime into idle, and calls run in
\* one from idle or one just set up.
LEMMA NextClean ==
  ASSUME PoolTypeOK, OnlyCleanHandedOut, PoolNext
  PROVE  OnlyCleanHandedOut'
<1> SUFFICES /\ \A i \in DOMAIN idle' : idle'[i] = "clean"
             /\ \A v \in Worker : call'[v] = "running" => runtime'[v] = "clean"
  BY DEF OnlyCleanHandedOut
<1> USE DEF PoolTypeOK, OnlyCleanHandedOut, Go, Hold
<1>1. ASSUME NEW w \in Worker, CallStep(w)
      PROVE  /\ \A i \in DOMAIN idle' : idle'[i] = "clean"
             /\ \A v \in Worker : call'[v] = "running" => runtime'[v] = "clean"
  <2>1. CASE Enter(w)
    BY <2>1 DEF Enter
  <2>2. CASE Acquire(w)
    BY <2>2 DEF Acquire
  <2>3. CASE TakeIdle(w)
    <3>1. /\ Head(idle) = "clean"
          /\ \A i \in DOMAIN Tail(idle) : Tail(idle)[i] = "clean"
      BY <2>3, IdleTypes DEF TakeIdle
    <3> QED BY <2>3, <3>1 DEF TakeIdle
  <2>4. CASE NoneIdle(w)
    BY <2>4 DEF NoneIdle
  <2>5. CASE Create(w)
    BY <2>5 DEF Create
  <2>6. CASE CreateFails(w)
    BY <2>6 DEF CreateFails
  <2>7. CASE Finish(w)
    BY <2>7 DEF Finish
  <2>8. CASE Break(w)
    BY <2>8 DEF Break
  <2>9. CASE Recycle(w)
    BY <2>9 DEF Recycle
  <2>10. CASE PutBack(w)
    <3>1. \A i \in DOMAIN Append(idle, "clean") : Append(idle, "clean")[i] = "clean"
      BY IdleTypes
    <3> QED BY <2>10, <3>1 DEF PutBack
  <2>11. CASE ThrowAway(w)
    BY <2>11 DEF ThrowAway
  <2>12. CASE CloseRuntime(w)
    BY <2>12 DEF CloseRuntime
  <2>13. CASE GiveUpWaiting(w)
    BY <2>13 DEF GiveUpWaiting
  <2>14. CASE Release(w)
    BY <2>14 DEF Release
  <2> QED BY <1>1, <2>1, <2>2, <2>3, <2>4, <2>5, <2>6, <2>7, <2>8, <2>9, <2>10, <2>11,
             <2>12, <2>13, <2>14 DEF CallStep, Execute, Return
<1>2. ASSUME CloserStep \/ \E w \in Worker : SenderLeaves(w)
      PROVE  /\ \A i \in DOMAIN idle' : idle'[i] = "clean"
             /\ \A v \in Worker : call'[v] = "running" => runtime'[v] = "clean"
  <2>1. CASE DrainOne
    BY <2>1, IdleTypes DEF DrainOne
  <2>2. CASE BeginClose \/ EndClose \/ \E w \in Worker : SenderLeaves(w)
    BY <2>2 DEF BeginClose, EndClose, SenderLeaves
  <2> QED BY <1>2, <2>1, <2>2 DEF CloserStep
<1> QED BY <1>1, <1>2 DEF PoolNext, CallStep

-----------------------------------------------------------------------------
\* Nobody passes the ready check once Close has begun.
LEMMA NextNoneSneaksIn ==
  ASSUME PoolTypeOK, NoneSneaksIn, PoolNext
  PROVE  NoneSneaksIn'
<1> USE DEF PoolTypeOK, NoneSneaksIn, Go, Hold, In
<1>1. ASSUME NEW w \in Worker, CallStep(w)
      PROVE  /\ UNCHANGED <<ready, closer, late>>
             /\ ~ready => In({"resetting"})' \subseteq In({"resetting"})
  <2>1. CASE Enter(w)
    BY <2>1 DEF Enter
  <2>2. CASE Acquire(w)
    BY <2>2 DEF Acquire
  <2>3. CASE TakeIdle(w)
    BY <2>3 DEF TakeIdle
  <2>4. CASE NoneIdle(w)
    BY <2>4 DEF NoneIdle
  <2>5. CASE Create(w)
    BY <2>5 DEF Create
  <2>6. CASE CreateFails(w)
    BY <2>6 DEF CreateFails
  <2>7. CASE Finish(w)
    BY <2>7 DEF Finish
  <2>8. CASE Break(w)
    BY <2>8 DEF Break
  <2>9. CASE Recycle(w)
    BY <2>9 DEF Recycle
  <2>10. CASE PutBack(w)
    BY <2>10 DEF PutBack
  <2>11. CASE ThrowAway(w)
    BY <2>11 DEF ThrowAway
  <2>12. CASE CloseRuntime(w)
    BY <2>12 DEF CloseRuntime
  <2>13. CASE GiveUpWaiting(w)
    BY <2>13 DEF GiveUpWaiting
  <2>14. CASE Release(w)
    BY <2>14 DEF Release
  <2> QED BY <1>1, <2>1, <2>2, <2>3, <2>4, <2>5, <2>6, <2>7, <2>8, <2>9, <2>10, <2>11,
             <2>12, <2>13, <2>14 DEF CallStep, Execute, Return
<1>2. ASSUME NEW w \in Worker, CallStep(w) PROVE NoneSneaksIn'
  BY <1>1, <1>2
<1>3. ASSUME CloserStep PROVE NoneSneaksIn'
  <2>1. CASE BeginClose
    BY <2>1 DEF BeginClose
  <2>2. CASE DrainOne
    BY <2>2 DEF DrainOne
  <2>3. CASE EndClose
    BY <2>3 DEF EndClose
  <2> QED BY <1>3, <2>1, <2>2, <2>3 DEF CloserStep
<1>4. ASSUME NEW w \in Worker, SenderLeaves(w) PROVE NoneSneaksIn'
  BY <1>4 DEF SenderLeaves
<1> QED BY <1>2, <1>3, <1>4 DEF PoolNext, CallStep

\* A runtime gets into idle after the drain only by a call that is in late, and
\* then that call counts as one that has passed.
LEMMA NextLeftovers ==
  ASSUME PoolTypeOK, NoneSneaksIn, LeftoversAreLate, PoolNext
  PROVE  LeftoversAreLate'
<1> USE DEF PoolTypeOK
<1>1. /\ Passed \in SUBSET Worker
      /\ IsFiniteSet(Passed) /\ Cardinality(Passed) \in Nat
      /\ Len(idle) \in Nat
  BY CountIsNat, IdleTypes DEF Passed
<1>2. ASSUME closer' = closer, late' = late, Len(idle') <= Len(idle), Len(idle') \in Nat,
             closer = "closed" => Passed \subseteq Passed', Passed' \in SUBSET Worker
      PROVE  LeftoversAreLate'
  <2>1. CASE closer = "closed"
    <3>1. IsFiniteSet(Passed') /\ Cardinality(Passed') \in Nat
      BY <1>2, CountIsNat
    <3>2. Cardinality(Passed) <= Cardinality(Passed')
      BY <1>2, <2>1, <3>1, FS_Subset
    <3>3. Cardinality(Passed)' = Cardinality(Passed')
      OBVIOUS
    <3>4. Len(idle) <= Cardinality(Passed)
      BY <2>1 DEF LeftoversAreLate, Passed
    <3>5. Len(idle') <= Cardinality(Passed')
      BY <1>1, <1>2, <3>1, <3>2, <3>4
    <3> QED BY <3>5 DEF LeftoversAreLate, Passed
  <2>2. CASE closer # "closed"
    BY <1>2, <2>2 DEF LeftoversAreLate
  <2> QED BY <2>1, <2>2
<1>3. ASSUME NEW w \in Worker, CallStep(w), ~PutBack(w) PROVE LeftoversAreLate'
  <2>1. /\ UNCHANGED <<ready, closer, late>>
        /\ ~ready => Passed \subseteq Passed'
        /\ Passed' \in SUBSET Worker
        /\ Len(idle') <= Len(idle) /\ Len(idle') \in Nat
    <3> USE DEF Passed, Go
    <3>1. CASE Enter(w)
      BY <3>1, <1>1 DEF Enter
    <3>2. CASE Acquire(w)
      BY <3>2, <1>1 DEF Acquire
    <3>3. CASE TakeIdle(w)
      <4>1. Len(idle') <= Len(idle) /\ Len(idle') \in Nat
        BY <3>3, <1>1, IdleTypes DEF TakeIdle
      <4> QED BY <3>3, <4>1 DEF TakeIdle
    <3>4. CASE NoneIdle(w)
      BY <3>4, <1>1 DEF NoneIdle
    <3>5. CASE Create(w)
      BY <3>5, <1>1 DEF Create
    <3>6. CASE CreateFails(w)
      BY <3>6, <1>1 DEF CreateFails
    <3>7. CASE Finish(w)
      BY <3>7, <1>1 DEF Finish
    <3>8. CASE Break(w)
      BY <3>8, <1>1 DEF Break
    <3>9. CASE Recycle(w)
      BY <3>9, <1>1 DEF Recycle
    <3>10. CASE ThrowAway(w)
      BY <3>10, <1>1 DEF ThrowAway
    <3>11. CASE CloseRuntime(w)
      BY <3>11, <1>1 DEF CloseRuntime
    <3>12. CASE GiveUpWaiting(w)
      BY <3>12, <1>1 DEF GiveUpWaiting
    <3>13. CASE Release(w)
      BY <3>13, <1>1 DEF Release
    <3> QED BY <1>3, <3>1, <3>2, <3>3, <3>4, <3>5, <3>6, <3>7, <3>8, <3>9, <3>10, <3>11,
               <3>12, <3>13 DEF CallStep, Execute, Return
  <2> QED BY <2>1, <1>2 DEF NoneSneaksIn
<1>4. ASSUME NEW w \in Worker, PutBack(w) PROVE LeftoversAreLate'
  <2>1. /\ call[w] = "resetting"
        /\ call' = [call EXCEPT ![w] = "releasing"]
        /\ UNCHANGED <<closer, late>>
        /\ Len(idle') = Len(idle) + 1
    BY <1>4, IdleTypes DEF PutBack, Go
  <2>2. CASE closer = "closed"
    <3>1. w \in late /\ w \notin Passed
      BY <2>1, <2>2 DEF NoneSneaksIn, In, Passed
    <3>2. Passed' = Passed \cup {w}
      BY <2>1, <3>1 DEF Passed
    <3>3. Cardinality(Passed') = Cardinality(Passed) + 1
      BY <3>1, <3>2, <1>1, FS_AddElement
    <3>4. Len(idle) <= Cardinality(Passed)
      BY <2>2 DEF LeftoversAreLate, Passed
    <3>5. Len(idle') <= Cardinality(Passed')
      BY <1>1, <2>1, <3>3, <3>4
    <3> QED BY <3>5 DEF LeftoversAreLate, Passed
  <2>3. CASE closer # "closed"
    BY <2>1, <2>3 DEF LeftoversAreLate
  <2> QED BY <2>2, <2>3
<1>5. ASSUME NEW w \in Worker, SenderLeaves(w) PROVE LeftoversAreLate'
  BY <1>5, <1>1, <1>2 DEF SenderLeaves, Passed
<1>6. CASE BeginClose
  BY <1>6 DEF BeginClose, LeftoversAreLate
<1>7. CASE DrainOne
  BY <1>7 DEF DrainOne, LeftoversAreLate
<1>8. CASE EndClose
  <2>1. Len(idle') = 0 /\ late' \in SUBSET Worker /\ call' = call
    BY <1>8 DEF EndClose
  <2>2. Passed' \in SUBSET Worker
    BY <2>1 DEF Passed
  <2>3. Cardinality(Passed') \in Nat
    BY <2>2, CountIsNat
  <2>4. Len(idle') <= Cardinality(Passed')
    BY <2>1, <2>3
  <2> QED BY <2>4 DEF LeftoversAreLate, Passed
<1> QED BY <1>3, <1>4, <1>5, <1>6, <1>7, <1>8 DEF PoolNext, CloserStep, CallStep

-----------------------------------------------------------------------------
\* Every step keeps the invariant.
LEMMA NextPoolIInv == PoolIInv /\ [PoolNext]_poolVars => PoolIInv'
<1> SUFFICES ASSUME PoolIInv, [PoolNext]_poolVars PROVE PoolIInv'
  OBVIOUS
<1>1. CASE PoolNext
  <2>1. PoolTypeOK'
    BY <1>1, NextPoolTypeOK DEF PoolIInv
  <2>2. RuntimesBounded' /\ SlotsBounded'
    <3>1. CASE \E w \in Worker : CallStep(w)
      BY <3>1, CallStepBounded
    <3>2. CASE CloserStep \/ \E w \in Worker : SenderLeaves(w)
      BY <3>2, OutsideBounded
    <3> QED BY <1>1, <3>1, <3>2 DEF PoolNext, CallStep
  <2>3. OnlyCleanHandedOut'
    BY <1>1, NextClean DEF PoolIInv
  <2>4. NoneSneaksIn'
    BY <1>1, NextNoneSneaksIn DEF PoolIInv
  <2>5. LeftoversAreLate'
    BY <1>1, NextLeftovers DEF PoolIInv
  <2> QED BY <2>1, <2>2, <2>3, <2>4, <2>5 DEF PoolIInv
<1>2. CASE UNCHANGED poolVars
  BY <1>2 DEF poolVars, PoolIInv, PoolTypeOK, SlotsBounded, RuntimesBounded,
              OnlyCleanHandedOut, NoneSneaksIn, LeftoversAreLate, In
<1> QED BY <1>1, <1>2

LEMMA PoolInvariant == PoolSpec => []PoolIInv
BY InitPool, NextPoolIInv, PTL DEF PoolSpec

\* The variables of the pool have their types.
THEOREM PoolTypeCorrect == PoolSpec => []PoolTypeOK
<1>1. PoolIInv => PoolTypeOK
  BY DEF PoolIInv
<1> QED BY <1>1, PoolInvariant, PTL

\* The pool never has more runtimes than slots, and no slot is lost.
THEOREM PoolIsBounded == PoolSpec => []RuntimesBounded
<1>1. PoolIInv => RuntimesBounded
  BY DEF PoolIInv
<1> QED BY <1>1, PoolInvariant, PTL

\* A script always starts in a runtime as it is after its set-up.
THEOREM ScriptsStartClean == PoolSpec => []OnlyCleanHandedOut
<1>1. PoolIInv => OnlyCleanHandedOut
  BY DEF PoolIInv
<1> QED BY <1>1, PoolInvariant, PTL

\* What Close leaves behind is what late calls put back after it.
THEOREM OnlyLateLeaveRuntimes == PoolSpec => []LeftoversAreLate
<1>1. PoolIInv => LeftoversAreLate
  BY DEF PoolIInv
<1> QED BY <1>1, PoolInvariant, PTL
=============================================================================
