----------------------------- MODULE RingBuffer -----------------------------
(***************************************************************************)
(* The fixed-size circular buffer of internal/hub/hub.go (ringBuffer): the *)
(* catch-up store of one browser-mode endpoint.  This module holds the     *)
(* operations as operators on a record; ReplayBuffer runs them as a state  *)
(* machine and Hub keeps one buffer per slug.                              *)
(*                                                                         *)
(* A buffer is [msgs, pos, full], as in the code: msgs has Size slots, pos *)
(* is the slot the next push writes, full is set once a push wrapped.  A   *)
(* slot is Blank (Go's zero value: never written, or cleared by the sweep) *)
(* or holds a message and the time it was pushed.                          *)
(***************************************************************************)
EXTENDS Lists

CONSTANTS
  Size,     \* RING_BUFFER_SIZE, 100 by default
  TTL,      \* RING_BUFFER_TTL_SECONDS, in clock ticks
  Blank     \* a slot without a message

ASSUME SizeAssumption == Size \in Nat \ {0}
ASSUME TTLAssumption == TTL \in Nat

Index == 0 .. Size - 1

Entry(m, t) == [msg |-> m, createdAt |-> t]

newRingBuffer == [msgs |-> [i \in Index |-> Blank], pos |-> 0, full |-> FALSE]

\* The slot after i, cyclically.
Following(i) == (i + 1) % Size

\* Fault: the position is advanced before the write instead of after it.
pushAfterAdvance(rb, m, t) ==
  [msgs |-> [rb.msgs EXCEPT ![Following(rb.pos)] = Entry(m, t)],
   pos  |-> Following(rb.pos),
   full |-> rb.full \/ Following(rb.pos) = 0]

push(rb, m, t) ==
  [msgs |-> [rb.msgs EXCEPT ![rb.pos] = Entry(m, t)],
   pos  |-> Following(rb.pos),
   full |-> rb.full \/ Following(rb.pos) = 0]

\* Fault: a full buffer is read from slot 0 instead of from its oldest slot.
readOrderFromZero(rb) ==
  IF rb.full THEN [k \in 1 .. Size |-> rb.msgs[k - 1]]
             ELSE [k \in 1 .. rb.pos |-> rb.msgs[k - 1]]

\* Fault: the newest entry is never replayed.
readOrderWithoutNewest(rb) ==
  IF rb.full
    THEN [k \in 1 .. Size - 1 |-> rb.msgs[(rb.pos + k - 1) % Size]]
    ELSE [k \in 1 .. rb.pos - 1 |-> rb.msgs[k - 1]]

\* The slots in the order drain visits them: from the oldest, once full.
readOrder(rb) ==
  IF rb.full
    THEN [k \in 1 .. Size |-> rb.msgs[(rb.pos + k - 1) % Size]]
    ELSE [k \in 1 .. rb.pos |-> rb.msgs[k - 1]]

\* What a new subscriber is sent: the slots that hold a message, in order.
drain(rb) == Without(readOrder(rb), {Blank})

\* createdAt lies before now - TTL.
Expired(entry, t) == entry.createdAt + TTL < t

sweepExpired(rb, t) ==
  [rb EXCEPT !.msgs =
     [i \in Index |-> IF rb.msgs[i] # Blank /\ Expired(rb.msgs[i], t)
                        THEN Blank ELSE rb.msgs[i]]]

\* What sweepExpired reports of the buffer it leaves behind.
IsEmpty(rb) == \A i \in Index : rb.msgs[i] = Blank
=============================================================================
