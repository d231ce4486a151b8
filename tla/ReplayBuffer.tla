---------------------------- MODULE ReplayBuffer ----------------------------
(***************************************************************************)
(* One endpoint's ring buffer over time: pushes, TTL sweeps and a clock.   *)
(* pushed is a history variable: every push ever made, in order.           *)
(***************************************************************************)
EXTENDS RingBuffer

CONSTANTS
  Message,   \* what is buffered
  MaxPush,   \* bound on the number of pushes
  MaxTime    \* bound on the clock

ASSUME MessageAssumption == Blank \notin [msg : Message, createdAt : Nat]
ASSUME BoundAssumption == MaxPush \in Nat /\ MaxTime \in Nat

VARIABLES
  rb,       \* the ring buffer
  now,      \* time.Now(), monotonic
  pushed    \* history: the sequence of entries pushed so far

vars == <<rb, now, pushed>>

TypeOK ==
  /\ rb \in [msgs : [Index -> [msg : Message, createdAt : Nat] \cup {Blank}],
             pos  : Index,
             full : BOOLEAN]
  /\ now \in Nat
  /\ pushed \in Seq([msg : Message, createdAt : Nat])

Init ==
  /\ rb = newRingBuffer
  /\ now = 0
  /\ pushed = <<>>

Push(m) ==
  /\ Len(pushed) < MaxPush
  /\ rb' = push(rb, m, now)
  /\ pushed' = Append(pushed, Entry(m, now))
  /\ UNCHANGED now

Sweep ==
  /\ rb' = sweepExpired(rb, now)
  /\ UNCHANGED <<now, pushed>>

Tick ==
  /\ now < MaxTime
  /\ now' = now + 1
  /\ UNCHANGED <<rb, pushed>>

Next == (\E m \in Message : Push(m)) \/ Sweep \/ Tick

Spec == Init /\ [][Next]_vars

-----------------------------------------------------------------------------
\* How many slots drain reads before slot i, and the number of the push whose
\* entry slot i holds, counting from 1.  It is below 1 for a slot that has
\* never been written.
Rank(i) == IF i >= rb.pos THEN i - rb.pos ELSE i - rb.pos + Size
PushNumber(i) == Len(pushed) - Size + 1 + Rank(i)

\* The slots mirror the history: a slot that holds an entry holds exactly the
\* push its distance from pos says, so that reading from pos is reading oldest
\* first, through every wrap of pos and every sweep (push, drain, full).
SlotsMirrorHistory ==
  \A i \in Index :
    rb.msgs[i] # Blank =>
      /\ PushNumber(i) \in 1 .. Len(pushed)
      /\ rb.msgs[i] = pushed[PushNumber(i)]

\* Nothing younger than the TTL is lost unless Size newer pushes overwrote it:
\* a slot that was written and is blank now held an entry that has expired
\* (push overwrites only the oldest slot, sweepExpired clears only old ones).
BlankOnlyWhenExpired ==
  \A i \in Index :
    (rb.msgs[i] = Blank /\ PushNumber(i) \in 1 .. Len(pushed)) =>
      Expired(pushed[PushNumber(i)], now)

\* full says that at least Size pushes were made; before that, pos counts them.
FullCountsPushes ==
  IF rb.full THEN Len(pushed) >= Size
             ELSE Len(pushed) = rb.pos

\* The inductive invariant: the shape of the buffer ties pos and full to the
\* number of pushes, which is what makes PushNumber stable under a push.
IInv == TypeOK /\ FullCountsPushes /\ SlotsMirrorHistory /\ BlankOnlyWhenExpired

\* What drain returns is a suffix of everything ever pushed, in push order:
\* no gap, no reordering, no duplicate, at most Size entries, and whatever is
\* missing at its front was overwritten by newer pushes or has expired.
DrainIsRecentSuffix ==
  \E cut \in 0 .. Len(pushed) :
    /\ drain(rb) = SubSeq(pushed, cut + 1, Len(pushed))
    /\ Len(pushed) - cut <= Size
    /\ \A n \in 1 .. cut : n <= Len(pushed) - Size \/ Expired(pushed[n], now)
=============================================================================
