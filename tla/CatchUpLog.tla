----------------------------- MODULE CatchUpLog -----------------------------
(***************************************************************************)
(* What the hub's catch-up store promises, without slots, positions or     *)
(* sweeps: per slug, the last Size buffered messages that are not older    *)
(* than the TTL, in publish order.  Hub implements it: its ring buffers,   *)
(* its three-phase sweep and the deletion of emptied buffers are invisible *)
(* here.                                                                   *)
(***************************************************************************)
EXTENDS Lists, Functions

CONSTANTS
  Slug,     \* the endpoints
  Message,  \* what is published
  Size,     \* how many messages are kept per slug
  TTL       \* how old a kept message may be

VARIABLES
  log,      \* slug -> sequence of [msg, createdAt], oldest first
  removals, \* slug -> parity of the times it was forgotten, so that a loss is not taken for one
  now       \* the clock

vars == <<log, removals, now>>

Newest(s) == SubSeq(s, Len(s) - Size + 1, Len(s))

Fresh(s, t) == Without(s, {e \in Range(s) : e.createdAt + TTL < t})

Init ==
  /\ log = [s \in Slug |-> <<>>]
  /\ removals = [s \in Slug |-> 0]
  /\ now = 0

Publish(s, m) ==
  LET longer == Append(log[s], [msg |-> m, createdAt |-> now])
  IN  /\ log' = [log EXCEPT ![s] = IF Len(longer) > Size THEN Newest(longer)
                                                          ELSE longer]
      /\ UNCHANGED <<removals, now>>

\* The endpoint is deleted or renamed.
Forget(s) ==
  /\ log' = [log EXCEPT ![s] = <<>>]
  /\ removals' = [removals EXCEPT ![s] = 1 - @]
  /\ UNCHANGED now

Tick ==
  /\ now' = now + 1
  /\ log' = [s \in Slug |-> Fresh(log[s], now')]
  /\ UNCHANGED removals

Next ==
  \/ \E s \in Slug, m \in Message : Publish(s, m)
  \/ \E s \in Slug : Forget(s)
  \/ Tick

Spec == Init /\ [][Next]_vars
=============================================================================
