---------------------------- MODULE RateLimiter ----------------------------
(***************************************************************************)
(* The per-client token buckets in front of the capture endpoints          *)
(* (internal/middleware/ratelimit.go).  Tokens are counted in units, Unit  *)
(* of them to a request, so that a refill of Rate units per tick stays an  *)
(* integer.  Every access is under the limiter's lock, so a request's      *)
(* allow and a sweep of cleanup are one step each.                         *)
(***************************************************************************)
EXTENDS Integers, FiniteSets

CONSTANTS
  Client,       \* client addresses
  Unit,         \* units to a token
  Rate,         \* units a bucket gains in a tick
  Burst,        \* RateLimiter.burst, in tokens
  MaxClients,   \* RateLimiter.maxClients
  ForgetAfter,  \* the ten minutes of cleanup's cutoff, in ticks
  Horizon,      \* bound on the clock
  MaxGranted    \* bound on the requests counted in a window

ASSUME LimiterAssumption ==
  /\ Unit \in Nat \ {0}
  /\ Rate \in Nat \ {0}
  /\ Burst \in Nat \ {0}
  /\ MaxClients \in Nat
  /\ ForgetAfter \in Nat
  /\ Horizon \in Nat
  /\ MaxGranted \in Nat

\* A bucket nobody used for ForgetAfter ticks is full.  With the defaults (20
\* per second, burst 40, ten minutes) it is; the configuration does not check.
ASSUME RefillAssumption == Rate * ForgetAfter >= Burst * Unit

VARIABLES
  clients,    \* the keys of RateLimiter.clients
  tokens,     \* client -> units in its bucket
  lastSeen,   \* client -> when its bucket was last looked at
  time,
  since,      \* when the window that is being observed was opened
  granted     \* client -> requests let through since then

limiterVars == <<clients, tokens, lastSeen, time, since, granted>>

LimiterTypeOK ==
  /\ clients \in SUBSET Client
  /\ tokens \in [Client -> Int]
  /\ lastSeen \in [Client -> Nat]
  /\ time \in Nat
  /\ since \in Nat
  /\ granted \in [Client -> Nat]

LimiterInit ==
  /\ clients = {}
  /\ tokens = [c \in Client |-> 0]
  /\ lastSeen = [c \in Client |-> 0]
  /\ time = 0
  /\ since = 0
  /\ granted = [c \in Client |-> 0]

\* Fault: no cap on the refill.
RefilledUncapped(c) == tokens[c] + (time - lastSeen[c]) * Rate

\* What a known client's bucket holds when it is looked at: refilled for the
\* time since it was last seen, up to the capacity.
Refilled(c) ==
  LET filled == tokens[c] + (time - lastSeen[c]) * Rate
  IN IF filled > Burst * Unit THEN Burst * Unit ELSE filled

Grant(c) == granted' = [granted EXCEPT ![c] = @ + 1]

See(c, units) ==
  /\ tokens' = [tokens EXCEPT ![c] = units]
  /\ lastSeen' = [lastSeen EXCEPT ![c] = time]

\* allow returns true: a known client with a whole token, or a new one while
\* the map has room.
AllowKnown(c) ==
  /\ c \in clients
  /\ Refilled(c) >= Unit
  /\ See(c, Refilled(c) - Unit)
  /\ Grant(c)
  /\ UNCHANGED <<clients, time, since>>

AllowNew(c) ==
  /\ c \notin clients
  /\ Cardinality(clients) < MaxClients
  /\ clients' = clients \cup {c}
  /\ See(c, Burst * Unit - Unit)
  /\ Grant(c)
  /\ UNCHANGED <<time, since>>

\* allow returns false; a known client's bucket has been refilled all the same.
RefuseKnown(c) ==
  /\ c \in clients
  /\ Refilled(c) < Unit
  /\ See(c, Refilled(c))
  /\ UNCHANGED <<clients, granted, time, since>>

RefuseNew(c) ==
  /\ c \notin clients
  /\ Cardinality(clients) >= MaxClients
  /\ UNCHANGED limiterVars

Allow(c) == AllowKnown(c) \/ AllowNew(c)
Refuse(c) == RefuseKnown(c) \/ RefuseNew(c)

Stale(c) == lastSeen[c] + ForgetAfter < time

cleanup ==
  /\ \E c \in clients : Stale(c)
  /\ clients' = {c \in clients : ~Stale(c)}
  /\ UNCHANGED <<tokens, lastSeen, time, since, granted>>

Pass ==
  /\ time < Horizon
  /\ time' = time + 1
  /\ UNCHANGED <<clients, tokens, lastSeen, since, granted>>

\* An observer starts to count; the limiter does not notice.
OpenWindow ==
  /\ since < time
  /\ since' = time
  /\ granted' = [c \in Client |-> 0]
  /\ UNCHANGED <<clients, tokens, lastSeen, time>>

LimiterNext ==
  \/ \E c \in Client : (granted[c] < MaxGranted /\ Allow(c)) \/ Refuse(c)
  \/ cleanup
  \/ Pass
  \/ OpenWindow

LimiterSpec == LimiterInit /\ [][LimiterNext]_limiterVars

-----------------------------------------------------------------------------
\* Whenever one starts to count, a client gets through at most burst requests
\* plus what the rate has refilled since: neither the cap, the refills of
\* refused requests, nor being forgotten and known again gives it more.
WithinRate ==
  \A c \in Client : granted[c] * Unit <= Burst * Unit + Rate * (time - since)
=============================================================================
