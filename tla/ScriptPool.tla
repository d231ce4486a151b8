----------------------------- MODULE ScriptPool -----------------------------
(***************************************************************************)
(* The pool of QuickJS runtimes that runs the users' scripts               *)
(* (internal/wasm/runner.go, sandbox.go).  A call waits for one of         *)
(* PoolSize slots, takes an idle runtime or sets one up, runs the script,  *)
(* recycles the runtime and gives the slot back; Close drains the idle     *)
(* runtimes while calls go on.                                             *)
(*                                                                         *)
(* A runtime is only what the pool can tell about it: "clean" (as after    *)
(* its set-up), "used" (a script ran in it), "grown" (and grew its memory, *)
(* which a reset cannot undo) or "broken" (its module was closed mid-run). *)
(* idle is the channel of waiting runtimes; ready is read on its own, so   *)
(* between a call's look at ready and its send into idle the pool may be   *)
(* closed and drained.                                                     *)
(***************************************************************************)
EXTENDS Integers, Sequences, FiniteSets

CONSTANTS
  Worker,      \* the calls in flight, one at a time per webhook request
  PoolSize,    \* Config.PoolSize; New makes it at least 1
  NoRuntime

ASSUME PoolAssumption ==
  /\ PoolSize \in Nat \ {0}
  /\ IsFiniteSet(Worker)
  /\ NoRuntime \notin {"clean", "used", "grown", "broken"}

VARIABLES
  ready,     \* Runner.ready
  slots,     \* tokens in the slots channel
  idle,      \* the idle channel
  call,      \* worker -> where its call is
  runtime,   \* worker -> the runtime its call holds
  gone,      \* workers whose context is done (the sender left)
  closer,    \* where Close is
  late       \* workers that passed recycle's ready check and had not put
             \* their runtime back when Close found idle empty

poolVars == <<ready, slots, idle, call, runtime, gone, closer, late>>

Runtime == {"clean", "used", "grown", "broken"}

\* Where a call holds a runtime, will hold the one it is setting up, and where
\* it holds a slot.
WithRuntime == {"running", "recycling", "resetting", "closing"}
Occupying == WithRuntime \cup {"creating"}
WithSlot == Occupying \cup {"choosing", "releasing"}

PoolTypeOK ==
  /\ ready \in BOOLEAN
  /\ slots \in Nat
  /\ idle \in Seq(Runtime)
  /\ call \in [Worker -> WithSlot \cup {"none", "waiting"}]
  /\ runtime \in [Worker -> Runtime \cup {NoRuntime}]
  /\ gone \in SUBSET Worker
  /\ closer \in {"open", "draining", "closed"}
  /\ late \in SUBSET Worker

PoolInit ==
  /\ ready = TRUE
  /\ slots = 0
  /\ idle = <<>>
  /\ call = [w \in Worker |-> "none"]
  /\ runtime = [w \in Worker |-> NoRuntime]
  /\ gone = {}
  /\ closer = "open"
  /\ late = {}

Go(w, from, to) == call[w] = from /\ call' = [call EXCEPT ![w] = to]

Hold(w, rt) == runtime' = [runtime EXCEPT ![w] = rt]

\* Transform or RunResponseHandler past its ready check.
Enter(w) ==
  /\ ready
  /\ Go(w, "none", "waiting")
  /\ UNCHANGED <<ready, slots, idle, runtime, gone, closer, late>>

\* Fault: the wait for a slot ends only while the pool is open.
AcquireWhileReady(w) ==
  /\ ready
  /\ slots < PoolSize
  /\ slots' = slots + 1
  /\ Go(w, "waiting", "choosing")
  /\ UNCHANGED <<ready, idle, runtime, gone, closer, late>>

\* acquire: a free slot, or the sender's leaving; with both, select takes any.
Acquire(w) ==
  /\ slots < PoolSize
  /\ slots' = slots + 1
  /\ Go(w, "waiting", "choosing")
  /\ UNCHANGED <<ready, idle, runtime, gone, closer, late>>

GiveUpWaiting(w) ==
  /\ w \in gone
  /\ Go(w, "waiting", "none")
  /\ UNCHANGED <<ready, slots, idle, runtime, gone, closer, late>>

\* sandbox: the first idle runtime, else set one up.
TakeIdle(w) ==
  /\ idle # <<>>
  /\ Go(w, "choosing", "running")
  /\ Hold(w, Head(idle))
  /\ idle' = Tail(idle)
  /\ UNCHANGED <<ready, slots, gone, closer, late>>

NoneIdle(w) ==
  /\ idle = <<>>
  /\ Go(w, "choosing", "creating")
  /\ UNCHANGED <<ready, slots, idle, runtime, gone, closer, late>>

Create(w) ==
  /\ Go(w, "creating", "running")
  /\ Hold(w, "clean")
  /\ UNCHANGED <<ready, slots, idle, gone, closer, late>>

\* Fault: the slot is given back only by calls that got a runtime.
CreateFailsKeepingSlot(w) ==
  /\ Go(w, "creating", "none")
  /\ UNCHANGED <<ready, slots, idle, runtime, gone, closer, late>>

CreateFails(w) ==
  /\ Go(w, "creating", "releasing")
  /\ UNCHANGED <<ready, slots, idle, runtime, gone, closer, late>>

\* The script returned, or threw while its context was still good: the runtime
\* can be used again.
Finish(w) ==
  /\ Go(w, "running", "recycling")
  /\ \E rt \in {"used", "grown"} : Hold(w, rt)
  /\ UNCHANGED <<ready, slots, idle, gone, closer, late>>

\* It timed out, was cancelled, panicked, or could not be seeded: it cannot.
Break(w) ==
  /\ Go(w, "running", "closing")
  /\ Hold(w, "broken")
  /\ UNCHANGED <<ready, slots, idle, gone, closer, late>>

\* Fault: no look at ready.
RecycleAlways(w) ==
  /\ Go(w, "recycling", "resetting")
  /\ UNCHANGED <<ready, slots, idle, runtime, gone, closer, late>>

\* recycle, first the ready check ...
Recycle(w) ==
  /\ Go(w, "recycling", IF ready THEN "resetting" ELSE "closing")
  /\ UNCHANGED <<ready, slots, idle, runtime, gone, closer, late>>

Resettable(rt) == rt # "grown"

\* Fault: the runtime goes back without the reset.
PutBackAsIs(w) ==
  /\ Resettable(runtime[w])
  /\ Len(idle) < PoolSize
  /\ Go(w, "resetting", "releasing")
  /\ idle' = Append(idle, runtime[w])
  /\ Hold(w, NoRuntime)
  /\ UNCHANGED <<ready, slots, gone, closer, late>>

\* ... then the reset, and the send that gives way to a full channel.
PutBack(w) ==
  /\ Resettable(runtime[w])
  /\ Len(idle) < PoolSize
  /\ Go(w, "resetting", "releasing")
  /\ idle' = Append(idle, "clean")
  /\ Hold(w, NoRuntime)
  /\ UNCHANGED <<ready, slots, gone, closer, late>>

ThrowAway(w) ==
  /\ ~Resettable(runtime[w]) \/ Len(idle) >= PoolSize
  /\ Go(w, "resetting", "closing")
  /\ UNCHANGED <<ready, slots, idle, runtime, gone, closer, late>>

CloseRuntime(w) ==
  /\ Go(w, "closing", "releasing")
  /\ Hold(w, NoRuntime)
  /\ UNCHANGED <<ready, slots, idle, gone, closer, late>>

\* The deferred release, on every way out of the call.
Release(w) ==
  /\ Go(w, "releasing", "none")
  /\ slots' = slots - 1
  /\ UNCHANGED <<ready, idle, runtime, gone, closer, late>>

\* The sender disconnects, at any time.
SenderLeaves(w) ==
  /\ w \notin gone
  /\ gone' = gone \cup {w}
  /\ UNCHANGED <<ready, slots, idle, call, runtime, closer, late>>

\* Close, which main defers: not ready first, then one idle runtime after the
\* other until none is left.
BeginClose ==
  /\ closer = "open"
  /\ closer' = "draining"
  /\ ready' = FALSE
  /\ UNCHANGED <<slots, idle, call, runtime, gone, late>>

DrainOne ==
  /\ closer = "draining"
  /\ idle # <<>>
  /\ idle' = Tail(idle)
  /\ UNCHANGED <<ready, slots, call, runtime, gone, closer, late>>

EndClose ==
  /\ closer = "draining"
  /\ idle = <<>>
  /\ closer' = "closed"
  /\ late' = {w \in Worker : call[w] = "resetting"}
  /\ UNCHANGED <<ready, slots, idle, call, runtime, gone>>

\* The steps of a call once it has entered and before it returns.
Execute(w) ==
  \/ Acquire(w)
  \/ TakeIdle(w)
  \/ NoneIdle(w)
  \/ Create(w)
  \/ CreateFails(w)
  \/ Finish(w)
  \/ Break(w)
  \/ Recycle(w)
  \/ PutBack(w)
  \/ ThrowAway(w)
  \/ CloseRuntime(w)

Return(w) == GiveUpWaiting(w) \/ Release(w)

CloserStep == BeginClose \/ DrainOne \/ EndClose

PoolNext ==
  \/ \E w \in Worker : Enter(w) \/ Execute(w) \/ Return(w) \/ SenderLeaves(w)
  \/ CloserStep

\* A call that has entered goes on, a script at the latest at its timeout.
\* Senders blocked on the slots channel are served in the order they came, so
\* one that waits gets a slot if slots are given back again and again.
PoolFairness ==
  \A w \in Worker : WF_poolVars(Execute(w) \/ Return(w)) /\ SF_poolVars(Acquire(w))

PoolSpec == PoolInit /\ [][PoolNext]_poolVars /\ PoolFairness

-----------------------------------------------------------------------------
\* However calls interleave, the runtimes that exist or are being set up, in
\* use and idle together, are never more than PoolSize, and the slot of every
\* call that waited in vain, failed or broke its runtime is given back: the
\* memory bound that Runner.slots is there for.
RuntimesBounded ==
  /\ Len(idle) + Cardinality({w \in Worker : call[w] \in Occupying}) <= PoolSize
  /\ slots = Cardinality({w \in Worker : call[w] \in WithSlot})

\* No script finds what another left: an idle runtime has been reset, and a
\* runtime whose memory grew or whose module was closed is never handed out.
OnlyCleanHandedOut ==
  /\ \A i \in DOMAIN idle : idle[i] = "clean"
  /\ \A w \in Worker : call[w] = "running" => runtime[w] = "clean"

\* After Close, runtimes are left in idle only by calls that had looked at
\* ready before Close changed it and put theirs back after the drain.
LeftoversAreLate ==
  closer = "closed" => Len(idle) <= Cardinality({w \in late : call[w] # "resetting"})

\* Every call comes back: nobody waits for a slot that is not given back,
\* also while Close drains the pool.
CallsReturn == \A w \in Worker : call[w] # "none" ~> call[w] = "none"
=============================================================================
