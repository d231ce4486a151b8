----------------------------- MODULE HeldReply -----------------------------
(***************************************************************************)
(* The held reply of browser mode: the capture handler registers a pending *)
(* entry with the hub, asks the subscribed tabs for a reply over their     *)
(* WebSockets, and holds the sender's connection until a tab answers or    *)
(* ten seconds pass (internal/handler/capture.go, handleBrowserResponse;   *)
(* internal/hub/hub.go, WaitForResponse, DeliverResponse, sweepPending;    *)
(* internal/handler/ws.go, the read pump; web/src/routes/[slug]).          *)
(*                                                                         *)
(* Any number of handlers, read pumps and tabs interleave.  The entry of a *)
(* request is its key in pending, its channel chan[r] and its slug; a      *)
(* DeliverResponse that found the entry keeps a pointer to it (found) and  *)
(* sends after the lock is released, so the entry may be gone by then.     *)
(***************************************************************************)
EXTENDS Integers, FiniteSets

CONSTANTS
  Request,
  Tab,           \* browser tabs
  Slug,          \* endpoints
  NoSlug,        \* no connection; no endpoint
  NoAnswer,
  Default,       \* the default 202 reply
  HoldTime,      \* browserResponseTimeout, 10 s, in ticks
  PendingTTL,    \* what sweepPending allows an entry, 60 s, in ticks
  MaxTime        \* bound on the clock

ASSUME HeldReplyAssumption ==
  /\ NoSlug \notin Slug
  /\ Default # NoAnswer
  /\ HoldTime \in Nat \ {0}
  /\ PendingTTL \in Nat
  /\ HoldTime <= PendingTTL
  /\ MaxTime \in Nat

\* An answer as it reaches the server: whose it is and over which endpoint's
\* connection it came.
Answer == [req : Request, tab : Tab, slug : Slug]

ASSUME AnswerAssumption == NoAnswer \notin Answer /\ Default \notin Answer

VARIABLES
  phase,     \* request -> where its handler is
  slugOf,    \* request -> the endpoint it was sent to
  pending,   \* the keys of h.pending
  born,      \* request -> createdAt of its entry
  chan,      \* request -> the content of its entry's channel (capacity 1)
  deadline,  \* request -> when its context expires
  gone,      \* requests whose sender hung up while they were undecided
  reply,     \* request -> what the sender is sent
  conn,      \* tab -> the endpoint its WebSocket is connected to
  working,   \* tab -> the requests it is preparing an answer for
  inFlight,  \* answers sent by a tab that no read pump has looked up yet
  found,     \* answers whose DeliverResponse found the entry
  now

handlerVars == <<phase, slugOf, pending, born, chan, deadline, gone, reply>>
tabVars == <<conn, working, inFlight>>
vars == <<handlerVars, tabVars, found, now>>

Undecided == {"registered", "asked", "waiting"}
Phase == Undecided \cup {"new", "replied", "done"}

TypeOK ==
  /\ phase \in [Request -> Phase]
  /\ slugOf \in [Request -> Slug \cup {NoSlug}]
  /\ pending \in SUBSET Request
  /\ born \in [Request -> Nat]
  /\ chan \in [Request -> Answer \cup {NoAnswer}]
  /\ deadline \in [Request -> Nat]
  /\ gone \in SUBSET Request
  /\ reply \in [Request -> Answer \cup {NoAnswer, Default}]
  /\ conn \in [Tab -> Slug \cup {NoSlug}]
  /\ working \in [Tab -> SUBSET Request]
  /\ inFlight \in SUBSET Answer
  /\ found \in SUBSET Answer
  /\ now \in Nat

Init ==
  /\ phase = [r \in Request |-> "new"]
  /\ slugOf = [r \in Request |-> NoSlug]
  /\ pending = {}
  /\ born = [r \in Request |-> 0]
  /\ chan = [r \in Request |-> NoAnswer]
  /\ deadline = [r \in Request |-> 0]
  /\ gone = {}
  /\ reply = [r \in Request |-> NoAnswer]
  /\ conn = [t \in Tab |-> NoSlug]
  /\ working = [t \in Tab |-> {}]
  /\ inFlight = {}
  /\ found = {}
  /\ now = 0

-----------------------------------------------------------------------------
(* The capture handler.                                                    *)

Subscribers(s) == {t \in Tab : conn[t] = s}

\* HasSubscribers, then WaitForResponse.  A tab that leaves between the two
\* is one that AskTabs does not reach.
Hold(r, s) ==
  /\ phase[r] = "new"
  /\ Subscribers(s) # {}
  /\ now + HoldTime <= MaxTime
  /\ phase' = [phase EXCEPT ![r] = "registered"]
  /\ slugOf' = [slugOf EXCEPT ![r] = s]
  /\ pending' = pending \cup {r}
  /\ born' = [born EXCEPT ![r] = now]
  /\ UNCHANGED <<chan, deadline, gone, reply, tabVars, found, now>>

\* Publish response_needed, unbuffered: a tab whose channel is full misses it.
AskTabs(r) ==
  /\ phase[r] = "registered"
  /\ phase' = [phase EXCEPT ![r] = "asked"]
  /\ \E heard \in SUBSET Subscribers(slugOf[r]) :
       working' = [t \in Tab |-> IF t \in heard THEN working[t] \cup {r}
                                                ELSE working[t]]
  /\ UNCHANGED <<slugOf, pending, born, chan, deadline, gone, reply,
                 conn, inFlight, found, now>>

\* Publish request, then start the timeout and enter the select.
StartWaiting(r) ==
  /\ phase[r] = "asked"
  /\ phase' = [phase EXCEPT ![r] = "waiting"]
  /\ deadline' = [deadline EXCEPT ![r] = now + HoldTime]
  /\ UNCHANGED <<slugOf, pending, born, chan, gone, reply, tabVars, found, now>>

\* The select finds an answer that came before the handler got there.
TakeReply(r) ==
  /\ phase[r] = "waiting"
  /\ chan[r] # NoAnswer
  /\ phase' = [phase EXCEPT ![r] = "replied"]
  /\ reply' = [reply EXCEPT ![r] = chan[r]]
  /\ chan' = [chan EXCEPT ![r] = NoAnswer]
  /\ UNCHANGED <<slugOf, pending, born, deadline, gone, tabVars, found, now>>

\* Fault: the context has no timeout.
ContextDoneOnlyWhenGone(r) == r \in gone

ContextDone(r) == r \in gone \/ now >= deadline[r]

\* The context is done.  Against an answer ready at the same time the select
\* chooses either.
GiveUp(r) ==
  /\ phase[r] = "waiting"
  /\ ContextDone(r)
  /\ phase' = [phase EXCEPT ![r] = "replied"]
  /\ reply' = [reply EXCEPT ![r] = Default]
  /\ UNCHANGED <<slugOf, pending, born, chan, deadline, gone, tabVars, found, now>>

\* The reply is written and published as response_info; the deferred cleanup
\* deletes the entry.
Finish(r) ==
  /\ phase[r] = "replied"
  /\ phase' = [phase EXCEPT ![r] = "done"]
  /\ pending' = pending \ {r}
  /\ UNCHANGED <<slugOf, born, chan, deadline, gone, reply, tabVars, found, now>>

\* The sender hangs up: r.Context() is cancelled.
SenderLeaves(r) ==
  /\ phase[r] \in Undecided
  /\ gone' = gone \cup {r}
  /\ UNCHANGED <<phase, slugOf, pending, born, chan, deadline, reply,
                 tabVars, found, now>>

-----------------------------------------------------------------------------
(* Tabs.                                                                   *)

\* A tab opens an endpoint, or reconnects.
Connect(t, s) ==
  /\ conn[t] = NoSlug
  /\ conn' = [conn EXCEPT ![t] = s]
  /\ UNCHANGED <<handlerVars, working, inFlight, found, now>>

\* The connection drops, or the tab moves to another endpoint.  The handlers
\* that are preparing answers in the tab go on.
Disconnect(t) ==
  /\ conn[t] # NoSlug
  /\ conn' = [conn EXCEPT ![t] = NoSlug]
  /\ UNCHANGED <<handlerVars, working, inFlight, found, now>>

\* The tab is done: it sends over the connection it has now, if any.
SendAnswer(t, r) ==
  /\ r \in working[t]
  /\ working' = [working EXCEPT ![t] = @ \ {r}]
  /\ inFlight' = IF conn[t] = NoSlug THEN inFlight
                 ELSE inFlight \cup {[req |-> r, tab |-> t, slug |-> conn[t]]}
  /\ UNCHANGED <<handlerVars, conn, found, now>>

\* The connection breaks before the server has read the answer.
LoseAnswer(a) ==
  /\ a \in inFlight
  /\ inFlight' = inFlight \ {a}
  /\ UNCHANGED <<handlerVars, conn, working, found, now>>

-----------------------------------------------------------------------------
(* DeliverResponse, called by the read pump of the answer's connection.    *)

\* Fault: the slug of the connection is not compared with the entry's.
EntryOfAnySlug(a) == a.req \in pending

Entry(a) == a.req \in pending /\ slugOf[a.req] = a.slug

\* The lookup under pendingMu and the slug check; without an entry it returns
\* false and the answer is lost.
LookUp(a) ==
  /\ a \in inFlight
  /\ inFlight' = inFlight \ {a}
  /\ found' = IF Entry(a) THEN found \cup {a} ELSE found
  /\ UNCHANGED <<handlerVars, conn, working, now>>

\* A handler blocked in the select receives directly.
Parked(r) == phase[r] = "waiting" /\ chan[r] = NoAnswer

\* Fault: a later answer replaces one that the handler has not taken yet.
DeliverReplacing(a) ==
  /\ a \in found
  /\ found' = found \ {a}
  /\ IF Parked(a.req)
       THEN /\ phase' = [phase EXCEPT ![a.req] = "replied"]
            /\ reply' = [reply EXCEPT ![a.req] = a]
            /\ UNCHANGED chan
       ELSE /\ chan' = [chan EXCEPT ![a.req] = a]
            /\ UNCHANGED <<phase, reply>>
  /\ UNCHANGED <<slugOf, pending, born, deadline, gone, tabVars, now>>

\* The non-blocking send, after the lock was released: to a parked handler,
\* else into the channel, else (full) not at all.
Deliver(a) ==
  /\ a \in found
  /\ found' = found \ {a}
  /\ IF Parked(a.req)
       THEN /\ phase' = [phase EXCEPT ![a.req] = "replied"]
            /\ reply' = [reply EXCEPT ![a.req] = a]
            /\ UNCHANGED chan
       ELSE /\ chan' = IF chan[a.req] = NoAnswer THEN [chan EXCEPT ![a.req] = a]
                                                 ELSE chan
            /\ UNCHANGED <<phase, reply>>
  /\ UNCHANGED <<slugOf, pending, born, deadline, gone, tabVars, now>>

-----------------------------------------------------------------------------
(* The sweep and the clock.                                                *)

\* Fault: entries are swept at the age at which handlers give up.
StaleAtHoldTime(r) == born[r] + HoldTime <= now

Stale(r) == born[r] + PendingTTL < now

SweepPending ==
  /\ pending' = {r \in pending : ~Stale(r)}
  /\ UNCHANGED <<phase, slugOf, born, chan, deadline, gone, reply,
                 tabVars, found, now>>

\* Handlers run promptly: a tick (of seconds) does not pass while one has a
\* step to take other than waiting for an answer.
Idle(r) ==
  \/ phase[r] \in {"new", "done"}
  \/ Parked(r) /\ ~ContextDone(r)

Tick ==
  /\ now < MaxTime
  /\ \A r \in Request : Idle(r)
  /\ now' = now + 1
  /\ UNCHANGED <<handlerVars, tabVars, found>>

-----------------------------------------------------------------------------
Handler(r) == AskTabs(r) \/ StartWaiting(r) \/ TakeReply(r) \/ GiveUp(r) \/ Finish(r)

Next ==
  \/ \E r \in Request, s \in Slug : Hold(r, s)
  \/ \E r \in Request : Handler(r)
  \/ \E r \in Request : SenderLeaves(r)
  \/ \E t \in Tab, s \in Slug : Connect(t, s)
  \/ \E t \in Tab : Disconnect(t)
  \/ \E t \in Tab, r \in Request : SendAnswer(t, r)
  \/ \E a \in inFlight : LoseAnswer(a)
  \/ \E a \in inFlight : LookUp(a)
  \/ \E a \in found : Deliver(a)
  \/ SweepPending
  \/ Tick

Spec == Init /\ [][Next]_vars

\* Goroutines that can run do run, and time passes.  Nothing is assumed of
\* tabs, senders or the network.
Fairness == WF_vars(Tick) /\ \A r \in Request : WF_vars(Handler(r))

FairSpec == Spec /\ Fairness

-----------------------------------------------------------------------------
\* The map of pending replies holds exactly the requests whose handler has not
\* returned: the sweep never takes the entry of a handler that still waits,
\* which would turn every answer away, and none is left behind by a handler
\* that gave up (WaitForResponse, its cleanup, sweepPending).
PendingIffHeld ==
  \A r \in Request : r \in pending <=> phase[r] \in Undecided \cup {"replied"}

\* A sender is only ever sent an answer to its own request that came over a
\* connection of the endpoint it called (M-04), although tabs move between
\* endpoints while they prepare answers and deliveries outlive the lookup.
ReplyFromOwnEndpoint ==
  \A r \in Request :
    reply[r] \in Answer => reply[r].req = r /\ reply[r].slug = slugOf[r]

\* What makes the two provable.  Whatever an entry's channel or a delivery
\* under way holds is meant for that request and came over its endpoint; a
\* handler that has not returned is at most HoldTime old, so no entry of its
\* gets stale; and exactly the undecided requests have no reply.
OwnAnswer(r, a) == a.req = r /\ a.slug = slugOf[r]

AnswersAreOwn ==
  /\ \A a \in found : phase[a.req] # "new" /\ OwnAnswer(a.req, a)
  /\ \A r \in Request : chan[r] # NoAnswer => phase[r] # "new" /\ OwnAnswer(r, chan[r])

HandlersAreYoung ==
  \A r \in Request :
    /\ phase[r] \in Undecided \cup {"replied"} =>
         born[r] <= now /\ now <= born[r] + HoldTime
    /\ phase[r] \in {"registered", "asked"} => now = born[r]
    /\ phase[r] = "waiting" => deadline[r] = born[r] + HoldTime

\* An answer that waits in the channel came before the deadline.
ReadyBeforeDeadline ==
  \A r \in Request :
    phase[r] = "waiting" /\ chan[r] # NoAnswer => now < deadline[r]

UndecidedIffNoReply ==
  \A r \in Request : reply[r] = NoAnswer <=> phase[r] \in Undecided \cup {"new"}

IInv ==
  /\ TypeOK
  /\ PendingIffHeld
  /\ ReplyFromOwnEndpoint
  /\ AnswersAreOwn
  /\ HandlersAreYoung
  /\ ReadyBeforeDeadline
  /\ UndecidedIffNoReply

\* Each held request is decided once: by the first answer that DeliverResponse
\* accepted while its handler was undecided, and by the default only when there
\* is none or the sender has gone (several tabs answer; the channel holds one).
Promise ==
  INSTANCE FirstAnswer
    WITH AnswersTo <- [r \in Request |-> {a \in Answer : a.req = r}],
         held  <- {r \in Request : phase[r] # "new"},
         offer <- [r \in Request |-> IF phase[r] \in Undecided THEN chan[r]
                                                              ELSE NoAnswer]

ImplementsFirstAnswer == Promise!Spec

\* Every sender that is held gets its reply, and its entry is released, even if
\* no tab ever answers.
EveryHeldRequestFinishes ==
  \A r \in Request : phase[r] = "registered" ~> phase[r] = "done"
=============================================================================
