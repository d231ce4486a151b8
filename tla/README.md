# A TLA+ model of testhooks

testhooks (Go, with a SvelteKit dashboard) captures webhooks sent to
`/h/{slug}`, shows them live, runs user scripts on them, forwards them and
replies. This directory holds a TLA+ model of what can go wrong in it between
two goroutines, two tabs, or two calls into the store: the modules, the TLC
configurations that check them on small instances, and TLAPS proofs of the
results that hold for every instance. Paths below are relative to `src/`, the
root of the repository.

## 1. Inventory

| Component | State | Operations | Interacts with |
|---|---|---|---|
| **Replay ring buffer** `internal/hub/hub.go` 31-139 | slots, write position, full flag, one mutex each | `push`, `drain`, `sweepExpired` | owned by the hub |
| **Hub, publish/subscribe** `hub.go` 141-315 | clients per slug with a 64-message channel, ring buffers per slug, the sweep goroutine | `Subscribe` (with catch-up) and its cleanup, `Publish`, `RemoveBuffer`, `sweepRingBuffers` | capture and API publish, WebSocket handlers subscribe |
| **Hub, pending replies** `hub.go` 217-227, 317-360 | map request id to (slug, channel of 1, creation time) | `WaitForResponse` and its cleanup, `DeliverResponse`, `sweepPending` | the capture handler waits, WebSocket read pumps deliver |
| **WebSocket handler** `internal/handler/ws.go` | one read pump and one write pump per connection | connect, receive, `response_result`, ping | hub |
| **Capture pipeline** `internal/handler/capture.go` | per request: progress of `ServeHTTP`; slots and wait group of background forwards | receive, store, verify, transform, publish, hold, forward (sync, async), reply, record | store, hub, forwarder, script runner |
| **Endpoint and request API** `internal/handler/api.go` | none of its own | create, list, update, rename, delete; list and delete requests | store, hub (`RemoveBuffer`) |
| **In-memory store** `internal/db/memstore/memstore.go` | endpoints, slugs, requests, dirty flag, snapshot file | the `Store` interface; `Save`, `load`, `Prune*` | capture, API, pruner |
| **PostgreSQL store** `internal/db` | the database | the same interface | the same callers |
| **Forwarder** `internal/forward/forwarder.go` | none | attempts, backoff, retryable outcomes | the target |
| **Script runner** `internal/wasm` | slots, idle runtimes | acquire, eval, recycle, `Close` | capture pipeline |
| **Signature secrets** `internal/handler/secrets.go` | sealed secrets in endpoint configs | seal, `ResealSecrets` at start | store |
| **Signature verification** `internal/signature`, `secrets.go` 165-249 | none | check, sign again at the forward or for a tab | capture, API |
| **Rate limiter and client address** `internal/middleware/ratelimit.go`, `clientip.go` | token bucket per address | `allow`, `cleanup`, `ClientIP` | every request |
| **Pruner** `internal/cleanup/pruner.go` | a timer | prune | store |
| **Process lifecycle** `cmd/testhooks/main.go` | the listener, the order of shutdown | start, drain, stop | everything |
| **Dashboard** `web/src` | request list and selection per tab, a WebSocket per endpoint, work in progress per request | load, catch up, live messages, delete, answer `response_needed` | API, WebSocket handler |
| MCP server, configuration, slugs, redaction, UI components | none that a protocol depends on | | |

What is hard in this code, and what would make each part correct:

- **Ring buffer**: wraps, and a TTL sweep that blanks slots in the middle
  without moving the position. *Reading from the position is reading oldest
  first; nothing young is lost unless it was overwritten.*
- **Hub**: everything runs under one lock except the sweep, which copies the
  map, sweeps each buffer under its own lock and comes back to delete what was
  empty; the catch-up is flushed into a bounded channel before anybody reads.
  *No message published during a sweep is lost; a subscriber sees its slug's
  messages in order, once, and misses only what its own full channel refused;
  no send on a closed channel.*
- **Held reply**: a handler holds the sender's connection while tabs prepare
  an answer; `DeliverResponse` sends after it has released the lock; the
  deadline, the sender's disconnect, a second tab, a reconnect and the pending
  sweep all race with it. *Each held request is decided exactly once, by an
  answer to it that came over its own endpoint's connection or by the default,
  and none is held forever.*
- **Capture pipeline**: up to ten calls into other components per request,
  between any two of which the endpoint may be edited or deleted, the row
  pruned, or the process stopped; forwards that outlive the request; records
  that fail after the sender was answered. *A request is forwarded at most once
  and never after a refusal; a forward that started leaves a trace, also across
  a crash; a graceful stop leaves nothing open; nothing recorded outlives its
  endpoint.*
- **Store and snapshots**: writes between the copy and the write of a
  snapshot, failed snapshots, crash and restart, pruning at the exact budget.
  *The four maps agree; what a snapshot leaves out is marked for the next; a
  clean shutdown loses nothing; a good file is only replaced by a good one.*
- **API and secrets**: read-modify-write updates, a rename committed before a
  failing edit, slug collisions, a reseal that pages over endpoints which are
  edited and deleted meanwhile, by instances with other keys. *A change that
  was answered stays; an error changed nothing but a URL; no secret is stored
  in the clear or left under a former key; no URL replays another's requests.*
  The code does not keep the last two without exceptions; the properties name them.
- **Scripts**: a fixed number of runtimes, reused, among calls that time out,
  are abandoned, or finish while `Close` drains the pool. *Never more runtimes
  than the limit, never one with another script's leftovers, no call that
  waits for good.*
- **Forwarder**: which failures are worth repeating, and an answer lost after
  the target acted. **Signatures**: signing again lends the secret to whoever
  sends the request, and scripts respell headers. **Rate limiter**: the
  one-token boundary, and forgetting a bucket. **Client address**: which entry
  of a list of untrusted length is the client.
- **Dashboard**: a load, catch-ups and live messages that overlap, and
  optimistic deletes rolled back over what came in meanwhile. *A request is
  shown once, and the newest come to be shown whatever was lost.*

`PROJECT.json` lists every hazard at its line, with the properties that cover it.

## 2. Modules

| Module | Models | State and actions in the code's terms |
|---|---|---|
| `Lists` | the loop of `drain`, and the dashboard's filter, as a recursive function | what is left of a list without some of its elements |
| `RingBuffer` | `ringBuffer`, as operators | `push`, `drain`, `sweepExpired` on a record of `msgs`, `pos`, `full` |
| `ReplayBuffer` | one buffer over time | `Push`, `Sweep`, `Tick`; `pushed` is the history the properties compare with |
| `Hub` | subscriptions, channels, buffers, sweep | each operation that holds `h.mu` throughout is one action; the sweep is `SweepBegin` (copy), `SweepOne` per buffer, `SweepEnd` (second look and delete); `orphan` marks a buffer that left the map while the sweep holds a pointer to it |
| `CatchUpLog` | what the buffers promise: per slug, the last `Size` messages within the TTL | `Publish`, `Forget`, `Tick` |
| `HeldReply` | pending replies, the holding handler, the tabs | `Hold`, `AskTabs`, `StartWaiting`, `TakeReply`, `GiveUp`, `Finish`, `SenderLeaves`; `Connect`, `Disconnect`, `SendAnswer`, `LoseAnswer`; `LookUp` and `Deliver` are the two halves of `DeliverResponse`; `SweepPending` |
| `FirstAnswer` | what a held request is promised: the first accepted answer or the default, once | `Hold`, `Offer`, `Take`, `Relay`, `GiveUp`, `Leave` |
| `Capture` | the pipeline for one endpoint, its background forwards, the API calls that disturb it, drain, stop and crash | one action per step of `ServeHTTP`, `forwardAsync` and `publishResponseInfo` that ends with a call into store, hub, target or sender |
| `MemStore` | the in-memory store, its snapshot file, the pruner, start, shutdown and crash | every method that holds the store's lock is one action (`CreateEndpoint` to `RecordUpgradeInterest`, `DeleteAllRequests`); a pruning pass is `PruneByStorageBudget` and then `PruneExcessRequests`; `Save` is `SwapDirty`, `Copy` and `Rename` or `SaveFails`; `New`, `Close`, `Flush`, `Exit`, `Crash`, `Damage` are the process and the file |
| `EndpointAPI` | endpoints in a shared database, API calls and requests on several instances, each with a hub of its own, the reseal at one's start, what the ring buffers hold | a handler is its steps between two calls into store or hub: `CreateEndpoint`, then `TryAgain` and `Insert`; `UpdateEndpoint`, then `Rename`, `RemoveBuffer`, `Save`; `DeleteEndpoint`, `DeleteRow`, `RemoveBuffer`; `StoreFails` at any. The capture handler is `Lookup` and later `Publish` or `NotBuffered`; `SweepBuffer` is the TTL. `ResealSecrets` is `ListPage`, `SkipItem` or `ResealItem` per endpoint, `NextPage`, `ResealFails` |
| `TabStore` | a tab's request list, with the server's list and the messages under way | every function of the store up to its `await` (`catchUp`, `remove`, `clearAll`), what the server does (`ListRequests`, `CountRequests`, `DeleteOnServer`), and the code after the `await` (`Loaded`, `Reload`, `CaughtUp`, `Deleted`, `Fail`); `prepend` and `LoseMessage` are the live messages |
| `ScriptPool` | slots, idle runtimes, calls, `Close` | `Enter`, `Acquire` or `GiveUpWaiting`, `TakeIdle` or `Create`, `Finish` or `Break`, `Recycle` (the look at `ready`), `PutBack` or `ThrowAway`, `CloseRuntime`, `Release`; `BeginClose`, `DrainOne`, `EndClose` |
| `Forwarder` | `ForwardOne`, and what its target sees | `NotSent`, `Send`, `SendAgain` (the transport by itself), `Answered`, `RedirectBarred` (`CheckRedirect` returns an error), `AnswerLost`, `Retry`, `CancelPause`; `Expire` is the end of its context |
| `Signature` | signatures that exist, a request, what is signed again | `check`, `Check`, `Resign` as operators; `Receive`, `SignForward` (the capture handler), `ResignRequest` (the endpoint for tabs) |
| `RateLimiter` | the limiter's map of buckets | `Allow`, `Refuse`, `cleanup`; `OpenWindow` and `granted` are an observer that counts |
| `ClientAddress` | a request's path and its headers | `SendRequest`, `Relay`; `ClientIP` as an operator |
| `ListProofs` | lemmas about lists and sums, with induction over numbers | |
| `RingBufferProofs` | lemmas about `RingBuffer`'s operators: what `drain` returns, what `push` and `sweepExpired` keep | |
| `FeedProofs` | proofs about `Hub` and `TabStore`: how requests get to a dashboard | |
| `PartsProofs` | proofs about the six modules that `MCParts` runs | |
| `HeldReplyProofs`, `CaptureProofs`, `MemStoreProofs`, `EndpointProofs` | proofs about the module they are named after (`EndpointProofs`: `EndpointAPI`) | |
| `MCParts` | `ReplayBuffer`, `ScriptPool`, `Forwarder`, `RateLimiter`, `Signature` and `ClientAddress` in one run | they share no state; `part` says which one a behaviour is about |
| other `MC*` | constants of the runs | |

Operators marked `Fault:` belong to no specification. Each stands for a mistake
that could be made in the definition that follows it; they are what the
properties were tried against, and every property of a passing run is violated
when its fault replaces the definition.

How the parts fit together: `Hub` uses `RingBuffer`'s operators and implements
`CatchUpLog`; `HeldReply` implements `FirstAnswer`; `Capture` uses, for what it
calls, exactly what those abstract modules promise: a held request gets an
answer or the default (`Release`), a published message is appended to the feed.
`MemStore` is the store below `Capture`, which relies on its inserts needing
the endpoint, its updates of missing rows doing nothing, and its cascades.
`EndpointAPI` works on the other implementation of that store, a database with
a unique index on slugs, and on the hub's `RemoveBuffer`; its deletions and
edits are `Capture`'s disturbances. Of the capture handler it has the two ends
that matter to a slug, the lookup and the publish, with anything in between. `TabStore` is a client of what `Hub` leaves
open: any live message may be late or lost. A step of `Capture` that calls the
script runner or `ForwardOne` is a whole behaviour of `ScriptPool` or
`Forwarder`, which say what it may end with.

### Abstractions

- Messages, headers, answers and results are members of small sets. A script,
  a signature check, a forward target is a choice between the outcomes the code
  tells apart.
- Time is a clock that ticks. In `HeldReply` a tick does not pass while a
  handler has something to do other than wait for an answer: ticks are seconds,
  steps are microseconds. The tabs and read pumps are not bound by it.
- A tab whose channel is full, or that no longer listens, misses
  `response_needed`: `AskTabs` reaches an arbitrary subset of the subscribers.
- In `Hub` each client value subscribes once; a client that reconnects is
  another client. `removals` keeps the parity of each slug's `RemoveBuffer`
  calls, so that `CatchUpLog` can tell a removed buffer from an expired one. A
  closed client's channel, and what history says of it, is forgotten, since
  nobody reads it again.
- In `Capture` the store's answer to a call is a choice: an insert needs the
  endpoint, an update that matches no row does nothing, and any call can fail.
  The in-memory store and PostgreSQL agree on this. An error or panic inside a
  background forward is `Panic`; a panic in a handler, which net/http contains,
  leaves out only records and is not modelled.
- In `MemStore` the lists hold row ids where the code holds pointers shared with
  `byID`, which is what makes a recorded result appear in both. A missing file
  reads as the empty snapshot. The temporary file of `writeAtomic` cannot be
  seen before its rename, so that the write is one step that succeeds or fails.
  `Damage` stands for whatever makes the file undecodable while the process is
  down. `late` says that main stopped waiting for handlers or forwards: then,
  and only then, writes go on after `Close`.
- `EndpointAPI` keeps of an endpoint its slug, its name and the signature object
  of its config; the rest of the config is stored as sent. A secret is its value
  and the key that its envelope names, so that encryption is what it does to
  these. Each SQL statement is atomic. `StoreFails` is a call that changed
  nothing; a commit whose acknowledgement is lost is not modelled. Of a page the
  reseal still has the endpoints it has not looked at, and knows whether the page
  was short. A call's
  `status` is what its handler answers: `http.TimeoutHandler` may have answered
  503 before, while the handler goes on. `raced`, `orphans` and `did` are history,
  and what a call that ended in an error had asked for is forgotten.
- The code that seals, reseals and redacts looks for the keys `signature` and
  `secret`; `ParseEndpointConfig`, which uses the secret, takes them in any case.
  So a config in `EndpointAPI` may have a second secret, `respelled`, which seal
  and reseal do not see, and a body may spell the whole object in another way
  (`exact`). Not modelled: an envelope that a client makes up and sends as
  `Secret_Enc`, and both spellings of `signature` in one body. `Found` says which
  secret is used: the exact one, which `encoding/json` writes after the others.
- `EndpointAPI` buffers only requests to endpoints in browser mode, since the
  others are published without buffering, and of those only that they came to an
  endpoint under a slug at an instance; how many, and in what order, is `Hub`'s.
- In `TabStore` requests are numbered as they are stored, which is the order of
  the server's list. A call may fail whether or not the server has carried it
  out. A load does not count, since only a catch-up looks at the total.
- A runtime in `ScriptPool` is what the pool can tell about it: clean, used,
  grown, or broken. The send into `idle` and the look at `ready` are two steps,
  because `Close` may come between them.
- In `Forwarder` an attempt is two steps: the target gets the request, then the
  server gets an answer, an error in its place, or none. In between, Go's
  transport may send a request by itself again when a connection that it had
  used before breaks, if the method or an `Idempotency-Key` header allows it
  (`replayable`; neither is looked at by the forwarder, which passes on both). The length of a pause is left out; a
  name may resolve to another address at every attempt.
- In `Signature` a signature is what it covers and the key it is made with;
  with the endpoint's secret it exists only once somebody who has it has made
  it. Senders compose headers from all signatures that exist. A header map has
  a value under the canonical spelling and one under another.
- `RateLimiter` counts in units of a token, so that a refill per tick is an
  integer where the code uses floating point.
- In `ClientAddress` every trusted proxy appends the peer it sees to one
  X-Forwarded-For line, as the usual proxies do; an untrusted one counts as the
  sender.

### Bounds

| Run | Instance | Why it is enough |
|---|---|---|
| `hub_slugs` | 2 slugs, 2 clients, 3 messages, ring and channel of 2, limit 1 | the limit, a full channel, a wrap, and a message of the other slug all occur; `PublishUntil` and `MaxTime` bound the clock; also proved for every size |
| `hub` | 1 slug, 1 client, 4 messages, ring and channel of 2, TTL 1, publishing until 2, clock to 4 | a buffer can be wrapped, expire, be found empty by the sweep and written to before it is deleted, be removed and created again during a sweep, and be reclaimed; but for the liveness also proved |
| `hub_overflow` | as `hub`, ring of 3, publishing until 1, clock to 3 | the smallest ring larger than the channel |
| `held` | 1 request, 2 tabs, 2 endpoints, 1 tick to hold, 2 ticks of TTL, clock to 4 | requests share nothing but the map, whose entries are independent; two tabs race and each can move to the other endpoint and back; the safety results are proved for any number |
| `capture` | 2 requests, 1 background slot, 5 settings | the second request finds the slot free or taken; the settings lead through every branch |
| `capture_live`, `capture_reply`, `capture_progress` | 1 request, 9 or 5 settings, one plain and one blocked header | liveness and the reply of a request depend on no other request |
| `memstore` | 2 endpoints, 3 requests, 2 slugs, bodies of size 0 or 1, budget 1, limit 2, 5 writes, 2 starts | both prunes at, below and above their limit, on one endpoint and on both; a rename onto a free and a refused taken slug; every write between every two steps of a Save; a restart from every snapshot; all invariants are also proved for every size |
| `endpoint` | 2 endpoints at the start (a secret in the clear, one under the former key), one more may be created, 3 slugs, 2 tries per slug, 2 instances, 2 calls of which one is on an instance with the former settings, 1 request, to the first endpoint, at the other instance, 4 bodies, pages of 1; 904,820 states, depth 22 | two calls and the reseal are three read-modify-writes over one row; a page can move under the reseal; a new slug can be free, taken once or taken to the end; the request can be looked up before and published after what either call does, on its own instance and on the other; that three calls to one row, other bodies (the object itself respelled, for one) or more requests add nothing is only proved |
| `tab` | 3 requests, 2 calls in flight, a catch-up looks at 2 rows, a load gets 3, 1 deletion, 1 failing call | an answer can be all new with more behind it, partly known or all known, and can be overtaken by the other call, a live message or a deletion; failures end, as outages do; that a request is shown once is also proved |
| `parts`: ring buffer | 3 slots, 6 pushes of 2 messages, TTL 1, clock to 4 | two wraps, and every slot can expire before, between and after pushes; the invariants are also proved for every size |
| `parts`: script pool | 3 calls, 2 runtimes | one call waits while two hold or recycle; also proved for every number |
| `parts`: forwarder | 2 jobs, one in each behaviour, 2 retries, addresses of two kinds, a request reaches its target at most 4 times | the last retry, one before it and none; a name that resolves now to a refused address, now to another; the transport's resend once with all three attempts, three times with one; also proved |
| `parts`: rate limiter | 2 clients, room for 1, a burst of 2 that takes 4 ticks to fill, clock to 7 | a full, an empty and a partly filled bucket; forgotten at the earliest moment and known again; a client without room; also proved |
| `parts`: signature | 2 bodies, 2 ids, tolerance 1, clock to 2, up to 2 signatures with the secret when a request comes in | a copied signature in time or too late, of a sender or of the server, for another body; also proved |
| `parts`: client address | 4 hosts of which 2 are trusted proxies, 1 name that is no address, 2 written entries, 2 hops | no, one and two proxies, headers that name proxies, clients, nothing or nonsense; also proved |

Every bound is a constant of its module and a guard of one action (`MaxPush`,
`MaxPublish`, `PublishUntil`, `MaxTime`, `Horizon`, `MaxGranted`, `MaxWrites`,
`MaxStarts`, `MaxEndpoints`, `MaxRequests`, `MaxEdits`, `MaxFailures`,
`LastTick`, `MaxMade`, `MaxWritten`, `MaxHops`, `MaxServed`); `Sent`, `Settings`, `Address`
and `Busy` bound what is enumerated. Symmetry is used in runs of safety
properties only.

### Fairness

- `Hub`: weak fairness of the sweep's steps, since the goroutine of
  `New` runs every 30 seconds until `Stop`, and of time. None of subscribers or
  publishers.
- `HeldReply`: weak fairness of the handler's steps and of time. None of tabs,
  read pumps or the sweep: a request finishes whatever they do.
- `Capture`: weak fairness of a handler that has begun and of a background
  forward. Each call they wait for is bounded by a timeout (30 s for a forward,
  10 s for a tab, 5 s for a record). None of the API, the shutdown or a crash.
- `ScriptPool`: weak fairness of a call that has entered, since a script ends at
  the latest at its timeout, and strong fairness of getting a slot: senders
  blocked on a Go channel are served in the order they came, so that who waits
  gets a slot if slots are given back again and again. None of `Close` or of
  senders that leave.
- `TabStore`: weak fairness of the page's interval, which starts a catch-up
  every `CATCH_UP_MS`, and of each call's answer. None of live messages, all of
  which may be lost.
- `EndpointAPI`, `Forwarder`, `RateLimiter`, `Signature` and `ClientAddress`
  state safety only.

## 3. What the runs show

- `hub_slugs`: no send on a closed channel, isolation of slugs, order, and gaps
  only where the client's own channel was full.
- `hub`: the buffers with their interleaved sweep implement `CatchUpLog`; the
  catch-up is complete as long as the ring fits the channel; buffers of idle
  slugs are reclaimed, also when a late publish recreates one after
  `RemoveBuffer`.
- `held`: the handler, the two halves of `DeliverResponse`, the tabs and the
  sweep implement `FirstAnswer`; the pending map is exact; every held request
  ends although nobody answers.
- `capture`: the pipeline's safety properties of the inventory, for two
  interleaved requests with every disturbance.
- `capture_live`: every request under way and every background forward ends.
- `memstore`: the four maps agree after every operation, prune and reload;
  nothing a Save leaves out goes unmarked; a clean shutdown loses nothing
  (`installation.md` 45) once main's wait was long enough and the last Save was
  written; a running process replaces the file only by a whole snapshot and
  only if it could load it (that no half-written file takes its place is assumed,
  with `writeAtomic` as one step: what is checked is that nothing but a finished
  `Save` writes it and that a file that cannot be read stops the start); the
  prunes delete what the window functions of
  `internal/db/queries.go` 355-389 delete. Deadlock is not checked: the store
  stops for good when the file is damaged or the bounds are used up.
- `endpoint`: a change that was answered with success stays, unless a write that
  had read the endpoint earlier went over it; an error has changed nothing but
  possibly the URL; a secret is in the clear only if it was sent under another
  spelling of its key, or was at the start; which secrets can be under a former
  key when the reseal has ended; and what a ring buffer holds of an endpoint
  that has lost the URL is removed by the handler that took it, but for the
  three kinds of `orphans`. The update that a PATCH or the reseal loses is not
  caught by `AnsweredChangesStay`: it is what the code does, `raced` names it,
  and the property says that nothing else is lost.
  Deadlock is not checked: the calls end.
- `tab`: a request is shown once; and whatever was lost, failed or overlapped,
  the newest requests come to be shown, again and again.
- `parts`: of the ring buffer, that what `drain` returns is a suffix of what was
  pushed, in order and without gaps, and what is missing at its front was
  overwritten or has expired. Of the script pool, that runtimes and slots stay
  within the limit, that scripts start in clean runtimes, what may be left
  after `Close`, and that every call returns. Of a forward, that every
  repetition has a reason, in what the target answered as well as in what the
  server made of it, and the result is the last attempt's. Of the rate
  limiter, the bound on any window. Of signatures, that the server signs only
  on behalf of who had the secret, and that the target accepts it. Of the
  address, that a sender cannot choose it. Deadlock is not checked: the bounds
  on pushes, jobs and clocks are used up.

Three runs show where the code and its documentation part:

- `hub_overflow`: with the default settings (`RING_BUFFER_SIZE` 100, channel of
  64) a reconnecting client does not receive all it missed. The flush happens
  before the write pump reads, and it is the *newest* messages that do not fit.
- `capture_reply`: `response_info`, published and recorded as the response sent
  back, lists headers the sender was not sent: those a reply script set and the
  handler blocked, and those of a target whose reply was passed through.
- `capture_progress`: a row can say `in_progress` for good although its forward
  has ended and the server never stopped, when recording the result failed.

Other places where the code and what is written about it part are put into
words here, since the model states what does hold:

- `DeliverResponse` says it returns true "if a handler was waiting" (`hub.go`
  342). It returns true when the channel took the answer, which also happens
  after the handler has given up and before its entry is deleted. Nothing in
  the repository uses the difference.
- `Close` of the script runner says that a script finishing now closes its
  runtime (`runner.go` 168-169). One that looked at `ready` just before leaves
  it in `idle`, which `LeftoversAreLate` allows and bounds.
- "Fields you leave out are unchanged" (`reference/api.md` 68): a PATCH writes
  back all columns as it read them, over a change made meanwhile. The same
  writes, and a deletion that moves an endpoint from one page of the reseal to
  another, can leave a secret under the former key after the last instance has
  restarted, although `guides/signatures.md` 66 then has the key removed.
  `AnsweredChangesStay` and `SecretsAtRest` name these cases and exclude all
  others.
- "Each secret is encrypted with its own random data key"
  (`guides/signatures.md` 46) and "the API and the UI only say that a secret is
  set" (44) hold of a secret under the key `secret` in the object `signature`.
  One that a client sends as `Secret`, or in `Signature`, is used, but `seal`
  stores it as it came, `ResealSecrets` passes over it, and `RedactSecrets` does
  not hide it (`respelled`, which `SecretsAtRest` excepts). The dashboard sends
  the exact keys.
- `RemoveBuffer` is "called when endpoint is deleted" (`hub.go` 310) and forgets
  the slug in one hub at one time. What was buffered for the endpoint stays until
  its TTL, and is replayed to whoever has the URL by then, at another instance;
  under a URL that an overlapping rename gave it since the handler's read; and
  from a request that was looked up before and is published after
  (`capture.go` 199, and 297, 352 or 418). These are the `orphans` of
  `BuffersHaveOwner`, which says that there is no fourth case.
- A redirect that is "not followed; the first response is reported"
  (`guides/forwarding.md` 46, `forwarder.go` 111) is one to an allowed scheme. Of
  one to another scheme `CheckRedirect` makes an error, without a status: it is
  reported as a failed forward and tried again, although the target has answered
  (`RedirectBarred`). The pauses (`forwarder.go` 163-176) and `MaxRetries` are
  those of the forwarder's own attempts: the transport's resends do not count.
- "A blocked forward is not retried" (`guides/forwarding.md` 56) holds of
  refused addresses. A refused scheme has an error text and status 0 and is
  tried again like a network error.
- A target that answers 200 with a body that cannot be read counts as failed in
  the forward's record, while a passthrough relays its 200.
- "stored requests still show the right result later" (`guides/signatures.md`
  40): the verdict is computed from the current secret, so that it changes for
  all stored requests when the secret is replaced.
- `RATE_LIMIT_BURST=0` is accepted, and lets each new address's first request
  through; nor is it checked that a bucket is full again before it is forgotten
  (`RefillAssumption`, which the defaults satisfy).
- In a tab, a catch-up that was answered before a deletion can bring the removed
  row back; and a row that a rollback took away and that is no longer among the
  newest a catch-up looks at is not shown again until the list is loaded.
- `PrunesLikePostgres` compares lists, in which rows are totally ordered; where
  two rows share a `created_at`, the SQL's running sum counts both at once.

## 4. What is proved

The proofs hold for every value of the constants that satisfies the modules'
assumptions. Each follows one scheme: `Init => IInv`,
`IInv /\ [Next]_vars => IInv'` by one lemma per action or group of actions, and
`IInv` implies the property.

- `ListProofs` holds what the other proofs need of loops. The library's
  induction theorems take a predicate, which the provers cannot instantiate;
  that a nonempty set of numbers has a least one (`Least`) follows from the
  well-foundedness of the finite sets, and induction from it, with the set of
  the numbers in place of the predicate (`Induction`). So the loop of `drain`
  exists for any number of rounds (`LoopRuns`) and returns what it should
  (`WithoutKeeps`, `WithoutPrefix`), and a sum over a finite set does not
  depend on the order it is taken in (`SumOfOneMore`) and grows with the set
  (`SumGrows`).
- `RingBufferProofs`: a buffer is `Orderly` when its blank slots come first, in
  the order it is read from `pos`, and the others are oldest first. Push, sweep
  and time keep it so. `drain` of such a buffer returns its last slots
  (`DrainIsLast`), and what has not expired are the last of those
  (`UnexpiredIsLast`). Everything said of catch-up rests on this.
- `PartsProofs`, about `ReplayBuffer` (`TypeCorrect`, `SlotsInOrder`,
  `NothingLostEarly`, `DrainsRecentSuffix`). Why an invariant had to be found:
  that a slot holds the push its rank says is not preserved by a push unless
  `pos` and `full` are tied to the number of pushes, which is
  `FullCountsPushes`. Then a push moves every rank down by one and the number of
  pushes up by one, and leaves the push number of every other slot as it was.
  With the buffer orderly besides (`InOrder`), what `drain` returns is the end
  of the history. Assumes a size of at least one.
- `HeldReplyProofs` (`TypeCorrect`, `PendingExact`, `ReplyScoped`,
  `Refinement`). The invariant adds to the checked properties that answers in
  flight, found or queued are answers of their request over its endpoint, that
  waiting handlers are younger than the sweep's limit (`HandlersAreYoung`,
  which needs that `HoldTime <= PendingTTL` and that handlers run promptly),
  and that an answer in the channel came before the deadline. `Refinement`
  maps each step to one of `FirstAnswer` or to a stutter.
- `FeedProofs`, about `Hub`, in three layers.
  - `Registered` (`NoSendOnClosed`, `LimitHolds`): the limit is inductive only
    together with the fact that the registered clients are those whose channel
    is open: a subscribing client must be known to be registered nowhere.
    Assumes finitely many clients.
  - `Buffering` (`TypeCorrect`, `RefinesCatchUpLog`): each buffer is `Sound`: it
    is orderly, holds published messages of its slug in publish order, and with
    one of them all later ones; and a buffer the sweep has still to visit is in
    the map unless it was removed. `RefinesCatchUpLog` shows that every step is
    one of `CatchUpLog` or a stutter, with each slug's log read off its buffer:
    in particular each of the sweep's three phases, whatever comes between,
    changes nothing that a subscriber would be replayed.
  - `Delivering` (`DeliveredInOrder`, `OnlyFullChannelLoses`): what a client has
    been sent is in publish order and ends before what its slug is going to
    publish; a subscription's replay is the young end of what was published,
    and from then on a message is missing only where the client's own channel
    was full. `NothingMissed` proves `CatchUpComplete` under the hypothesis
    that the ring is no larger than a channel, which the defaults (100 and 64)
    do not satisfy: `hub_overflow` is the counterexample without it.
- `FeedProofs`, about `TabStore` (`TabTypeCorrect`, `ShowsOnce`). That no request
  is shown twice is not inductive: a load shows what the server listed earlier,
  and a failed deletion shows the list from before it. `EachOnce` says the same
  of every answer and every backup a call in flight still holds. It needs that
  the server's list has each request once (`NewestFirstDistinct`), and that a
  page is at least as long as what a catch-up looks at.
- `CaptureProofs` (`TypeCorrect`, `NoOrphans`, `SlotsExact`, `AnnouncedFirst`,
  `ForwardedOnce`, `StartedShows`, `CleanStop`, `RecordSettles`). The invariant
  says, per request, what is true at each location of the handler and of the
  background forward: `ForwardInv` (only what was stored and not refused gets as
  far as its forward, and makes it once), `RecordInv` (what the row says by where
  the forward is), `ReplyInv` (what was sent, and what is or will be recorded),
  `FeedInv` (what has been published). Since a step of one request leaves the
  others where they are, and the API's steps only change the settings or take
  rows away, each lemma looks at one request and one action. Assumes finitely
  many requests and at least one slot.
- `MemStoreProofs` (`TypeCorrect`, `MapsAgree`, `NothingLeftBehind`,
  `CleanClose`, `WholeFiles`, `DeletesWhatPostgresDoes`). Three facts make the checked invariants
  inductive. `FilesWhole`: both snapshots, the one in Save's hands and the one
  in the file, agree in themselves, without which a restart could not restore
  agreeing maps. `CopyIsCurrent`: a copy under way is the memory's contents
  unless the flag is up again. `FlushHolds`: once the writers have ended, the
  copy of the final Save holds all of memory, and goes on doing so while a late
  pruning pass takes rows away, since the newest rows of the newest rows are
  the newest rows (`NewestOfNewest`). Dropping the oldest rows is treated once,
  for any counts (`DropOldest`). `IdsIssued` says that ids are not given twice,
  also not by a process that has restarted from an older file.
  `DeletesWhatPostgresDoes` is an action property and needs two facts more: what
  is over the budget is so together with everything older, since sums of sizes
  grow (`OverBudgetIsOldest`), so that the loop may stop where it does; and no
  row is listed twice, so that dropping by position drops just these rows
  (`DropDeletes`).

- `EndpointProofs` (`EndpointTypeCorrect`, `ErrorsKeepNoEdit`,
  `BuffersAreOwned`, `ChangesStay`, `FormerKeyUnused`). The properties are about
  what has been answered; `CallInv` says of a call under way what it may have
  done by where it is, and that what it is going to store comes from what it
  read: then a write that does not race writes what is there, but for what was
  sent. `ClearInv` says of the rows, and of what is going to be written over
  them, the listed page and what a PATCH has read, that only what was there at
  the start or was answered with success under another spelling is in the clear.
  For the buffers, a call that is going to remove one is left with its slug and
  its hub (`LeftTo`) from the step that takes the URL away, and whatever that
  step leaves to nobody it has counted among the orphans; `ForgottenBuffers` and
  `TakenAway` follow one entry through either step. For the reseal, `ResealInv` says of every secret that waits for it
  (not raced, not excused) that it is on the page in hand or further down: as
  many newer endpoints are alive as the reseal has passed. Calls only add
  endpoints before it, deletions excuse, and an item the page has is either
  written over an unchanged row or its write races. Assumes that what stands for
  a missing value is no value, that there is a name and a secret, that the
  primary key is neither the former one nor none, and a page of at least one.
- `PartsProofs`, about the pool (`PoolTypeCorrect`, `PoolIsBounded`,
  `ScriptsStartClean`, `OnlyLateLeaveRuntimes`). The bound on the runtimes is inductive together with
  the slots being counted exactly and never more than the pool's size: a call
  that finds nothing idle may set a runtime up because its slot is one of
  theirs. `NoneSneaksIn` says that after `Close` has changed `ready` nobody
  passes the check, so that who puts a runtime back later is in `late`. Assumes
  finitely many calls.
- `PartsProofs`, about `ClientAddress` and `RateLimiter` (`LimiterTypeCorrect`, `SenderIsKnown`, `RateHolds`). `Relayed` ties the end of
  X-Forwarded-For to the path, so that the rightmost entry that is no trusted
  proxy is the sender's. `Within` bounds, for each client, granted requests and
  remaining tokens together by what the bucket can have held since the window
  opened; a forgotten client's bucket counts as the full one it would be, which
  needs `RefillAssumption`.
- `PartsProofs`, about `Signature` and `Forwarder` (`SignsOnlyWhatWasSigned`, `TargetAccepts`,
  `ForwardTypeCorrect`, `AttemptsAreExplained`). A request under way is `Genuine` (its signatures with
  the secret were made) and what goes out is `SignedAgain`, which no transform
  can change. For a forward, the invariant adds to `AttemptsExplained` what
  holds before it returns: an attempt is left, what the target answered last is
  inconclusive while another attempt is to come, and it was reached once per
  attempt unless the transport may send again.

Each module's type invariant is proved, rather than listed with a run. Of `Hub` the limit on
subscribers (`LimitHolds`), of `ReplayBuffer` that only expired slots are blank
(`NothingLostEarly`), are likewise proved and not run.

Besides the assumptions named above, `Hub`'s proofs use that what marks a
missing buffer is no buffer (`BufferAssumption`).

Only model-checked: the liveness properties `BuffersReclaimed`,
`EveryHeldRequestFinishes`, `EveryRequestEnds`, `CallsReturn` and `NewestShown`,
since they rest on fairness and thereby on ENABLED, which the provers do not
reason about. Every other property of the runs is proved.

## 5. Plan

Done: every module of section 2 with its runs, and the proofs of section 4.
The order was: hub, held reply, capture pipeline, store, endpoint API with
secrets, tab, and the small components.

Left: a composition of `TabStore` with `Hub`'s channel in place of messages that
are lost at will, which would bound what a tab on one instance can miss.

## 6. Not modelled

The transactions and migrations of the PostgreSQL store are PostgreSQL's; its
statements are modelled as their callers use them. Encryption, key parsing and
the computation of signatures are cryptography: the model takes what they
promise. Authentication is a comparison with a constant, and the security
headers are constants. The MCP server translates tool calls into API calls and
keeps nothing. Configuration, slug generation, redaction and header handling are
parsing and formatting. The dashboard's components are rendering and form
state, and its forward from the browser is the browser's fetch. The keep-alive
ping of a WebSocket and its write timeout are only the choice that a connection
ends at any time. Reads of the API change nothing.
