------------------------------ MODULE Capture ------------------------------
(***************************************************************************)
(* The capture pipeline of internal/handler/capture.go for the requests    *)
(* sent to one endpoint: capture, store, transform, forward, reply, record *)
(* what was replied; with the background forwards that outlive their       *)
(* request, the API calls that change or delete the endpoint and its rows  *)
(* in between, a graceful shutdown and a crash (cmd/testhooks/main.go).    *)
(*                                                                         *)
(* Handlers and background forwards interleave between any two calls into  *)
(* the store, the hub or the forward target.  A handler works on the       *)
(* config it read at lookup.  Of requests, replies and results only what   *)
(* decides the control flow is kept.  How a tab's answer reaches a held    *)
(* request is HeldReply; who receives what is published is Hub.            *)
(***************************************************************************)
EXTENDS Integers, FiniteSets, Sequences

CONSTANTS
  Request,
  Config,      \* the settings the endpoint may be given
  Deleted,     \* the endpoint no longer exists
  NoRow,       \* the store has no row for a request
  NoReply,
  Header,      \* the headers a script, a tab or a target may set
  Blocked,     \* blockedResponseHeaders
  MaxAsync     \* maxAsyncForwards, 256 in the code

ConfigRecord == [mode : {"server", "browser"}, persist : BOOLEAN, enforce : BOOLEAN,
                 transform : BOOLEAN, forward : {"none", "sync", "async"},
                 script : BOOLEAN]

Reply == [source  : {"error", "signature", "default", "handler", "passthrough"},
          headers : SUBSET Header]

Result == {"ok", "failed", "skipped"}

Row == [forward : Result \cup {"none", "in_progress"}, response : Reply \cup {NoReply}]

ASSUME CaptureAssumption ==
  /\ Config \subseteq ConfigRecord
  /\ Deleted \notin ConfigRecord
  /\ NoRow \notin Row
  /\ NoReply \notin Reply
  /\ Blocked \subseteq Header
  /\ MaxAsync \in Nat \ {0}
  /\ IsFiniteSet(Request)

VARIABLES
  server,    \* the process
  serverless, \* SetServerless, fixed when the process starts
  endpoint,  \* the endpoint's config in the store, or Deleted
  rows,      \* request -> its row in the store
  pc,        \* request -> where its ServeHTTP is
  cfg,       \* request -> the settings it read, epConfig
  stored,    \* the requests whose handler knows of a row
  info,      \* request -> what its handler will publish and record as the reply
  bg,        \* request -> where its background forward is
  outcome,   \* request -> result of its forward not yet recorded
  slots,     \* taken slots of asyncSlots
  sent,      \* request -> what the sender got
  feed,      \* request -> types of the messages published about it
  calls,     \* history: request -> how often its target was called
  faulted    \* history: requests a record failed for, or whose forward panicked

process == <<server, serverless>>
handler == <<pc, cfg, stored, info>>
vars == <<process, endpoint, rows, handler, bg, outcome, slots, sent, feed, calls, faulted>>

Location == {"new", "found", "captured", "announced", "calling", "resulted",
             "skipping", "forwarded", "held", "replied", "informed", "done"}

TypeOK ==
  /\ server \in {"up", "draining", "stopped", "killed"}
  /\ serverless \in BOOLEAN
  /\ endpoint \in Config \cup {Deleted}
  /\ rows \in [Request -> Row \cup {NoRow}]
  /\ pc \in [Request -> Location]
  /\ cfg \in [Request -> Config \cup {Deleted}]
  /\ stored \in SUBSET Request
  /\ info \in [Request -> Reply \cup {NoReply}]
  /\ bg \in [Request -> {"none", "started", "marked", "calling", "resulted", "done"}]
  /\ outcome \in [Request -> Result \cup {"none"}]
  /\ slots \in 0 .. MaxAsync
  /\ sent \in [Request -> Reply \cup {NoReply}]
  /\ feed \in [Request -> Seq({"request", "response_needed", "forward_result",
                               "response_info"})]
  /\ calls \in [Request -> Nat]
  /\ faulted \in SUBSET Request

Init ==
  /\ server = "up"
  /\ serverless \in BOOLEAN
  /\ endpoint \in Config
  /\ rows = [r \in Request |-> NoRow]
  /\ pc = [r \in Request |-> "new"]
  /\ cfg = [r \in Request |-> Deleted]
  /\ stored = {}
  /\ info = [r \in Request |-> NoReply]
  /\ bg = [r \in Request |-> "none"]
  /\ outcome = [r \in Request |-> "none"]
  /\ slots = 0
  /\ sent = [r \in Request |-> NoReply]
  /\ feed = [r \in Request |-> <<>>]
  /\ calls = [r \in Request |-> 0]
  /\ faulted = {}

-----------------------------------------------------------------------------
At(r, loc) == pc[r] = loc
ServerMode(r) == cfg[r].mode = "server"

Goto(r, loc) ==
  /\ pc' = [pc EXCEPT ![r] = loc]
  /\ UNCHANGED <<cfg, stored, info>>
Publish(r, types) == feed' = [feed EXCEPT ![r] = @ \o types]

\* The reply is written; publishResponseInfo is about to publish and
\* record told.
Send(r, reply, told) ==
  /\ sent' = [sent EXCEPT ![r] = reply]
  /\ pc' = [pc EXCEPT ![r] = "replied"]
  /\ info' = [info EXCEPT ![r] = told]
  /\ UNCHANGED <<cfg, stored>>

ReplyOf(s) == [source |-> s, headers |-> {}]

\* Fault: an update inserts the row it does not find.
UpdatedOrInserted(r, new) == [rows EXCEPT ![r] = new]

\* An update of a row; without one, nothing (UPDATE matching no row).
Updated(r, new) == [rows EXCEPT ![r] = IF @ = NoRow THEN NoRow ELSE new]

\* record: only for a request with a row, and a failure is only logged.
Record(r, new) ==
  IF r \in stored
    THEN \/ rows' = Updated(r, new) /\ UNCHANGED faulted
         \/ faulted' = faulted \cup {r} /\ UNCHANGED rows
    ELSE UNCHANGED <<rows, faulted>>

RowWithForward(r, res) == [forward |-> res,
                           response |-> IF rows[r] = NoRow THEN NoReply ELSE rows[r].response]

\* Fault: recording the reply writes the whole row anew.
RowWithResponseOnly(r, reply) == [forward |-> "none", response |-> reply]

RowWithResponse(r, reply) == [forward |-> IF rows[r] = NoRow THEN "none" ELSE rows[r].forward,
                              response |-> reply]

-----------------------------------------------------------------------------
(* Capture and store.                                                      *)

\* 400, 404, 413, 500 or 503 before anything is stored.
Refuse(r) ==
  /\ At(r, "new") /\ server = "up"
  /\ sent' = [sent EXCEPT ![r] = ReplyOf("error")]
  /\ Goto(r, "done")
  /\ UNCHANGED <<process, endpoint, rows, bg, outcome, slots, feed, calls, faulted>>

Lookup(r) ==
  /\ At(r, "new") /\ server = "up"
  /\ endpoint # Deleted
  /\ pc' = [pc EXCEPT ![r] = "found"]
  /\ cfg' = [cfg EXCEPT ![r] = endpoint]
  /\ UNCHANGED <<process, endpoint, rows, stored, info, bg, outcome, slots, sent, feed, calls,
                 faulted>>

WantsRow(r) == ServerMode(r) \/ cfg[r].persist

\* The row needs its endpoint, which may have been deleted since the lookup.
CanInsert(r) == WantsRow(r) /\ endpoint # Deleted

Insert(r) ==
  /\ At(r, "found")
  /\ CanInsert(r)
  /\ rows' = [rows EXCEPT ![r] = [forward |-> "none", response |-> NoReply]]
  /\ pc' = [pc EXCEPT ![r] = "captured"]
  /\ stored' = stored \cup {r}
  /\ UNCHANGED <<process, endpoint, cfg, info, bg, outcome, slots, sent, feed, calls, faulted>>

\* Fault: browser mode has no way on when its insert fails.
InsertFailsInServerMode(r) ==
  /\ At(r, "found")
  /\ ServerMode(r)
  /\ sent' = [sent EXCEPT ![r] = ReplyOf("error")]
  /\ Goto(r, "done")
  /\ UNCHANGED <<process, endpoint, rows, bg, outcome, slots, feed, calls, faulted>>

\* The insert failed, for a deleted endpoint or for any other reason: 500 in
\* server mode, while browser mode goes on without a row.
InsertFails(r) ==
  /\ At(r, "found")
  /\ WantsRow(r)
  /\ IF ServerMode(r)
       THEN sent' = [sent EXCEPT ![r] = ReplyOf("error")] /\ Goto(r, "done")
       ELSE Goto(r, "captured") /\ UNCHANGED sent
  /\ UNCHANGED <<process, endpoint, rows, bg, outcome, slots, feed, calls, faulted>>

KeepOutOfStore(r) ==
  /\ At(r, "found")
  /\ ~WantsRow(r)
  /\ Goto(r, "captured")
  /\ UNCHANGED <<process, endpoint, rows, bg, outcome, slots, sent, feed, calls, faulted>>

\* Fault: the handler goes on after it has rejected the request.
RejectAndGoOn(r) ==
  /\ At(r, "captured")
  /\ cfg[r].enforce
  /\ Publish(r, <<"request">>)
  /\ sent' = [sent EXCEPT ![r] = ReplyOf("signature")]
  /\ Goto(r, "announced")
  /\ UNCHANGED <<process, endpoint, rows, bg, outcome, slots, calls, faulted>>

\* The enforced signature does not verify: 401, after storing.
Reject(r) ==
  /\ At(r, "captured")
  /\ cfg[r].enforce
  /\ Publish(r, <<"request">>)
  /\ Send(r, ReplyOf("signature"), ReplyOf("signature"))
  /\ UNCHANGED <<process, endpoint, rows, bg, outcome, slots, calls, faulted>>

\* The transform script drops the request; it runs in server mode only.
Drop(r) ==
  /\ At(r, "captured")
  /\ ServerMode(r) /\ cfg[r].transform
  /\ Publish(r, <<"request">>)
  /\ Send(r, ReplyOf("default"), ReplyOf("default"))
  /\ UNCHANGED <<process, endpoint, rows, bg, outcome, slots, calls, faulted>>

\* Fault: a request that is not dropped is not published.
AnnounceNothing(r) ==
  /\ At(r, "captured")
  /\ ServerMode(r)
  /\ Goto(r, "announced")
  /\ UNCHANGED <<process, endpoint, rows, bg, outcome, slots, sent, feed, calls, faulted>>

\* Server mode goes on, with whatever the transform produced.
Announce(r) ==
  /\ At(r, "captured")
  /\ ServerMode(r)
  /\ Publish(r, <<"request">>)
  /\ Goto(r, "announced")
  /\ UNCHANGED <<process, endpoint, rows, bg, outcome, slots, sent, calls, faulted>>

-----------------------------------------------------------------------------
(* Browser mode.                                                           *)

browserDecidesReply(r) == cfg[r].script \/ cfg[r].forward = "sync"

\* No tab decides, or none is subscribed.
BrowserDefault(r) ==
  /\ At(r, "captured")
  /\ ~ServerMode(r)
  /\ Publish(r, <<"request">>)
  /\ Send(r, ReplyOf("default"), ReplyOf("default"))
  /\ UNCHANGED <<process, endpoint, rows, bg, outcome, slots, calls, faulted>>

Hold(r) ==
  /\ At(r, "captured")
  /\ ~ServerMode(r) /\ browserDecidesReply(r)
  /\ Publish(r, <<"response_needed", "request">>)
  /\ Goto(r, "held")
  /\ UNCHANGED <<process, endpoint, rows, bg, outcome, slots, sent, calls, faulted>>

\* The tab's answer, without the blocked headers, or the default (HeldReply).
Release(r) ==
  /\ At(r, "held")
  /\ \/ \E s \in {"handler", "passthrough", "default"}, hs \in SUBSET Header :
          LET reply == [source |-> s, headers |-> hs \ Blocked]
          IN  Send(r, reply, reply)
     \/ Send(r, ReplyOf("default"), ReplyOf("default"))
  /\ UNCHANGED <<process, endpoint, rows, bg, outcome, slots, feed, calls, faulted>>

-----------------------------------------------------------------------------
(* Forwarding.                                                             *)

SkipForward(r) ==
  /\ At(r, "announced")
  /\ cfg[r].forward = "none"
  /\ Goto(r, "forwarded")
  /\ UNCHANGED <<process, endpoint, rows, bg, outcome, slots, sent, feed, calls, faulted>>

\* Sync, or async on a host that may pause the server after the reply.
ForwardInline(r) ==
  /\ At(r, "announced")
  /\ cfg[r].forward = "sync" \/ (cfg[r].forward = "async" /\ serverless)
  /\ calls' = [calls EXCEPT ![r] = @ + 1]
  /\ Goto(r, "calling")
  /\ UNCHANGED <<process, endpoint, rows, bg, outcome, slots, sent, feed, faulted>>

\* The target answers, or 30 seconds pass, or the sender leaves.
InlineResult(r) ==
  /\ At(r, "calling")
  /\ \E res \in {"ok", "failed"} : outcome' = [outcome EXCEPT ![r] = res]
  /\ Publish(r, <<"forward_result">>)
  /\ Goto(r, "resulted")
  /\ UNCHANGED <<process, endpoint, rows, bg, slots, sent, calls, faulted>>

RecordInline(r) ==
  /\ At(r, "resulted")
  /\ Record(r, RowWithForward(r, outcome[r]))
  /\ Goto(r, "forwarded")
  /\ UNCHANGED <<process, endpoint, bg, outcome, slots, sent, feed, calls>>

Async(r) == cfg[r].forward = "async" /\ ~serverless

SlotFree == slots < MaxAsync

StartBackground(r) ==
  /\ At(r, "announced")
  /\ Async(r)
  /\ SlotFree
  /\ slots' = slots + 1
  /\ bg' = [bg EXCEPT ![r] = "started"]
  /\ Goto(r, "forwarded")
  /\ UNCHANGED <<process, endpoint, rows, outcome, sent, feed, calls, faulted>>

\* All slots are taken: the forward is skipped, and the row says so.
Saturated(r) ==
  /\ At(r, "announced")
  /\ Async(r)
  /\ ~SlotFree
  /\ outcome' = [outcome EXCEPT ![r] = "skipped"]
  /\ Publish(r, <<"forward_result">>)
  /\ Goto(r, "skipping")
  /\ UNCHANGED <<process, endpoint, rows, bg, slots, sent, calls, faulted>>

RecordSkipped(r) ==
  /\ At(r, "skipping")
  /\ Record(r, RowWithForward(r, outcome[r]))
  /\ Goto(r, "forwarded")
  /\ UNCHANGED <<process, endpoint, bg, outcome, slots, sent, feed, calls>>

\* Fault: the goroutine does not record that the forward starts.
MarkNothing(r) ==
  /\ bg[r] = "started"
  /\ bg' = [bg EXCEPT ![r] = "marked"]
  /\ UNCHANGED <<process, endpoint, rows, handler, outcome, slots, sent, feed, calls, faulted>>

\* The goroutine records that the forward starts, before it calls the target.
Mark(r) ==
  /\ bg[r] = "started"
  /\ bg' = [bg EXCEPT ![r] = "marked"]
  /\ Record(r, RowWithForward(r, "in_progress"))
  /\ UNCHANGED <<process, endpoint, handler, outcome, slots, sent, feed, calls>>

CallTarget(r) ==
  /\ bg[r] = "marked"
  /\ bg' = [bg EXCEPT ![r] = "calling"]
  /\ calls' = [calls EXCEPT ![r] = @ + 1]
  /\ UNCHANGED <<process, endpoint, rows, handler, outcome, slots, sent, feed, faulted>>

BackgroundResult(r) ==
  /\ bg[r] = "calling"
  /\ \E res \in {"ok", "failed"} : outcome' = [outcome EXCEPT ![r] = res]
  /\ bg' = [bg EXCEPT ![r] = "resulted"]
  /\ Publish(r, <<"forward_result">>)
  /\ UNCHANGED <<process, endpoint, rows, handler, slots, sent, calls, faulted>>

\* The result is recorded; the goroutine ends and its slot is free.
RecordBackground(r) ==
  /\ bg[r] = "resulted"
  /\ bg' = [bg EXCEPT ![r] = "done"]
  /\ slots' = slots - 1
  /\ Record(r, RowWithForward(r, outcome[r]))
  /\ UNCHANGED <<process, endpoint, handler, outcome, sent, feed, calls>>

\* Fault: a contained panic keeps the slot.
PanicKeepingSlot(r) ==
  /\ bg[r] = "calling"
  /\ bg' = [bg EXCEPT ![r] = "done"]
  /\ faulted' = faulted \cup {r}
  /\ UNCHANGED <<process, endpoint, rows, handler, outcome, slots, sent, feed, calls>>

\* The forward panics: contained, and the deferred calls free the slot.
Panic(r) ==
  /\ bg[r] = "calling"
  /\ bg' = [bg EXCEPT ![r] = "done"]
  /\ slots' = slots - 1
  /\ faulted' = faulted \cup {r}
  /\ UNCHANGED <<process, endpoint, rows, handler, outcome, sent, feed, calls>>

-----------------------------------------------------------------------------
(* The reply.                                                              *)

\* The reply script's output, without the blocked headers; what is published
\* and recorded has them all.
ScriptReply(r) ==
  /\ At(r, "forwarded")
  /\ cfg[r].script
  /\ \E hs \in SUBSET Header :
       Send(r, [source |-> "handler", headers |-> hs \ Blocked],
               [source |-> "handler", headers |-> hs])
  /\ UNCHANGED <<process, endpoint, rows, bg, outcome, slots, feed, calls, faulted>>

\* Sync forward, no reply script: the target's status, body and content type
\* are relayed, no header of its; what is published and recorded has them all.
Passthrough(r) ==
  /\ At(r, "forwarded")
  /\ cfg[r].forward = "sync" /\ ~cfg[r].script
  /\ \E hs \in SUBSET Header :
       Send(r, ReplyOf("passthrough"), [source |-> "passthrough", headers |-> hs])
  /\ UNCHANGED <<process, endpoint, rows, bg, outcome, slots, feed, calls, faulted>>

\* Neither, or the script failed.
DefaultReply(r) ==
  /\ At(r, "forwarded")
  /\ cfg[r].script \/ cfg[r].forward # "sync"
  /\ Send(r, ReplyOf("default"), ReplyOf("default"))
  /\ UNCHANGED <<process, endpoint, rows, bg, outcome, slots, feed, calls, faulted>>

\* publishResponseInfo: publish, then record.
Inform(r) ==
  /\ At(r, "replied")
  /\ Publish(r, <<"response_info">>)
  /\ Goto(r, "informed")
  /\ UNCHANGED <<process, endpoint, rows, bg, outcome, slots, sent, calls, faulted>>

RecordReply(r) ==
  /\ At(r, "informed")
  /\ Record(r, RowWithResponse(r, info[r]))
  /\ Goto(r, "done")
  /\ UNCHANGED <<process, endpoint, bg, outcome, slots, sent, feed, calls>>

-----------------------------------------------------------------------------
(* The API, the pruner, and the end of the process.                        *)

UpdateEndpoint(c) ==
  /\ endpoint # Deleted
  /\ endpoint' = c
  /\ UNCHANGED <<process, rows, handler, bg, outcome, slots, sent, feed, calls, faulted>>

\* The endpoint goes with all its rows.
DeleteEndpoint ==
  /\ endpoint # Deleted
  /\ endpoint' = Deleted
  /\ rows' = [r \in Request |-> NoRow]
  /\ UNCHANGED <<process, handler, bg, outcome, slots, sent, feed, calls, faulted>>

\* One row is deleted by a user, or pruned.
DeleteRequest(r) ==
  /\ rows[r] # NoRow
  /\ rows' = [rows EXCEPT ![r] = NoRow]
  /\ UNCHANGED <<process, endpoint, handler, bg, outcome, slots, sent, feed, calls, faulted>>

HandlersDone == \A r \in Request : pc[r] \in {"new", "done"}
ForwardsDone == \A r \in Request : bg[r] \in {"none", "done"}

\* The process is told to stop and accepts no more requests.
Drain ==
  /\ server = "up"
  /\ server' = "draining"
  /\ UNCHANGED <<serverless, endpoint, rows, handler, bg, outcome, slots, sent, feed,
                 calls, faulted>>

\* Fault: the process ends as soon as the handlers have.
StopWithoutForwards ==
  /\ server = "draining"
  /\ HandlersDone
  /\ server' = "stopped"
  /\ UNCHANGED <<serverless, endpoint, rows, handler, bg, outcome, slots, sent, feed,
                 calls, faulted>>

\* server.Shutdown has waited for the handlers, capture.Shutdown for the forwards.
Stop ==
  /\ server = "draining"
  /\ HandlersDone /\ ForwardsDone
  /\ server' = "stopped"
  /\ UNCHANGED <<serverless, endpoint, rows, handler, bg, outcome, slots, sent, feed,
                 calls, faulted>>

\* A crash, or a shutdown that took more than its ten seconds.
Kill ==
  /\ server \in {"up", "draining"}
  /\ server' = "killed"
  /\ UNCHANGED <<serverless, endpoint, rows, handler, bg, outcome, slots, sent, feed,
                 calls, faulted>>

-----------------------------------------------------------------------------
Alive == server \in {"up", "draining"}

Serve(r) ==
  \/ Refuse(r) \/ Lookup(r) \/ Insert(r) \/ InsertFails(r) \/ KeepOutOfStore(r)
  \/ Reject(r) \/ Drop(r) \/ Announce(r) \/ BrowserDefault(r) \/ Hold(r) \/ Release(r)
  \/ SkipForward(r) \/ ForwardInline(r) \/ InlineResult(r) \/ RecordInline(r)
  \/ StartBackground(r) \/ Saturated(r) \/ RecordSkipped(r)
  \/ ScriptReply(r) \/ Passthrough(r) \/ DefaultReply(r) \/ Inform(r) \/ RecordReply(r)

Background(r) ==
  Mark(r) \/ CallTarget(r) \/ BackgroundResult(r) \/ RecordBackground(r) \/ Panic(r)

Next ==
  \/ \E r \in Request : Alive /\ Serve(r)
  \/ \E r \in Request : Alive /\ Background(r)
  \/ \E c \in Config : Alive /\ UpdateEndpoint(c)
  \/ Alive /\ DeleteEndpoint
  \/ \E r \in Request : Alive /\ DeleteRequest(r)
  \/ Drain
  \/ Stop
  \/ Kill

Spec == Init /\ [][Next]_vars

\* A handler that has begun and a background forward go on: every call they
\* wait for has a timeout.
Fairness ==
  \A r \in Request :
    /\ WF_vars(Alive /\ ~At(r, "new") /\ Serve(r))
    /\ WF_vars(Alive /\ Background(r))

FairSpec == Spec /\ Fairness

-----------------------------------------------------------------------------
\* No row outlives its endpoint: a request in the middle of its pipeline when
\* the endpoint is deleted neither inserts nor, by recording a late result or
\* reply, brings back a row (InsertRequest, SetRequestForwardResult,
\* SetRequestResponseInfo, DeleteEndpoint).
NoOrphanRows == endpoint = Deleted => \A r \in Request : rows[r] = NoRow

\* The target is called at most once per request, and only for one that was
\* stored, that its sender was not told was refused, and that is announced.
ForwardedOnceIfAccepted ==
  \A r \in Request :
    calls[r] > 0 =>
      /\ calls[r] = 1
      /\ r \in stored
      /\ sent[r] # NoReply => sent[r].source \notin {"error", "signature"}
      /\ feed[r] # <<>> /\ feed[r][1] = "request"

\* A background forward that reached the target is never invisible: its row
\* shows at least that it was in progress, also after a crash (the record that
\* precedes the call in forwardAsync).
StartedForwardShows ==
  \A r \in Request :
    (calls[r] > 0 /\ bg[r] # "none" /\ rows[r] # NoRow /\ r \notin faulted) =>
      rows[r].forward # "none"

\* A shutdown within its deadline leaves no forward open and no reply
\* unrecorded: webhooks are not silently dropped on deploy (main, Shutdown).
CleanStopClosesRecords ==
  server = "stopped" =>
    \A r \in Request :
      (rows[r] # NoRow /\ r \notin faulted) =>
        /\ rows[r].forward # "in_progress"
        /\ rows[r].response # NoReply
        /\ rows[r].response.source = sent[r].source
        /\ calls[r] > 0 => rows[r].forward \in {"ok", "failed"}

\* A slot is taken for exactly as long as a background forward runs, however it
\* ends, and there are never more than the limit (asyncSlots).
SlotsAreRunningForwards ==
  /\ slots = Cardinality({r \in Request : bg[r] \notin {"none", "done"}})
  /\ slots <= MaxAsync

\* The dashboard hears of a request before it hears of its forward or its
\* reply, from the handler and the background forward alike.
RequestAnnouncedFirst ==
  \A r \in Request : \A i \in DOMAIN feed[r] :
    feed[r][i] \in {"forward_result", "response_info"} =>
      \E j \in 1 .. i - 1 : feed[r][j] = "request"

\* A forward's record only moves forward: in progress, then its result, which
\* nothing reopens or replaces.
ForwardRecordSettles ==
  [][\A r \in Request :
       (rows[r] # NoRow /\ rows[r].forward \in Result /\ rows'[r] # NoRow) =>
         rows'[r].forward = rows[r].forward]_vars

\* Every request that is being handled is answered and its handling ends, and
\* every background forward ends, unless the process does.
EveryRequestEnds ==
  \A r \in Request :
    /\ At(r, "found") ~> (At(r, "done") \/ ~Alive)
    /\ bg[r] = "started" ~> (bg[r] = "done" \/ ~Alive)

\* What the dashboard is told, and the row keeps, of the reply is what the
\* sender got, headers included.
RecordedReplyIsSent ==
  \A r \in Request :
    (rows[r] # NoRow /\ rows[r].response # NoReply) => rows[r].response = sent[r]

\* A row that says in progress, although its forward has a result and nobody is
\* left to record it, means that the process stopped first.
InProgressMeansStopped ==
  \A r \in Request :
    (/\ rows[r] # NoRow /\ rows[r].forward = "in_progress"
     /\ outcome[r] # "none" /\ bg[r] = "done") => ~Alive
=============================================================================
