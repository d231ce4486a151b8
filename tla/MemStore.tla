------------------------------ MODULE MemStore ------------------------------
(***************************************************************************)
(* internal/db/memstore: the in-memory store with its snapshot file, the   *)
(* pruner that bounds it (internal/cleanup), and the process around them:  *)
(* start, crash, and the clean shutdown of cmd/testhooks/main.go.          *)
(*                                                                         *)
(* Every method holds the store's lock from start to end and is one        *)
(* action.  Save is not: it clears the dirty flag, copies under the lock,  *)
(* and writes without it, so that any write, and a crash, can come in      *)
(* between.  Calls that fail or find nothing change nothing and are left   *)
(* out.                                                                    *)
(***************************************************************************)
EXTENDS Lists, Functions, SequencesExt

CONSTANTS
  Endpoint,       \* endpoint ids
  Request,        \* request ids
  Slug,
  Config,         \* settings of an endpoint: name, mode and config
  DefaultConfig,  \* the settings {} that stand for none
  NoConfig,       \* a create or update without settings
  Client,         \* client ids
  RowSize,        \* sizes of request bodies
  MaxBytes,       \* MAX_ENDPOINT_STORAGE_BYTES
  MaxCount,       \* MAX_REQUESTS_PER_ENDPOINT
  MaxStarts,      \* bound on the number of times the process starts
  MaxWrites       \* bound on the number of writes of all callers together

ASSUME MemStoreAssumption ==
  /\ DefaultConfig \in Config
  /\ NoConfig \notin Config
  /\ RowSize \subseteq Nat
  /\ MaxBytes \in Nat
  /\ MaxCount \in Nat
  /\ MaxStarts \in Nat
  /\ MaxWrites \in Nat

VARIABLES
  endpoints,  \* endpoint id -> [slug, config]
  slugs,      \* slug -> endpoint id
  requests,   \* endpoint id -> its request ids, oldest first
  byID,       \* request id -> its row; the code's two maps share the rows
  interest,   \* the clients that asked for a paid plan
  dirty,      \* something may have changed since the last Save
  saver,      \* the running Save: idle, swapped or copied
  snap,       \* the copy that Save writes
  pruner,     \* the pruning pass: idle, or excess between its two calls
  process,    \* down, running, stopping (Close was called), flushing, closed
  late,       \* writers may still be at work when Close is called
  saveFailed, \* the final Save returned an error
  disk,       \* the snapshot in the file; Empty when there is none
  readable,   \* the file can be decoded, or is missing
  issued,     \* history: every id ever given out
  starts,     \* history: how often the process was started
  writes      \* history: how many writes there were

data == <<endpoints, slugs, requests, byID, interest>>
file == <<disk, readable>>
saving == <<saver, snap, saveFailed, file>>
lifecycle == <<process, late, starts>>
vars == <<data, dirty, saving, pruner, lifecycle, issued, writes>>

EndpointRecord == [slug : Slug, config : Config]
Row == [endpoint : Endpoint, size : RowSize, recorded : SUBSET {"forward", "response"}]

\* f is a map with keys in D and values in R.
IsMap(f, D, R) == DOMAIN f \subseteq D /\ f \in [DOMAIN f -> R]

\* m[k] = v
Put(m, k, v) == [x \in DOMAIN m \cup {k} |-> IF x = k THEN v ELSE m[x]]

\* What a snapshot holds.  Its rows are copies: later changes do not reach it.
IsSnapshot(s) ==
  /\ s = [endpoints |-> s.endpoints, requests |-> s.requests, rows |-> s.rows, interest |-> s.interest]
  /\ IsMap(s.endpoints, Endpoint, EndpointRecord)
  /\ IsMap(s.requests, Endpoint, Seq(Request))
  /\ IsMap(s.rows, Request, Row)
  /\ s.interest \subseteq Client

TypeOK ==
  /\ IsMap(endpoints, Endpoint, EndpointRecord)
  /\ IsMap(slugs, Slug, Endpoint)
  /\ IsMap(requests, Endpoint, Seq(Request))
  /\ IsMap(byID, Request, Row)
  /\ interest \subseteq Client
  /\ dirty \in BOOLEAN
  /\ saver \in {"idle", "swapped", "copied"}
  /\ IsSnapshot(snap)
  /\ pruner \in {"idle", "excess"}
  /\ process \in {"down", "running", "stopping", "flushing", "closed"}
  /\ late \in BOOLEAN
  /\ saveFailed \in BOOLEAN
  /\ IsSnapshot(disk)
  /\ readable \in BOOLEAN
  /\ issued \subseteq Endpoint \cup Request
  /\ starts \in 0 .. MaxStarts
  /\ writes \in 0 .. MaxWrites

Empty == [endpoints |-> <<>>, requests |-> <<>>, rows |-> <<>>, interest |-> {}]

\* A missing map entry reads as nil, the empty list.
List(e) == IF e \in DOMAIN requests THEN requests[e] ELSE <<>>

\* What Save copies: the endpoints with their requests, not the maps as they are.
Contents ==
  [endpoints |-> endpoints,
   requests  |-> [e \in DOMAIN endpoints |-> List(e)],
   rows      |-> Restrict(byID, DOMAIN byID \cap UNION {Range(List(e)) : e \in DOMAIN endpoints}),
   interest  |-> interest]

Init ==
  /\ endpoints = <<>> /\ slugs = <<>> /\ requests = <<>> /\ byID = <<>> /\ interest = {}
  /\ dirty = FALSE
  /\ saver = "idle" /\ snap = Empty /\ saveFailed = FALSE
  /\ disk = Empty /\ readable = TRUE
  /\ pruner = "idle"
  /\ process = "down" /\ late = FALSE /\ starts = 0
  /\ issued = {} /\ writes = 0

-----------------------------------------------------------------------------
(* Writes.  main calls Close when the handlers and background forwards     *)
(* have ended, or when it has waited ten seconds for them; then they may   *)
(* write until the process exits.                                          *)

Writing == process = "running" \/ (process # "down" /\ late)

Write ==
  /\ Writing
  /\ writes < MaxWrites
  /\ writes' = writes + 1

InMemory(changed) ==
  /\ Write
  /\ changed
  /\ dirty' = TRUE
  /\ UNCHANGED <<saving, pruner, lifecycle>>

Stored(config) == IF config = NoConfig THEN DefaultConfig ELSE config

CreateEndpoint(e, s, config) ==
  /\ e \notin issued
  /\ s \notin DOMAIN slugs
  /\ InMemory(/\ endpoints' = Put(endpoints, e, [slug |-> s, config |-> Stored(config)])
              /\ slugs' = Put(slugs, s, e))
  /\ issued' = issued \cup {e}
  /\ UNCHANGED <<requests, byID, interest>>

UpdateEndpoint(e, config) ==
  /\ e \in DOMAIN endpoints
  /\ InMemory(endpoints' = [endpoints EXCEPT ![e].config = Stored(config)])
  /\ UNCHANGED <<slugs, requests, byID, interest, issued>>

RenameEndpoint(e, s) ==
  /\ e \in DOMAIN endpoints
  /\ s \notin DOMAIN slugs
  /\ InMemory(/\ endpoints' = [endpoints EXCEPT ![e].slug = s]
              /\ slugs' = Put(Restrict(slugs, DOMAIN slugs \ {endpoints[e].slug}), s, e))
  /\ UNCHANGED <<requests, byID, interest, issued>>

\* Fault: dropped requests can still be found by their id.
ForgetNone(dropped) == byID

Forget(dropped) == Restrict(byID, DOMAIN byID \ dropped)

DeleteEndpoint(e) ==
  /\ e \in DOMAIN endpoints
  /\ InMemory(/\ endpoints' = Restrict(endpoints, DOMAIN endpoints \ {e})
              /\ slugs' = Restrict(slugs, DOMAIN slugs \ {endpoints[e].slug})
              /\ requests' = Restrict(requests, DOMAIN requests \ {e})
              /\ byID' = Forget(Range(List(e))))
  /\ UNCHANGED <<interest, issued>>

InsertRequest(r, e, size) ==
  /\ r \notin issued
  /\ e \in DOMAIN endpoints
  /\ InMemory(/\ requests' = Put(requests, e, Append(List(e), r))
              /\ byID' = Put(byID, r, [endpoint |-> e, size |-> size, recorded |-> {}]))
  /\ issued' = issued \cup {r}
  /\ UNCHANGED <<endpoints, slugs, interest>>

\* Rows are changed in place, through the pointer that both maps hold.
Record(r, what) ==
  /\ r \in DOMAIN byID
  /\ InMemory(byID' = [byID EXCEPT ![r].recorded = @ \cup {what}])
  /\ UNCHANGED <<endpoints, slugs, requests, interest, issued>>

SetRequestForwardResult(r) == Record(r, "forward")

SetRequestResponseInfo(r) == Record(r, "response")

DeleteRequest(r) ==
  /\ r \in DOMAIN byID
  /\ LET e == byID[r].endpoint
     IN  InMemory(/\ \E i \in DOMAIN List(e) :
                       /\ List(e)[i] = r
                       /\ requests' = [requests EXCEPT ![e] = RemoveAt(@, i)]
                  /\ byID' = Restrict(byID, DOMAIN byID \ {r}))
  /\ UNCHANGED <<endpoints, slugs, interest, issued>>

RecordUpgradeInterest(c) ==
  /\ c \notin interest
  /\ InMemory(interest' = interest \cup {c})
  /\ UNCHANGED <<endpoints, slugs, requests, byID, issued>>

-----------------------------------------------------------------------------
(* Deleting the oldest requests of endpoints.                              *)

\* dropRequests for every endpoint of the function count; like the code, it
\* leaves an empty list behind for an id it has not seen.
dropRequests(count) ==
  LET n(e) == IF e \in DOMAIN count THEN count[e] ELSE 0
      dropped == UNION {{List(e)[i] : i \in 1 .. count[e]} : e \in DOMAIN count}
  IN  /\ requests' = [e \in DOMAIN requests \cup DOMAIN count |->
                        SubSeq(List(e), n(e) + 1, Len(List(e)))]
      /\ byID' = Forget(dropped)
      /\ dirty' = (dirty \/ \E e \in DOMAIN count : count[e] > 0)
      /\ UNCHANGED <<endpoints, slugs, interest, saving, lifecycle, issued>>

DeleteAllRequests(e) ==
  /\ Write
  /\ dropRequests([x \in {e} |-> Len(List(x))])
  /\ UNCHANGED pruner

\* The body bytes of the requests from the i-th to the newest.
BytesFrom(list, i) == SumFunctionOnSet([j \in DOMAIN list |-> byID[list[j]].size], i .. Len(list))

\* Fault: requests that fill the budget exactly are over it.
AtOrOverBudget(list) == {i \in DOMAIN list : BytesFrom(list, i) >= MaxBytes}

OverBudget(list) == {i \in DOMAIN list : BytesFrom(list, i) > MaxBytes}

\* The loop goes back from the newest, stops at the first that is over the
\* budget, and drops it with all older ones.
ExcessBytes(list) == IF OverBudget(list) = {} THEN 0 ELSE Max(OverBudget(list))

ExcessCount(list) == IF Len(list) > MaxCount THEN Len(list) - MaxCount ELSE 0

\* One pass of the pruner is two calls.  It ends with the process, not with
\* Close: a pass that began may finish later.
PruneByStorageBudget ==
  /\ process # "down"
  /\ pruner = "idle"
  /\ pruner' = "excess"
  /\ UNCHANGED writes
  /\ dropRequests([e \in DOMAIN requests |-> ExcessBytes(requests[e])])

PruneExcessRequests ==
  /\ pruner = "excess"
  /\ pruner' = "idle"
  /\ UNCHANGED writes
  /\ dropRequests([e \in DOMAIN requests |-> ExcessCount(requests[e])])

-----------------------------------------------------------------------------
(* Save, by the snapshot loop on its tick and by Close when the loop ended *)

Saving == process \in {"running", "stopping", "flushing"}

\* The return from Save: Close ends with it, the loop goes on.
Return(err) ==
  /\ saver' = "idle"
  /\ process' = IF process = "flushing" THEN "closed" ELSE process
  /\ saveFailed' = (process = "flushing" /\ err)
  /\ snap' = Empty
  /\ UNCHANGED <<data, pruner, late, issued, starts, writes>>

NothingToSave ==
  /\ Saving
  /\ saver = "idle"
  /\ ~dirty
  /\ Return(FALSE)
  /\ UNCHANGED <<dirty, file>>

\* dirty.Swap(false), before the copy.
SwapDirty ==
  /\ Saving
  /\ saver = "idle"
  /\ dirty
  /\ saver' = "swapped"
  /\ dirty' = FALSE
  /\ UNCHANGED <<data, snap, saveFailed, file, pruner, lifecycle, issued, writes>>

Copy ==
  /\ saver = "swapped"
  /\ saver' = "copied"
  /\ snap' = Contents
  /\ UNCHANGED <<data, dirty, saveFailed, file, pruner, lifecycle, issued, writes>>

\* Fault: the flag is cleared when the file is written.
RenameAndClear ==
  /\ saver = "copied"
  /\ disk' = snap
  /\ readable' = TRUE
  /\ Return(FALSE)
  /\ dirty' = FALSE

\* writeAtomic: nothing shows of the temporary file until the rename.
Rename ==
  /\ saver = "copied"
  /\ disk' = snap
  /\ readable' = TRUE
  /\ Return(FALSE)
  /\ UNCHANGED dirty

\* Fault: a failed snapshot is not tried again.
GiveUpSave == UNCHANGED dirty

RetryLater == dirty' = TRUE

SaveFails ==
  /\ saver = "copied"
  /\ RetryLater
  /\ Return(TRUE)
  /\ UNCHANGED file

-----------------------------------------------------------------------------
(* The process.                                                            *)

Load(s) ==
  LET known == {e \in DOMAIN s.requests : e \in DOMAIN s.endpoints /\ s.requests[e] # <<>>}
      listed == UNION {Range(s.requests[e]) : e \in known}
  IN  /\ endpoints' = s.endpoints
      /\ slugs' = [x \in {s.endpoints[e].slug : e \in DOMAIN s.endpoints} |->
                     CHOOSE e \in DOMAIN s.endpoints : s.endpoints[e].slug = x]
      /\ requests' = Restrict(s.requests, known)
      /\ byID' = Restrict(s.rows, listed)
      /\ interest' = s.interest

\* Fault: a file that cannot be decoded counts as none.
LoadableOrNot == TRUE

Loadable == readable

New ==
  /\ process = "down"
  /\ starts < MaxStarts
  /\ Loadable
  /\ process' = "running"
  /\ starts' = starts + 1
  /\ Load(disk)
  /\ dirty' = FALSE
  /\ UNCHANGED <<saving, pruner, late, issued, writes>>

\* Close closes stop; the loop may take one more tick before it sees it.
Close ==
  /\ process = "running"
  /\ process' = "stopping"
  /\ late' \in BOOLEAN
  /\ UNCHANGED <<data, dirty, saving, pruner, issued, starts, writes>>

\* <-s.done: the loop is not in the middle of a Save any more.
Flush ==
  /\ process = "stopping"
  /\ saver = "idle"
  /\ process' = "flushing"
  /\ UNCHANGED <<data, dirty, saving, pruner, late, issued, starts, writes>>

\* The end of the process leaves only the file.
Gone ==
  /\ process' = "down"
  /\ endpoints' = <<>> /\ slugs' = <<>> /\ requests' = <<>> /\ byID' = <<>> /\ interest' = {}
  /\ dirty' = FALSE
  /\ saver' = "idle" /\ snap' = Empty /\ saveFailed' = FALSE
  /\ pruner' = "idle"
  /\ late' = FALSE
  /\ UNCHANGED <<file, issued, starts, writes>>

Exit ==
  /\ process = "closed"
  /\ Gone

Crash ==
  /\ process \notin {"down", "closed"}
  /\ Gone

\* Something outside damages the file while nothing runs.
Damage ==
  /\ process = "down"
  /\ disk' = Empty
  /\ readable' = FALSE
  /\ UNCHANGED <<data, dirty, saver, snap, saveFailed, pruner, lifecycle, issued, writes>>

-----------------------------------------------------------------------------
Next ==
  \/ \E e \in Endpoint, s \in Slug, c \in Config \cup {NoConfig} : CreateEndpoint(e, s, c)
  \/ \E e \in Endpoint, c \in Config \cup {NoConfig} : UpdateEndpoint(e, c)
  \/ \E e \in Endpoint, s \in Slug : RenameEndpoint(e, s)
  \/ \E e \in Endpoint : DeleteEndpoint(e)
  \/ \E e \in Endpoint : DeleteAllRequests(e)
  \/ \E r \in Request, e \in Endpoint, n \in RowSize : InsertRequest(r, e, n)
  \/ \E r \in Request : SetRequestForwardResult(r)
  \/ \E r \in Request : SetRequestResponseInfo(r)
  \/ \E r \in Request : DeleteRequest(r)
  \/ \E c \in Client : RecordUpgradeInterest(c)
  \/ PruneByStorageBudget
  \/ PruneExcessRequests
  \/ NothingToSave
  \/ SwapDirty
  \/ Copy
  \/ Rename
  \/ SaveFails
  \/ New
  \/ Close
  \/ Flush
  \/ Exit
  \/ Crash
  \/ Damage

Spec == Init /\ [][Next]_vars

-----------------------------------------------------------------------------
(* Properties.                                                             *)

\* Each slug leads to the endpoint that has it, and back.
SlugsAgree ==
  /\ \A s \in DOMAIN slugs : slugs[s] \in DOMAIN endpoints /\ endpoints[slugs[s]].slug = s
  /\ \A e \in DOMAIN endpoints : endpoints[e].slug \in DOMAIN slugs /\ slugs[endpoints[e].slug] = e

\* An endpoint's list holds, once each, the rows that belong to it and can be
\* found by id, and every row belongs to an endpoint.
RowsAgree ==
  /\ \A e \in Endpoint :
       /\ IsInjective(List(e))
       /\ Range(List(e)) = {r \in DOMAIN byID : byID[r].endpoint = e}
  /\ \A r \in DOMAIN byID : byID[r].endpoint \in DOMAIN endpoints

\* The four maps agree through every operation, prune, crash and reload.  A
\* stray entry would be a URL that resolves to nothing, or a row that is listed
\* but cannot be opened, or one that is never pruned.
IndexesAgree == SlugsAgree /\ RowsAgree

\* Nothing is ever left behind by Save: while none runs and the flag is down,
\* the file holds what memory holds, whatever was written while the last one
\* copied, wrote or failed, and also right after a restart.
UnsavedIsDirty ==
  process # "down" /\ saver = "idle" /\ ~dirty
    => Contents = disk

IsNewestOf(list, all) ==
  \E n \in 0 .. Len(all) : list = SubSeq(all, n + 1, Len(all))

\* Snapshot s holds all that is in memory, and at most older requests besides.
Holds(s) ==
  /\ endpoints = s.endpoints
  /\ interest = s.interest
  /\ IsRestriction(byID, s.rows)
  /\ \A e \in DOMAIN endpoints : IsNewestOf(List(e), s.requests[e])

\* A clean shutdown loses nothing (installation.md 45): when the writers had
\* ended before Close and its snapshot was written, the file holds all that is
\* in memory.  The pruner may still take from memory what the file keeps.
CleanCloseLosesNothing ==
  process = "closed" /\ ~late /\ ~saveFailed => Holds(disk)

\* A running process changes the file only by putting a whole snapshot in the
\* place of a file it was able to load: one it cannot read is never overwritten
\* (memstore.go 66) and a crash never leaves half a file (memstore.go 381).
OnlyWholeSnapshots ==
  [][process # "down" => readable /\ readable' /\ disk' = snap]_file

\* What the PostgreSQL queries rank the rows of an endpoint by, newest first: the
\* window's cumulative size and the row number.  (Rows have different ages here;
\* the window would count those of one age together.)
CumulativeSize(list, i) ==
  LET newer == {j \in DOMAIN list : j >= i}
  IN SumFunctionOnSet([j \in newer |-> byID[list[j]].size], newer)

RowNumber(list, i) == Len(list) - i + 1

\* Of endpoint e, exactly the rows at these places are deleted.
Deletes(e, over) == requests'[e] = Without(requests[e], {requests[e][i] : i \in over})

\* The pruner deletes what the window functions of the PostgreSQL queries delete
\* (memstore.go 302): the budget counts a row with all newer ones of its
\* endpoint, and the count its rank from the newest.
PrunesLikePostgres ==
  [][\A e \in DOMAIN requests :
       LET list == requests[e]
       IN  /\ PruneByStorageBudget =>
                Deletes(e, {i \in DOMAIN list : CumulativeSize(list, i) > MaxBytes})
           /\ PruneExcessRequests =>
                Deletes(e, {i \in DOMAIN list : RowNumber(list, i) > MaxCount})]_vars
=============================================================================
