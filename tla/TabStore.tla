------------------------------ MODULE TabStore ------------------------------
(***************************************************************************)
(* The list of requests a dashboard tab shows in server mode               *)
(* (web/src/lib/stores/requests.svelte.ts, and the page that feeds it).    *)
(* It is filled by a load, by live messages, of which any may be lost, and *)
(* by the catch-ups the page starts every CATCH_UP_MS, after a reconnect   *)
(* and when it becomes visible; it is edited at once when the user deletes,*)
(* and rolled back when the deletion fails.                                *)
(*                                                                         *)
(* JavaScript runs a function up to its next await, so a call into the     *)
(* server is: the code before the await, what the server does, and the     *)
(* code after it, with everything else in between.  Requests are numbered  *)
(* in the order they are stored, and rows are listed newest first.         *)
(***************************************************************************)
EXTENDS Lists, SequencesExt

CONSTANTS
  Call,          \* the tab's calls in flight
  MaxRequests,   \* bound on the captured requests
  Check,         \* rows a catch-up looks at
  Page,          \* rows a load gets
  MaxEdits,      \* bound on the user's deletions
  MaxFailures    \* bound on failing calls: an outage ends

ASSUME TabAssumption ==
  /\ MaxRequests \in Nat
  /\ Check \in Nat \ {0}
  /\ Page \in Nat /\ Page >= Check
  /\ MaxEdits \in Nat
  /\ MaxFailures \in Nat

VARIABLES
  stored,     \* the requests the server has now
  captured,   \* how many it ever stored
  unheard,    \* requests whose live message has been neither shown nor lost
  items,      \* what the tab shows
  loading,
  call,       \* Call -> its state
  edits,
  failures

tabVars == <<stored, captured, unheard, items, loading, call, edits, failures>>

Request == 1..MaxRequests

\* at: "asked" until the server has listed or deleted, "listed" until it has
\* counted, which matters only to a catch-up.  rows is the server's answer, more
\* says that its total is larger; backup is the list before an edit.
CallState == [op : {"load", "catchUp", "remove", "clearAll"}, id : Request \cup {0},
              at : {"asked", "listed", "answered"},
              rows : Seq(Request), more : BOOLEAN, backup : Seq(Request)]

Idle == [op |-> "none", at |-> "idle"]

TabTypeOK ==
  /\ stored \in SUBSET Request
  /\ captured \in Request \cup {0}
  /\ unheard \in SUBSET Request
  /\ items \in Seq(Request)
  /\ loading \in BOOLEAN
  /\ call \in [Call -> CallState \cup {Idle}]
  /\ edits \in 0..MaxEdits
  /\ failures \in 0..MaxFailures

Asked(op, id, backup) ==
  [op |-> op, id |-> id, at |-> "asked", rows |-> <<>>, more |-> FALSE, backup |-> backup]

\* init: the page loads the endpoint's stored requests first, which come in
\* before the server answers.
TabInit ==
  /\ stored = {}
  /\ captured = 0
  /\ unheard = {}
  /\ items = <<>>
  /\ loading = TRUE
  /\ \E c \in Call : call = [d \in Call |-> IF d = c THEN Asked("load", 0, <<>>) ELSE Idle]
  /\ edits = 0
  /\ failures = 0

Begin(c, state) == call[c] = Idle /\ call' = [call EXCEPT ![c] = state]
Await(c, ops) == call[c].op \in ops /\ call[c].at = "answered"
Done(c) == call' = [call EXCEPT ![c] = Idle]

Newer(r) == {s \in stored : s > r}

Newest(n) == {r \in stored : Cardinality(Newer(r)) < n}

NewestFirst(n) ==
  [i \in 1..Cardinality(Newest(n)) |-> CHOOSE r \in stored : Cardinality(Newer(r)) = i - 1]

\* The server stores a request and publishes it later, by way of the handler
\* that captured it: two messages may come in either order.
Capture ==
  /\ captured < MaxRequests
  /\ captured' = captured + 1
  /\ stored' = stored \cup {captured'}
  /\ unheard' = unheard \cup {captured'}
  /\ UNCHANGED <<items, loading, call, edits, failures>>

\* The message never comes: another server instance captured the request, the
\* connection was down, or the client's channel was full.
LoseMessage(r) ==
  /\ r \in unheard
  /\ unheard' = unheard \ {r}
  /\ UNCHANGED <<stored, captured, items, loading, call, edits, failures>>

\* Fault: no look at what is shown.
prependBlindly(r) ==
  /\ r \in unheard
  /\ unheard' = unheard \ {r}
  /\ items' = <<r>> \o items
  /\ UNCHANGED <<stored, captured, loading, call, edits, failures>>

prepend(r) ==
  /\ r \in unheard
  /\ unheard' = unheard \ {r}
  /\ items' = IF r \in Range(items) THEN items ELSE <<r>> \o items
  /\ UNCHANGED <<stored, captured, loading, call, edits, failures>>

catchUp(c) ==
  /\ ~loading
  /\ Begin(c, Asked("catchUp", 0, <<>>))
  /\ UNCHANGED <<stored, captured, unheard, items, loading, edits, failures>>

remove(c, r) ==
  /\ edits < MaxEdits
  /\ r \in Range(items)
  /\ Begin(c, Asked("remove", r, items))
  /\ items' = Without(items, {r})
  /\ edits' = edits + 1
  /\ UNCHANGED <<stored, captured, unheard, loading, failures>>

clearAll(c) ==
  /\ edits < MaxEdits
  /\ Begin(c, Asked("clearAll", 0, items))
  /\ items' = <<>>
  /\ edits' = edits + 1
  /\ UNCHANGED <<stored, captured, unheard, loading, failures>>

\* The server lists, then counts, in two statements.
ListRequests(c) ==
  /\ call[c].at = "asked"
  /\ \/ /\ call[c].op = "load"
        /\ call' = [call EXCEPT ![c].at = "answered", ![c].rows = NewestFirst(Page)]
     \/ /\ call[c].op = "catchUp"
        /\ call' = [call EXCEPT ![c].at = "listed", ![c].rows = NewestFirst(Check)]
  /\ UNCHANGED <<stored, captured, unheard, items, loading, edits, failures>>

CountRequests(c) ==
  /\ call[c].at = "listed"
  /\ call' = [call EXCEPT ![c].at = "answered", ![c].more = Cardinality(stored) > Len(call[c].rows)]
  /\ UNCHANGED <<stored, captured, unheard, items, loading, edits, failures>>

DeleteOnServer(c) ==
  /\ call[c].op \in {"remove", "clearAll"}
  /\ call[c].at = "asked"
  /\ stored' = IF call[c].op = "remove" THEN stored \ {call[c].id} ELSE {}
  /\ call' = [call EXCEPT ![c].at = "answered"]
  /\ UNCHANGED <<captured, unheard, items, loading, edits, failures>>

\* The code after the await.
Loaded(c) ==
  /\ Await(c, {"load"})
  /\ items' = call[c].rows
  /\ loading' = FALSE
  /\ Done(c)
  /\ UNCHANGED <<stored, captured, unheard, edits, failures>>

Missing(c) == Without(call[c].rows, Range(items))

MoreMayBeMissing(c) ==
  /\ Missing(c) # <<>>
  /\ Len(Missing(c)) = Len(call[c].rows)
  /\ call[c].more

\* All of the answer is new and there is more: reload the page of requests.
Reload(c) ==
  /\ Await(c, {"catchUp"})
  /\ MoreMayBeMissing(c)
  /\ loading' = TRUE
  /\ call' = [call EXCEPT ![c] = Asked("load", 0, <<>>)]
  /\ UNCHANGED <<stored, captured, unheard, items, edits, failures>>

CaughtUp(c) ==
  /\ Await(c, {"catchUp"})
  /\ ~MoreMayBeMissing(c)
  /\ items' = Missing(c) \o items
  /\ Done(c)
  /\ UNCHANGED <<stored, captured, unheard, loading, edits, failures>>

Deleted(c) ==
  /\ Await(c, {"remove", "clearAll"})
  /\ Done(c)
  /\ UNCHANGED <<stored, captured, unheard, items, loading, edits, failures>>

\* Fault: loading is reset only after a load that succeeded.
FailStillLoading(c) ==
  /\ call[c] # Idle
  /\ failures < MaxFailures
  /\ failures' = failures + 1
  /\ items' = CASE call[c].op = "load" -> <<>>
                [] call[c].op = "catchUp" -> items
                [] OTHER -> call[c].backup
  /\ Done(c)
  /\ UNCHANGED <<stored, captured, unheard, loading, edits>>

\* The call is rejected, whether or not the server has carried it out.
Fail(c) ==
  /\ call[c] # Idle
  /\ failures < MaxFailures
  /\ failures' = failures + 1
  /\ items' = CASE call[c].op = "load" -> <<>>
                [] call[c].op = "catchUp" -> items
                [] OTHER -> call[c].backup
  /\ loading' = (loading /\ call[c].op # "load")
  /\ Done(c)
  /\ UNCHANGED <<stored, captured, unheard, edits>>

Serve(c) == ListRequests(c) \/ CountRequests(c) \/ DeleteOnServer(c)
Resume(c) == Loaded(c) \/ Reload(c) \/ CaughtUp(c) \/ Deleted(c)

TabNext ==
  \/ Capture
  \/ \E r \in Request : LoseMessage(r) \/ prepend(r)
  \/ \E c \in Call :
       \/ catchUp(c)
       \/ \E r \in Request : remove(c, r)
       \/ clearAll(c)
       \/ Serve(c)
       \/ Resume(c)
       \/ Fail(c)

\* The page's interval starts a catch-up again and again; calls are answered.
TabFairness ==
  /\ WF_tabVars(\E c \in Call : catchUp(c))
  /\ \A c \in Call : WF_tabVars(Serve(c) \/ Resume(c))

TabSpec == TabInit /\ [][TabNext]_tabVars /\ TabFairness

-----------------------------------------------------------------------------
\* A request is shown once, whichever of the load, the live message and the
\* catch-ups that overlap brings it, and after a rollback to an older list.
ShownOnce == IsInjective(items)

\* Whatever messages were lost and whatever calls failed or overlapped, the tab
\* comes to show the newest requests, as many as a catch-up looks at, and comes
\* back to it after everything that puts it behind: captures, deletions and
\* failing calls, all of which end here.
NewestShown == []<>(Newest(Check) \subseteq Range(items))
=============================================================================
