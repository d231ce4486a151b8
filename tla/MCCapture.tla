----------------------------- MODULE MCCapture -----------------------------
(***************************************************************************)
(* The constants of Capture's runs: settings that lead through every       *)
(* branch of the pipeline.                                                 *)
(***************************************************************************)
EXTENDS Capture, TLC

Plain == [mode |-> "server", persist |-> FALSE, enforce |-> FALSE,
          transform |-> FALSE, forward |-> "async", script |-> FALSE]

AsyncForward == Plain
SyncForward == [Plain EXCEPT !.forward = "sync"]
Scripted == [Plain EXCEPT !.enforce = TRUE, !.transform = TRUE, !.script = TRUE,
                          !.forward = "none"]
BrowserForward == [Plain EXCEPT !.mode = "browser"]
BrowserReply == [Plain EXCEPT !.mode = "browser", !.script = TRUE, !.persist = TRUE,
                              !.enforce = TRUE]

AllConfigs == {AsyncForward, SyncForward, Scripted, BrowserForward, BrowserReply}

\* More combinations, for one request at a time.
MoreConfigs == AllConfigs \cup
  {[Scripted EXCEPT !.forward = "sync"], [Scripted EXCEPT !.forward = "async"],
   [Plain EXCEPT !.forward = "none"], [BrowserReply EXCEPT !.forward = "sync"]}

Symmetric == Permutations(Request)
=============================================================================
