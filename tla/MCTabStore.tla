----------------------------- MODULE MCTabStore -----------------------------
(***************************************************************************)
(* TabStore with three requests, two calls in flight, a deletion and a     *)
(* failing call.  A catch-up looks at two rows, so that its answer may be  *)
(* all new, partly known or all known, and a load gets three.              *)
(***************************************************************************)
EXTENDS TabStore
=============================================================================
