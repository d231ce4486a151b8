----------------------------- MODULE MCMemStore -----------------------------
(***************************************************************************)
(* The constants of MemStore's run.                                        *)
(***************************************************************************)
EXTENDS MemStore

Symmetric == Permutations(Endpoint) \cup Permutations(Slug) \cup Permutations(Request)
=============================================================================
