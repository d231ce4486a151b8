---------------------------- MODULE MCHeldReply ----------------------------
(***************************************************************************)
(* The constants of HeldReply's runs.                                      *)
(***************************************************************************)
EXTENDS HeldReply, TLC

Symmetric == Permutations(Request) \cup Permutations(Tab) \cup Permutations(Slug)
=============================================================================
