------------------------------- MODULE MCHub -------------------------------
(***************************************************************************)
(* The constants of Hub's runs.                                            *)
(***************************************************************************)
EXTENDS Hub, TLC

Symmetric == Permutations(Slug) \cup Permutations(Client)
=============================================================================
