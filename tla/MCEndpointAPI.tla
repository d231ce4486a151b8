---------------------------- MODULE MCEndpointAPI ----------------------------
(***************************************************************************)
(* EndpointAPI with two endpoints at the start, one saved before there was *)
(* encryption and one under the former key, listed on pages of one, two    *)
(* calls, each on an instance of its own of which one has the former       *)
(* settings, one request to the first endpoint, served by the other, and   *)
(* three slugs of which two may be tried.                                  *)
(***************************************************************************)
EXTENDS EndpointAPI, TLC

CONSTANTS n0, n1, s0, s1, c1, c2, r1, i1, i2

MCStoredKeys == <<Plain, Former>>

MCHome == c1 :> i1 @@ c2 :> i2 @@ r1 :> i1

Signed(exact, resign, secret, respelled) ==
  [exact |-> exact, resign |-> resign, secret |-> secret, respelled |-> respelled]

\* A name, a config that keeps the secret, a name and a new URL with a new
\* secret, and one that clears the secret but has it in another spelling.
MCSent ==
  {[name |-> n1, rename |-> FALSE, config |-> Absent],
   [name |-> Absent, rename |-> FALSE, config |-> Signed(TRUE, TRUE, Kept, NoSecret)],
   [name |-> n1, rename |-> TRUE, config |-> Signed(TRUE, FALSE, s1, NoSecret)],
   [name |-> Absent, rename |-> FALSE, config |-> Signed(TRUE, FALSE, Cleared, s1)]}

Symmetry == Permutations(Slug)
=============================================================================
