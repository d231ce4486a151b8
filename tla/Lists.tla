------------------------------- MODULE Lists -------------------------------
(***************************************************************************)
(* What is left of a list when some of its elements are left out: the loop *)
(* of drain in internal/hub/hub.go, which appends what it does not skip,   *)
(* and the dashboard's filter.  It is a recursive function over the list's *)
(* positions, as the loop is, so that it can be proved about.              *)
(***************************************************************************)
EXTENDS Integers, Sequences

\* What has been appended after so many elements.
Appended(list, X) ==
  LET out[k \in 0 .. Len(list)] ==
        IF k = 0 THEN <<>>
        ELSE IF list[k] \in X THEN out[k - 1] ELSE Append(out[k - 1], list[k])
  IN  out

\* The elements of list that are not in X, in their order.
Without(list, X) == Appended(list, X)[Len(list)]
=============================================================================
