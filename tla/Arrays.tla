------------------------------- MODULE Arrays -------------------------------
(***************************************************************************)
(* Array.prototype.sort and filter, as the pages use them.  The comparison *)
(* the pages give to sort, with the places of equals to decide a tie (it   *)
(* is stable), orders the places 1 .. n strictly: the pair <<i, j>> is in  *)
(* `before` if the element at i comes before the one at j.                 *)
(***************************************************************************)
EXTENDS Integers, Sequences, FiniteSets

Ahead(before, n, j) == {i \in 1 .. n : <<i, j>> \in before}

(* What stands at k is the element with k - 1 others ahead of it. *)
Ranked(n, before) ==
  [k \in 1 .. n |-> CHOOSE j \in 1 .. n : Cardinality(Ahead(before, n, j)) = k - 1]

(* The elements of s at the given places, in their order. *)
Kept(s, places) ==
  LET upto[n \in 0 .. Len(s)] ==
        IF n = 0 THEN <<>> ELSE IF n \in places THEN Append(upto[n - 1], s[n]) ELSE upto[n - 1]
  IN  upto[Len(s)]
=============================================================================
