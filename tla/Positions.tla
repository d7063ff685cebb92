------------------------------- MODULE Positions -------------------------------
(***************************************************************************)
(* Sequences read by position: the elements at a set of positions, and     *)
(* where the part that ends at a position began.                           *)
(***************************************************************************)
EXTENDS Integers, Sequences, FiniteSetsExt

(* The elements of s at the positions in S, in their order.                *)
ElementsUpTo(s, S, last) ==
  LET upTo[n \in Nat] ==
        IF n = 0 THEN << >>
        ELSE IF n \in S THEN Append(upTo[n - 1], s[n])
        ELSE upTo[n - 1]
  IN  upTo[last]

ElementsAt(s, S) == ElementsUpTo(s, S, Len(s))

(* The positions in S end parts: the first position of the part of k.      *)
PartStart(S, k) ==
  LET before == {j \in S : j < k}
  IN  IF before = {} THEN 1 ELSE Max(before) + 1
=============================================================================
