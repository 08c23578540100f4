--------------------------------- MODULE Lists ---------------------------------
(***************************************************************************)
(* What Python keeps of a list: the items at some of its places, in their  *)
(* order, as a comprehension with a condition or list.remove leaves them.  *)
(***************************************************************************)
EXTENDS Naturals, Sequences, FiniteSets

\* The place among K of the n-th item that is kept
Place(K, n) == CHOOSE i \in K : Cardinality(K \cap (1..i)) = n

Kept(list, K) == [n \in 1..Cardinality(K) |-> list[Place(K, n)]]
================================================================================
