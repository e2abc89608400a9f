------------------------------ MODULE Sublists ------------------------------
(***************************************************************************)
(* Lists without some of their elements, written without recursion so that *)
(* theorems may speak of them.                                             *)
(***************************************************************************)
EXTENDS Integers, FiniteSets

\* The i-th of the places in kept.
Place(kept, i) == CHOOSE k \in kept : Cardinality({j \in kept : j <= k}) = i

\* What is left of a list if the elements at the places in kept stay.
Sublist(list, kept) == [i \in 1..Cardinality(kept) |-> list[Place(kept, i)]]
=============================================================================
