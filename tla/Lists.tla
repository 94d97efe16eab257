--------------------------------- MODULE Lists ----------------------------------
(* A list comprehension: the items at some places of a list, in their order. *)
EXTENDS Integers, Sequences, FiniteSets

Place(at, i) == Cardinality({j \in at : j <= i})

Kept(list, at) == [n \in 1 .. Cardinality(at) |-> list[CHOOSE i \in at : Place(at, i) = n]]
=============================================================================
