------------------------------- MODULE Ordered -------------------------------
(* Sets of places in order, and what a sequence has there: filter and sort.  *)
EXTENDS Integers, FiniteSets

\* A finite set of numbers, ascending, and the items of a sequence at those places.
InOrder(places) ==
    [k \in 1..Cardinality(places) |->
        CHOOSE i \in places : Cardinality({j \in places : j < i}) = k - 1]

Kept(items, places) == [k \in 1..Cardinality(places) |-> items[InOrder(places)[k]]]
=============================================================================
