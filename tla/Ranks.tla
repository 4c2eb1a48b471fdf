------------------------------- MODULE Ranks --------------------------------
(***************************************************************************)
(* A finite set in an order, as a sequence.  The order is a function from  *)
(* each element to the set of those below it.                              *)
(***************************************************************************)
EXTENDS Naturals, FiniteSets

Ranked(S, below) == [i \in 1..Cardinality(S) |-> CHOOSE x \in S : Cardinality(below[x]) = i - 1]
=============================================================================
