-------------------------------- MODULE RowOrder --------------------------------
(***************************************************************************)
(* The rows that a flush of FlatIndex keeps, in the order they are in:     *)
(* the comprehension over enumerate(all_ids), of which only the members    *)
(* count.                                                                  *)
(***************************************************************************)
EXTENDS Integers, FiniteSets

InOrder(S) == [k \in 1..Cardinality(S) |-> CHOOSE i \in S : Cardinality({j \in S : j < i}) = k - 1]
=============================================================================
