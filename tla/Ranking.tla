------------------------------ MODULE Ranking ------------------------------
(***************************************************************************)
(* A finite set in the order of a relation, as a sort by a key leaves it.  *)
(***************************************************************************)
EXTENDS Integers, FiniteSets

\* S in the order R.
Ranked(S, R) ==
    LET rank(i) == Cardinality({j \in S : <<j, i>> \in R})
    IN  [n \in 1..Cardinality(S) |-> CHOOSE i \in S : rank(i) = n - 1]
=============================================================================
