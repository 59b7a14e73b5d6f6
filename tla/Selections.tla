----------------------------- MODULE Selections -----------------------------
(***************************************************************************)
(* What Array.filter(), Map and Set of the code return: some entries of a  *)
(* sequence, in the order in which they stand in it.  A selection is given *)
(* by the set of its positions.                                            *)
(***************************************************************************)
EXTENDS Naturals, Sequences, FiniteSets

\* The k-th smallest number of a finite set.
Nth(S, k) == CHOOSE i \in S : Cardinality({j \in S : j < i}) = k - 1

\* The numbers of a finite set, ascending.
Ascending(S) == [k \in 1 .. Cardinality(S) |-> Nth(S, k)]

\* The entries of a sequence at the positions of a set.
Picked(seq, S) == [k \in 1 .. Cardinality(S) |-> seq[Nth(S, k)]]
=============================================================================
