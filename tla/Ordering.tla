------------------------------ MODULE Ordering ------------------------------
(***************************************************************************)
(* The elements of a set, or of a list, in order.  SetToSortSeq and SelectSeq *)
(* say the same by recursion, which the proofs could not look into.           *)
(***************************************************************************)
EXTENDS Integers, Sequences, FiniteSets

\* The k-th element of S is the one that k elements do not exceed.
Rank(S, i) == Cardinality({j \in S : j <= i})
Ascending(S) == [k \in 1..Cardinality(S) |-> CHOOSE i \in S : Rank(S, i) = k]

\* The elements of seq that are in S, as they stand in seq.
Positions(seq, S) == {i \in DOMAIN seq : seq[i] \in S}
Only(seq, S) ==
  LET at == Ascending(Positions(seq, S))
  IN  [k \in 1..Cardinality(Positions(seq, S)) |-> seq[at[k]]]

=============================================================================
