--------------------------- MODULE SortedSequences ---------------------------
(***************************************************************************)
(* Sequences put in order: what a sort, a filter and a stable partition of *)
(* a Vec leave.  Written with ranks, so that their elements can be         *)
(* reasoned about one by one.                                              *)
(***************************************************************************)
EXTENDS Naturals, Sequences, FiniteSets

\* How many numbers of S are at most x, and the k-th number of S.
Rank(S, x) == Cardinality({y \in S : y <= x})
Nth(S, k) == CHOOSE x \in S : Rank(S, x) = k

\* The numbers of S, the least first.
Ascending(S) == [k \in 1 .. Cardinality(S) |-> Nth(S, k)]

\* The elements of q that belong to S, in their order in q.
Only(q, S) ==
    LET places == {p \in DOMAIN q : q[p] \in S}
    IN  [k \in 1 .. Cardinality(places) |-> q[Nth(places, k)]]
==============================================================================
