------------------------------ MODULE Ordering ------------------------------
(***************************************************************************)
(* Lists in an order: what `ORDER BY`, sorted() and a filtering            *)
(* comprehension return, as functions on 1..n.  An order is the set of     *)
(* pairs <<x, y>> with x before y.                                         *)
(***************************************************************************)
EXTENDS Naturals, FiniteSets

Below(S, R, x) == {y \in S : <<y, x>> \in R}

\* The elements of a finite set, by a strict total order on it.
SortedBy(S, R) ==
  [k \in 1..Cardinality(S) |->
     CHOOSE x \in S : Cardinality(Below(S, R, x)) = k - 1]

\* A set of numbers in increasing order, and the elements of s at those places.
Ascending(K) == SortedBy(K, {p \in K \X K : p[1] < p[2]})
Kept(s, K) == [k \in 1..Cardinality(K) |-> s[Ascending(K)[k]]]
=============================================================================
