------------------------------ MODULE Ordering ------------------------------
(***************************************************************************)
(* Lists in an order: what sorted(), ORDER BY, and a loop that keeps some  *)
(* of a list make.  An order is a set of pairs and a place a rank, not an  *)
(* operator that compares, so that theorems can speak of them.             *)
(***************************************************************************)
EXTENDS Integers, FiniteSets

\* S in the order R: an element's place is the number of those before it.
InOrder(S, R) ==
    [n \in 1 .. Cardinality(S) |->
        CHOOSE x \in S : Cardinality({y \in S : <<y, x>> \in R}) = n - 1]

Ascending(S) == InOrder(S, {p \in S \X S : p[1] < p[2]})

\* [s[i] for i in range(len(s)) if i in K]
Selected(s, K) == [n \in DOMAIN Ascending(K) |-> s[Ascending(K)[n]]]
=============================================================================
