------------------------------ MODULE Ordering ------------------------------
(***************************************************************************)
(* Sequences that are sorted or filtered, without recursion: the k-th      *)
(* element is the one that has k - 1 before it.                            *)
(***************************************************************************)
EXTENDS Integers, FiniteSets

\* The elements of S that come before x; R is the set of the pairs <<y, x>> in which
\* y does.
Below(R, S, x) == {y \in S : <<y, x>> \in R}

\* The elements of the finite set S in the strict total order R.
Ordered(S, R) ==
    [k \in 1..Cardinality(S) |-> CHOOSE x \in S : Cardinality(Below(R, S, x)) = k - 1]

Ascending(S) == {p \in S \X S : p[1] < p[2]}

\* The elements of s at the positions `at`, in the order of `at`.
Picked(s, at) == [k \in DOMAIN at |-> s[at[k]]]

\* What is left of s when only the positions in K are kept.
Kept(s, K) == Picked(s, Ordered(K, Ascending(K)))
=============================================================================
