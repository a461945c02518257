----------------------------- MODULE Selections -----------------------------
(***************************************************************************)
(* Python's sorted(), list comprehensions and dict.fromkeys(), by what they *)
(* return and not by how: the k-th element of a result is the one that has *)
(* k - 1 others before it.                                                 *)
(***************************************************************************)
EXTENDS Naturals, Sequences, FiniteSets

\* sorted(S); R holds the pairs <<x, y>> of which x comes first, and no two
\* members of S are equal in that order.
Sorted(S, R) ==
    [k \in 1 .. Cardinality(S) |->
        CHOOSE x \in S : Cardinality({y \in S : <<y, x>> \in R}) = k - 1]

\* [s[i] for i in S], the positions in ascending order.
InOrder(s, S) ==
    LET places == Sorted(S, {p \in S \X S : p[1] < p[2]})
    IN [k \in DOMAIN places |-> s[places[k]]]

\* dict.fromkeys(s): each element where it first stands.
Firsts(s) == {i \in DOMAIN s : \A h \in 1 .. i - 1 : s[h] # s[i]}
Unique(s) == InOrder(s, Firsts(s))
=============================================================================
