------------------------------ MODULE Sublists ------------------------------
(***************************************************************************)
(* Array.filter: what is left of a list, in its order, said without        *)
(* recursion so that it can be reasoned about.                             *)
(***************************************************************************)
EXTENDS Integers, Sequences, FiniteSets

\* The k-th of the positions P.
Kth(P, k) == CHOOSE i \in P : Cardinality({j \in P : j < i}) = k - 1

\* The entries of list s at the positions P.
Sublist(s, P) == [k \in 1..Cardinality(P) |-> s[Kth(P, k)]]

\* The entries of list s that are in S.
Kept(s, S) == Sublist(s, {i \in DOMAIN s : s[i] \in S})
=============================================================================
