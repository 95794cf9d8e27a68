------------------------------- MODULE Orders -------------------------------
(***************************************************************************)
(* Sorting by several criteria, the first that differs decides: sort_by of  *)
(* a comparator joined with then_with, and ORDER BY with several columns.  *)
(***************************************************************************)
EXTENDS Integers, Sequences, FiniteSets

\* Tuples of numbers, of the same length.
Less(s, t) == \E i \in DOMAIN s : s[i] < t[i] /\ \A j \in 1..(i - 1) : s[j] = t[j]

\* The elements of a finite set in the order of their keys.  key is a function
\* that gives no two elements the same tuple; an element comes after as many
\* others as have a lesser one.
InOrder(S, key) ==
    LET before(x) == {y \in S : Less(key[y], key[x])}
    IN [i \in 1..Cardinality(S) |-> CHOOSE x \in S : Cardinality(before(x)) = i - 1]
=============================================================================
