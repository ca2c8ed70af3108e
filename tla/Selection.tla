----------------------------- MODULE Selection -----------------------------
(***************************************************************************)
(* What a queue keeps of its elements when only some of them stay.         *)
(*                                                                         *)
(* SelectSeq takes a predicate; Those takes the set of the elements to     *)
(* keep and is not recursive, so that theorems can be proved about it.     *)
(***************************************************************************)
EXTENDS Integers, Sequences, FiniteSets

\* How many of the places are not after i, and the n-th of the places.
Rank(places, i) == Cardinality({j \in places : j <= i})
Nth(places, n) == CHOOSE i \in places : Rank(places, i) = n

\* The elements of s that are in set, in the order of s.
Those(s, set) ==
    LET places == {i \in 1..Len(s) : s[i] \in set}
    IN  [n \in 1..Cardinality(places) |-> s[Nth(places, n)]]
=============================================================================
