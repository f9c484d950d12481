----------------------------- MODULE SeqFilter ------------------------------
(***************************************************************************)
(* Filtering a sequence by the indices it keeps: Array.prototype.filter and*)
(* SelectSeq, in a form that says which element comes from where.          *)
(***************************************************************************)
EXTENDS Naturals, Sequences, FiniteSets

\* How many indices of I are not above i.
PlaceIn(I, i) == Cardinality({j \in I : j <= i})

\* The elements of s at the indices I, in their order.
AtIndices(s, I) == [k \in 1..Cardinality(I) |-> s[CHOOSE i \in I : PlaceIn(I, i) = k]]
=============================================================================
