------------------------------- MODULE Orders -------------------------------
(***************************************************************************)
(* Sorting and filtering without recursion: the members of a finite set in  *)
(* an order, and the part of a sequence at some of its places.              *)
(***************************************************************************)
EXTENDS Naturals, FiniteSets

\* The members of a set, each at the place that as many stand ahead of it.
InOrder(S, ahead) ==
  [n \in 1..Cardinality(S) |-> CHOOSE x \in S : Cardinality({y \in S : <<y, x>> \in ahead}) = n - 1]

\* The part of a sequence at some of its places.
Earlier(places) == {p \in places \X places : p[1] < p[2]}
Picked(s, places) ==
  LET order == InOrder(places, Earlier(places)) IN [n \in DOMAIN order |-> s[order[n]]]
=============================================================================
