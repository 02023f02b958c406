----------------------------- MODULE Ascending -----------------------------
(***************************************************************************)
(* Sets of numbers listed in ascending order.                              *)
(***************************************************************************)
EXTENDS Naturals, FiniteSets

(* The ways to list S: one, where S is a finite set of numbers. *)
Listings(S) ==
  {q \in [1..Cardinality(S) -> S] :
     /\ \A x \in S : \E i \in DOMAIN q : q[i] = x
     /\ \A i, j \in DOMAIN q : i < j => q[i] < q[j]}
=============================================================================
