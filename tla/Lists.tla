------------------------------- MODULE Lists -------------------------------
(* Lists of records that have an id, the way the store and the page search *)
(* and filter them, and the elements of a set of numbers as a list.        *)
EXTENDS Naturals, Sequences, FiniteSets, FiniteSetsExt

(* The elements of S, ascending.                                           *)
InOrder(S) ==
  [i \in 1..Cardinality(S) |-> CHOOSE x \in S : Cardinality({y \in S : y < x}) = i - 1]

(* The elements of the list s at the places S.                             *)
Picked(s, S) == LET at == InOrder(S) IN [k \in DOMAIN at |-> s[at[k]]]

Places(s, id)  == {i \in DOMAIN s : s[i].id = id}
Has(s, id)     == Places(s, id) # {}
First(s, id)   == Min(Places(s, id))
Without(s, id) == Picked(s, DOMAIN s \ Places(s, id))
=============================================================================
