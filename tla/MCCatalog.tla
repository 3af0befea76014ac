----------------------------- MODULE MCCatalog -----------------------------
(* Instances of Catalog for TLC. *)
EXTENDS Catalog, TLC

MCLists == {[a |-> 1, b |-> NoPage], [a |-> 2, b |-> 1]}
Symmetric == Permutations(Requests)
=============================================================================
