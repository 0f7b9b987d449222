---- MODULE MCFreshReads ----
(* Instances of FreshReads for TLC. *)
EXTENDS FreshReads, TLC
OwnerSymmetry == Permutations(Owners)
====
