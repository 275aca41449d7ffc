---------------------------- MODULE MCRangerSync ----------------------------
(* Instances of the Ranger user synchronisation for TLC. *)
EXTENDS RangerSync, TLC

Symmetry == Permutations(Users) \cup Permutations(Groups)
=============================================================================
