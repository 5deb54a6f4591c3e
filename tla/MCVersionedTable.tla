-------------------------- MODULE MCVersionedTable --------------------------
(* Instances of VersionedTable for TLC. *)
EXTENDS VersionedTable, TLC

KeySymmetry == Permutations(Keys)
=============================================================================
