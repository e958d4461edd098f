-------------------------- MODULE MCVaultMigration --------------------------
(* Instances of VaultMigration, with the page of SetupTruth, for TLC. *)
EXTENDS SetupTruth, TLC

NameSymmetry == Permutations(Notes) \cup Permutations(Archives)
=============================================================================
