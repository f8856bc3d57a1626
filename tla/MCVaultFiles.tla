---------------------------- MODULE MCVaultFiles ----------------------------
(* Small instances of VaultFiles for TLC.                                  *)
EXTENDS VaultFiles, TLC

(* Clients are interchangeable in the safety properties.                   *)
Symmetry == Permutations(Clients)
=============================================================================
