---------------------------- MODULE MCVaultTags ----------------------------
(* A small instance of VaultTags for TLC.                                  *)
EXTENDS VaultTags, TLC

CONSTANTS d1, d2, c1, c2

OnePerDevice == [c \in Clients |-> IF c = c1 THEN d1 ELSE d2]

Symmetry == Permutations(Tags)
=============================================================================
