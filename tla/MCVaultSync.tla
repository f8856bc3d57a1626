---------------------------- MODULE MCVaultSync ----------------------------
(* Small instances of VaultSync for TLC.                                   *)
EXTENDS VaultSync, TLC

CONSTANTS d1, d2, v1, v2, v3, a, b

OnePath  == [v \in Versions |-> a]
Writers  == [v \in Versions |-> IF v = v1 THEN d1 ELSE None]
Writers2 == [v \in Versions |-> CASE v = v1 -> d1 [] v = v2 -> d2 [] OTHER -> None]
TwoPaths == [v \in Versions |-> IF v = v3 THEN b ELSE a]
=============================================================================
