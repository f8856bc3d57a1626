--------------------------- MODULE MCProvisioning ---------------------------
(* Small instances of Provisioning for TLC.                                *)
EXTENDS Provisioning, TLC

CONSTANTS c1, c2, p1, p2, v1, v2

Symmetry == Permutations({c1, c2}) \cup Permutations({p1, p2})
=============================================================================
