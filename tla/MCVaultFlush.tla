--------------------------- MODULE MCVaultFlush ---------------------------
(* The flush of VaultFiles and the packing it does, for TLC.  The two      *)
(* share no state, VaultFiles leaving the choice of the groups open: the   *)
(* packing is explored on an empty vault, not in every state of it.        *)
EXTENDS MCVaultFiles, UploadPacking

FlushNext ==
  \/ files = <<>> /\ Next /\ UNCHANGED packVars
  \/ Init /\ PackNext /\ UNCHANGED vars

FlushSpec == Init /\ PackInit /\ [][FlushNext]_<<vars, packVars>> /\ Fairness
=============================================================================
