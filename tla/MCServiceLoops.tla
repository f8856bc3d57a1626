--------------------------- MODULE MCServiceLoops ---------------------------
(* Small instances of ServiceLoops for TLC.                                *)
EXTENDS ServiceLoops
=============================================================================
