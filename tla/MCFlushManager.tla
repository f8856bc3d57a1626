--------------------------- MODULE MCFlushManager ---------------------------
(* Small instances of FlushManager for TLC.                                *)
EXTENDS FlushManager
=============================================================================
