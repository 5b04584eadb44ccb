------------------------- MODULE MCPendingOperations -------------------------
(***************************************************************************)
(* Small instances of PendingOperations for TLC.                           *)
(***************************************************************************)
EXTENDS PendingOperations
=============================================================================
