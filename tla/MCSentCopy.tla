----------------------------- MODULE MCSentCopy -----------------------------
(***************************************************************************)
(* Small instances of SentCopy for TLC.                                    *)
(***************************************************************************)
EXTENDS SentCopy
=============================================================================
