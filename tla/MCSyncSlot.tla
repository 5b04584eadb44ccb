----------------------------- MODULE MCSyncSlot -----------------------------
(***************************************************************************)
(* Small instances of SyncSlot for TLC.                                    *)
(***************************************************************************)
EXTENDS SyncSlot, TLC

\* Passes are interchangeable.
PassSymmetry == Permutations(Tasks)
=============================================================================
