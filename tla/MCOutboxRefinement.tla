------------------------- MODULE MCOutboxRefinement -------------------------
(***************************************************************************)
(* A small instance of OutboxRefinement for TLC.                           *)
(***************************************************************************)
EXTENDS OutboxRefinement, TLC

\* Tasks are interchangeable, here and in the abstract specification.
TaskSymmetry == Permutations(Workers)
=============================================================================
