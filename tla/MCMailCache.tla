----------------------------- MODULE MCMailCache -----------------------------
(***************************************************************************)
(* Instances of MailCache for TLC.                                         *)
(***************************************************************************)
EXTENDS MailCache, TLC

==============================================================================
