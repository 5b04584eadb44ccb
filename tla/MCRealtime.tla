------------------------------ MODULE MCRealtime ------------------------------
(***************************************************************************)
(* An instance of Realtime for TLC with the account alice.                 *)
(***************************************************************************)
EXTENDS Realtime, TLC

CONSTANT alice

OneAddress == [x \in Accounts |-> "address"]
===============================================================================
