------------------------------- MODULE MCRewrap -------------------------------
(***************************************************************************)
(* A small instance of Rewrap: two capsules, and one other client of the   *)
(* new Key Broker.                                                         *)
(***************************************************************************)
EXTENDS Rewrap
=============================================================================
