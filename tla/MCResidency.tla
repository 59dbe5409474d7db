---------------------------- MODULE MCResidency ----------------------------
(* A small instance of Residency for TLC. *)
EXTENDS Residency
=============================================================================
