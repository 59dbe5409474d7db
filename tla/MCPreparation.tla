-------------------------- MODULE MCPreparation --------------------------
(* Preparation for TLC; its bounds are given in the configuration. *)
EXTENDS Preparation
=============================================================================
