--------------------------- MODULE MCTurnGateway ---------------------------
(* A small instance of TurnGateway for TLC. *)
EXTENDS TurnGateway
=============================================================================
