-------------------------- MODULE MCTaskProcesses --------------------------
(* A small instance of TaskProcesses for TLC. *)
EXTENDS TaskProcesses
=============================================================================
