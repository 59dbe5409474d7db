------------------------ MODULE MCWorkerSupervisor ------------------------
(* A small instance of WorkerSupervisor for TLC. *)
EXTENDS WorkerSupervisor
=============================================================================
