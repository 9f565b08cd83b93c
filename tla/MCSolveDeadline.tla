-------------------------- MODULE MCSolveDeadline --------------------------
(* Small instances of SolveDeadline for TLC. *)
EXTENDS SolveDeadline
=============================================================================
