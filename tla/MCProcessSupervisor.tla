------------------------ MODULE MCProcessSupervisor ------------------------
(* Small instances of ProcessSupervisor for TLC: runs of Chrome b1, b2, b3  *)
(* and a reader r1.                                                         *)
EXTENDS ProcessSupervisor

CONSTANTS b1, b2, b3, r1
=============================================================================
