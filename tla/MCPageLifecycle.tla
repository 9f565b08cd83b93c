-------------------------- MODULE MCPageLifecycle --------------------------
(* Small instances of PageLifecycle for TLC: solves s1 and s2.              *)
EXTENDS PageLifecycle

CONSTANTS s1, s2
=============================================================================
