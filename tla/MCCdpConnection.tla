-------------------------- MODULE MCCdpConnection --------------------------
(* Small instances of CdpConnection for TLC: calls c1 and c2.               *)
EXTENDS CdpConnection

CONSTANTS c1, c2
=============================================================================
