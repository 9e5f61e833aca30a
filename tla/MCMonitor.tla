----------------------------- MODULE MCMonitor -----------------------------
(* Small instances of Monitor for TLC.                                     *)
EXTENDS Monitor

CONSTANTS p1, p2
=============================================================================
