------------------------------- MODULE MCNetwork -------------------------------
(* Model values for checking Network with TLC.                            *)
EXTENDS Network, TLC

CONSTANTS p1, p2
=============================================================================
