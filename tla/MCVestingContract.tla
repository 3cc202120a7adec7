------------------------- MODULE MCVestingContract -------------------------
(* Model values for checking VestingContract with TLC.                    *)
EXTENDS VestingContract, TLC

CONSTANTS o1, o2
=============================================================================
