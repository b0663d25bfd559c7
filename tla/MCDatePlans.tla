------------------------------ MODULE MCDatePlans ------------------------------
(* Instance of DatePlans for TLC.                                          *)
EXTENDS DatePlans, TLC

CONSTANTS m1, m2
=============================================================================
