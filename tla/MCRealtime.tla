------------------------------ MODULE MCRealtime ------------------------------
(* Instances of Realtime for TLC.                                          *)
EXTENDS Realtime, TLC

CONSTANTS m1, m2
=============================================================================
