---------------------------- MODULE MCSosDelivery ----------------------------
(* Instances of SosDelivery for TLC.                                       *)
EXTENDS SosDelivery, TLC

CONSTANTS c1, c2, w1, w2
=============================================================================
