---------------------------- MODULE MCNotifications ----------------------------
(* Instances of Notifications for TLC.                                     *)
EXTENDS Notifications, TLC

CONSTANTS c1, w1, w2
=============================================================================
