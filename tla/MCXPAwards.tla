------------------------------ MODULE MCXPAwards ------------------------------
(* Instances of XPAwards for TLC.                                          *)
EXTENDS XPAwards, TLC

CONSTANTS a1, a2, k1

\* The call awards a1, which no product transaction queues.
MCAwardOf == [k \in Call |-> a1]
=============================================================================
