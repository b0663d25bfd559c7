---------------------------- MODULE MCIdempotency ----------------------------
(* Instances of Idempotency for TLC.                                       *)
EXTENDS Idempotency, TLC

CONSTANTS r1, r2, r3

\* r3 reuses the key with another payload.
MCPayload == [r \in Request |-> IF r = r3 THEN "other" ELSE "asked"]
=============================================================================
