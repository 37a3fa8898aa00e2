--------------------------- MODULE MCInferenceQueue ---------------------------
(* Model-checking instance of InferenceQueue: two users' requests. *)
EXTENDS InferenceQueue

CONSTANTS r1, r2, r3, r4, r5, r6, u1, u2

MCUidOf == [r \in Requests |-> IF r \in {r1, r2, r3, r4} THEN u1 ELSE u2]
=============================================================================
