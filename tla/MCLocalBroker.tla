---------------------------- MODULE MCLocalBroker ----------------------------
(* Model-checking instances of LocalBroker. *)
EXTENDS LocalBroker

CONSTANTS r1, r2, r3, k1, k2, u1, u2

\* k1 belongs to u1 and carries up to two chats at a time, k2 belongs to u2.
MCConnOf == [r \in Requests |-> IF r = r3 THEN k2 ELSE k1]
MCUidOf == [r \in Requests |-> IF r = r3 THEN u2 ELSE u1]
=============================================================================
