------------------------- MODULE MCPrivilegedBroker -------------------------
(* Model-checking instances of PrivilegedBroker. *)
EXTENDS PrivilegedBroker, TLC

CONSTANTS MaxState, MaxTime

MCStates == 0 .. MaxState
MCTimes == 0 .. MaxTime

\* Calls, names, principals and nonces are only compared for equality.
MCSymmetry == Permutations(Calls) \cup Permutations(Names)
                 \cup Permutations(Principals) \cup Permutations(Ids)
=============================================================================
