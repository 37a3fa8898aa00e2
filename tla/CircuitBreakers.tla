--------------------------- MODULE CircuitBreakers ---------------------------
(***************************************************************************)
(* The router's circuit breakers (crates/sentia-router/src/provider.rs):   *)
(* one counter of consecutive failures per remote provider, and a deadline *)
(* until which an open circuit keeps requests away.  The states are behind *)
(* one mutex, but a request asks `allow` long before it reports its        *)
(* outcome, and requests overlap.                                          *)
(***************************************************************************)
EXTENDS Consent

CONSTANTS
    Threshold,      \* failures that open a circuit
    Cooldown        \* how long it stays open

ASSUME BreakerAssumption ==
    /\ Threshold \in Nat \ {0}
    /\ Cooldown \in Nat \ {0}

VARIABLES
    failures,   \* CircuitState.failures; zero also stands for no state
    openUntil   \* CircuitState.open_until, or -1

breakerVars == <<failures, openUntil>>

BreakersInit ==
    /\ failures = [v \in Remotes |-> 0]
    /\ openUntil = [v \in Remotes |-> -1]

\* CircuitBreakers::allow: past the deadline the state starts afresh.
Blocks(v) == openUntil[v] # -1 /\ now < openUntil[v]

Allow(v) ==
    IF openUntil[v] # -1 /\ ~Blocks(v)
    THEN /\ openUntil' = [openUntil EXCEPT ![v] = -1]
         /\ failures' = [failures EXCEPT ![v] = 0]
    ELSE UNCHANGED breakerVars

Success(v) ==
    /\ failures' = [failures EXCEPT ![v] = 0]
    /\ openUntil' = [openUntil EXCEPT ![v] = -1]

\* Failures that arrive while the circuit is open push the deadline out.  The
\* count is capped at the threshold, past which it makes no difference.
Failure(v) ==
    LET n == failures[v] + 1
    IN  /\ failures' = [failures EXCEPT ![v] = IF n > Threshold THEN Threshold ELSE n]
        /\ openUntil' = [openUntil EXCEPT ![v] = IF n >= Threshold THEN now + Cooldown ELSE @]

ResetBreakers ==
    /\ failures' = [v \in Remotes |-> 0]
    /\ openUntil' = [v \in Remotes |-> -1]

BreakersTypeOK ==
    /\ failures \in [Remotes -> 0..Threshold]
    /\ openUntil \in [Remotes -> Nat \cup {-1}]
=============================================================================
