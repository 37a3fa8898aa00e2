--------------------------- MODULE PlanLifecycle ---------------------------
(***************************************************************************)
(* What the privileged broker promises about one approval plan, whatever   *)
(* happens around it: a plan is issued once, attempted at most once, may   *)
(* be approved only while it is being attempted, and changes the host only *)
(* after it was approved.  A plan that leaves this path is void for ever.  *)
(***************************************************************************)
CONSTANT Ids            \* plan identifiers: the 256-bit nonces of broker.rs

VARIABLE phase          \* [Ids -> Phases]

Phases == {"unused", "pending", "attempted", "approved", "applied", "void"}

Advances == { <<"unused", "pending">>, <<"pending", "attempted">>,
              <<"attempted", "approved">>, <<"approved", "applied">> }

Losses == {"pending", "attempted", "approved"} \X {"void"}

Init == phase = [i \in Ids |-> "unused"]

\* The operation gate lets one plan advance at a time; any number of plans
\* may be lost in the same step (expiry, restart, a failed attempt).
Next ==
    /\ phase' \in [Ids -> Phases]
    /\ \A i \in Ids : \/ phase'[i] = phase[i]
                      \/ <<phase[i], phase'[i]>> \in Advances \cup Losses
    /\ \A i, j \in Ids : /\ <<phase[i], phase'[i]>> \in Advances
                         /\ <<phase[j], phase'[j]>> \in Advances
                         => i = j

Spec == Init /\ [][Next]_phase
=============================================================================
