---------------------------- MODULE HealthAlerts ----------------------------
(***************************************************************************)
(* The alert engine of sentia-health (crates/sentia-health/src/alert.rs):  *)
(* ten conditions with hysteresis, each with a rule, and a bounded log of  *)
(* the records the engine emitted.  Measurements are in tenths of the      *)
(* code's unit.  Messages, levels and time stamps are left out.            *)
(***************************************************************************)
EXTENDS Integers, Sequences, FiniteSets

CONSTANT MaxLog    \* max_log_entries
ASSUME MaxLogAssumption == MaxLog \in Nat

VARIABLES states,  \* AlertEngine::states, one entry per condition
          log      \* AlertEngine::log, oldest record first
alertVars == <<states, log>>

Threshold(activate, clear, required, delta) ==
    [activate_at |-> activate, clear_below |-> clear,
     required_samples |-> required, significant_delta |-> delta]

\* The rules that evaluate hands to eval_numeric.
Rule ==
    [cpu_high |-> Threshold(900, 800, 2, 50),
     memory_high |-> Threshold(920, 860, 2, 30),
     swap_high |-> Threshold(850, 700, 2, 50),
     filesystem_full |-> Threshold(10, 5, 1, 10),
     memory_pressure |-> Threshold(10, 3, 3, 5),
     failed_units |-> Threshold(10, 5, 1, 10),
     kernel_errors |-> Threshold(10, 5, 1, 20),
     disk_health |-> Threshold(5, 5, 1, 10),
     temperature_high |-> Threshold(850, 780, 2, 20),
     process_churn |-> Threshold(640, 160, 2, 160)]

\* The order in which evaluate looks at the conditions.
Order == <<"cpu_high", "memory_high", "swap_high", "filesystem_full", "memory_pressure",
           "failed_units", "kernel_errors", "disk_health", "temperature_high",
           "process_churn">>
Conditions == DOMAIN Rule

\* A condition is over its rule's threshold, or low enough to count as clear.
Above(id, value) == value >= Rule[id].activate_at
Clear(id, value) == value <= Rule[id].clear_below

\* A condition is first seen inactive, with both counters zero; the value it is created
\* with is only read after a raise has replaced it.
NewState == [active |-> FALSE, above_samples |-> 0, below_samples |-> 0, emitted |-> 0]
AlertsInit ==
    /\ states = [id \in Conditions |-> NewState]
    /\ log = <<>>

Distance(a, b) == IF a >= b THEN a - b ELSE b - a

\* The three outcomes that emit a record: the sample that resolves an active condition,
\* the one that moves it noticeably, and the one that raises an inactive condition.
\* Mutant: a sample that is not clear does not reset the count.
BelowKept(id, s, value) ==
    IF Clear(id, value) THEN s.below_samples + 1 ELSE s.below_samples
Below(id, s, value) == IF Clear(id, value) THEN s.below_samples + 1 ELSE 0
Resolves(id, s, value) ==
    s.active /\ Below(id, s, value) >= Rule[id].required_samples
Moves(id, s, value) ==
    /\ s.active /\ ~Clear(id, value)
    /\ Distance(value, s.emitted) >= Rule[id].significant_delta
Raises(id, s, value) ==
    /\ ~s.active /\ Above(id, value)
    /\ s.above_samples + 1 >= Rule[id].required_samples
\* Mutant: a resolution is not recorded.
EmitsNoResolution(id, s, value) == Moves(id, s, value) \/ Raises(id, s, value)
Emits(id, s, value) == Resolves(id, s, value) \/ Moves(id, s, value) \/ Raises(id, s, value)

\* What one sample makes of a condition's state.
Eval(id, s, value) ==
    [active |-> IF s.active THEN ~Resolves(id, s, value) ELSE Raises(id, s, value),
     above_samples |->
        CASE s.active -> IF Resolves(id, s, value) THEN 0 ELSE s.above_samples
          [] OTHER -> IF Above(id, value) THEN s.above_samples + 1 ELSE 0,
     below_samples |->
        CASE s.active -> Below(id, s, value)
          [] OTHER -> IF Raises(id, s, value) THEN 0 ELSE s.below_samples,
     emitted |-> IF Emits(id, s, value) THEN value ELSE s.emitted]

\* The records one evaluation emits, in the order of the rules: the k-th is that of the
\* emitting condition that has k emitting conditions up to its place.
Records(value) ==
    LET emitting == {n \in DOMAIN Order : Emits(Order[n], states[Order[n]], value[Order[n]])}
        Place(n) == Cardinality({m \in emitting : m <= n})
        At(k) == Order[CHOOSE n \in emitting : Place(n) = k]
    IN [k \in 1..Cardinality(emitting) |->
            [id |-> At(k), active |-> Eval(At(k), states[At(k)], value[At(k)]).active]]

\* Mutant: the log is never cut.
PushedUncut(records) == log \o records

\* push_record for each of them: the log keeps the newest MaxLog records.
Pushed(records) ==
    LET all == log \o records
        cut == IF Len(all) > MaxLog THEN Len(all) - MaxLog ELSE 0
    IN SubSeq(all, cut + 1, Len(all))

Evaluate(value) ==
    /\ states' = [id \in Conditions |-> Eval(id, states[id], value[id])]
    /\ log' = Pushed(Records(value))

ActiveAlerts == {id \in Conditions : states[id].active}
-----------------------------------------------------------------------------
AlertsTypeOK ==
    /\ states \in [Conditions -> [active : BOOLEAN, above_samples : Nat,
                                  below_samples : Nat, emitted : Int]]
    /\ log \in Seq([id : Conditions, active : BOOLEAN])
    /\ Len(log) <= MaxLog

\* Whoever reads only the log learns the state of every condition it mentions: the newest
\* retained record of a condition says whether it is active now, and between two resolutions of
\* it the log holds a raise.  An active condition whose records were all pushed out at
\* the old end is not told (AlertEngine::eval_numeric and push_record).
LogTellsState ==
    \A j \in DOMAIN log :
        LET later == {k \in DOMAIN log : k > j /\ log[k].id = log[j].id}
        IN /\ later = {} => log[j].active = states[log[j].id].active
           /\ (later # {} /\ ~log[j].active) =>
                  log[CHOOSE k \in later : \A l \in later : k <= l].active
=============================================================================
