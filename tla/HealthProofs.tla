---------------------------- MODULE HealthProofs ----------------------------
(***************************************************************************)
(* Proofs about the health daemon, for any host, devices and intervals:    *)
(* an alert is active exactly while its condition is sustained, the log    *)
(* tells the state of every condition it mentions, and no snapshot reports *)
(* traffic that did not happen.                                            *)
(***************************************************************************)
EXTENDS Health, FiniteSetTheorems, WellFoundedInduction, TLAPS

-----------------------------------------------------------------------------
(* The host and the collector *)

LEMMA HostSteps ==
    ASSUME CollectorTypeOK, env \in Scenarios, HostStep
    PROVE  CollectorTypeOK' /\ memory' = memory
<1>1. memory' = memory /\ env' = env
  BY DEF HostStep, Traffic, CounterReset, Unplug, Plug, Work, Processes, Become, Break
<1> USE DEF CollectorTypeOK, HostOK, TablesOK
<1>2. ASSUME NEW t \in Tables, NEW d, Traffic(t, d) PROVE CollectorTypeOK'
  BY <1>1, <1>2 DEF Traffic
<1>3. ASSUME NEW t \in Tables, NEW d, CounterReset(t, d) PROVE CollectorTypeOK'
  BY <1>1, <1>3 DEF CounterReset
<1>4. ASSUME NEW t \in Tables, NEW d, Unplug(t, d) PROVE CollectorTypeOK'
  BY <1>1, <1>4 DEF Unplug
<1>5. ASSUME NEW t \in Tables, NEW d, Plug(t, d) PROVE CollectorTypeOK'
  BY <1>1, <1>5 DEF Plug
<1>6. ASSUME NEW ticks \in env.ticks, Work(ticks) PROVE CollectorTypeOK'
  BY <1>1, <1>6, HealthAssumption DEF Work
<1>7. ASSUME NEW pids \in env.pids, Processes(pids) PROVE CollectorTypeOK'
  BY <1>1, <1>7, HealthAssumption DEF Processes
<1>8. ASSUME NEW fact \in DOMAIN env.facts, NEW v \in env.facts[fact], Become(fact, v)
      PROVE  CollectorTypeOK'
  <2>1. fact \in Facts /\ FactOK(fact, v)
    BY HealthAssumption
  <2> QED
    BY <1>1, <1>8, <2>1 DEF Become
<1>9. ASSUME NEW source \in env.faults, Break(source) PROVE CollectorTypeOK'
  BY <1>1, <1>9, HealthAssumption DEF Break
<1> QED
  BY <1>1, <1>2, <1>3, <1>4, <1>5, <1>6, <1>7, <1>8, <1>9 DEF HostStep

LEMMA CollectTyped == ASSUME CollectorTypeOK, Collect, host' = host PROVE CollectorTypeOK'
<1>1. TablesOK([t \in Tables |-> TableNow(t)])
  BY DEF CollectorTypeOK, HostOK, TablesOK, TableNow, Nothing
<1>2. moved' \in [Tables -> [Devices -> Nat]]
  BY DEF Collect, NoTraffic
<1>3. TablesOK(memory'.tables) /\ DOMAIN memory' = {"cpu", "tables", "pids"}
      /\ memory'.cpu \in Ticks \cup {NoTicks} /\ IsFiniteSet(memory'.pids)
  BY <1>1 DEF Collect, Remembered, CollectorTypeOK, HostOK
<1> QED
  BY <1>2, <1>3 DEF CollectorTypeOK

LEMMA FreshTyped ==
    /\ DOMAIN NewMemory = {"cpu", "tables", "pids"} /\ NewMemory.cpu = NoTicks
    /\ TablesOK(NewMemory.tables) /\ IsFiniteSet(NewMemory.pids)
    /\ \A t \in Tables : DOMAIN NewMemory.tables[t] = {}
    /\ NoTraffic \in [Tables -> [Devices -> Nat]]
  BY FS_EmptySet DEF NewMemory, NoTraffic, TablesOK, Nothing

\* What is measured are numbers; a degraded disk measures 10, any other 0.
LEMMA MeasuredNumbers ==
    ASSUME CollectorTypeOK
    PROVE  /\ DOMAIN Measured = Conditions
           /\ \A id \in Conditions : Measured[id] \in Int
           /\ Measured["disk_health"] \in {0, 10}
<1> USE DEF CollectorTypeOK, HostOK, TablesOK
<1>1. CpuUtilization \in Int
  <2>1. host.cpu.active \in Nat /\ host.cpu.total \in Nat
    BY CollectorAssumption DEF Ticks
  <2>2. memory.cpu # NoTicks => memory.cpu.active \in Nat /\ memory.cpu.total \in Nat
    BY CollectorAssumption DEF Ticks
  <2> DEFINE idle == \/ ~Readable("stat") \/ memory.cpu = NoTicks
                     \/ CpuReset(host.cpu, memory.cpu) \/ host.cpu.total = memory.cpu.total
  <2>3. CASE idle
    BY <2>3 DEF CpuUtilization
  <2>4. CASE ~idle
    <3>1. CpuUtilization = ((host.cpu.active - memory.cpu.active) * 1000)
                               \div (host.cpu.total - memory.cpu.total)
      BY <2>4 DEF CpuUtilization
    <3>2. host.cpu.total - memory.cpu.total \in Nat \ {0}
          /\ (host.cpu.active - memory.cpu.active) * 1000 \in Int
      <4> DEFINE a == host.cpu.active
                 b == memory.cpu.active
                 c == host.cpu.total
                 d == memory.cpu.total
      <4>1. a \in Nat /\ b \in Nat /\ c \in Nat /\ d \in Nat /\ ~(c < d) /\ c # d
        BY <2>1, <2>2, <2>4 DEF CpuReset
      <4> HIDE DEF a, b, c, d
      <4>2. c - d \in Nat \ {0} /\ (a - b) * 1000 \in Int
        BY <4>1
      <4> QED
        BY <4>2 DEF a, b, c, d
    <3>3. \A m \in Int, n \in Nat \ {0} : m \div n \in Int
      OBVIOUS
    <3> QED
      BY <3>1, <3>2, <3>3
  <2> QED
    BY <2>3, <2>4
<1>2. UsedMemory \in Int /\ UsedSwap \in Int /\ Pressure \in Int
  <2>1. FactOK("memory_high", host.facts.memory_high)
        /\ FactOK("swap_high", host.facts.swap_high)
        /\ FactOK("memory_pressure", host.facts.memory_pressure)
    BY DEF Facts
  <2> QED
    BY <2>1 DEF FactOK, UsedMemory, UsedSwap, Pressure
<1>3. FullFilesystems \in Int
  <2> DEFINE mounts == IF Readable("mounts") THEN host.facts.filesystem_full ELSE <<>>
             full == {i \in DOMAIN mounts :
                        /\ Cardinality(Fuller(mounts, i)) < MaxFilesystems
                        /\ mounts[i].used >= 990 \/ ~mounts[i].available}
  <2>1. FactOK("filesystem_full", host.facts.filesystem_full)
    BY DEF Facts
  <2>2. mounts \in Seq([used : Nat, available : BOOLEAN])
    BY <2>1 DEF FactOK
  <2>3. IsFiniteSet(DOMAIN mounts)
    <3>1. DOMAIN mounts = 1..Len(mounts) /\ Len(mounts) \in Nat
      BY <2>2
    <3> QED
      BY <3>1, FS_Interval
  <2>4. full \subseteq DOMAIN mounts
    OBVIOUS
  <2>5. Cardinality(full) \in Nat
    <3> HIDE DEF full, mounts
    <3> QED
      BY <2>3, <2>4, FS_Subset, FS_CardinalityType
  <2>6. FullFilesystems = Cardinality(full)
    BY DEF FullFilesystems
  <2> HIDE DEF full
  <2> QED
    BY <2>5, <2>6
<1>4. MaxTemperature \in Int
  <2> DEFINE S == {Celsius(raw) : raw \in host.facts.temperature_high}
  <2>1. FactOK("temperature_high", host.facts.temperature_high)
    BY DEF Facts
  <2>2. CASE Readable("thermal") /\ host.facts.temperature_high # {}
    <3>1. S \subseteq Int
      BY <2>1 DEF FactOK, Celsius
    <3>2. \E x \in S : \A y \in S : x >= y
      BY <2>1, <2>2 DEF FactOK
    <3>3. Max(S) \in S
      BY <3>2 DEF Max
    <3>4. MaxTemperature = Max(S)
      BY <2>2 DEF MaxTemperature
    <3> QED
      BY <3>1, <3>3, <3>4
  <2>3. CASE ~(Readable("thermal") /\ host.facts.temperature_high # {})
    BY <2>3 DEF MaxTemperature
  <2> QED
    BY <2>2, <2>3
<1>5. FailedUnits \in Int /\ KernelErrors \in Int
  <2>1. FactOK("failed_units", host.facts.failed_units)
        /\ FactOK("kernel_errors", host.facts.kernel_errors)
    BY DEF Facts
  <2> QED
    BY <2>1, CollectorAssumption DEF FactOK, FailedUnits, KernelErrors, Listed
<1>6. Churn \in Int
  <2> DEFINE C == (host.pids \ memory.pids) \cup (memory.pids \ host.pids)
  <2>1. IsFiniteSet(host.pids \cup memory.pids)
    BY FS_Union
  <2>2. C \subseteq host.pids \cup memory.pids
    OBVIOUS
  <2>3. Cardinality(C) \in Nat
    <3> HIDE DEF C
    <3> QED
      BY <2>1, <2>2, FS_Subset, FS_CardinalityType
  <2> QED
    BY <2>3 DEF Churn
<1> QED
  BY <1>1, <1>2, <1>3, <1>4, <1>5, <1>6 DEF Measured, Conditions, Rule

-----------------------------------------------------------------------------
(* Alerts *)

LEMMA RuleFacts ==
    \A id \in Conditions :
        /\ Rule[id].required_samples \in 1..LongestRule
        /\ Rule[id].activate_at \in Int /\ Rule[id].clear_below \in Int
        /\ id # "disk_health" => Rule[id].clear_below < Rule[id].activate_at
        /\ id = "disk_health" => Rule[id].clear_below = 5 /\ Rule[id].activate_at = 5
  BY DEF Rule, Conditions, Threshold, LongestRule

\* One condition: its state s, its history h, and whether the history says raised.
AlertOK(id, s, h, up) ==
    /\ s.active \in BOOLEAN /\ s.above_samples \in Nat /\ s.below_samples \in Nat
    /\ h.above \in 0..LongestRule /\ h.clear \in 0..LongestRule
    /\ s.active = up
    /\ s.active = FALSE => s.above_samples = h.above /\ h.above < Rule[id].required_samples
    /\ s.active = TRUE => s.below_samples = h.clear /\ h.clear < Rule[id].required_samples

AlertInv ==
    /\ DOMAIN states = Conditions /\ DOMAIN streak = Conditions /\ DOMAIN raised = Conditions
    /\ \A id \in Conditions : AlertOK(id, states[id], streak[id], raised[id])

LEMMA ActiveOK ==
    ASSUME NEW id, NEW s, NEW h, NEW up, s.active = TRUE, up = TRUE,
           s.above_samples \in Nat, s.below_samples = h.clear,
           h.above \in 0..3, h.clear \in 0..3, h.clear < Rule[id].required_samples
    PROVE  AlertOK(id, s, h, up)
<1>1. s.above_samples \in Nat /\ s.below_samples \in Nat
      /\ h.above \in 0..LongestRule /\ h.clear \in 0..LongestRule
  BY DEF LongestRule
<1> QED
  BY <1>1, Zenon DEF AlertOK

LEMMA InactiveOK ==
    ASSUME NEW id, NEW s, NEW h, NEW up, s.active = FALSE, up = FALSE,
           s.below_samples \in Nat, s.above_samples = h.above,
           h.above \in 0..3, h.clear \in 0..3, h.above < Rule[id].required_samples
    PROVE  AlertOK(id, s, h, up)
<1>1. s.above_samples \in Nat /\ s.below_samples \in Nat
      /\ h.above \in 0..LongestRule /\ h.clear \in 0..LongestRule
  BY DEF LongestRule
<1> QED
  BY <1>1, Zenon DEF AlertOK

\* The engine's counters and the history agree on one more sample.
LEMMA EvalAgrees ==
    ASSUME NEW id \in Conditions, NEW s, NEW h, NEW up, AlertOK(id, s, h, up),
           NEW value \in Int, ~(Above(id, value) /\ Clear(id, value)),
           NEW h2, h2 = [above |-> Run(h.above, Above(id, value)),
                         clear |-> Run(h.clear, Clear(id, value))]
    PROVE  AlertOK(id, Eval(id, s, value), h2,
                   IF h2.above >= Rule[id].required_samples THEN TRUE
                   ELSE IF h2.clear >= Rule[id].required_samples THEN FALSE
                   ELSE up)
<1> DEFINE e == Eval(id, s, value)
           n == Rule[id].required_samples
           up2 == IF h2.above >= n THEN TRUE ELSE IF h2.clear >= n THEN FALSE ELSE up
<1>1. n \in 1..3
  BY RuleFacts DEF LongestRule
<1>2. CASE s.active /\ Clear(id, value)
  <2>1. h2.above = 0 /\ h2.clear = h.clear + 1 /\ h.clear = s.below_samples /\ up = TRUE
        /\ h.clear \in 0..3 /\ h.clear < n
    BY <1>1, <1>2 DEF AlertOK, Run, LongestRule
  <2>2. Resolves(id, s, value) <=> h.clear + 1 >= n
    BY <1>2, <2>1 DEF Resolves, Below
  <2>3. CASE h.clear + 1 >= n
    <3>1. e.active = FALSE /\ e.above_samples = 0 /\ e.below_samples = h.clear + 1
      BY <1>2, <2>1, <2>2, <2>3 DEF Eval, Below
    <3>2. up2 = FALSE
      BY <1>1, <2>1, <2>3
    <3> HIDE DEF e, up2
    <3>3. e.below_samples \in Nat /\ e.above_samples = h2.above /\ h2.above \in 0..3
          /\ h2.clear \in 0..3 /\ h2.above < Rule[id].required_samples
      BY <1>1, <2>1, <2>3, <3>1, <3>2
    <3>4. AlertOK(id, e, h2, up2)
      BY <3>1, <3>2, <3>3, InactiveOK, Zenon
    <3> QED
      BY <3>4 DEF e, up2
  <2>4. CASE ~(h.clear + 1 >= n)
    <3>1. e.active = TRUE /\ e.above_samples = s.above_samples /\ e.below_samples = h.clear + 1
      BY <1>2, <2>1, <2>2, <2>4 DEF Eval, Below
    <3>2. up2 = TRUE /\ s.above_samples \in Nat
      BY <1>1, <2>1, <2>4 DEF AlertOK
    <3> HIDE DEF e, up2
    <3>3. e.above_samples \in Nat /\ e.below_samples = h2.clear /\ h2.above \in 0..3
          /\ h2.clear \in 0..3 /\ h2.clear < Rule[id].required_samples
      BY <1>1, <2>1, <2>4, <3>1, <3>2
    <3>4. AlertOK(id, e, h2, up2)
      BY <3>1, <3>2, <3>3, ActiveOK, Zenon
    <3> QED
      BY <3>4 DEF e, up2
  <2> QED
    BY <2>3, <2>4
<1>3. CASE s.active /\ ~Clear(id, value)
  <2>1. h2.above \in 0..3 /\ h2.clear = 0 /\ up = TRUE /\ s.above_samples \in Nat
    BY <1>3 DEF AlertOK, Run, LongestRule
  <2>2. ~Resolves(id, s, value)
    BY <1>1, <1>3 DEF Resolves, Below
  <2>3. e.active = TRUE /\ e.above_samples = s.above_samples /\ e.below_samples = 0
    BY <1>3, <2>2 DEF Eval, Below
  <2>4. up2 = TRUE
    BY <1>1, <2>1
  <2> HIDE DEF e, up2
  <2>5. e.above_samples \in Nat /\ e.below_samples = h2.clear /\ h2.above \in 0..3
        /\ h2.clear \in 0..3 /\ h2.clear < Rule[id].required_samples
    BY <1>1, <2>1, <2>3, <2>4
  <2>6. AlertOK(id, e, h2, up2)
    BY <2>3, <2>4, <2>5, ActiveOK, Zenon
  <2> QED
    BY <2>6 DEF e, up2
<1>4. CASE ~s.active /\ Above(id, value)
  <2>1. h2.above = h.above + 1 /\ h2.clear = 0 /\ h.above = s.above_samples /\ up = FALSE
        /\ h.above \in 0..3 /\ h.above < n /\ s.below_samples \in Nat
    BY <1>1, <1>4 DEF AlertOK, Run, LongestRule
  <2>2. Raises(id, s, value) <=> h.above + 1 >= n
    BY <1>4, <2>1 DEF Raises
  <2>3. CASE h.above + 1 >= n
    <3>1. e.active = TRUE /\ e.above_samples = h.above + 1 /\ e.below_samples = 0
      BY <1>4, <2>1, <2>2, <2>3 DEF Eval
    <3>2. up2 = TRUE
      BY <2>1, <2>3
    <3> HIDE DEF e, up2
    <3>3. e.above_samples \in Nat /\ e.below_samples = h2.clear /\ h2.above \in 0..3
          /\ h2.clear \in 0..3 /\ h2.clear < Rule[id].required_samples
      BY <1>1, <2>1, <2>3, <3>1, <3>2
    <3>4. AlertOK(id, e, h2, up2)
      BY <3>1, <3>2, <3>3, ActiveOK, Zenon
    <3> QED
      BY <3>4 DEF e, up2
  <2>4. CASE ~(h.above + 1 >= n)
    <3>1. e.active = FALSE /\ e.above_samples = h.above + 1 /\ e.below_samples = s.below_samples
      BY <1>4, <2>1, <2>2, <2>4 DEF Eval
    <3>2. up2 = FALSE
      BY <1>1, <2>1, <2>4
    <3> HIDE DEF e, up2
    <3>3. e.below_samples \in Nat /\ e.above_samples = h2.above /\ h2.above \in 0..3
          /\ h2.clear \in 0..3 /\ h2.above < Rule[id].required_samples
      BY <1>1, <2>1, <2>4, <3>1, <3>2
    <3>4. AlertOK(id, e, h2, up2)
      BY <3>1, <3>2, <3>3, InactiveOK, Zenon
    <3> QED
      BY <3>4 DEF e, up2
  <2> QED
    BY <2>3, <2>4
<1>5. CASE ~s.active /\ ~Above(id, value)
  <2>1. h2.above = 0 /\ h2.clear \in 0..3 /\ up = FALSE /\ s.below_samples \in Nat
    BY <1>5 DEF AlertOK, Run, LongestRule
  <2>2. ~Raises(id, s, value)
    BY <1>5 DEF Raises
  <2>3. e.active = FALSE /\ e.above_samples = 0 /\ e.below_samples = s.below_samples
    BY <1>5, <2>2 DEF Eval
  <2>4. up2 = FALSE
    BY <1>1, <2>1
  <2> HIDE DEF e, up2
  <2>5. e.below_samples \in Nat /\ e.above_samples = h2.above /\ h2.above \in 0..3
        /\ h2.clear \in 0..3 /\ h2.above < Rule[id].required_samples
    BY <1>1, <2>1, <2>3, <2>4
  <2>6. AlertOK(id, e, h2, up2)
    BY <2>3, <2>4, <2>5, InactiveOK, Zenon
  <2> QED
    BY <2>6 DEF e, up2
<1> QED
  BY <1>2, <1>3, <1>4, <1>5

LEMMA FreshAlerts ==
    ASSUME NEW id \in Conditions
    PROVE  AlertOK(id, NewState, [above |-> 0, clear |-> 0], FALSE)
<1>1. 0 < Rule[id].required_samples
  BY RuleFacts
<1>2. NewState.active = FALSE
  BY Zenon DEF NewState
<1>3. NewState.above_samples = 0 /\ NewState.below_samples = 0
  BY DEF NewState
<1> DEFINE h == [above |-> 0, clear |-> 0]
<1>4. h.above = 0 /\ h.clear = 0
  OBVIOUS
<1> HIDE DEF h
<1>5. AlertOK(id, NewState, h, FALSE)
  <2>1. NewState.below_samples \in Nat /\ NewState.above_samples = h.above /\ h.above \in 0..3
        /\ h.clear \in 0..3 /\ h.above < Rule[id].required_samples
    BY <1>1, <1>3, <1>4
  <2> QED
    BY <1>2, <2>1, InactiveOK, Zenon
<1> QED
  BY <1>5 DEF h

LEMMA SampleAlerts ==
    ASSUME AlertInv, CollectorTypeOK, Evaluate(Measured), Noted(Measured)
    PROVE  AlertInv'
<1>1. DOMAIN states' = Conditions /\ DOMAIN streak' = Conditions /\ DOMAIN raised' = Conditions
  BY DEF Evaluate, Noted
<1>2. ASSUME NEW id \in Conditions PROVE AlertOK(id, states'[id], streak'[id], raised'[id])
  <2>1. Measured[id] \in Int /\ (id = "disk_health" => Measured[id] \in {0, 10})
    BY MeasuredNumbers
  <2> DEFINE value == Measured[id]
  <2>2. ~(Above(id, value) /\ Clear(id, value))
    <3> HIDE DEF value
    <3>1. value \in Int /\ (id = "disk_health" => value \in {0, 10})
      BY <2>1 DEF value
    <3> QED
      BY <3>1, RuleFacts DEF Above, Clear
  <2>3. streak'[id] = [above |-> Run(streak[id].above, Above(id, value)),
                       clear |-> Run(streak[id].clear, Clear(id, value))]
    BY DEF Noted
  <2>4. states'[id] = Eval(id, states[id], value)
    BY DEF Evaluate
  <2>5. raised'[id] = IF streak'[id].above >= Rule[id].required_samples THEN TRUE
                      ELSE IF streak'[id].clear >= Rule[id].required_samples THEN FALSE
                      ELSE raised[id]
    BY Zenon DEF Noted
  <2>6. AlertOK(id, states[id], streak[id], raised[id])
    BY DEF AlertInv
  <2> HIDE DEF value
  <2>7. value \in Int
    BY <2>1 DEF value
  <2>8. AlertOK(id, Eval(id, states[id], value), streak'[id],
                IF streak'[id].above >= Rule[id].required_samples THEN TRUE
                ELSE IF streak'[id].clear >= Rule[id].required_samples THEN FALSE
                ELSE raised[id])
    BY <2>2, <2>3, <2>6, <2>7, EvalAgrees
  <2> QED
    BY <2>4, <2>5, <2>8, Zenon
<1> QED
  BY <1>1, <1>2, Zenon DEF AlertInv

-----------------------------------------------------------------------------
(* Traffic *)

\* A counter that the last sample saw gained at most what the device moved since.
RatesInv ==
    /\ \A t \in Tables : \A d \in DOMAIN host.tables[t] \cap DOMAIN memory.tables[t] :
          host.tables[t][d] <= memory.tables[t][d] + moved[t][d]
    /\ RatesSound

LEMMA SampleRates ==
    ASSUME CollectorTypeOK, RatesInv, Collect, host' = host,
           latest' = [alerts |-> ActiveAlerts', rates |-> [t \in Tables |-> Rates(t)],
                      truth |-> moved]
    PROVE  RatesInv'
<1> USE DEF CollectorTypeOK, HostOK, TablesOK
<1>1. ASSUME NEW t \in Tables, NEW d \in DOMAIN host'.tables[t] \cap DOMAIN memory'.tables[t]
      PROVE  host'.tables[t][d] <= memory'.tables[t][d] + moved'[t][d]
  <2>1. memory'.tables[t] = TableNow(t)
    BY DEF Collect, Remembered
  <2>2. moved'[t][d] = 0 /\ host'.tables[t][d] \in Nat
    BY DEF Collect, NoTraffic
  <2>3. TableNow(t) = host.tables[t]
    BY <2>1 DEF TableNow, Nothing
  <2> QED
    BY <2>1, <2>2, <2>3
<1>2. ASSUME NEW t \in Tables, NEW d \in DOMAIN Rates(t) PROVE Rates(t)[d] <= moved[t][d]
  <2>1. d \in DOMAIN TableNow(t) /\ TableNow(t) = host.tables[t] /\ d \in Devices
    BY DEF Rates, TableNow, Nothing
  <2>2. moved[t][d] \in Nat /\ host.tables[t][d] \in Nat
    BY <2>1
  <2>3. CASE d \in DOMAIN memory.tables[t]
    <3>1. memory.tables[t][d] \in Nat /\ host.tables[t][d] <= memory.tables[t][d] + moved[t][d]
      BY <2>1, <2>3 DEF RatesInv
    <3>2. Rates(t)[d] = CounterDelta(host.tables[t][d], memory.tables[t][d])
      BY <2>1, <2>3 DEF Rates
    <3> QED
      BY <2>2, <3>1, <3>2 DEF CounterDelta
  <2>4. CASE d \notin DOMAIN memory.tables[t]
    BY <2>1, <2>2, <2>4 DEF Rates
  <2> QED
    BY <2>3, <2>4
<1>3. RatesSound'
  <2>1. \A t \in Tables : latest'.rates[t] = Rates(t) /\ latest'.truth[t] = moved[t]
    OBVIOUS
  <2> QED
    BY <1>2, <2>1 DEF RatesSound
<1> QED
  BY <1>1, <1>3 DEF RatesInv

LEMMA HostRates ==
    ASSUME CollectorTypeOK, RatesInv, HostStep
    PROVE  RatesInv'
<1>1. memory' = memory /\ latest' = latest
  BY DEF HostStep, daemonVars, Traffic, CounterReset, Unplug, Plug, Work, Processes, Become, Break
<1>2. RatesSound'
  BY <1>1 DEF RatesInv, RatesSound
<1> USE DEF CollectorTypeOK, HostOK, TablesOK
<1> DEFINE Kept == \A u \in Tables : \A c \in DOMAIN host'.tables[u] \cap DOMAIN memory.tables[u] :
                      host'.tables[u][c] <= memory.tables[u][c] + moved'[u][c]
<1>3. ASSUME NEW t \in Tables, NEW d, Traffic(t, d) PROVE Kept
  BY <1>3 DEF Traffic, RatesInv
<1>4. ASSUME NEW t \in Tables, NEW d, CounterReset(t, d) PROVE Kept
  BY <1>4 DEF CounterReset, RatesInv
<1>5. ASSUME NEW t \in Tables, NEW d, Unplug(t, d) PROVE Kept
  BY <1>5 DEF Unplug, RatesInv
<1>6. ASSUME NEW t \in Tables, NEW d, Plug(t, d) PROVE Kept
  BY <1>6 DEF Plug, RatesInv
<1>7. ASSUME host'.tables = host.tables, moved' = moved PROVE Kept
  BY <1>7 DEF RatesInv
<1>8. ASSUME NEW x, Work(x) \/ Processes(x) \/ Break(x) PROVE Kept
  BY <1>7, <1>8 DEF Work, Processes, Break
<1>9. ASSUME NEW fact, NEW v, Become(fact, v) PROVE Kept
  BY <1>7, <1>9 DEF Become
<1> HIDE DEF Kept
<1>10. Kept
  BY <1>3, <1>4, <1>5, <1>6, <1>8, <1>9 DEF HostStep
<1> QED
  BY <1>1, <1>2, <1>10 DEF RatesInv, Kept

-----------------------------------------------------------------------------
(* The daemon *)

HealthInv == env \in Scenarios /\ CollectorTypeOK /\ AlertInv /\ RatesInv

LEMMA HealthInit == Init => HealthInv
<1> SUFFICES ASSUME Init PROVE HealthInv
  OBVIOUS
<1>1. env \in Scenarios /\ CollectorTypeOK
  BY HealthAssumption, FreshTyped DEF Init, CollectorTypeOK
<1>2. AlertInv
  BY FreshAlerts, Zenon DEF Init, AlertsInit, AlertInv
<1>3. RatesInv
  <2>1. \A t \in Tables : DOMAIN memory.tables[t] = {} /\ DOMAIN latest.rates[t] = {}
    BY FreshTyped DEF Init, NoSnapshot, Nothing
  <2> QED
    BY <2>1 DEF RatesInv, RatesSound
<1> QED
  BY <1>1, <1>2, <1>3 DEF HealthInv

LEMMA SampleInv == ASSUME HealthInv, Sample, env' = env PROVE HealthInv'
<1>1. CollectorTypeOK'
  BY CollectTyped DEF HealthInv, Sample
<1>2. AlertInv'
  BY SampleAlerts DEF HealthInv, Sample
<1>3. RatesInv'
  BY SampleRates DEF HealthInv, Sample
<1> QED
  BY <1>1, <1>2, <1>3 DEF HealthInv

LEMMA HealthStep == HealthInv /\ [Next]_vars => HealthInv'
<1> SUFFICES ASSUME HealthInv, [Next]_vars PROVE HealthInv'
  OBVIOUS
<1>1. ASSUME UNCHANGED <<env, host, memory, moved, states, streak, raised, latest>>
      PROVE  HealthInv'
  BY <1>1 DEF HealthInv, CollectorTypeOK, AlertInv, RatesInv, RatesSound
<1>2. CASE FirstSample
  BY <1>2, SampleInv DEF FirstSample
<1>3. CASE AcceptClient \/ Serve \/ AcceptEnds \/ AcceptFails \/ Sleep \/ Connect
  BY <1>1, <1>3 DEF AcceptClient, Serve, AcceptEnds, AcceptFails, Sleep, Connect
<1>4. CASE SampleDue
  <2>1. CASE wait = 0
    BY <1>4, <2>1, SampleInv DEF SampleDue
  <2>2. CASE wait # 0
    BY <1>1, <1>4, <2>2 DEF SampleDue
  <2> QED
    BY <2>1, <2>2
<1>5. CASE Restart
  <2>1. /\ memory' = NewMemory /\ moved' = NoTraffic /\ host' = host /\ env' = env
        /\ latest' = NoSnapshot
    BY <1>5 DEF Restart, FreshMonitor
  <2>2. CollectorTypeOK'
    BY <2>1, FreshTyped DEF CollectorTypeOK, HealthInv
  <2>3. AlertInv'
    <3>1. /\ states' = [id \in Conditions |-> NewState]
          /\ streak' = [id \in Conditions |-> [above |-> 0, clear |-> 0]]
          /\ raised' = [id \in Conditions |-> FALSE]
      BY <1>5 DEF Restart, FreshMonitor
    <3> QED
      BY <3>1, FreshAlerts, Zenon DEF AlertInv
  <2>4. RatesInv'
    <3>1. \A t \in Tables : DOMAIN memory'.tables[t] = {} /\ DOMAIN latest'.rates[t] = {}
      BY <2>1, FreshTyped DEF NoSnapshot, Nothing
    <3> QED
      BY <3>1 DEF RatesInv, RatesSound
  <2> QED
    BY <2>1, <2>2, <2>3, <2>4 DEF HealthInv
<1>6. CASE HostStep
  <2>1. UNCHANGED <<env, states, streak, raised>>
    BY <1>6 DEF HostStep
  <2>2. CollectorTypeOK' /\ RatesInv'
    BY <1>6, HostSteps, HostRates DEF HealthInv
  <2>3. AlertInv'
    BY <2>1, Zenon DEF HealthInv, AlertInv
  <2> QED
    BY <2>1, <2>2, <2>3 DEF HealthInv
<1>7. CASE UNCHANGED vars
  BY <1>1, <1>7 DEF vars
<1> QED
  BY <1>2, <1>3, <1>4, <1>5, <1>6, <1>7 DEF Next, Daemon

\* The inductive invariant: the host and what is remembered of it are well formed, each
\* alert's counters agree with the history of its condition, and each counter's gain is
\* bounded by what its device moved.
THEOREM HealthInductive == Spec => []HealthInv
  BY HealthInit, HealthStep, PTL DEF Spec

\* An alert is active exactly while its condition is sustained, for every sequence of
\* measurements, faults and restarts (alert.rs: eval_numeric).
THEOREM AlertsAreSustained == Spec => []Sustained
<1>1. HealthInv => Sustained
  BY DEF HealthInv, AlertInv, AlertOK, Sustained
<1> QED
  BY <1>1, HealthInductive, PTL

\* No snapshot reports more traffic of a device than it moved (collector.rs:
\* counter_delta, collect_disk, collect_network).
THEOREM RatesAreSound == Spec => []RatesSound
<1>1. HealthInv => RatesSound
  BY DEF HealthInv, RatesInv
<1> QED
  BY <1>1, HealthInductive, PTL

-----------------------------------------------------------------------------
(* The log *)

\* The library states well-founded induction with an operator as a parameter; its form
\* with a least element needs none.
LEMMA LeastNatural ==
    ASSUME NEW T, T \subseteq Nat, T # {}
    PROVE  \E n \in T : \A m \in T : n <= m
<1> DEFINE R == {p \in Nat \X Nat : p[1] < p[2]}
<1>1. IsWellFoundedOn(R, Nat)
  BY NatLessThanWellFounded DEF OpToRel
<1>2. PICK n \in T : \A m \in T : ~(<<m, n>> \in R)
  <2> HIDE DEF R
  <2> QED
    BY <1>1, WFMin
<1>3. ASSUME NEW m \in T, ~(n <= m) PROVE FALSE
  <2>1. m \in Nat /\ n \in Nat /\ m < n
    BY <1>3
  <2>2. <<m, n>> \in R
    BY <2>1
  <2> QED
    BY <1>2, <2>2
<1> QED
  BY <1>3

\* The members of a set of numbers, counted from the lowest.
LEMMA Ranks ==
    ASSUME NEW n \in Nat, NEW E \in SUBSET (1..n)
    PROVE  /\ Cardinality(E) \in Nat
           /\ \A k \in 1..Cardinality(E) : \E x \in E : Cardinality({m \in E : m <= x}) = k
           /\ \A x \in E : Cardinality({m \in E : m <= x}) \in 1..Cardinality(E)
           /\ \A x, y \in E :
                 Cardinality({m \in E : m <= x}) = Cardinality({m \in E : m <= y}) => x = y
<1> DEFINE Upto(x) == {m \in E : m <= x}
           c == Cardinality(E)
<1>1. IsFiniteSet(E) /\ c \in Nat
  <2>1. IsFiniteSet(1..n)
    BY FS_Interval
  <2>2. IsFiniteSet(E)
    BY <2>1, FS_Subset
  <2> QED
    BY <2>2, FS_CardinalityType
<1>2. ASSUME NEW x \in E PROVE Cardinality(Upto(x)) \in 1..c
  <2>1. Upto(x) \in SUBSET E
    OBVIOUS
  <2>2. x \in Upto(x)
    OBVIOUS
  <2> HIDE DEF Upto
  <2>3. IsFiniteSet(Upto(x)) /\ Cardinality(Upto(x)) <= c
    BY <1>1, <2>1, FS_Subset
  <2>4. Cardinality(Upto(x)) \in Nat /\ Cardinality(Upto(x)) # 0
    BY <2>2, <2>3, FS_CardinalityType, FS_EmptySet
  <2> QED
    BY <1>1, <2>3, <2>4
<1>3. ASSUME NEW x \in E, NEW y \in E, Cardinality(Upto(x)) = Cardinality(Upto(y)), x < y
      PROVE  FALSE
  <2>1. Upto(x) \in SUBSET Upto(y) /\ y \in Upto(y) /\ y \notin Upto(x)
    <3>1. x \in Int /\ y \in Int /\ x < y
      BY <1>3
    <3>2. \A m \in E : m \in Int /\ (m <= x => m <= y)
      BY <3>1
    <3>3. y <= y /\ ~(y <= x)
      BY <3>1
    <3>4. \A m \in Upto(x) : m \in Upto(y)
      BY <3>2
    <3> QED
      BY <3>3, <3>4
  <2>2. Upto(y) \in SUBSET E
    OBVIOUS
  <2> HIDE DEF Upto
  <2>3. IsFiniteSet(Upto(y))
    BY <1>1, <2>2, FS_Subset
  <2>4. Upto(x) = Upto(y)
    BY <1>3, <2>1, <2>3, FS_Subset
  <2> QED
    BY <2>1, <2>4
<1>4. ASSUME NEW x \in E, NEW y \in E, Cardinality(Upto(x)) = Cardinality(Upto(y)) PROVE x = y
  <2>1. x \in Int /\ y \in Int /\ ~(x < y) /\ ~(y < x)
    BY <1>3, <1>4
  <2> QED
    BY <2>1
<1> HIDE DEF Upto
<1> DEFINE f == [x \in E |-> Cardinality(Upto(x))]
<1>5. f \in Injection(E, 1..c)
  BY <1>2, <1>4 DEF Injection, IsInjective
<1>6. IsFiniteSet(1..c) /\ Cardinality(1..c) = c
  BY <1>1, FS_Interval
<1>7. f \in Surjection(E, 1..c)
  <2> HIDE DEF f, c
  <2> QED
    BY <1>5, <1>6, FS_Injection DEF c
<1>8. ASSUME NEW k \in 1..c PROVE \E x \in E : Cardinality(Upto(x)) = k
  BY <1>7 DEF Surjection
<1> QED
  BY <1>1, <1>2, <1>4, <1>8 DEF Upto

LogRecords == [id : Conditions, active : BOOLEAN]

\* What LogTellsState says, of a log and of the states.
Tells(l, st) ==
    /\ \A j \in 1..Len(l) :
          (\A k \in 1..Len(l) : k > j => l[k].id # l[j].id) => l[j].active = st[l[j].id].active
    /\ \A j, k \in 1..Len(l) :
          /\ j < k /\ l[k].id = l[j].id
          /\ \A m \in 1..Len(l) : j < m /\ m < k => l[m].id # l[j].id
          /\ l[j].active = FALSE
          => l[k].active = TRUE

LEMMA TellsLog ==
    ASSUME log \in Seq(LogRecords), Tells(log, states)
    PROVE  LogTellsState
<1> DEFINE later(j) == {k \in DOMAIN log : k > j /\ log[k].id = log[j].id}
           first(j) == CHOOSE k \in later(j) : \A l \in later(j) : k <= l
<1>0. \A x \in LogRecords : x.active \in BOOLEAN
  BY DEF LogRecords
<1>1. DOMAIN log = 1..Len(log) /\ Len(log) \in Nat
      /\ \A j \in 1..Len(log) : log[j] \in LogRecords /\ log[j].active \in BOOLEAN
  BY <1>0
<1>2. ASSUME NEW j \in DOMAIN log, later(j) = {} PROVE log[j].active = states[log[j].id].active
  BY <1>1, <1>2 DEF Tells
<1>3. ASSUME NEW j \in DOMAIN log, later(j) # {}, ~log[j].active PROVE log[first(j)].active
  <2>1. later(j) \subseteq Nat
    BY <1>1
  <2>2. \E k \in later(j) : \A l \in later(j) : k <= l
    <3> HIDE DEF later
    <3> QED
      BY <1>3, <2>1, LeastNatural
  <2>3. first(j) \in later(j) /\ \A l \in later(j) : first(j) <= l
    BY <2>2
  <2>4. PICK k : k = first(j)
    OBVIOUS
  <2>5. k \in 1..Len(log) /\ j \in 1..Len(log) /\ j < k /\ log[k].id = log[j].id
    BY <1>1, <2>3, <2>4
  <2>6. \A m \in 1..Len(log) : j < m /\ m < k => log[m].id # log[j].id
    BY <1>1, <2>3, <2>4, <2>5
  <2>7. log[j].active = FALSE
    BY <1>1, <1>3, <2>5
  <2>8. log[k].active = TRUE
    BY <2>5, <2>6, <2>7 DEF Tells
  <2> QED
    BY <2>4, <2>8
<1> HIDE DEF first
<1> QED
  BY <1>2, <1>3 DEF LogTellsState, first

\* Dropping records at the old end.
LEMMA TellsSuffix ==
    ASSUME NEW l \in Seq(LogRecords), NEW st, Tells(l, st), NEW n \in 0..Len(l),
           NEW s, s = SubSeq(l, n + 1, Len(l))
    PROVE  s \in Seq(LogRecords) /\ Len(s) = Len(l) - n /\ Tells(s, st)
<1>1. /\ s \in Seq(LogRecords) /\ Len(l) \in Nat /\ Len(s) = Len(l) - n
      /\ \A k \in 1..Len(s) : s[k] = l[k + n] /\ k + n \in 1..Len(l)
  OBVIOUS
<1>2. \A m \in 1..Len(l) : m > n => m - n \in 1..Len(s) /\ s[m - n] = l[m]
  BY <1>1
<1>3. ASSUME NEW j \in 1..Len(s), \A k \in 1..Len(s) : k > j => s[k].id # s[j].id
      PROVE  s[j].active = st[s[j].id].active
  <2>1. ASSUME NEW m \in 1..Len(l), m > j + n PROVE l[m].id # l[j + n].id
    <3>1. m - n \in 1..Len(s) /\ m - n > j /\ s[m - n] = l[m]
      BY <1>1, <1>2, <2>1
    <3> QED
      BY <1>1, <1>3, <3>1
  <2> QED
    BY <1>1, <2>1 DEF Tells
<1>4. ASSUME NEW j \in 1..Len(s), NEW k \in 1..Len(s), j < k, s[k].id = s[j].id,
             \A m \in 1..Len(s) : j < m /\ m < k => s[m].id # s[j].id,
             s[j].active = FALSE
      PROVE  s[k].active = TRUE
  <2>1. ASSUME NEW m \in 1..Len(l), j + n < m, m < k + n PROVE l[m].id # l[j + n].id
    <3>1. m - n \in 1..Len(s) /\ j < m - n /\ m - n < k /\ s[m - n] = l[m]
      BY <1>1, <1>2, <2>1
    <3> QED
      BY <1>1, <1>4, <3>1
  <2>2. j + n \in 1..Len(l) /\ k + n \in 1..Len(l) /\ j + n < k + n
        /\ s[j] = l[j + n] /\ s[k] = l[k + n]
    BY <1>1, <1>4
  <2> QED
    BY <1>4, <2>1, <2>2 DEF Tells
<1> QED
  BY <1>1, <1>3, <1>4 DEF Tells

\* The records of a sample that takes the states from st to su.
Emitted(r, st, su) ==
    /\ r \in Seq(LogRecords)
    /\ \A j, k \in 1..Len(r) : r[j].id = r[k].id => j = k
    /\ \A k \in 1..Len(r) : r[k].active = su[r[k].id].active
    /\ \A k \in 1..Len(r) : st[r[k].id].active = FALSE => r[k].active = TRUE
    /\ \A id \in Conditions :
          (\A k \in 1..Len(r) : r[k].id # id) => su[id].active = st[id].active

\* Appending one record for every condition that a sample records.
LEMMA TellsMore ==
    ASSUME NEW l \in Seq(LogRecords), NEW r, NEW st, NEW su, Tells(l, st), Emitted(r, st, su),
           NEW a, a = l \o r
    PROVE  a \in Seq(LogRecords) /\ Tells(a, su)
<1> USE DEF Emitted
<1>1. /\ a \in Seq(LogRecords) /\ Len(l) \in Nat /\ Len(r) \in Nat /\ Len(a) = Len(l) + Len(r)
      /\ \A k \in 1..Len(l) : a[k] = l[k]
      /\ \A k \in 1..Len(a) : k > Len(l) => a[k] = r[k - Len(l)] /\ k - Len(l) \in 1..Len(r)
  OBVIOUS
<1>2. /\ \A k \in 1..Len(l) : k \in 1..Len(a)
      /\ \A k \in 1..Len(r) : k + Len(l) \in 1..Len(a) /\ k + Len(l) > Len(l)
                              /\ a[k + Len(l)] = r[k]
      /\ \A k \in 1..Len(a) : ~(k > Len(l)) => k \in 1..Len(l)
  BY <1>1
<1>3. ASSUME NEW j \in 1..Len(a), \A k \in 1..Len(a) : k > j => a[k].id # a[j].id
      PROVE  a[j].active = su[a[j].id].active
  <2>1. CASE j > Len(l)
    BY <1>1, <2>1
  <2>2. CASE ~(j > Len(l))
    <3>0. \A x \in LogRecords : x.id \in Conditions
      BY DEF LogRecords
    <3>1. j \in 1..Len(l) /\ a[j] = l[j] /\ l[j].id \in Conditions
      BY <1>1, <1>2, <2>2, <3>0
    <3>2. \A k \in 1..Len(l) : k > j => l[k].id # l[j].id
      BY <1>1, <1>2, <1>3, <3>1
    <3>3. l[j].active = st[l[j].id].active
      BY <3>1, <3>2 DEF Tells
    <3>4. \A k \in 1..Len(r) : r[k].id # l[j].id
      <4>1. \A k \in 1..Len(r) : k + Len(l) > j
        BY <1>1, <3>1
      <4> QED
        BY <1>2, <1>3, <3>1, <4>1, ZenonT(40)
    <3> QED
      BY <3>1, <3>3, <3>4, ZenonT(40)
  <2> QED
    BY <2>1, <2>2
<1>4. ASSUME NEW j \in 1..Len(a), NEW k \in 1..Len(a), j < k, a[k].id = a[j].id,
             \A m \in 1..Len(a) : j < m /\ m < k => a[m].id # a[j].id,
             a[j].active = FALSE
      PROVE  a[k].active = TRUE
  <2>1. CASE ~(k > Len(l))
    <3>1. j \in 1..Len(l) /\ k \in 1..Len(l) /\ a[j] = l[j] /\ a[k] = l[k]
      BY <1>1, <1>2, <1>4, <2>1
    <3>2. \A m \in 1..Len(l) : j < m /\ m < k => l[m].id # l[j].id
      BY <1>1, <1>2, <1>4, <3>1
    <3> QED
      BY <1>4, <3>1, <3>2 DEF Tells
  <2>2. CASE k > Len(l) /\ ~(j > Len(l))
    <3>1. j \in 1..Len(l) /\ a[j] = l[j] /\ k - Len(l) \in 1..Len(r) /\ a[k] = r[k - Len(l)]
      BY <1>1, <1>2, <2>2
    <3>2. ASSUME NEW m \in 1..Len(l), m > j PROVE l[m].id # l[j].id
      <4>1. m < k /\ m \in 1..Len(a) /\ a[m] = l[m]
        BY <1>1, <1>2, <2>2, <3>2
      <4> QED
        BY <1>4, <3>1, <3>2, <4>1
    <3>3. l[j].active = st[l[j].id].active
      BY <3>1, <3>2 DEF Tells
    <3>4. st[r[k - Len(l)].id].active = FALSE
      BY <1>4, <3>1, <3>3
    <3> QED
      BY <3>1, <3>4
  <2>3. CASE k > Len(l) /\ j > Len(l)
    <3>1. /\ j - Len(l) \in 1..Len(r) /\ a[j] = r[j - Len(l)]
          /\ k - Len(l) \in 1..Len(r) /\ a[k] = r[k - Len(l)]
      BY <1>1, <2>3
    <3>2. j - Len(l) = k - Len(l)
      BY <1>4, <3>1
    <3> QED
      BY <1>1, <1>4, <3>2
  <2> QED
    BY <2>1, <2>2, <2>3
<1> QED
  BY <1>1, <1>3, <1>4 DEF Tells

\* What Records returns: one record for each condition that emits one, and no other,
\* with the state that the sample leaves the condition in.
LEMMA RecordFacts ==
    ASSUME AlertInv, CollectorTypeOK, Evaluate(Measured), AlertInv',
           NEW r, r = Records(Measured)
    PROVE  Emitted(r, states, states')
<1> DEFINE Em(id) == Emits(id, states[id], Measured[id])
           E == {n \in DOMAIN Order : Em(Order[n])}
           Place(n) == Cardinality({m \in E : m <= n})
           Nth(k) == CHOOSE n \in E : Place(n) = k
<1>1. DOMAIN Order = 1..10 /\ Conditions = {Order[n] : n \in 1..10}
  BY DEF Order, Conditions, Rule
<1>2. \A m, n \in 1..10 : Order[m] = Order[n] => m = n
  BY DEF Order
<1>3. r = [k \in 1..Cardinality(E) |->
             [id |-> Order[Nth(k)],
              active |-> Eval(Order[Nth(k)], states[Order[Nth(k)]], Measured[Order[Nth(k)]]).active]]
  BY DEF Records
<1>4. E \in SUBSET (1..10)
  BY <1>1
<1>5. /\ Cardinality(E) \in Nat
      /\ \A k \in 1..Cardinality(E) : \E n \in E : Place(n) = k
      /\ \A n \in E : Place(n) \in 1..Cardinality(E)
      /\ \A m, n \in E : Place(m) = Place(n) => m = n
  <2> HIDE DEF E
  <2> QED
    BY <1>4, Ranks
<1> HIDE DEF Place
<1>6. \A k \in 1..Cardinality(E) : Nth(k) \in E /\ Place(Nth(k)) = k
  BY <1>5
<1>7. \A n \in E : Nth(Place(n)) = n
  BY <1>5, <1>6
<1> HIDE DEF Nth
<1>8. \A n \in E : n \in 1..10 /\ Order[n] \in Conditions /\ Em(Order[n])
  BY <1>1
<1>9. \A id \in Conditions : Em(id) => \E n \in E : Order[n] = id
  BY <1>1
<1> HIDE DEF E, Em
<1>10. \A id \in Conditions :
          /\ states'[id] = Eval(id, states[id], Measured[id])
          /\ states'[id].active \in BOOLEAN /\ states[id].active \in BOOLEAN
  BY DEF Evaluate, AlertInv, AlertOK
<1>11. ASSUME NEW k \in 1..Cardinality(E)
       PROVE  /\ r[k] = [id |-> Order[Nth(k)], active |-> states'[Order[Nth(k)]].active]
              /\ r[k].id = Order[Nth(k)] /\ r[k].id \in Conditions
              /\ r[k].active = states'[r[k].id].active /\ Em(r[k].id)
  BY <1>3, <1>6, <1>8, <1>10
<1>12. /\ Len(r) = Cardinality(E) /\ r \in Seq(LogRecords)
  <2>0. \A id \in Conditions, up \in BOOLEAN : [id |-> id, active |-> up] \in LogRecords
    BY Zenon DEF LogRecords
  <2>1. \A k \in 1..Cardinality(E) : r[k] \in LogRecords
    BY <1>10, <1>11, <2>0
  <2>2. r \in [1..Cardinality(E) -> LogRecords]
    BY <1>3, <2>1
  <2> QED
    BY <1>5, <2>2
<1>13. ASSUME NEW j \in 1..Len(r), NEW k \in 1..Len(r), r[j].id = r[k].id PROVE j = k
  <2>1. Order[Nth(j)] = Order[Nth(k)] /\ Nth(j) \in 1..10 /\ Nth(k) \in 1..10
    BY <1>6, <1>8, <1>11, <1>12, <1>13
  <2>2. Nth(j) = Nth(k)
    BY <1>2, <2>1
  <2> QED
    BY <1>6, <1>12, <2>2
<1>14. ASSUME NEW id \in Conditions, Em(id), states[id].active = FALSE
       PROVE  states'[id].active = TRUE
  <2>1. Raises(id, states[id], Measured[id])
    BY <1>14 DEF Em, Emits, Resolves, Moves
  <2>2. Eval(id, states[id], Measured[id]).active = TRUE
    BY <1>14, <2>1 DEF Eval
  <2> QED
    BY <1>10, <2>2
<1>15. ASSUME NEW id \in Conditions, ~Em(id)
       PROVE  states'[id].active = states[id].active
  <2>1. ~Resolves(id, states[id], Measured[id]) /\ ~Raises(id, states[id], Measured[id])
    BY <1>15 DEF Em, Emits
  <2>2. CASE states[id].active = TRUE
    <3>1. Eval(id, states[id], Measured[id]).active = TRUE
      BY <2>1, <2>2 DEF Eval
    <3> QED
      BY <1>10, <2>2, <3>1
  <2>3. CASE states[id].active = FALSE
    <3>1. Eval(id, states[id], Measured[id]).active = FALSE
      BY <2>1, <2>3 DEF Eval
    <3> QED
      BY <1>10, <2>3, <3>1
  <2> QED
    BY <1>10, <2>2, <2>3
<1>16. ASSUME NEW id \in Conditions, \A k \in 1..Len(r) : r[k].id # id PROVE ~Em(id)
  <2>1. ASSUME NEW n \in E, Order[n] = id PROVE FALSE
    <3>1. Place(n) \in 1..Len(r) /\ r[Place(n)].id = Order[Nth(Place(n))]
      BY <1>5, <1>11, <1>12
    <3> QED
      BY <1>7, <1>16, <2>1, <3>1
  <2> QED
    BY <1>9, <2>1
<1> QED
  BY <1>11, <1>12, <1>13, <1>14, <1>15, <1>16 DEF Emitted

\* A sample keeps the log true and within its limit.
LEMMA SampleLog ==
    ASSUME AlertInv, CollectorTypeOK, Evaluate(Measured), AlertInv',
           log \in Seq(LogRecords), Tells(log, states)
    PROVE  log' \in Seq(LogRecords) /\ Len(log') <= MaxLog /\ Tells(log', states')
<1>1. PICK r : r = Records(Measured)
  OBVIOUS
<1>2. PICK a : a = log \o r
  OBVIOUS
<1>3. a \in Seq(LogRecords) /\ Tells(a, states')
  <2>1. Emitted(r, states, states')
    BY <1>1, RecordFacts
  <2> QED
    BY <1>2, <2>1, TellsMore
<1>4. PICK cut : cut = IF Len(a) > MaxLog THEN Len(a) - MaxLog ELSE 0
  OBVIOUS
<1>5. Len(a) \in Nat /\ cut \in 0..Len(a) /\ Len(a) - cut <= MaxLog
  <2>1. Len(a) \in Nat
    BY <1>3
  <2> QED
    BY <1>4, <2>1, MaxLogAssumption
<1>6. log' = SubSeq(a, cut + 1, Len(a))
  BY <1>1, <1>2, <1>4 DEF Evaluate, Pushed
<1>7. log' \in Seq(LogRecords) /\ Len(log') = Len(a) - cut /\ Tells(log', states')
  BY <1>3, <1>5, <1>6, TellsSuffix
<1> QED
  BY <1>5, <1>7

-----------------------------------------------------------------------------
(* Types and the log, for the daemon *)

LogInv == TypeOK /\ Tells(log, states)

\* The states are records of the engine's type.
LEMMA StatesTyped ==
    ASSUME AlertInv', CollectorTypeOK, AlertsTypeOK, Evaluate(Measured)
    PROVE  states' \in [Conditions -> [active : BOOLEAN, above_samples : Nat,
                                       below_samples : Nat, emitted : Int]]
<1>1. ASSUME NEW id \in Conditions
      PROVE  states'[id] \in [active : BOOLEAN, above_samples : Nat, below_samples : Nat,
                              emitted : Int]
  <2>1. PICK s, v : s = states[id] /\ v = Measured[id]
    OBVIOUS
  <2>2. states'[id] = Eval(id, s, v)
    BY <2>1 DEF Evaluate
  <2>3. s.emitted \in Int /\ v \in Int
    BY <2>1, MeasuredNumbers DEF AlertsTypeOK
  <2>4. Eval(id, s, v).emitted \in Int
    BY <2>3 DEF Eval
  <2>5. /\ states'[id].active \in BOOLEAN /\ states'[id].above_samples \in Nat
        /\ states'[id].below_samples \in Nat
    BY DEF AlertInv, AlertOK
  <2>6. Eval(id, s, v) = [active |-> Eval(id, s, v).active,
                          above_samples |-> Eval(id, s, v).above_samples,
                          below_samples |-> Eval(id, s, v).below_samples,
                          emitted |-> Eval(id, s, v).emitted]
    BY Zenon DEF Eval
  <2> QED
    BY <2>2, <2>4, <2>5, <2>6
<1>2. states' = [id \in Conditions |-> states'[id]]
  BY DEF Evaluate
<1> QED
  BY <1>1, <1>2

LEMMA SampleLogInv ==
    ASSUME HealthInv, HealthInv', LogInv, Sample, env' = env, queued' = queued,
           pc' \in {"start", "accept", "serve", "due", "sleep", "down"}
    PROVE  LogInv'
<1>1. Evaluate(Measured) /\ AlertInv /\ AlertInv' /\ CollectorTypeOK /\ CollectorTypeOK'
  BY DEF Sample, HealthInv
<1>2. log \in Seq(LogRecords) /\ Tells(log, states) /\ AlertsTypeOK
  BY DEF LogInv, TypeOK, AlertsTypeOK, LogRecords
<1>3. log' \in Seq(LogRecords) /\ Len(log') <= MaxLog /\ Tells(log', states')
  BY <1>1, <1>2, SampleLog
<1>4. AlertsTypeOK'
  BY <1>1, <1>2, <1>3, StatesTyped DEF AlertsTypeOK, LogRecords
<1>5. stable' \in 0..StableTicks /\ wait' \in 0..MaxInterval
  <2>1. stable \in 0..StableTicks
    BY DEF LogInv, TypeOK
  <2>2. stable' \in {0, stable} \/ (stable < StableTicks /\ stable' = stable + 1)
    BY DEF Sample, ComputeInterval
  <2>3. wait' \in {MinInterval, NormalInterval, MaxInterval}
    BY DEF Sample, ComputeInterval
  <2> QED
    BY <2>1, <2>2, <2>3, HealthAssumption
<1>6. latest'.alerts \subseteq Conditions
  BY DEF Sample, ActiveAlerts
<1>7. env' \in Scenarios /\ queued' \in Nat
  BY DEF LogInv, TypeOK
<1> QED
  BY <1>1, <1>3, <1>4, <1>5, <1>6, <1>7 DEF LogInv, TypeOK

LEMMA FreshLog ==
    ASSUME NEW st, st = [id \in Conditions |-> NewState]
    PROVE  /\ st \in [Conditions -> [active : BOOLEAN, above_samples : Nat,
                                     below_samples : Nat, emitted : Int]]
           /\ <<>> \in Seq([id : Conditions, active : BOOLEAN]) /\ Len(<<>>) <= MaxLog
           /\ Tells(<<>>, st) /\ NoSnapshot.alerts \subseteq Conditions
<1>1. NewState \in [active : BOOLEAN, above_samples : Nat, below_samples : Nat, emitted : Int]
  BY DEF NewState
<1> QED
  BY <1>1, MaxLogAssumption DEF Tells, NoSnapshot

LEMMA LogInvInit == Init => LogInv
<1> SUFFICES ASSUME Init PROVE LogInv
  OBVIOUS
<1>1. HealthInv
  BY HealthInit
<1>2. states = [id \in Conditions |-> NewState] /\ log = <<>>
  BY DEF Init, AlertsInit
<1>3. AlertsTypeOK /\ Tells(log, states)
  BY <1>2, FreshLog DEF AlertsTypeOK
<1>4. /\ pc = "start" /\ queued = 0 /\ wait = 0 /\ stable = 0 /\ latest = NoSnapshot
  BY DEF Init
<1>5. wait \in 0..MaxInterval /\ stable \in 0..StableTicks
  BY <1>4, HealthAssumption
<1> QED
  BY <1>1, <1>3, <1>4, <1>5, FreshLog DEF LogInv, TypeOK, HealthInv

LEMMA LogInvStep == HealthInv /\ HealthInv' /\ LogInv /\ [Next]_vars => LogInv'
<1> SUFFICES ASSUME HealthInv, HealthInv', LogInv, [Next]_vars PROVE LogInv'
  OBVIOUS
<1>0. env' \in Scenarios /\ CollectorTypeOK'
  BY DEF HealthInv
<1>1. ASSUME UNCHANGED <<states, log, stable, latest>>, wait' \in 0..MaxInterval,
             queued' \in Nat, pc' \in {"start", "accept", "serve", "due", "sleep", "down"}
      PROVE  LogInv'
  BY <1>0, <1>1 DEF LogInv, TypeOK, AlertsTypeOK
<1>2. /\ queued \in Nat /\ wait \in 0..MaxInterval
      /\ pc \in {"start", "accept", "serve", "due", "sleep", "down"}
  BY DEF LogInv, TypeOK
<1>3. CASE FirstSample
  BY <1>3, SampleLogInv DEF FirstSample
<1>4. CASE AcceptClient \/ Serve \/ AcceptEnds \/ AcceptFails \/ Sleep \/ Connect
  BY <1>1, <1>2, <1>4, HealthAssumption DEF AcceptClient, Serve, AcceptEnds, AcceptFails, Sleep, Connect
<1>5. CASE SampleDue
  <2>1. CASE wait = 0
    BY <1>5, <2>1, SampleLogInv DEF SampleDue
  <2>2. CASE wait # 0
    BY <1>1, <1>2, <1>5, <2>2 DEF SampleDue
  <2> QED
    BY <2>1, <2>2
<1>6. CASE Restart
  <2>1. /\ states' = [id \in Conditions |-> NewState] /\ log' = <<>> /\ latest' = NoSnapshot
        /\ stable' = 0 /\ wait' = 0 /\ queued' = 0 /\ pc' = "start"
    BY <1>6 DEF Restart, FreshMonitor
  <2>2. AlertsTypeOK' /\ Tells(log', states')
    BY <2>1, FreshLog DEF AlertsTypeOK
  <2>3. wait' \in 0..MaxInterval /\ stable' \in 0..StableTicks
    BY <2>1, HealthAssumption
  <2> QED
    BY <1>0, <2>1, <2>2, <2>3, FreshLog DEF LogInv, TypeOK
<1>7. CASE HostStep
  BY <1>1, <1>2, <1>7 DEF HostStep, daemonVars
<1>8. CASE UNCHANGED vars
  BY <1>1, <1>2, <1>8 DEF vars
<1> QED
  BY <1>3, <1>4, <1>5, <1>6, <1>7, <1>8 DEF Next, Daemon

LEMMA LogInductive == Spec => []LogInv
  BY HealthInductive, LogInvInit, LogInvStep, PTL DEF Spec

\* The daemon's variables keep their types: the log never outgrows its limit, and the
\* interval and the count of calm samples stay within theirs (push_record,
\* compute_interval).
THEOREM HealthTypes == Spec => []TypeOK
  BY LogInductive, PTL DEF LogInv

\* The retained part of the log always tells the state of every condition it mentions,
\* whatever was pushed out at its old end, for every limit of the log and every sequence
\* of samples, faults and restarts (alert.rs: eval_numeric, push_record).
THEOREM LogsTellState == Spec => []LogTellsState
<1>1. LogInv => LogTellsState
  BY TellsLog DEF LogInv, TypeOK, AlertsTypeOK, LogRecords
<1> QED
  BY <1>1, LogInductive, PTL
=============================================================================
