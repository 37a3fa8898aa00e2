-------------------------- MODULE HealthCollector --------------------------
(***************************************************************************)
(* HealthCollector::collect (crates/sentia-health/src/collector.rs, with   *)
(* the parsers of procfs.rs): what one sample reads of the host and what   *)
(* the collector remembers for the next one.  The host is a set of named   *)
(* sources, files under /proc and /sys or fixed commands, any of which may *)
(* be unreadable, missing, denied or malformed.  Percentages and degrees   *)
(* are in tenths; counters (CPU ticks, bytes of a disk or an interface)    *)
(* are kept as counters.  Texts and per-process samples are left out.      *)
(***************************************************************************)
EXTENDS Integers, Sequences, FiniteSets, FiniteSetsExt

CONSTANTS Devices,          \* names a disk or a network interface may have
          MaxCount,         \* bound on a counter
          MaxFilesystems,   \* CollectorConfig::max_filesystems
          MaxListed         \* max_failed_units, max_kernel_errors
ASSUME CollectorAssumption ==
    MaxCount \in Nat /\ MaxFilesystems \in Nat /\ MaxListed \in Nat \ {0}

VARIABLES host,    \* what the kernel and the tools would report now
          memory,  \* HealthCollector::prev_*
          moved    \* history: bytes each device moved since the previous sample
collectorVars == <<host, memory, moved>>

Tables == {"diskstats", "net/dev"}
Sources == Tables \cup {"stat", "proc", "meminfo", "pressure", "mounts", "thermal",
                       "systemctl", "journalctl", "smartctl", "nvme"}

\* What the other sources report, by the condition that looks at it.
Facts == {"memory_high", "swap_high", "memory_pressure", "filesystem_full",
          "temperature_high", "failed_units", "kernel_errors", "disk_health"}

Nothing == [d \in {} |-> 0]
Ticks == [active : 0..MaxCount, total : 0..MaxCount]
NoTicks == [active |-> -1, total |-> -1]

\* Nothing was sampled yet.
NewMemory ==
    [cpu |-> NoTicks, tables |-> [t \in Tables |-> Nothing], pids |-> {}]

-----------------------------------------------------------------------------
\* counter_delta: what a counter gained, and nothing when it went backwards.
CounterDelta(current, previous) == IF current >= previous THEN current - previous ELSE 0

Readable(source) == source \notin host.broken

\* CpuTimes::delta and cpu_utilization_pct, in tenths of a percent.
CpuReset(now, before) == now.total < before.total \/ now.active < before.active
CpuUtilization ==
    LET now == host.cpu
        before == memory.cpu
    IN IF \/ ~Readable("stat") \/ before = NoTicks \/ CpuReset(now, before)
          \/ now.total = before.total
       THEN 0
       ELSE ((now.active - before.active) * 1000) \div (now.total - before.total)

\* collect_disk and collect_network: a device gets a rate only when the previous sample
\* saw it; an unreadable table is an empty one.  A rate is the bytes since the previous
\* sample: the code divides them by the time between the two, and reports 0 when that is 0.
TableNow(t) == IF Readable(t) THEN host.tables[t] ELSE Nothing
Rates(t) ==
    [d \in DOMAIN TableNow(t) |->
        IF d \in DOMAIN memory.tables[t]
        THEN CounterDelta(TableNow(t)[d], memory.tables[t][d])
        ELSE 0]

\* collect_processes counts the processes that came or went; when /proc itself cannot
\* be listed it reports none and remembers what it had.
Churn ==
    IF Readable("proc")
    THEN Cardinality((host.pids \ memory.pids) \cup (memory.pids \ host.pids))
    ELSE 0

\* collect_memory: used memory, used swap and the PSI average, zero when not reported.
UsedMemory == IF Readable("meminfo") THEN host.facts.memory_high ELSE 0
UsedSwap == IF Readable("meminfo") THEN host.facts.swap_high ELSE 0
Pressure == IF Readable("pressure") THEN host.facts.memory_pressure ELSE 0

\* collect_filesystems looks at the MaxFilesystems fullest mounts only, and calls a mount
\* full at 99% or when an unprivileged user has no block left.
Fuller(mounts, i) ==
    {j \in DOMAIN mounts : \/ mounts[j].used > mounts[i].used
                           \/ mounts[j].used = mounts[i].used /\ j < i}
FullFilesystems ==
    LET mounts == IF Readable("mounts") THEN host.facts.filesystem_full ELSE <<>>
    IN Cardinality({i \in DOMAIN mounts :
                        /\ Cardinality(Fuller(mounts, i)) < MaxFilesystems
                        /\ mounts[i].used >= 990 \/ ~mounts[i].available})

\* collect_temperature_from_root: the hottest zone, read in millidegrees or degrees.
Celsius(raw) == IF raw > 200 THEN raw \div 100 ELSE 10 * raw
MaxTemperature ==
    IF Readable("thermal") /\ host.facts.temperature_high # {}
    THEN Max({Celsius(raw) : raw \in host.facts.temperature_high}) ELSE 0

\* collect_failed_units and collect_kernel_errors list what their command prints, up to
\* a limit, and nothing when it is missing, denied or fails.
Listed(source, n) == IF ~Readable(source) THEN 0 ELSE IF n > MaxListed THEN MaxListed ELSE n
FailedUnits == Listed("systemctl", host.facts.failed_units)
KernelErrors == Listed("journalctl", host.facts.kernel_errors)

\* collect_disk_health: each device is asked through its own tool, and one whose tool
\* gives no verdict is unknown; a single degraded device degrades the whole.  (Of a host
\* with more than eight block devices the code looks at the first eight names.)
ProbeSmartctl(verdict) == IF Readable("smartctl") THEN verdict ELSE "unknown"
ProbeNvme(verdict) == IF Readable("nvme") THEN verdict ELSE "unknown"
Verdicts ==
    {IF disk.nvme THEN ProbeNvme(disk.verdict) ELSE ProbeSmartctl(disk.verdict) :
        disk \in host.facts.disk_health}
DiskHealth ==
    CASE "degraded" \in Verdicts -> "degraded"
      [] "degraded" \notin Verdicts /\ "healthy" \in Verdicts -> "healthy"
      [] OTHER -> "unknown"

\* The measurement of every condition that the alert engine looks at.
Measured ==
    [cpu_high |-> CpuUtilization, memory_high |-> UsedMemory, swap_high |-> UsedSwap,
     filesystem_full |-> 10 * FullFilesystems, memory_pressure |-> Pressure,
     failed_units |-> 10 * FailedUnits, kernel_errors |-> 10 * KernelErrors,
     disk_health |-> IF DiskHealth = "degraded" THEN 10 ELSE 0,
     temperature_high |-> MaxTemperature, process_churn |-> 10 * Churn]

\* Mutant: a device that a sample does not see is remembered from an earlier one.
RememberedMerged ==
    [cpu |-> IF Readable("stat") THEN host.cpu ELSE memory.cpu,
     tables |-> [t \in Tables |->
        [d \in DOMAIN TableNow(t) \cup DOMAIN memory.tables[t] |->
            IF d \in DOMAIN TableNow(t) THEN TableNow(t)[d] ELSE memory.tables[t][d]]],
     pids |-> IF Readable("proc") THEN host.pids ELSE memory.pids]

\* What collect leaves behind: the counters it read, the old ones where it read none.
Remembered ==
    [cpu |-> IF Readable("stat") THEN host.cpu ELSE memory.cpu,
     tables |-> [t \in Tables |-> TableNow(t)],
     pids |-> IF Readable("proc") THEN host.pids ELSE memory.pids]
-----------------------------------------------------------------------------
\* What a host may be.  A finite set of temperatures has a largest, which is what the
\* collector looks for.
TablesOK(tables) ==
    /\ DOMAIN tables = Tables
    /\ \A t \in Tables : /\ DOMAIN tables[t] \subseteq Devices
                         /\ tables[t] \in [DOMAIN tables[t] -> Nat]
FactOK(fact, v) ==
    /\ fact \in {"memory_high", "swap_high", "memory_pressure", "failed_units",
                 "kernel_errors"} => v \in Nat
    /\ fact = "filesystem_full" => v \in Seq([used : Nat, available : BOOLEAN])
    /\ fact = "temperature_high" =>
         /\ v \subseteq Nat
         /\ v # {} => \E raw \in v : \A other \in v : Celsius(raw) >= Celsius(other)
HostOK(h) ==
    /\ DOMAIN h = {"cpu", "broken", "pids", "facts", "tables"}
    /\ h.cpu \in Ticks /\ h.broken \subseteq Sources /\ IsFiniteSet(h.pids)
    /\ DOMAIN h.facts = Facts /\ \A fact \in Facts : FactOK(fact, h.facts[fact])
    /\ TablesOK(h.tables)

NoTraffic == [t \in Tables |-> [d \in Devices |-> 0]]

CollectorTypeOK ==
    /\ HostOK(host)
    /\ DOMAIN memory = {"cpu", "tables", "pids"}
    /\ memory.cpu \in Ticks \cup {NoTicks}
    /\ TablesOK(memory.tables) /\ IsFiniteSet(memory.pids)
    /\ moved \in [Tables -> [Devices -> Nat]]

\* collect, as HealthMonitor::sample calls it.
Collect ==
    /\ memory' = Remembered
    /\ moved' = NoTraffic

-----------------------------------------------------------------------------
\* The host changes on its own.  A device's counter may grow, start again from zero
\* (its driver was reloaded), or leave with the device and come back with it.
Traffic(t, d) ==
    /\ d \in DOMAIN host.tables[t] /\ host.tables[t][d] < MaxCount
    /\ moved[t][d] < MaxCount
    /\ host' = [host EXCEPT !.tables[t][d] = @ + 1]
    /\ moved' = [moved EXCEPT ![t][d] = @ + 1]
    /\ UNCHANGED memory

CounterReset(t, d) ==
    /\ d \in DOMAIN host.tables[t]
    /\ host' = [host EXCEPT !.tables[t][d] = 0]
    /\ UNCHANGED <<memory, moved>>

Unplug(t, d) ==
    /\ d \in DOMAIN host.tables[t]
    /\ host' = [host EXCEPT !.tables[t] = [e \in DOMAIN @ \ {d} |-> @[e]]]
    /\ UNCHANGED <<memory, moved>>

Plug(t, d) ==
    /\ d \in Devices \ DOMAIN host.tables[t]
    /\ host' = [host EXCEPT !.tables[t] =
                    [e \in DOMAIN @ \cup {d} |-> IF e = d THEN 0 ELSE @[e]]]
    /\ UNCHANGED <<memory, moved>>

Work(ticks) ==
    /\ host.cpu # ticks
    /\ host' = [host EXCEPT !.cpu = ticks]
    /\ UNCHANGED <<memory, moved>>

Processes(pids) ==
    /\ host.pids # pids
    /\ host' = [host EXCEPT !.pids = pids]
    /\ UNCHANGED <<memory, moved>>

Become(fact, value) ==
    /\ host.facts[fact] # value
    /\ host' = [host EXCEPT !.facts[fact] = value]
    /\ UNCHANGED <<memory, moved>>

Break(source) ==
    /\ host' = [host EXCEPT !.broken =
                    IF source \in @ THEN @ \ {source} ELSE @ \cup {source}]
    /\ UNCHANGED <<memory, moved>>
=============================================================================
