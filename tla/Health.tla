------------------------------- MODULE Health -------------------------------
(***************************************************************************)
(* The health daemon (crates/sentia-health/src/monitor.rs and daemon.rs):  *)
(* one thread that serves the latest snapshot to every client that         *)
(* connected, samples the host when a sample is due, and sleeps.  The      *)
(* interval between samples adapts to alerts and to changes; it is counted *)
(* in sleeps of the loop.  The write to a client is blocking and a sample  *)
(* runs commands without a deadline: neither has to end.  Any error of     *)
(* accept ends the process, and systemd starts a new one that remembers    *)
(* nothing.                                                                *)
(***************************************************************************)
EXTENDS HealthAlerts, HealthCollector

CONSTANTS Scenarios,     \* which parts of the host change, and how
          MinInterval, NormalInterval, MaxInterval,
          StableTicks,   \* stable samples before the longest interval (5 in the code)
          NetStep, DiskStep   \* a significant change of traffic
ASSUME HealthAssumption ==
    /\ MinInterval \in Nat \ {0} /\ StableTicks \in Nat
    /\ NormalInterval \in Nat /\ MaxInterval \in Nat
    /\ NormalInterval >= MinInterval /\ MaxInterval >= NormalInterval
    /\ \A e \in Scenarios :
         /\ HostOK(e.host)
         /\ e.ticks \subseteq Ticks /\ \A pids \in e.pids : IsFiniteSet(pids)
         /\ DOMAIN e.facts = Facts
         /\ \A fact \in Facts : \A v \in e.facts[fact] : FactOK(fact, v)
         /\ e.faults \subseteq Sources

VARIABLES env,        \* the scenario
          pc,         \* where run_daemon is
          queued,     \* connections that wait to be accepted (at most env.backlog)
          wait,       \* sleeps until the next sample is due
          stable,     \* HealthMonitor::stable_ticks
          previous,   \* HealthMonitor::previous, as far as it is compared
          latest,     \* the snapshot that clients get
          restarts,   \* how often the daemon was restarted (at most env.restarts)
          streak, raised       \* history of every condition, see Noted

daemonVars == <<pc, queued, wait, stable, previous, latest, restarts>>
vars == <<states, log, host, memory, moved, env, pc, queued, wait, stable, previous,
          latest, restarts, streak, raised>>

None == [cpu |-> -1]
NoSnapshot == [alerts |-> {}, rates |-> [t \in Tables |-> Nothing], truth |-> NoTraffic]
LongestRule == 3

\* HealthMonitor::new, also after a restart.
FreshMonitor ==
    /\ states' = [id \in Conditions |-> NewState] /\ log' = <<>>
    /\ memory' = NewMemory /\ moved' = NoTraffic
    /\ stable' = 0 /\ previous' = None
    /\ streak' = [id \in Conditions |-> [above |-> 0, clear |-> 0]]
    /\ raised' = [id \in Conditions |-> FALSE]

Init ==
    /\ env \in Scenarios /\ host = env.host
    /\ AlertsInit
    /\ memory = NewMemory /\ moved = NoTraffic
    /\ pc = "start" /\ queued = 0 /\ wait = 0 /\ stable = 0 /\ previous = None
    /\ latest = NoSnapshot /\ restarts = 0
    /\ streak = [id \in Conditions |-> [above |-> 0, clear |-> 0]]
    /\ raised = [id \in Conditions |-> FALSE]
-----------------------------------------------------------------------------
Total(t) == MapThenSumSet(LAMBDA d : Rates(t)[d], DOMAIN Rates(t))

\* What compute_interval compares of two snapshots.
Summary ==
    [cpu |-> CpuUtilization, memory |-> UsedMemory,
     net |-> Total("net/dev"), disk |-> Total("diskstats"),
     lists |-> <<FullFilesystems, FailedUnits, KernelErrors>>]

IsSignificantChange(before, now) ==
    \/ Distance(before.cpu, now.cpu) >= 100
    \/ Distance(before.memory, now.memory) >= 50
    \/ Distance(before.net, now.net) >= NetStep
    \/ Distance(before.disk, now.disk) >= DiskStep
    \/ before.lists # now.lists

\* compute_interval: an alert shortens the interval, a run of calm samples lengthens it.
Calm == ActiveAlerts' = {} /\ previous # None /\ ~IsSignificantChange(previous, Summary)
ComputeInterval ==
    /\ stable' = IF ~Calm THEN 0
                 ELSE IF stable < StableTicks THEN stable + 1 ELSE stable
    /\ wait' = CASE ActiveAlerts' # {} -> MinInterval
                 [] Calm /\ stable + 1 >= StableTicks -> MaxInterval
                 [] OTHER -> NormalInterval

\* History: for how many samples in a row each condition was over its threshold or
\* clear, and whether that makes it a sustained condition.
Run(n, more) == IF ~more THEN 0 ELSE IF n < LongestRule THEN n + 1 ELSE n
Noted(value) ==
    /\ streak' = [id \in Conditions |->
                    [above |-> Run(streak[id].above, Above(id, value[id])),
                     clear |-> Run(streak[id].clear, Clear(id, value[id]))]]
    /\ raised' = [id \in Conditions |->
                    IF streak'[id].above >= Rule[id].required_samples THEN TRUE
                    ELSE IF streak'[id].clear >= Rule[id].required_samples THEN FALSE
                    ELSE raised[id]]

\* HealthMonitor::sample.
Sample ==
    /\ \E value \in {Measured} : Evaluate(value) /\ Noted(value)
    /\ Collect
    /\ ComputeInterval
    /\ previous' = Summary
    /\ latest' = [alerts |-> ActiveAlerts', rates |-> [t \in Tables |-> Rates(t)],
                  truth |-> moved]
    /\ UNCHANGED host
-----------------------------------------------------------------------------
\* run_daemon: the first sample is taken before the loop.
FirstSample ==
    /\ pc = "start" /\ pc' = "accept"
    /\ Sample
    /\ UNCHANGED <<env, queued, restarts>>

\* The inner loop accepts until no connection waits, however many come meanwhile.
AcceptClient ==
    /\ pc = "accept" /\ queued > 0 /\ pc' = "serve"
    /\ queued' = queued - 1
    /\ UNCHANGED <<states, log, host, memory, moved, env, wait, stable, previous, latest,
                   restarts, streak, raised>>

\* write_snapshot has returned: the client read enough of the latest snapshot, or has
\* left, and the failed write is only reported.
Serve ==
    /\ pc = "serve" /\ pc' = "accept"
    /\ UNCHANGED <<states, log, host, memory, moved, env, queued, wait, stable, previous,
                   latest, restarts, streak, raised>>

AcceptEnds ==
    /\ pc = "accept" /\ queued = 0 /\ pc' = "due"
    /\ UNCHANGED <<states, log, host, memory, moved, env, queued, wait, stable, previous,
                   latest, restarts, streak, raised>>

\* Any other error of accept leaves run_daemon, and the process.
AcceptFails ==
    /\ pc = "accept" /\ restarts < env.restarts
    /\ pc' = "down"
    /\ UNCHANGED <<states, log, host, memory, moved, env, queued, wait, stable, previous,
                   latest, restarts, streak, raised>>

\* Restart=on-failure: the socket is removed and bound again, its backlog is lost.
Restart ==
    /\ pc = "down" /\ pc' = "start"
    /\ queued' = 0 /\ wait' = 0 /\ latest' = NoSnapshot
    /\ restarts' = restarts + 1
    /\ FreshMonitor
    /\ UNCHANGED <<env, host>>

\* Mutant: the sample that is due waits for a moment without alerts.
SampleDueQuiet ==
    /\ pc = "due" /\ pc' = "sleep"
    /\ IF wait = 0 /\ latest.alerts = {} THEN Sample
       ELSE UNCHANGED <<states, log, host, memory, moved, wait, stable, previous, latest,
                        streak, raised>>
    /\ UNCHANGED <<env, queued, restarts>>

SampleDue ==
    /\ pc = "due" /\ pc' = "sleep"
    /\ IF wait = 0 THEN Sample
       ELSE UNCHANGED <<states, log, host, memory, moved, wait, stable, previous, latest,
                        streak, raised>>
    /\ UNCHANGED <<env, queued, restarts>>

Sleep ==
    /\ pc = "sleep" /\ pc' = "accept"
    /\ wait' = IF wait > 0 THEN wait - 1 ELSE 0
    /\ UNCHANGED <<states, log, host, memory, moved, env, queued, stable, previous, latest,
                   restarts, streak, raised>>

\* fetch_snapshot_from_socket, and every other client, as often as it likes.
Connect ==
    /\ pc # "down" /\ queued < env.backlog
    /\ queued' = queued + 1
    /\ UNCHANGED <<states, log, host, memory, moved, env, pc, wait, stable, previous, latest,
                   restarts, streak, raised>>

\* Only a sample reads the host, so everything that happens to it between two samples
\* is put into the sleep before the second one.
HostStep ==
    /\ pc = "start" \/ (pc = "sleep" /\ wait <= 1)
    /\ \/ \E t \in Tables : \E d \in env.devices[t] :
            Traffic(t, d) \/ CounterReset(t, d) \/ Unplug(t, d) \/ Plug(t, d)
       \/ \E ticks \in env.ticks : Work(ticks)
       \/ \E pids \in env.pids : Processes(pids)
       \/ \E fact \in DOMAIN env.facts : \E v \in env.facts[fact] : Become(fact, v)
       \/ \E source \in env.faults : Break(source)
    /\ UNCHANGED <<states, log, env, streak, raised, daemonVars>>

Daemon ==
    \/ FirstSample \/ AcceptClient \/ Serve \/ AcceptEnds \/ Restart \/ SampleDue \/ Sleep

Next == Daemon \/ AcceptFails \/ Connect \/ HostStep

\* thread::sleep returns.  Nothing else is promised: clients may keep the inner loop busy
\* for ever, one that does not read blocks it, and so does a command that does not end.
Fairness == WF_vars(Sleep)

Spec == Init /\ [][Next]_vars /\ Fairness
-----------------------------------------------------------------------------
TypeOK ==
    /\ AlertsTypeOK /\ CollectorTypeOK
    /\ env \in Scenarios
    /\ pc \in {"start", "accept", "serve", "due", "sleep", "down"}
    /\ queued \in Nat /\ wait \in 0..MaxInterval /\ stable \in 0..StableTicks
    /\ latest.alerts \subseteq Conditions

\* An alert is active exactly while its condition is sustained: it was over the
\* threshold in as many samples in a row as its rule requires, and has not since been
\* clear in as many in a row; single samples in between change nothing
\* (AlertEngine::eval_numeric).
Sustained ==
    \A id \in Conditions : states[id].active = raised[id]

\* A snapshot never reports more traffic of a device than it moved since the previous
\* sample, whatever its counter did: restarted, gone and back, or not readable in
\* between (collect_disk, collect_network).
RatesSound ==
    \A t \in Tables : \A d \in DOMAIN latest.rates[t] :
        latest.rates[t][d] <= latest.truth[t][d]

\* As long as the loop keeps coming round to its sleep, a condition that is over its
\* threshold whenever a sample is due from some time on ends up in the snapshot that
\* clients get and stays there, and one that is clear then ends up out of it, whatever the
\* intervals, the clients in between and a restart do (run_daemon).  Whether the loop
\* comes round is up to clients and commands: see Fairness.
Due == pc = "due" /\ wait = 0
Detected ==
    []<>(pc = "sleep") => \A id \in Conditions :
        /\ <>[](Due => Above(id, Measured[id])) => <>[](id \in latest.alerts)
        /\ <>[](Due => Clear(id, Measured[id])) => <>[](id \notin latest.alerts)
=============================================================================
