------------------------------ MODULE MCHealth ------------------------------
EXTENDS Health

CONSTANTS d1

Quiet ==
    [memory_high |-> 0, swap_high |-> 0, memory_pressure |-> 0, filesystem_full |-> <<>>,
     temperature_high |-> {}, failed_units |-> 0, kernel_errors |-> 0, disk_health |-> {}]
IdleHost(facts) ==
    [cpu |-> [active |-> 0, total |-> 0], broken |-> {}, pids |-> {}, facts |-> facts,
     tables |-> [t \in Tables |-> Nothing]]
Changing(facts) == [fact \in Facts |-> IF fact \in DOMAIN facts THEN facts[fact] ELSE {}]
Idle ==
    [host |-> IdleHost(Quiet), devices |-> [t \in Tables |-> {}], ticks |-> {}, pids |-> {}, facts |-> Changing(Nothing),
     faults |-> {}, backlog |-> 0, restarts |-> 0]
Mount(used, available) == [used |-> used, available |-> available]
Busy(active, total) == [active |-> active, total |-> total]
Disk(nvme, verdict) == [nvme |-> nvme, verdict |-> verdict]

MCScenarios ==
    {[Idle EXCEPT !.facts = Changing([memory_high |-> {0, 880, 930}]), !.faults = {"meminfo"},
        !.backlog = 2, !.restarts = 1],
     [Idle EXCEPT !.facts = Changing([memory_pressure |-> {0, 5, 10, 16}]), !.faults = {"pressure"}],
     [Idle EXCEPT !.facts = Changing([temperature_high |-> {{}, {45000, 86000}, {82}}]), !.faults = {"thermal"}],
     [Idle EXCEPT !.facts = Changing([disk_health |->
        {{Disk(FALSE, "healthy"), Disk(TRUE, "degraded")}, {Disk(FALSE, "degraded"), Disk(TRUE, "unknown")}}]),
        !.faults = {"smartctl", "nvme"}],
     [Idle EXCEPT !.facts = Changing([filesystem_full |->
        {<<Mount(500, TRUE), Mount(995, TRUE)>>, <<Mount(960, TRUE), Mount(950, FALSE)>>},
        failed_units |-> {0, 1, 3}]), !.faults = {"systemctl", "mounts"}],
     [Idle EXCEPT !.facts = Changing([kernel_errors |-> {0, 1, 3}, swap_high |-> {0, 860}]),
        !.faults = {"journalctl"}],
     [Idle EXCEPT !.devices["diskstats"] = {d1}, !.faults = {"diskstats"}],
     [Idle EXCEPT !.devices["net/dev"] = {d1}, !.faults = {"net/dev"}],
     [Idle EXCEPT !.ticks = {Busy(0, 0), Busy(1, 1), Busy(2, 2), Busy(2, 3)}, !.faults = {"stat"}],
     [Idle EXCEPT !.pids = {{}, 1..64, 2..66}, !.faults = {"proc"}]}
=============================================================================
