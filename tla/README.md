# TLA+ specifications of Sentia Linux

These modules specify the parts of Sentia Linux in which order, concurrency and
failure decide whether the system is right: the root broker that changes the
host and the APT worker behind it; the router with its consents, breakers,
settings and streams; the local inference broker with its admission queue; the
provider worker; the health daemon; the documentation index; and the runner of
the read-only tools. TLC checks each on small instances; TLAPS proves every
safety property of the passing runs for every value of the constants.

Paths below are relative to `src/`. `PROJECT.json` maps every definition that
models code to the lines it models.

## 1. Inventory

| component | state | operations | hard behaviour |
|---|---|---|---|
| Privileged broker, `crates/sentia-privileged` | pending plans, the apply gate | D-Bus `Prepare`, `Apply` | awaits between every read and its use, a 90 s polkit prompt, pid reuse, clock changes, restarts |
| APT worker, `native/sentia-apt` | none between requests; dpkg status, lists, lock | plan, execute, update, read-only queries | resolves twice, once outside the lock; other package managers; killed inside dpkg |
| Inference queue, `crates/sentia-local-broker/src/queue.rs` | semaphore, counters | `reserve`, `acquire`, drop | a permit granted while its request is cancelled; counters and permits change separately |
| Local broker server, same crate, `server.rs` | connections, active map, tokens, event channels | chat, cancel, status, teardown, shutdown | reader, writer and chat tasks of a connection; full channel; a peer that stops reading; silent backend |
| llama.cpp client, `llama.rs` | HTTP connection | health, chat | a backend that hangs, streams or dies |
| Router, `crates/sentia-router`: `router.rs`, `tools.rs` | per request: route, candidate, agent round, provider task, two channels | chat, status, consent preview, tool calls | fallback between providers, cancellation in every await, chunks that outlive their task |
| Router: `privacy.rs`, `provider.rs`, `settings.rs` | consent table; failures and deadline per remote; settings in memory and in a file | preview, consume; allow, success, failure; get, update | one token shown twice, requests racing for it; overlapping outcomes; crash inside a save |
| Router: `server.rs`, and `crates/sentia-client` | connection, active requests, `StreamState`, frame channel | chat, controls, cancel, teardown | two bounded channels in a row, Ctrl-C, a peer that leaves |
| Provider worker, `crates/sentia-providers` | one active task | infer, cancel, EOF | cancel against completion, panic of the task |
| Health daemon, `crates/sentia-health` | counters of the previous sample, alert states, log, latest snapshot | collect, evaluate, adapt the interval, serve | hysteresis, counters that restart, sources that fail, one thread for clients and samples, restart of the daemon |
| Retrieval, `crates/sentia-retrieval` | SQLite index, config | rebuild, query | concurrent and killed rebuilds, budget, one path in two sources |
| Read-only tools, `crates/sentia-tools` | none | run a fixed command | deadline, inherited pipes, output limit |
| UI, `crates/sentia-ui` | a ticket type, presentation | | |
| Shared protocol, shell hooks, build and packaging | - | - | data types, scripts |

How they interact: the client and the terminal talk to the router over a Unix
socket of JSON lines. The router sends a chat to the local broker (same kind of
socket) or to a remote provider, whose worker process speaks JSON lines on
stdin and stdout, and calls the read-only tools. Only a person reaches the
privileged broker: `Prepare` returns a preview and a digest, `Apply` names both,
polkit asks, and the broker runs systemctl, a signal, or the APT worker with an
approval envelope that carries the worker's own digest of the plan. The health
daemon and the index are read by tools and depend on nothing else.

What makes each correct: nothing changes the host but what was previewed and
authorised, once (broker, worker); admission limits hold and no slot is lost
(queue); every accepted request is answered and ends when cancelled (local
broker, router server, provider worker); nothing leaves the machine without
eligibility or a consent of its own (router); a stream's events are ordered, end
once and carry the last answer only (router server); an acknowledged save
survives (settings); an index is what one rebuild found (retrieval); an alert
neither flaps nor sticks and a rate is never invented (health); captured output
is exact (tools).

The hazards, each with its line and the properties against it, are listed in
`PROJECT.json`.

## 2. Modules

| module | models | EXTENDS / INSTANCE |
|---|---|---|
| `PlanLifecycle` | abstract: unused, pending, attempted, approved, applied or void | |
| `PrivilegedBroker` | `broker.rs`, `service.rs`, `executor.rs` | instance of `PlanLifecycle` |
| `AptWorker` | `apt_worker.cpp`: plan, execute, update | |
| `InferenceQueue` | `queue.rs` | |
| `LocalBroker` | `server.rs`, and `llama.rs` as its backend | `InferenceQueue` |
| `Consent` | `privacy.rs` | |
| `CircuitBreakers` | the breakers of `provider.rs` | `Consent`, for its clock |
| `SettingsStore` | `settings.rs` | |
| `Router` | `router.rs`, `tools.rs`, and a provider as its peer | `CircuitBreakers`, `SettingsStore` |
| `RouterServer` | `server.rs`, and `exchange` of the client | `Router` |
| `HealthCollector` | `collector.rs`, `procfs.rs` | |
| `HealthAlerts` | `alert.rs` | |
| `Health` | `monitor.rs`, `daemon.rs` | `HealthAlerts`, `HealthCollector` |
| `Retrieval` | `indexer.rs`, `config.rs`, `path_guard.rs`, `query.rs` | |
| `ProviderWorker` | `worker.rs` | |
| `ToolRunner` | `runner.rs` | |
| `*Proofs` | theorems | the module they are named after; `ProcessesProofs`: `Retrieval`, `ProviderWorker`, `ToolRunner` |
| `MC*` | instances for TLC | |

A definition marked "Mutant", or whose name has an underscore such as
`Matches_NewVersionsOnly`, is a plausible slip of a definition below it. It is
used by nothing; put in that definition's place it shows that a property notices.
(`Router_`, `Provider_` and `Answer_` in `RouterServer` are not slips: they are
`Router`'s actions with the server's variables unchanged.)

### PrivilegedBroker

An action is the code between two awaits. `Prepare` is `PrepareBegin`
(`identify`), `TakeLock`, `PrepareSnapshot`, `PrepareIdentify` and
`PrepareStore`; `Apply` is `ApplyBegin`, `TakeLock`, `ApplyConsume`,
`ApplySnapshot`, `ApplyRevalidate`, `ApplyAuthorize` (polkit), `ApplyIdentify`,
`ApplySnapshot` and `ApplyRevalidate` again, one of the executors, `Finish`.
`TakeLock` is the `try_lock` that answers busy (`Busy`). `Fails` is the early
return, error or timeout of any step, the clock's and the entropy source's included. A helper that is killed after its effect is
the effect followed by `Fails`. The environment sets the clock to any time,
changes the state of a target, ends processes and reuses their pids; `Restart`
loses the store and every call. `plans`, `lock` and the locals of a call (`op`,
`ref`, `caller`, `plan`, `snap`) are the code's; `nonces`, `seen` and `effects`
are history variables: which nonces were issued, what an Apply really found
after its approval, and what was changed under which plan. A plan's digest is
abstracted to a collision-free function of its contents, and a random nonce to
one that was not issued before.

### AptWorker

`HandleExecute` is `ParseApproval`, `OpenFirst` (lock and resolve), `CheckFirst`
(digest and the three refusals; the planned transaction's cache goes out of
scope, and with it the lock), `OpenSecond`, `CheckSecond`, `Fetched` and
`DoInstall`, which changes one package a time. `HandleUpdate` is
`BuildSourcesManifest` (which comes before the approval is looked at), `CompareManifest`,
`LockForUpdate`, `ReadMainList` and
`ListUpdate`. `Exit` ends a worker after any step: success, an error or a kill.
The foreign package manager takes the lock, changes the status in any way and
releases it; lists and sources change at any moment. `Solver` stands for
libapt's resolver, an arbitrary function of the operation, the dpkg status and
the lists: the proofs assume only the type of its result. The digest is modelled
as the canonical plan itself. The expiry of the approval is not modelled.

### InferenceQueue and LocalBroker

`phase` is the life of a reservation; `free` and `waiters` are tokio's fair
semaphore, modelled as external from its use; `queued`, `active` and `byUid` are
the counters. `Reserve`
is the admission under the counts' mutex; `PollTaken`, `PollWaits`, `Wake`,
`Activate` and `Abandon` are `acquire`; `Release` and `Uncount` the two halves of
drop, because a permit is returned before the counters are. `LocalBroker`
extends it: a connection has a read loop (`main`), a bounded channel (`chan`), a
writer (`wr`) and a task for each accepted chat (`task`). A send on the channel
is a step of its own that waits for room. The backend answers a probe (ready,
not ready, failed), streams, ends or fails a generation, or stays silent.
`Interrupt` is the cancellation branch of the waits on the backend. One wait has
none: `LlamaClient::chat` reads the body of a non-2xx answer with a bare await
(`llama.rs` 145-149, the step `error_body`), which only the end of the body or
`request_timeout` ends. An error of the listener's accept makes the process
return; nothing is kept, so it is not an action.

### Router

A request's `pc` walks through `chat`: validate, queue (two events), `Route`
(`settings.get` and `build_route`, which spends the consent of
ASK_BEFORE_REMOTE), and then for each candidate `NextCandidate` (cancellation and
the breaker), `Probe` (health), `Announce`, `Start`, and the agent loop:
`BeginRound` spawns the provider task, `Select` is the `select!` over
cancellation, chunks and the task's end, `Drain` takes the chunks an ended task
left, `NextCall`, `Invoke` and `Report` make the tool calls of a round. `Finish`,
`Fail`, `FallBack`, `SendError` and `SendDone` are the ways out. The provider is
`Chunk` and `Answer`: text, an answer, tool calls, an error or a timeout. Each
send on the channel of 128 internal events is an await that waits for room;
`Select` takes a chunk when it can be sent on, where the code takes it and then
waits. The wait for a provider's health is part of the wait for `Start`. A
request or the settings may name a provider that is not registered: it then has
no remote, even if a preferred one is. A
payload stands for its minimised, redacted form, with the categories it
discloses and whether it may be sent at all. `basis` is a history variable: the
categories the route was built from and the token it spent. `shown` and `spent`
count how often each token was shown and let something out.

`PreviewToken` keeps the weakness of the code's nonce (`len ^ now ^ pid`): two
previews of one payload may produce one token. `ConsentSingleUse` is stated so
that this is allowed: the token is then shown twice and the table holds it once.
`UpdateBegin`, `UpdateWrite`, `UpdateRename` and `UpdateFinish` are the file
operations of `write_private_json`; each may fail, `Restart` may come between
any two, and the next process may have the same pid and meet the temporary that
the dead one left. The directory is not synced after the rename, in the code or
in the model: `SettingsDurable` is about the death of the process and I/O errors,
not about a loss of power.

### RouterServer

`Read` is the read loop, one action for each kind of frame and for end of input,
shutdown and teardown; `Stream` is `process_request`, which takes an internal
event, turns it into frames (`StreamState`) and sends them one at a time;
`Control` is the task of a status, settings or preview request; `Write` is the
writer, and with it the client's `exchange`, which notes in `got` what it has
seen. `Interrupt` is Ctrl-C. A frame's sequence number and its answer's text are
counted; its contents, and the cut of a result at 256 KiB, are not modelled.
`ControlRun` asks the breaker of one remote, any of them, where status asks all.

### Health

A host is a set of sources (`/proc` files, sysfs, fixed commands), any of which
may be unreadable, the traffic counters of devices that may restart, leave and
return, CPU ticks, process ids, and the facts that the other collectors report.
`Sample` is `HealthMonitor::sample`: every collector, all ten rules in the
code's order, the bounded log, the adaptive interval. `run_daemon` is
`FirstSample`, `AcceptClient` and `Serve` as long as somebody waits, `AcceptEnds`,
`AcceptFails`, `SampleDue`, `Sleep`; clients connect as often as they like
(`Connect`), and `Restart` is systemd's. Percentages and degrees are in tenths, so that the
thresholds keep their values. `streak` and `raised` are the history of each
condition, kept without looking at the engine; `moved` is what each device really
moved since the last sample. A rate is the difference of two counters: its
division by the elapsed time, and the limit of eight probed disks, are left out.

### Retrieval, ProviderWorker, ToolRunner

`Retrieval`: a rebuild begins a deferred transaction, then collects and applies
one source at a time (`CollectSource`, `ApplySource`) within the file and byte
`budget`, commits, and sets the file's mode (`Secure`). It may be killed at any
point; a configuration that `validate` refuses (`Valid`) starts none; and
`ApplyFails` is SQLite's refusal of a write when another transaction writes or
has committed since the snapshot. The commit of `initialize_schema` makes no other
rebuild's snapshot stale in the model, which allows more than SQLite does. `ProviderWorker`: the `select!` of `run_stdio` takes the active task's result (`Report`) or the next command, which
starts, cancels, is refused, cannot be decoded or is too long. `ToolRunner`: a
caller that polls, kills and joins; two readers; and a child that may leave a
descendant holding the pipes. An error of `try_wait` leaves the call at once, with
child and readers behind; an error of a read ends that reader's thread. The three share nothing, so one run
(`MCProcesses`) checks them side by side.

## 3. Runs

| run | checks | states |
|---|---|---|
| `privileged_service` | `TypeOK`, `SingleUse`, `EarnedEffects`, `QuotaHolds`, `PendingKept`, `LifecycleSpec` | 252 k |
| `privileged_execute` | `ApprovedTarget` | 515 k |
| `apt_execute` | `AptTypeOK`, `InstallsApproved`, `ForbiddenNeverRuns`, `ChangesApproved` | 829 k |
| `apt_update_sources` | `UpdatesApproved`, violated: see below | |
| `inference_queue` | `QueueTypeOK`, `PermitsConserved`, `CountsExact`, `LimitsHold`, `Served` | 42 k |
| `local_broker_streams` | `TypeOK`, `UniqueIds`, `ClosedClean` | 557 k |
| `local_broker_shared` | `UsesQueue`, `AnswerArrives` | 52 k |
| `local_broker_cancel` | `CancelStops`, `ShutdownEnds` | 52 k |
| `router` | `TypeOK`, `ConsentSingleUse`, `RemoteJustified`, `SettingsDurable` | 1.6 M |
| `router_server` | `StreamOrdered`, `ResultIsLastAnswer`, `ExchangeEnds` | 46 k |
| `health` | `TypeOK`, `Sustained`, `LogTellsState`, `RatesSound`, `Detected` | 79 k |
| `processes` | `IndexExact`, `OneOutcome`, `CaptureExact`, `OutcomeArrives` | 1.0 M |

Bounds, and why they are enough:

- *Privileged broker.* Two calls, because the gate lets one proceed and every
  race is between the one that holds it and another call or the environment.
  Two connections and principals tell a plan's caller from another; two nonces
  allow a plan to be pending while another is attempted. Two times with
  `Lifetime` 1 cover before, at and after the expiry, and setting the clock
  back. `MaxPerName` 1 makes the quota bind. Three states in
  `privileged_execute` allow a target to change and to change back, or a pid to
  be reused after the preview. Symmetry is over identities that are only compared.
- *APT worker.* Two workers compete for the lock with the foreign manager. Two
  packages, one essential, two versions of different origin, holds and a
  resolver that installs, removes and upgrades produce each of the three
  refusals. `MaxOffers` 1 bounds the plans outstanding at a time.
- *Queue.* Six requests, four of one user, against two permits, a limit of three
  a user and of four in all. Each limit decides alone somewhere: a fourth request
  of the first user when nobody else is there, and the first user's third when
  the other has two. Two requests wait at once.
- *Local broker.* `ChannelCap` 1 makes every send wait; `Patience` is the number
  of probes and deltas. The three runs differ in what the environment does
  (`Inputs`), so that each question sees the inputs that matter to it: all of
  them on one connection for the safety properties, two connections sharing a
  slot for the composition, cancellation and SIGTERM with a backend and a peer
  that do nothing for the last. Two chats of one connection are enough there: one
  holds the slot and the other waits for it, and both share the writer.
- *Router.* A behaviour is about one of five scenarios, each with the inputs of
  one question: previews that collide or expire while two requests present the
  token; the same with a restart; settings that are saved, fail and crash under a
  request; failing and recovering providers with two requests, status and
  cancellation; chunks, tool calls and cancellation under the other policies.
  Channels of one slot make every send wait. `Threshold` 1 lets one failure open
  a circuit that the other request meets; `Cooldown`, `Lifetime` 1 and `MaxTime` 2
  cover before, at and after a deadline. Two pids: the next process has the same
  one or another.
- *Router server.* One connection: requests of different connections meet only
  in the router's shared state, which `router` covers. Five scenarios: a fallback
  with chunks and Ctrl-C, tools, a peer that closes, leaves or meets SIGTERM, the
  controls, and two requests at once. Event and frame channels have one slot.
- *Health.* Ten scenarios, each changing the sources of one or two conditions
  with values on both sides of and between the thresholds, their failure, and in
  one of them clients that keep coming and a restart. The backlog of two bounds
  how many wait at a time, not how many come: a stream of clients that never lets
  the inner loop end is a behaviour of the run. `MaxLog` 2 makes the log overflow;
  `MaxCount` 3 is enough for a counter to advance, restart and overtake its old
  value. The rules are the code's own. Counters that end at `MaxCount` cannot keep
  the processor busy for ever, so the half of `Detected` that says an alert comes
  is never put to the test for `cpu_high`; it is for the others.
- *Processes.* Two indexers, two worlds and four configurations in which a path
  has two sources, a source is unreadable, a file outgrows the budget, the order
  of the sources changes, and two sources have one name, which is refused; three commands with two ids for the worker; four
  bytes against a limit and a pipe of two for the runner.

### Fairness

Liveness is checked under what the code's scheduling gives. Tasks are scheduled
(tokio): weak fairness of the writer, strong fairness of the read loop and of
each chat task, since tokio's channel hands its room to senders in the order in
which they asked, and `select!` picks among ready branches at random, so a
branch that is ready again and again is taken (`Break`). That is `TaskFairness`.
`Spec` adds two assumptions and a timer. The peer reads what it is sent or goes
away (`PeerFairness`), and the backend answers a health probe: the code bounds
neither, since `write_all` has no deadline (`server.rs` 109) and
`wait_until_ready` tests its own between probes only. A generation ends, if only by
`request_timeout` (`BackendFairness`).

`HungSpec` has none of the assumptions: backend and peer may stop at any point. It
keeps one timer, `request_timeout` for a run that reads the body of an error,
because cancellation cannot end that read. `CancelStops` and `ShutdownEnds` are
checked under it. They say that nothing but a peer which never again takes what is
written to it (`Stuck`) keeps a cancelled run or a connection under shutdown from
ending. They do not say how long it takes: in the body of an error it is the rest
of `request_timeout`, 180 s in `config/router/local-broker.json`, while
`sentia-local-broker.service` has `TimeoutStopSec=30s`, so systemd may kill the
broker first. No document promises more.

The router's tasks have weak fairness, and so have its read loop, writer and
streams; a provider answers or reaches its deadline; the client reads what it is
sent. Nothing makes a client send, interrupt or leave. In `Health`
only `thread::sleep` is sure to return. The loop of `run_daemon` accepts until
nobody waits, writes to every client without a deadline and runs commands without
one, so a stream of clients, a client that does not read or a command that hangs
can keep it from sampling for ever. `Detected` is therefore about the executions in
which the loop keeps coming round to its sleep; nothing makes the host change. In `MCProcesses` the worker's loop goes on and the transport's
deadlines end every task; the runner has no fairness, because nothing in the code
bounds how long a descendant keeps the pipes open, and that `run_command` returns
is therefore not claimed.

### What the violated run shows

`apt_update_sources`: `HandleUpdate` builds the source manifest and compares its
digest with the approved one (`apt_worker.cpp` 1475-1499), then takes the lock
(1501) and reads the sources again (1513) without comparing. A source edited
between the two is fetched from. `broker-contract.json` line 58 says
`"worker_revalidates_under_locks": true`, and line 110 gives the order "locks apt
state, re-resolves, recomputes digest, rejects if changed". The package
operations do follow that order, and the theorems below show it; the package
lock would not by itself keep an editor from the source files, so the comparison
would have to be of the list that is read.

## 4. Proofs

All theorems hold for any sets of calls, callers, packages, requests, providers,
payloads, devices and any limits that satisfy the named assumptions of their
modules. These are types and lower bounds, with one exception worth naming:
`HealthAssumption` gives the type of what a scenario may put into the host
(`HostOK`, `FactOK`), a finite set of temperatures with a largest member among it.

**`PrivilegedBrokerProofs`.** `Inductive` proves `IndInv`, the conjunction of
- `TypeOK`;
- `GateInv`: `operation_lock` is held by exactly the call past its `try_lock`;
- `HandInv`: what a call has in hand at each step, and that each executor's steps
  work on a plan of their own kind;
- `NonceInv`: a nonce names one plan, which is in one place: pending, in an
  attempt that has not changed anything, or past its only effect;
- `FoundInv`: at each step after the grant, `seen` records what that step
  relies on;
- `EarnedEffects` and `ApprovedTarget`.

`SingleUse` is not inductive alone: that two Applies do not both attempt a plan
needs the gate, and that a consumed plan does not return needs fresh nonces.
From it follow `PlansAreSingleUse`, `EffectsAreEarned`, `TargetsAreApproved`,
`PendingPlansAreKept`, `QuotasHold` and `BrokerImplementsLifecycle` (initial
states map to initial states of `PlanLifecycle`, every step to a step or a
stutter). `TargetsAreApproved` covers signals and packages. Between the last look
at a systemd unit and systemctl the unit can change, and the model lets it.

**`InferenceQueueProofs`.** `QueueInv` relates the phases of the reservations to
permits, grants, wait list and counters; the cardinality arguments use the
library's finite-set theorems. From it `PermitsAreConserved`, `CountsAreExact`
and `LimitsAreKept`.

**`AptWorkerProofs`.** `AptInv` is `AptTypeOK`, `Fresh` (the second resolution
was made on the status that is still there), `Vetted` (the refusals tested on the
first resolution bind the approved plan itself), `Scoped` (dpkg is given the
plan's own packages) and `InstallsApproved`. The refusals are tested only on the first resolution;
`ForbiddenChangesNeverRun` follows because the second must equal the same
approved plan.

**`LocalBrokerProofs`.** `BrokerKeepsQueue` shows that every step of the server is
a step of the queue or leaves it alone, so that `QueueInv`, and with it every
theorem of `InferenceQueueProofs`, holds of the composition. `RunInv` adds
`Shape`: where the reservation of a run is at each of its steps (`PhaseOK`), that
the map holds every run but the one whose first event is being sent, and that no
run is left once the tasks are joined. `UniqueIds` needs the second, since a new
id is compared with the map only; `ClosedConnectionsAreClean` needs the first and
the third. `BrokerTypeCorrect` adds the channels, tokens and peers.

**`RouterProofs`.** The router's many actions are first reduced to what they do to
one part of the state (`SettingsSteps`, `ConsentSteps`, `RouteSteps`); each part
then has its own invariant.
- `SettingsAreDurable`: `SaveShape` says what a save has done so far, above all
  that the temporary which is about to be renamed is whole.
- `ConsentsAreSingleUse`: for each token, uses so far plus the one the table may
  still grant never exceed the times it was shown; a token's expiry and the
  table's agree only for the preview that made the entry.
- `RemoteIsJustified`: `RouteInv` says that every remote candidate still in a
  route was granted when the route was built, that the loop works on the route's
  head, and that no more requests stand on a token than have spent it.

- `RouterTypes`: the bounds of the channels, the rounds and the chunks, and that
  every status a request goes through is a transition the protocol allows. It
  needs that a call is reported only while it is at the head of its round, and
  that a provider's task runs only while the loop listens to it (`LoopInv`).

**`RouterServerProofs`.** `ServerKeepsRouter`: what the server does to the
router's state is a submission, a cancellation or a control request, and the
three invariants above survive each, so the router's guarantees hold behind the
socket too. `StreamInv` is about the way of an event from the router to the
client, through `StreamState`, the outbox, the frame channel and the writer:
- `LifeOK`: a request is read once, and until then nothing of it exists;
- `FeedOK`: in the channel of internal events Done is the last, and an answer
  that names no fallback comes before any text;
- `NumbersOK`: the numbers on their way are exactly those between the one the
  client has and the one `StreamState` gave last, each once and in order;
- `ResultOK`: when a result is on its way the stream is over and nothing of it
  comes behind;
- `TextOK`: there is a run of the client over the frames on their way that leads
  from the text it has to the text `StreamState` has. The run is a witness, a
  function from numbers to texts, so that no induction over the frames is needed.

`StreamOrdered` speaks of what the client has and of the frames on their way, by
position; it follows from `NumbersOK` and `ResultOK` (`StreamsAreOrdered`).
`ResultIsLastAnswer` needs all of them: the result carries the text of
`StreamState` at a time when the client has not got there
(`ResultsAreLastAnswers`). Once the writer is gone nothing is claimed of what is
left in the channel.

**`HealthProofs`.** `HealthInv` is the types of host and memory, `AlertInv` and
`RatesInv`. `AlertInv` relates the engine's two counters to the history: while a
condition is inactive `above_samples` is the run of samples over the threshold,
while it is active `below_samples` is the run of clear ones; a counter that is
not in use says nothing, which is why `Sustained` is not inductive alone. It
needs that no value is both over the threshold and clear, which for `disk_health`,
whose two bounds are equal, holds only because its measurement is 0 or 10.
`RatesInv`: a counter that the last sample saw has gained at most what its device
moved since. `LogInv` adds the types (`HealthTypes`) and `Tells`, which says of a
log and of the states what `LogTellsState` says, without its CHOOSE. A sample
appends at most one record a condition, and one that finds the condition inactive
raises it (`RecordFacts`: `Records` is a bijection between the emitting conditions
and their ranks); dropping records at the old end cannot hurt (`TellsSuffix`). From
it `LogsTellState`.

**`ProcessesProofs`, the index.** `RetrievalInv`: the table of a rebuild is exactly
what the sources it has applied make of it (`Exact`), its remaining sources have
other names (`NamesOK`, which needs that the configuration is validated), and the
table is the committed one unless the rebuild has written or another one has
committed since its first read (`TableOK`). The last is what makes a rebuild that
wrote nothing count. `AppliedFacts` says what `apply_source_documents` does to a
table. From it `IndexesAreExact`.

**`ProcessesProofs`, the provider worker.** `WorkerInv`: the active request is the
one the output shows under way (`ActiveShown`). From it `OutcomesAreSingle`, about the whole
sequence of events written.

**`ProcessesProofs`, the runner.** `RunnerInv`: what exists at each stage of the call, and
what a reader has kept of what it took (`ReaderExact`); a reader that ends
without an error does so only when nobody can write any more. From it `CapturesAreExact`.

Only model-checked: liveness, that is `Served`, `AnswerArrives`, `CancelStops`,
`ShutdownEnds`, `ExchangeEnds`, `Detected`, `OutcomeArrives`, and the fairness part
of `UsesQueue`. Liveness under fairness is out of the proof system's reach. What a
recursive definition computes would need induction over data and is not claimed by
any theorem: `Budgets` of `Retrieval`, the budget after each document, only
decides which documents are collected, and `IndexesAreExact` holds whichever
those are.

## 5. Not modelled

- The APT worker's read-only queries: they take no lock and change nothing.
- `sentia-ui`'s ticket for a prepared plan: a library type that no program of the
  repository constructs, so there is no caller whose steps could be modelled; the
  broker's side of Prepare and Apply does not rely on it. Monitor, terminal, first
  boot and transport are presentation and blocking requests.
- Text: parsing of `/proc` and of command output, SSE and HTTP framing, the vendor
  adapters, JSON schemas, redaction patterns, FTS ranking and escaping, messages.
  Each appears as the outcomes that the code around it tells apart.
- The expiry of an APT approval after it was parsed: the worker compares it once.
- How long things take: a descendant that holds the pipes of a tool, a read of an
  error's body, a write to a peer, a sample. See the fairness above.
- Loss of power: a process may die at any point, the file system keeps what it was
  told.
- A live process that changes its name or user by exec between the check and the
  signal: a pidfd names the process, and the model's processes keep their identity.
- Shell hooks, image build, release, packaging and cloud runner: sequential
  scripts around external programs.
