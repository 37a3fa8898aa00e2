-------------------------- MODULE PrivilegedBroker --------------------------
(***************************************************************************)
(* The root D-Bus broker org.sentia.System1 (crates/sentia-privileged):    *)
(* PlanStore (broker.rs), the Prepare and Apply methods (service.rs) and   *)
(* the final checks and mutation (executor.rs).                            *)
(*                                                                         *)
(* zbus runs every method call as its own task, so calls interleave at     *)
(* each await: every action below is the code between two awaits, or one   *)
(* observation made by a helper process.  Around the calls the clock is    *)
(* set, sessions come and go, units and packages change, processes exit    *)
(* and their pids are reused, and the broker may be restarted.             *)
(***************************************************************************)
EXTENDS Integers, Sequences, FiniteSets

CONSTANTS
    Calls,          \* method calls that can be in progress at once
    Names,          \* unique bus names; never recycled while the bus lives
    Principals,     \* uid, pid, process start and session, as one value
    ServiceOps,     \* Operation::Service, one per unit
    KillOps,        \* Operation::ProcessKill, one per pid
    PackageOps,     \* Operation::AptInstall, AptRemove, AptUpgrade
    UpdateOps,      \* Operation::AptUpdate
    States,         \* what a snapshot of a target can return, as numbers
    Ids,            \* plan nonces
    Times,          \* readings of the wall clock, in lifetimes' fractions
    Lifetime,       \* PLAN_LIFETIME_SECONDS
    MaxPlans,       \* 256 pending plans in all
    MaxPerName,     \* 8 pending plans of one connection
    None            \* no call, no principal, no value

Operations == ServiceOps \cup KillOps \cup PackageOps \cup UpdateOps

ASSUME BrokerAssumption ==
    /\ None \notin Calls \cup Names \cup Principals \cup Ids
    /\ States \subseteq Nat
    /\ Times \subseteq Nat
    /\ Lifetime \in Nat \ {0}
    /\ MaxPlans \in Nat
    /\ MaxPerName \in Nat
    /\ ServiceOps \cap KillOps = {}
    /\ ServiceOps \cap PackageOps = {}
    /\ ServiceOps \cap UpdateOps = {}
    /\ KillOps \cap PackageOps = {}
    /\ KillOps \cap UpdateOps = {}
    /\ PackageOps \cap UpdateOps = {}

VARIABLES
    clock,      \* SystemTime::now(), which may also be set back
    host,       \* [Operations -> States]: what a snapshot of each target shows
    alive,      \* [KillOps -> BOOLEAN]: some process has the pid
    plans,      \* PlanStore.plans
    nonces,     \* plan ids drawn so far; 256 random bits never repeat
    lock,       \* holder of SystemService.operation_lock, or None
    pc,         \* where each method call is
    op,         \* Prepare's operation
    ref,        \* Apply's plan_id and digest
    caller,     \* the Caller the call resolved last
    plan,       \* the plan Apply consumed
    snap,       \* the last snapshot the call took; for a kill, its pidfd
    seen,       \* history: what each Apply really found since the approval
    effects     \* history: the mutations made in each plan's name

envVars  == <<clock, host, alive>>
callVars == <<pc, op, ref, caller, plan, snap, seen>>
vars == <<envVars, plans, nonces, lock, callVars, effects>>

-----------------------------------------------------------------------------
(* Data *)

Caller == [name : Names, who : Principals]

\* CanonicalPlan.  action_id and argument_digest are functions of operation,
\* expires_at is issued_at + PLAN_LIFETIME_SECONDS.
CanonicalPlan == [id : Ids, caller : Caller, operation : Operations,
                  state : States, issued_at : Times]

\* SHA-256 of the serialized plan: collision-free, and the plan holds a nonce
\* that no other plan holds, so the digest is told apart by the nonce.
Digest(p) == p.id

\* History: a mutation, with what Apply had found when it made it.
Findings == {"granted", "caller", "state"}
Effect == [operation : Operations, approved : States, hit : States,
           seen : SUBSET Findings]

PrepareSteps == {"p_lock", "p_snapshot", "p_identify", "p_store"}
BeforeConsume == {"a_lock", "a_consume"}
BeforeGrant == {"a_snapshot", "a_revalidate", "a_authorize"}
AfterGrant  == {"a_identify", "a_resnapshot", "a_recheck"}
Executing   == {"x_begin", "x_service", "x_systemctl", "x_pidfd", "x_signal",
                "x_worker", "x_update"}
Attempting  == BeforeGrant \cup AfterGrant \cup Executing
Steps == {"idle"} \cup PrepareSteps \cup BeforeConsume \cup Attempting
             \cup {"x_finish"}

\* The calls that own the operation gate: from try_lock to the end.
Critical == Steps \ {"idle", "p_lock", "a_lock"}

Expires(p) == p.issued_at + Lifetime

\* The time window of consume, revalidate and ensure_unexpired.  The lower
\* bound is there because the wall clock can be set back.
InWindow_NoUpper(p, now) == p.issued_at <= now
InWindow(p, now) == p.issued_at <= now /\ now < Expires(p)

\* broker::revalidate: caller, window and state (the operation cannot change
\* in the broker's own copy of the plan).
Revalidate_AnyCaller(p, who, state, now) ==
    InWindow(p, now) /\ p.state = state
Revalidate(p, who, state, now) ==
    /\ p.caller = who
    /\ InWindow(p, now)
    /\ p.state = state

\* PlanStore::prepare drops the expired plans before it counts the others.
Retained(now) == {p \in plans : now < Expires(p)}

OfName(S, n) == {p \in S : p.caller.name = n}

\* too_many_pending_plans, for the plans S kept and a caller named n.
StoreFull_NoPerName(S, n) == Cardinality(S) >= MaxPlans
StoreFull(S, n) == \/ Cardinality(S) >= MaxPlans
                   \/ Cardinality(OfName(S, n)) >= MaxPerName

-----------------------------------------------------------------------------
Init ==
    /\ clock \in Times
    /\ host \in [Operations -> States]
    /\ alive \in [KillOps -> BOOLEAN]
    /\ plans = {}
    /\ nonces = {}
    /\ lock = None
    /\ pc = [c \in Calls |-> "idle"]
    /\ op = [c \in Calls |-> None]
    /\ ref = [c \in Calls |-> None]
    /\ caller = [c \in Calls |-> None]
    /\ plan = [c \in Calls |-> None]
    /\ snap = [c \in Calls |-> None]
    /\ seen = [c \in Calls |-> {}]
    /\ effects = [i \in Ids |-> <<>>]

-----------------------------------------------------------------------------
(* The surroundings *)

\* The wall clock advances or is set, forwards or back.
SetClock(t) ==
    /\ t # clock
    /\ clock' = t
    /\ UNCHANGED <<host, alive, plans, nonces, lock, callVars, effects>>

\* Another administrator changes a unit, the package state or the sources.
ChangeHost(o, s) ==
    /\ s # host[o]
    /\ host' = [host EXCEPT ![o] = s]
    /\ UNCHANGED <<clock, alive, plans, nonces, lock, callVars, effects>>

\* A process exits, or a new process is given its pid; the new one starts
\* later, so its state (start ticks, uid, name) was never seen before.
ChangeProcess(o) ==
    /\ alive' = [alive EXCEPT ![o] = ~alive[o]]
    /\ \/ alive[o] /\ UNCHANGED host
       \/ ~alive[o] /\ \E s \in States : s > host[o] /\ host' = [host EXCEPT ![o] = s]
    /\ UNCHANGED <<clock, plans, nonces, lock, callVars, effects>>

-----------------------------------------------------------------------------
(* How a method call ends: with an answer or a D-Bus error.  The guard of    *)
(* operation_lock is dropped with the call.                                  *)

Ends(c) ==
    /\ pc' = [pc EXCEPT ![c] = "idle"]
    /\ op' = [op EXCEPT ![c] = None]
    /\ ref' = [ref EXCEPT ![c] = None]
    /\ caller' = [caller EXCEPT ![c] = None]
    /\ plan' = [plan EXCEPT ![c] = None]
    /\ snap' = [snap EXCEPT ![c] = None]
    /\ seen' = [seen EXCEPT ![c] = {}]

Releases(c) == lock' = IF lock = c THEN None ELSE lock

Goes(c, from, to) ==
    /\ pc[c] = from
    /\ pc' = [pc EXCEPT ![c] = to]

\* The bus, logind, polkit, a helper process, /proc or the clock fails or times out,
\* or polkit denies: the call returns the error.  What it consumed stays consumed.
Fails(c) ==
    /\ pc[c] \in Critical
    /\ Ends(c)
    /\ Releases(c)
    /\ UNCHANGED <<envVars, plans, nonces, effects>>

\* operation_lock.try_lock() finds the gate taken: broker_busy.
Busy(c) ==
    /\ pc[c] \in {"p_lock", "a_lock"}
    /\ lock # None
    /\ Ends(c)
    /\ UNCHANGED <<envVars, plans, nonces, lock, effects>>

\* operation_lock.try_lock() succeeds.
Gate_Open == TRUE
Gate == lock = None

TakeLock(c) ==
    /\ \/ Goes(c, "p_lock", "p_snapshot")
       \/ Goes(c, "a_lock", "a_consume")
    /\ Gate
    /\ lock' = c
    /\ UNCHANGED <<envVars, plans, nonces, op, ref, caller, plan, snap, seen, effects>>

\* executor::snapshot of the operation o, kept in snap[c].  A stale unit, a
\* missing process and a failing helper are Fails.
Snapshots_Skipped(c, o) == UNCHANGED snap
Snapshots(c, o) ==
    /\ o \in KillOps => alive[o]
    /\ snap' = [snap EXCEPT ![c] = host[o]]

-----------------------------------------------------------------------------
(* Prepare(request) *)

\* parse_request accepts the operation and identify() finds the principal w in
\* an active local session.  A rejected request leaves no trace.  A connection's
\* session comes, goes and changes at any time, so w is any principal.
PrepareBegin(c, n, w, o) ==
    /\ Goes(c, "idle", "p_lock")
    /\ op' = [op EXCEPT ![c] = o]
    /\ caller' = [caller EXCEPT ![c] = [name |-> n, who |-> w]]
    /\ UNCHANGED <<envVars, plans, nonces, lock, ref, plan, snap, seen, effects>>

PrepareSnapshot(c) ==
    /\ Goes(c, "p_snapshot", "p_identify")
    /\ Snapshots(c, op[c])
    /\ UNCHANGED <<envVars, plans, nonces, lock, op, ref, caller, plan, seen, effects>>

\* The second identify() must find the same caller; otherwise caller_changed.
PrepareIdentify(c, w) ==
    /\ Goes(c, "p_identify", "p_store")
    /\ w = caller[c].who
    /\ UNCHANGED <<envVars, plans, nonces, lock, op, ref, caller, plan, snap, seen, effects>>

\* PlanStore::prepare: drop expired plans, then refuse, because there are too many or
\* no entropy is to be had, or store a new plan under a fresh nonce.
PrepareStore(c) ==
    /\ pc[c] = "p_store"
    /\ \/ /\ plans' = Retained(clock)
          /\ UNCHANGED nonces
       \/ /\ ~StoreFull(Retained(clock), caller[c].name)
          /\ \E i \in Ids \ nonces :
                LET p == [id |-> i, caller |-> caller[c], operation |-> op[c],
                          state |-> snap[c], issued_at |-> clock]
                IN  /\ plans' = Retained(clock) \cup {p}
                    /\ nonces' = nonces \cup {i}
    /\ Ends(c)
    /\ Releases(c)
    /\ UNCHANGED <<envVars, effects>>

-----------------------------------------------------------------------------
(* Apply(plan_id, digest) *)

ApplyBegin(c, n, w, i, d) ==
    /\ Goes(c, "idle", "a_lock")
    /\ ref' = [ref EXCEPT ![c] = [id |-> i, digest |-> d]]
    /\ caller' = [caller EXCEPT ![c] = [name |-> n, who |-> w]]
    /\ UNCHANGED <<envVars, plans, nonces, lock, op, plan, snap, seen, effects>>

\* The plan that PlanStore::consume finds for this caller; none for an
\* unknown or used id (unknown_or_used_plan) or another caller's plan
\* (caller_changed).
Consumable_AnyCaller(c) == {p \in plans : p.id = ref[c].id}
Consumable(c) == {p \in plans : p.id = ref[c].id /\ p.caller = caller[c]}

\* What consume leaves in the store: the plan is gone before its window and
\* its digest are looked at.
AfterConsume_Kept(p) == plans
AfterConsume(p) == plans \ {p}

ApplyConsume(c) ==
    /\ pc[c] = "a_consume"
    /\ \/ /\ Consumable(c) = {}
          /\ Ends(c)
          /\ Releases(c)
          /\ UNCHANGED plans
       \/ \E p \in Consumable(c) :
            /\ plans' = AfterConsume(p)
            /\ \/ /\ InWindow(p, clock)
                  /\ Digest(p) = ref[c].digest
                  /\ plan' = [plan EXCEPT ![c] = p]
                  /\ Goes(c, "a_consume", "a_snapshot")
                  /\ UNCHANGED <<lock, op, ref, caller, snap, seen>>
               \/ /\ ~InWindow(p, clock) \/ Digest(p) # ref[c].digest
                  /\ Ends(c)
                  /\ Releases(c)
    /\ UNCHANGED <<envVars, nonces, effects>>

\* snapshot() before the authentication, and again after it.
ApplySnapshot(c) ==
    /\ \/ Goes(c, "a_snapshot", "a_revalidate")
       \/ Goes(c, "a_resnapshot", "a_recheck")
    /\ Snapshots(c, plan[c].operation)
    /\ seen' = IF /\ "granted" \in seen[c]
                  /\ host[plan[c].operation] = plan[c].state
               THEN [seen EXCEPT ![c] = @ \cup {"state"}]
               ELSE seen
    /\ UNCHANGED <<envVars, plans, nonces, lock, op, ref, caller, plan, effects>>

ApplyRevalidate(c) ==
    /\ \/ Goes(c, "a_revalidate", "a_authorize")
       \/ Goes(c, "a_recheck", "x_begin")
    /\ Revalidate(plan[c], caller[c], snap[c], clock)
    /\ UNCHANGED <<envVars, plans, nonces, lock, op, ref, caller, plan, snap, seen, effects>>

\* authorize(): polkit answers yes within 90 seconds.  A denial, a timeout
\* and an unavailable authority are Fails.
ApplyAuthorize(c) ==
    /\ Goes(c, "a_authorize", "a_identify")
    /\ seen' = [seen EXCEPT ![c] = @ \cup {"granted"}]
    /\ UNCHANGED <<envVars, plans, nonces, lock, op, ref, caller, plan, snap, effects>>

\* identify() after the authentication gives `current`.
ApplyIdentify(c, w) ==
    /\ Goes(c, "a_identify", "a_resnapshot")
    /\ caller' = [caller EXCEPT ![c].who = w]
    /\ seen' = IF [name |-> caller[c].name, who |-> w] = plan[c].caller
               THEN [seen EXCEPT ![c] = @ \cup {"caller"}]
               ELSE seen
    /\ UNCHANGED <<envVars, plans, nonces, lock, op, ref, plan, snap, effects>>

-----------------------------------------------------------------------------
(* executor::execute *)

\* A mutation of plan[c]'s target that was in state s when it was hit.
Records(c, s) ==
    effects' = [effects EXCEPT ![plan[c].id] =
        Append(@, [operation |-> plan[c].operation, approved |-> plan[c].state,
                   hit |-> s, seen |-> seen[c]])]

\* service_state(unit) is compared with the plan once more.
ExecuteService(c) ==
    /\ Goes(c, "x_begin", "x_service")
    /\ plan[c].operation \in ServiceOps
    /\ host[plan[c].operation] = plan[c].state
    /\ UNCHANGED <<envVars, plans, nonces, lock, op, ref, caller, plan, snap, seen, effects>>

\* ensure_unexpired, then systemctl or the package worker is started.
EnsureUnexpired(c) ==
    /\ \/ Goes(c, "x_service", "x_systemctl")
       \/ Goes(c, "x_begin", "x_worker") /\ plan[c].operation \in PackageOps \cup UpdateOps
    /\ InWindow(plan[c], clock)
    /\ UNCHANGED <<envVars, plans, nonces, lock, op, ref, caller, plan, snap, seen, effects>>

\* systemctl start, stop, restart or enable: the unit ends in any state.
Systemctl(c, s) ==
    /\ Goes(c, "x_systemctl", "x_finish")
    /\ host' = [host EXCEPT ![plan[c].operation] = s]
    /\ Records(c, host[plan[c].operation])
    /\ UNCHANGED <<clock, alive, plans, nonces, lock, op, ref, caller, plan, snap, seen>>

\* ProcessHandle::open pins the process that has the pid now.
OpenPidfd(c) ==
    /\ Goes(c, "x_begin", "x_pidfd")
    /\ plan[c].operation \in KillOps
    /\ Snapshots(c, plan[c].operation)
    /\ UNCHANGED <<envVars, plans, nonces, lock, op, ref, caller, plan, seen, effects>>

\* The process behind the handle is still the one with the pid.
HandleAlive(c) == alive[plan[c].operation] /\ host[plan[c].operation] = snap[c]

\* process_state(pid) equals the preview, the handle has not exited, and the
\* plan is in its window.
CheckPidfd_NoState(c) == HandleAlive(c) /\ InWindow(plan[c], clock)
CheckPidfd(c) == /\ HandleAlive(c)
                 /\ snap[c] = plan[c].state
                 /\ InWindow(plan[c], clock)

ExecuteKill(c) ==
    /\ Goes(c, "x_pidfd", "x_signal")
    /\ CheckPidfd(c)
    /\ UNCHANGED <<envVars, plans, nonces, lock, op, ref, caller, plan, snap, seen, effects>>

\* pidfd_send_signal(SIGTERM) reaches the pinned process or fails.
Signalled_ByPid(c) == alive[plan[c].operation]
Signalled(c) == HandleAlive(c)

Terminate(c) ==
    /\ Goes(c, "x_signal", "x_finish")
    /\ Signalled(c)
    /\ Records(c, host[plan[c].operation])
    /\ UNCHANGED <<envVars, plans, nonces, lock, op, ref, caller, plan, snap, seen>>

\* The package worker resolves the transaction again under the native lock,
\* compares its digest with the approved one and runs it (module AptWorker).
RunPackages(c, s) ==
    /\ Goes(c, "x_worker", "x_finish")
    /\ plan[c].operation \in PackageOps
    /\ clock < Expires(plan[c])
    /\ host[plan[c].operation] = plan[c].state
    /\ host' = [host EXCEPT ![plan[c].operation] = s]
    /\ Records(c, host[plan[c].operation])
    /\ UNCHANGED <<clock, alive, plans, nonces, lock, op, ref, caller, plan, snap, seen>>

\* For apt_update the worker compares the source manifest first ...
CompareSources(c) ==
    /\ Goes(c, "x_worker", "x_update")
    /\ plan[c].operation \in UpdateOps
    /\ clock < Expires(plan[c])
    /\ host[plan[c].operation] = plan[c].state
    /\ UNCHANGED <<envVars, plans, nonces, lock, op, ref, caller, plan, snap, seen, effects>>

\* ... then takes the lock, reads the sources again and fetches from them.
UpdateLists(c) ==
    /\ Goes(c, "x_update", "x_finish")
    /\ Records(c, host[plan[c].operation])
    /\ UNCHANGED <<envVars, plans, nonces, lock, op, ref, caller, plan, snap, seen>>

\* The answer is sent and the gate reopens.
Finish(c) ==
    /\ pc[c] = "x_finish"
    /\ Ends(c)
    /\ Releases(c)
    /\ UNCHANGED <<envVars, plans, nonces, effects>>

\* The broker is restarted: plans and calls are in memory only.
Restart ==
    /\ plans' = {}
    /\ lock' = None
    /\ pc' = [c \in Calls |-> "idle"]
    /\ op' = [c \in Calls |-> None]
    /\ ref' = [c \in Calls |-> None]
    /\ caller' = [c \in Calls |-> None]
    /\ plan' = [c \in Calls |-> None]
    /\ snap' = [c \in Calls |-> None]
    /\ seen' = [c \in Calls |-> {}]
    /\ UNCHANGED <<envVars, nonces, effects>>

-----------------------------------------------------------------------------
PrepareNext(c) ==
    \/ \E n \in Names, w \in Principals, o \in Operations : PrepareBegin(c, n, w, o)
    \/ PrepareSnapshot(c)
    \/ \E w \in Principals : PrepareIdentify(c, w)
    \/ PrepareStore(c)

ApplyNext(c) ==
    \/ \E n \in Names, w \in Principals, i, d \in Ids : ApplyBegin(c, n, w, i, d)
    \/ ApplyConsume(c)
    \/ ApplySnapshot(c)
    \/ ApplyRevalidate(c)
    \/ ApplyAuthorize(c)
    \/ \E w \in Principals : ApplyIdentify(c, w)

ExecuteNext(c) ==
    \/ ExecuteService(c)
    \/ EnsureUnexpired(c)
    \/ \E s \in States : Systemctl(c, s)
    \/ OpenPidfd(c)
    \/ ExecuteKill(c)
    \/ Terminate(c)
    \/ \E s \in States : RunPackages(c, s)
    \/ CompareSources(c)
    \/ UpdateLists(c)
    \/ Finish(c)

EnvNext ==
    \/ \E t \in Times : SetClock(t)
    \/ \E o \in Operations \ KillOps, s \in States : ChangeHost(o, s)
    \/ \E o \in KillOps : ChangeProcess(o)

Next ==
    \/ EnvNext
    \/ Restart
    \/ \E c \in Calls : \/ TakeLock(c)
                        \/ Busy(c)
                        \/ Fails(c)
                        \/ PrepareNext(c)
                        \/ ApplyNext(c)
                        \/ ExecuteNext(c)

Spec == Init /\ [][Next]_vars
-----------------------------------------------------------------------------
(* Properties *)

\* Every variable has its type; a call holds exactly what its step needs.
TypeOK ==
    /\ clock \in Times
    /\ host \in [Operations -> States]
    /\ alive \in [KillOps -> BOOLEAN]
    /\ plans \subseteq CanonicalPlan
    /\ nonces \subseteq Ids
    /\ lock \in Calls \cup {None}
    /\ pc \in [Calls -> Steps]
    /\ op \in [Calls -> Operations \cup {None}]
    /\ ref \in [Calls -> [id : Ids, digest : Ids] \cup {None}]
    /\ caller \in [Calls -> Caller \cup {None}]
    /\ plan \in [Calls -> CanonicalPlan \cup {None}]
    /\ snap \in [Calls -> States \cup {None}]
    /\ seen \in [Calls -> SUBSET Findings]
    /\ effects \in [Ids -> Seq(Effect)]

InAttempt(c) == pc[c] \in Attempting \cup {"x_finish"}

\* A plan is attempted by one Apply at most, never returns to the store, and
\* changes the host at most once, whatever calls run concurrently, fail or are
\* cut off by a restart (PlanStore::consume removes it before anything else).
SingleUse ==
    /\ \A c \in Calls : InAttempt(c) => plan[c].id \notin {p.id : p \in plans}
    /\ \A c, d \in Calls : InAttempt(c) /\ InAttempt(d) => c = d
    /\ \A i \in Ids : Len(effects[i]) <= 1
    /\ \A i \in Ids : effects[i] # <<>> => i \notin {p.id : p \in plans}

\* Nothing is changed for a plan unless, after its consumption, polkit granted
\* it, and after the grant the sender was still the plan's caller and the target
\* was once more in the previewed state (the second half of apply).
EarnedEffects ==
    \A i \in Ids : \A k \in DOMAIN effects[i] : effects[i][k].seen = Findings

\* A terminated process is the previewed one although pids are reused at any
\* moment (the pidfd is opened before the last state check), and packages change
\* only from the previewed resolution (the worker compares under its lock).
ApprovedTarget ==
    \A i \in Ids : \A k \in DOMAIN effects[i] :
        effects[i][k].operation \in KillOps \cup PackageOps =>
            effects[i][k].hit = effects[i][k].approved

\* The store never holds more plans than allowed, in all and per connection.
QuotaHolds ==
    /\ Cardinality(plans) <= MaxPlans
    /\ \A n \in Names : Cardinality(OfName(plans, n)) <= MaxPerName

\* A pending plan is lost only to its own caller's Apply, to its expiry or to a
\* restart: no other caller, no busy gate and no failing call invalidates it.
PendingKept ==
    [][\A p \in plans \ plans' :
           \/ clock >= Expires(p)
           \/ \E c \in Calls : /\ pc[c] = "a_consume"
                               /\ ref[c].id = p.id
                               /\ caller[c] = p.caller
           \/ Restart]_vars

\* The life of every plan follows PlanLifecycle.
Phase(i) ==
    IF effects[i] # <<>> THEN "applied"
    ELSE IF i \in {p.id : p \in plans} THEN "pending"
    ELSE IF \E c \in Calls : pc[c] \in AfterGrant \cup Executing /\ plan[c].id = i
         THEN "approved"
    ELSE IF \E c \in Calls : pc[c] \in BeforeGrant /\ plan[c].id = i
         THEN "attempted"
    ELSE IF i \in nonces THEN "void" ELSE "unused"

Lifecycle == INSTANCE PlanLifecycle WITH phase <- [i \in Ids |-> Phase(i)]

LifecycleSpec == Lifecycle!Spec

-----------------------------------------------------------------------------
(* The inductive invariant behind these properties (PrivilegedBrokerProofs) *)

PlanIds == {p.id : p \in plans}

\* operation_lock is held by exactly the call past its try_lock.
GateInv == \A c \in Calls : pc[c] \in Critical <=> lock = c

\* What a call has in hand at each step.
HandInv == \A c \in Calls :
    /\ pc[c] \in PrepareSteps => op[c] \in Operations /\ caller[c] \in Caller
    /\ pc[c] \in {"p_identify", "p_store"} => snap[c] \in States
    /\ pc[c] \in BeforeConsume => /\ ref[c] \in [id : Ids, digest : Ids]
                                  /\ caller[c] \in Caller
    /\ InAttempt(c) => plan[c] \in CanonicalPlan /\ caller[c] \in Caller
    /\ pc[c] \in {"x_service", "x_systemctl"} => plan[c].operation \in ServiceOps
    /\ pc[c] \in {"x_pidfd", "x_signal"} => plan[c].operation \in KillOps
    /\ pc[c] = "x_update" => plan[c].operation \in UpdateOps

\* A nonce names one plan, which is in one place: pending, in an attempt that
\* has not changed anything, or past its only effect.
NonceInv ==
    /\ PlanIds \subseteq nonces
    /\ \A p, q \in plans : p.id = q.id => p = q
    /\ \A c \in Calls : InAttempt(c) => plan[c].id \in nonces \ PlanIds
    /\ \A c \in Calls : pc[c] \in Attempting => effects[plan[c].id] = <<>>
    /\ \A i \in Ids : effects[i] # <<>> => i \in nonces \ PlanIds
    /\ \A i \in Ids : Len(effects[i]) <= 1

\* What an attempt has really found by the time it relies on it.
FoundInv == \A c \in Calls :
    /\ pc[c] \in AfterGrant => "granted" \in seen[c]
    /\ pc[c] \in {"a_resnapshot", "a_recheck"} /\ caller[c] = plan[c].caller
           => "caller" \in seen[c]
    /\ pc[c] = "a_recheck" /\ snap[c] = plan[c].state => "state" \in seen[c]
    /\ pc[c] \in Executing => seen[c] = Findings
    /\ pc[c] = "x_signal" => snap[c] = plan[c].state

IndInv == TypeOK /\ GateInv /\ HandInv /\ NonceInv /\ FoundInv
             /\ EarnedEffects /\ ApprovedTarget
=============================================================================
