----------------------------- MODULE AptWorker -----------------------------
(***************************************************************************)
(* The root package worker sentia-apt-worker (native/sentia-apt): one      *)
(* process per request, which plans, executes an approved package plan or  *)
(* refreshes the package lists.                                            *)
(*                                                                         *)
(* Workers interleave with each other and with foreign package managers.   *)
(* Whoever changes the dpkg status holds the package system lock, but the  *)
(* package lists (refreshed under a lock of their own) and the source      *)
(* files (edited by an administrator) change at any time.  A worker can    *)
(* fail, or be killed with its process group by the broker's timeout, at   *)
(* every step; the kernel then drops its lock.                             *)
(***************************************************************************)
EXTENDS Naturals, FiniteSets

CONSTANTS
    Workers,        \* worker processes
    Foreign,        \* another package manager, which respects the lock
    None,           \* nobody, no plan, no sources
    Pkgs,           \* packages
    Versions,       \* versions of a package, as positive numbers
    Essential,      \* packages flagged essential or important
    Origin,         \* [Versions -> where a version comes from, or None]
    PkgOps,         \* apt_install, apt_remove, apt_upgrade with arguments
    Update,         \* the operation apt_update
    Sources,        \* contents of the source files
    Allows,         \* the sets of allow_* flags an approval may carry
    MaxOffers,      \* bound: plans shown for approval
    Solver(_, _, _) \* external: libapt's resolver; see Resolvable

Flags == {"source", "essential", "held"}
NotInstalled == 0
Installed == Versions \cup {NotInstalled}

\* /var/lib/dpkg/status: the version of each package and whether it is held.
Status == [Pkgs -> [ver : Installed, held : BOOLEAN]]
\* /var/lib/apt/lists: the candidate version of each package.
Lists == [Pkgs -> Versions]
\* What libapt marks for an operation: the wanted versions, or None when it
\* finds no solution.
Targets == [Pkgs -> Installed]

ASSUME AptAssumption ==
    /\ Foreign \notin Workers
    /\ None \notin Workers \cup {Foreign} \cup Sources \cup Targets
    /\ Versions \subseteq Nat \ {0}
    /\ Essential \subseteq Pkgs
    /\ Update \notin PkgOps
    /\ Allows \subseteq SUBSET Flags
    /\ MaxOffers \in Nat

ASSUME SolverAssumption ==
    \A o \in PkgOps, s \in Status, l \in Lists :
        Solver(o, s, l) \in Targets \cup {None}

VARIABLES
    status,     \* the dpkg status
    lists,      \* the package lists
    sources,    \* the source files
    lock,       \* holder of the package system lock
    offered,    \* canonical plans returned by mode=plan
    pc,         \* where each worker is
    approval,   \* [Workers -> [plan, allow]]: ApprovalEnvelope, or None
    planned,    \* the worker's last PlannedTransaction, or None
    todo,       \* packages dpkg has still to change for the worker
    reading     \* the sources the worker's ListUpdate reads, or None

hostVars == <<status, lists, sources>>
workVars == <<pc, approval, planned, todo, reading>>
vars == <<hostVars, lock, offered, workVars>>

-----------------------------------------------------------------------------
(* Plans *)

Changed(t, s) == {p \in Pkgs : t[p] # s[p].ver}

\* Both versions have index files and these name different origins.  Where an
\* origin is unknown the plan only says that detection is incomplete.
Moves(from, to) ==
    /\ from # NotInstalled
    /\ to # NotInstalled
    /\ Origin[from] # None
    /\ Origin[to] # None
    /\ Origin[from] # Origin[to]

BuildCanonicalPlan(o, t, s) ==
    LET c == Changed(t, s) IN
    [operation |-> o,
     from      |-> [p \in c |-> s[p].ver],
     to        |-> [p \in c |-> t[p]],
     source    |-> {p \in c : Moves(s[p].ver, t[p])},
     essential |-> {p \in c : t[p] = NotInstalled /\ p \in Essential},
     held      |-> {p \in c : s[p].held}]

\* BuildPlannedTransaction: the operation is marked and resolved on the status
\* and lists that Open read.  plan_digest is the SHA-256 of the whole canonical
\* plan, so plans stand for their digests.
Resolvable(o) == Solver(o, status, lists) # None
Plan(o) == BuildCanonicalPlan(o, Solver(o, status, lists), status)

\* HandleUpdate's canonical plan is the manifest of the source files.
Manifest == [operation |-> Update, manifest |-> sources]

FlagsOf(q) == (IF q.source # {} THEN {"source"} ELSE {})
         \cup (IF q.essential # {} THEN {"essential"} ELSE {})
         \cup (IF q.held # {} THEN {"held"} ELSE {})

\* The digest comparison, and the three refusals of HandleExecute.
Matches_NewVersionsOnly(q, a) ==
    IF q.operation = Update THEN q = a.plan
    ELSE q.operation = a.plan.operation /\ q.to = a.plan.to
Matches(q, a) == q = a.plan

Permitted_IgnoresHolds(q, a) == FlagsOf(q) \ {"held"} \subseteq a.allow
Permitted(q, a) == FlagsOf(q) \subseteq a.allow

-----------------------------------------------------------------------------
(* The host *)

Init ==
    /\ status \in Status
    /\ lists \in Lists
    /\ sources \in Sources
    /\ lock = None
    /\ offered = {}
    /\ pc = [w \in Workers |-> "idle"]
    /\ approval = [w \in Workers |-> None]
    /\ planned = [w \in Workers |-> None]
    /\ todo = [w \in Workers |-> {}]
    /\ reading = [w \in Workers |-> None]

ForeignLock ==
    /\ lock = None
    /\ lock' = Foreign
    /\ UNCHANGED <<hostVars, offered, workVars>>

ForeignChange ==
    /\ lock = Foreign
    /\ \E p \in Pkgs, v \in Installed, h \in BOOLEAN :
           status' = [status EXCEPT ![p] = [ver |-> v, held |-> h]]
    /\ UNCHANGED <<lists, sources, lock, offered, workVars>>

ForeignUnlock ==
    /\ lock = Foreign
    /\ lock' = None
    /\ UNCHANGED <<hostVars, offered, workVars>>

ForeignUpdate ==
    /\ lists' \in Lists
    /\ UNCHANGED <<status, sources, lock, offered, workVars>>

EditSources ==
    /\ sources' \in Sources
    /\ UNCHANGED <<status, lists, lock, offered, workVars>>

-----------------------------------------------------------------------------
(* A worker *)

Goes(w, from, to) == pc[w] = from /\ pc' = [pc EXCEPT ![w] = to]

\* pkgCacheFile::Open(nullptr, true) does not wait for the lock, it fails.
TakeLock(w) == lock = None /\ lock' = w

DropLock_Leaks(w) == lock' = lock
DropLock(w) == lock' = IF lock = w THEN None ELSE lock

\* mode=plan of a package operation: Open without the lock.
HandlePlanOnly(o) ==
    /\ Resolvable(o)
    /\ offered' = offered \cup {Plan(o)}
    /\ Cardinality(offered') <= MaxOffers
    /\ UNCHANGED <<hostVars, lock, workVars>>

\* mode=plan of apt_update.
PlanUpdate ==
    /\ offered' = offered \cup {Manifest}
    /\ Cardinality(offered') <= MaxOffers
    /\ UNCHANGED <<hostVars, lock, workVars>>

\* mode=execute, root: the request carries an unexpired approval of a plan shown before.
\* Its operation is the one the approval is for: a digest of another operation's plan
\* never matches, as the operation is part of the plan.
Requested(w, operations) ==
    \E q \in offered, f \in Allows :
        /\ q.operation \in operations
        /\ approval' = [approval EXCEPT ![w] = [plan |-> q, allow |-> f]]

ParseApproval(w) ==
    /\ Goes(w, "idle", "parsed")
    /\ Requested(w, PkgOps)
    /\ UNCHANGED <<hostVars, lock, offered, planned, todo, reading>>

\* The first locked resolution; the cache file and its lock go out of scope
\* when BuildPlannedTransaction returns.
OpenFirst(w) ==
    /\ Goes(w, "parsed", "resolved")
    /\ approval[w].plan.operation \in PkgOps
    /\ TakeLock(w)
    /\ Resolvable(approval[w].plan.operation)
    /\ planned' = [planned EXCEPT ![w] = Plan(approval[w].plan.operation)]
    /\ UNCHANGED <<hostVars, offered, approval, todo, reading>>

CheckFirst(w) ==
    /\ Goes(w, "resolved", "checked")
    /\ Matches(planned[w], approval[w])
    /\ Permitted(planned[w], approval[w])
    /\ DropLock(w)
    /\ UNCHANGED <<hostVars, offered, approval, planned, todo, reading>>

\* The second one, whose lock is kept to the end.
OpenSecond(w) ==
    /\ Goes(w, "checked", "reresolved")
    /\ TakeLock(w)
    /\ Resolvable(approval[w].plan.operation)
    /\ planned' = [planned EXCEPT ![w] = Plan(approval[w].plan.operation)]
    /\ UNCHANGED <<hostVars, offered, approval, todo, reading>>

CheckSecond_Unchecked(w) ==
    /\ Goes(w, "reresolved", "fetching")
    /\ UNCHANGED <<hostVars, lock, offered, approval, planned, todo, reading>>
CheckSecond(w) ==
    /\ Goes(w, "reresolved", "fetching")
    /\ Matches(planned[w], approval[w])
    /\ UNCHANGED <<hostVars, lock, offered, approval, planned, todo, reading>>

\* ExecuteResolvedPlan: the archives are fetched, the inner dpkg lock is handed
\* to dpkg while the outer one stays, and dpkg changes one package at a time.
Fetched(w) ==
    /\ Goes(w, "fetching", "installing")
    /\ todo' = [todo EXCEPT ![w] = DOMAIN planned[w].to]
    /\ UNCHANGED <<hostVars, lock, offered, approval, planned, reading>>

DoInstall(w) ==
    /\ pc[w] = "installing"
    /\ \E p \in todo[w] :
           /\ status' = [status EXCEPT ![p].ver = planned[w].to[p]]
           /\ todo' = [todo EXCEPT ![w] = @ \ {p}]
    /\ UNCHANGED <<lists, sources, lock, offered, pc, approval, planned, reading>>

\* HandleUpdate: BuildSourcesManifest comes first, then the approval is parsed and
\* compared with it; the lock comes afterwards, and the sources are read again under it.
BuildSourcesManifest(w) ==
    /\ Goes(w, "idle", "manifest")
    /\ Requested(w, {Update})
    /\ planned' = [planned EXCEPT ![w] = Manifest]
    /\ UNCHANGED <<hostVars, lock, offered, todo, reading>>

CompareManifest(w) ==
    /\ Goes(w, "manifest", "compared")
    /\ Matches(planned[w], approval[w])
    /\ UNCHANGED <<hostVars, lock, offered, approval, planned, todo, reading>>

LockForUpdate(w) ==
    /\ Goes(w, "compared", "locked")
    /\ TakeLock(w)
    /\ UNCHANGED <<hostVars, offered, approval, planned, todo, reading>>

ReadMainList(w) ==
    /\ Goes(w, "locked", "updating")
    /\ reading' = [reading EXCEPT ![w] = sources]
    /\ UNCHANGED <<hostVars, lock, offered, approval, planned, todo>>

ListUpdate(w) ==
    /\ pc[w] = "updating"
    /\ lists' \in Lists
    /\ UNCHANGED <<status, sources, lock, offered, workVars>>

\* The response is written, an error is thrown, or the process is killed: the
\* worker ends, from any step, and whatever it holds is released.
Exit(w) ==
    /\ pc[w] # "idle"
    /\ pc' = [pc EXCEPT ![w] = "idle"]
    /\ DropLock(w)
    /\ approval' = [approval EXCEPT ![w] = None]
    /\ planned' = [planned EXCEPT ![w] = None]
    /\ todo' = [todo EXCEPT ![w] = {}]
    /\ reading' = [reading EXCEPT ![w] = None]
    /\ UNCHANGED <<hostVars, offered>>

HostNext == ForeignLock \/ ForeignChange \/ ForeignUnlock \/ ForeignUpdate
            \/ EditSources

PlanNext == PlanUpdate \/ \E o \in PkgOps : HandlePlanOnly(o)

WorkerNext(w) ==
    \/ ParseApproval(w)
    \/ OpenFirst(w) \/ CheckFirst(w) \/ OpenSecond(w) \/ CheckSecond(w)
    \/ Fetched(w) \/ DoInstall(w)
    \/ BuildSourcesManifest(w) \/ CompareManifest(w) \/ LockForUpdate(w)
    \/ ReadMainList(w) \/ ListUpdate(w)
    \/ Exit(w)

Next == HostNext \/ PlanNext \/ \E w \in Workers : WorkerNext(w)

Spec == Init /\ [][Next]_vars

-----------------------------------------------------------------------------
(* Properties *)

IsPackagePlan(q) ==
    /\ q.operation \in PkgOps
    /\ DOMAIN q.to \subseteq Pkgs
    /\ q.to \in [DOMAIN q.to -> Installed]
    /\ q.from \in [DOMAIN q.to -> Installed]
IsUpdatePlan(q) == q.operation = Update /\ q.manifest \in Sources

Locking == {"resolved", "reresolved", "fetching", "installing", "locked",
            "updating"}
Executing == {"fetching", "installing"}
Checked == {"checked", "reresolved"} \cup Executing
Updating == {"manifest", "compared", "locked", "updating"}
Phases == {"idle", "parsed"} \cup Locking \cup Checked \cup Updating

\* Every variable has its type, each worker carries what its step needs, and
\* the lock belongs to a worker exactly during the steps for which its code
\* keeps the cache file or the unlock guard in scope: no path leaks it.
AptTypeOK ==
    /\ status \in Status
    /\ lists \in Lists
    /\ sources \in Sources
    /\ lock \in Workers \cup {Foreign, None}
    /\ \A q \in offered : IsPackagePlan(q) \/ IsUpdatePlan(q)
    /\ pc \in [Workers -> Phases]
    /\ DOMAIN approval = Workers
    /\ DOMAIN planned = Workers
    /\ todo \in [Workers -> SUBSET Pkgs]
    /\ reading \in [Workers -> Sources \cup {None}]
    /\ \A w \in Workers :
        /\ lock = w <=> pc[w] \in Locking
        /\ pc[w] # "idle" => /\ approval[w].plan \in offered
                             /\ approval[w].allow \in Allows
        /\ pc[w] \in Checked \cup {"resolved"} => IsPackagePlan(planned[w])

\* From the moment archives are fetched until dpkg is done, the worker runs the
\* very plan that was approved, and each of its packages is still in the
\* version the approval showed or already in the one it promised, although the
\* lock was released between the two resolutions and the package lists move
\* under the worker.
InstallsApproved ==
    \A w \in Workers : pc[w] \in Executing =>
        /\ planned[w] = approval[w].plan
        /\ \A p \in DOMAIN planned[w].to :
              status[p].ver = IF pc[w] = "installing" /\ p \notin todo[w]
                              THEN planned[w].to[p] ELSE planned[w].from[p]

\* HandleExecute tests the three refusals on its first resolution only; what it
\* executes is the second.  Still no source change, essential removal or held
\* change is ever executed that the approval does not allow.
ForbiddenNeverRuns ==
    \A w \in Workers : pc[w] \in Executing =>
        FlagsOf(planned[w]) \subseteq approval[w].allow

\* The dpkg status changes only at the hands of the process that holds the
\* lock; if that is a worker, the step takes one package of its approved plan
\* from the approved old version to the approved new one and keeps every hold.
ChangesApproved ==
    [][status' # status =>
         \/ lock = Foreign
         \/ \E w \in Workers, p \in Pkgs :
              /\ lock = w
              /\ p \in DOMAIN approval[w].plan.to
              /\ status[p].ver = approval[w].plan.from[p]
              /\ status' = [status EXCEPT ![p].ver = approval[w].plan.to[p]]]_vars

\* What broker-contract.json says of the worker, "worker_revalidates_under_locks":
\* the lists are refreshed from the sources that were approved.
UpdatesApproved ==
    \A w \in Workers : pc[w] = "updating" =>
        reading[w] = approval[w].plan.manifest

=============================================================================
