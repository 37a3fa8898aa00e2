-------------------------- MODULE AptWorkerProofs --------------------------
(***************************************************************************)
(* What an approved package plan is worth, for any packages, resolver and  *)
(* number of workers: proofs of the invariants of AptWorker.               *)
(***************************************************************************)
EXTENDS AptWorker, TLAPS

\* The second resolution was made on the status that is still there.
Fresh ==
    \A w \in Workers : pc[w] = "reresolved" =>
        \A p \in DOMAIN planned[w].to : status[p].ver = planned[w].from[p]

\* The refusals tested on the first resolution bind the approved plan, not
\* only the resolution they were tested on.
Vetted ==
    \A w \in Workers : pc[w] \in Checked =>
        /\ approval[w].plan.operation \in PkgOps
        /\ FlagsOf(approval[w].plan) \subseteq approval[w].allow

\* dpkg is given the plan's own packages.
Scoped ==
    \A w \in Workers : pc[w] = "installing" =>
        todo[w] \subseteq DOMAIN planned[w].to

AptInv == AptTypeOK /\ Fresh /\ Vetted /\ Scoped /\ InstallsApproved

\* What BuildPlannedTransaction returns is a package plan of the operation, and
\* its old versions are the ones in the status.
LEMMA PlanFacts ==
    ASSUME AptTypeOK, NEW o \in PkgOps, Resolvable(o)
    PROVE  /\ IsPackagePlan(Plan(o))
           /\ Plan(o).operation = o
           /\ \A p \in DOMAIN Plan(o).to : status[p].ver = Plan(o).from[p]
<1> DEFINE t == Solver(o, status, lists)
           c == Changed(t, status)
<1>1. t \in Targets
  BY SolverAssumption DEF AptTypeOK, Resolvable
<1>2. /\ Plan(o).operation = o
      /\ Plan(o).to = [p \in c |-> t[p]]
      /\ Plan(o).from = [p \in c |-> status[p].ver]
  BY DEF Plan, BuildCanonicalPlan
<1>3. c \subseteq Pkgs
  BY DEF Changed
<1>4. \A p \in Pkgs : t[p] \in Installed /\ status[p].ver \in Installed
  BY <1>1 DEF AptTypeOK, Status, Targets
<1> HIDE DEF t, c
<1> QED
  BY <1>2, <1>3, <1>4 DEF IsPackagePlan

\* The host changes the status only under its own lock, when no worker is
\* between its second resolution and the end.
LEMMA HostStep == AptInv /\ HostNext => AptInv'
<1> SUFFICES ASSUME AptInv, HostNext PROVE AptInv'
  OBVIOUS
<1> USE AptAssumption DEF AptInv, workVars
<1>1. UNCHANGED <<offered, workVars>>
  BY DEF HostNext, ForeignLock, ForeignChange, ForeignUnlock, ForeignUpdate,
         EditSources
<1>2. status' = status \/ lock = Foreign
  BY DEF HostNext, ForeignLock, ForeignChange, ForeignUnlock, ForeignUpdate,
         EditSources, hostVars
<1>3. \A w \in Workers : lock' = w <=> lock = w
  BY DEF HostNext, ForeignLock, ForeignChange, ForeignUnlock, ForeignUpdate,
         EditSources
<1>4. /\ status' \in Status /\ lists' \in Lists /\ sources' \in Sources
      /\ lock' \in Workers \cup {Foreign, None}
  <2>1. CASE ForeignChange
    <3>1. PICK p \in Pkgs, v \in Installed, h \in BOOLEAN :
            status' = [status EXCEPT ![p] = [ver |-> v, held |-> h]]
      BY <2>1 DEF ForeignChange
    <3>2. status' \in Status
      BY <3>1 DEF AptTypeOK, Status
    <3> QED
      BY <2>1, <3>2 DEF ForeignChange, AptTypeOK
  <2> QED
    BY <2>1 DEF HostNext, ForeignLock, ForeignUnlock, ForeignUpdate,
                EditSources, hostVars, AptTypeOK
<1>5. AptTypeOK'
  BY <1>1, <1>3, <1>4 DEF AptTypeOK
<1>6. \A w \in Workers : lock = Foreign => pc[w] \notin Locking
  BY DEF AptTypeOK
<1>7. Fresh' /\ InstallsApproved'
  BY <1>1, <1>2, <1>6 DEF Fresh, InstallsApproved, Locking, Executing
<1>8. Vetted' /\ Scoped'
  BY <1>1 DEF Vetted, Scoped
<1> QED
  BY <1>5, <1>7, <1>8

\* Planning only adds plans to choose from.
LEMMA PlanStep == AptInv /\ PlanNext => AptInv'
<1> SUFFICES ASSUME AptInv, PlanNext PROVE AptInv'
  OBVIOUS
<1> USE DEF AptInv, hostVars, workVars
<1>1. UNCHANGED <<hostVars, lock, workVars>>
  BY DEF PlanNext, PlanUpdate, HandlePlanOnly
<1>2. PICK q : offered' = offered \cup {q} /\ (IsPackagePlan(q) \/ IsUpdatePlan(q))
  <2>1. CASE PlanUpdate
    <3>1. IsUpdatePlan(Manifest)
      BY DEF Manifest, IsUpdatePlan, AptTypeOK
    <3> QED
      BY <2>1, <3>1 DEF PlanUpdate
  <2>2. CASE \E o \in PkgOps : HandlePlanOnly(o)
    <3>1. PICK o \in PkgOps : Resolvable(o) /\ offered' = offered \cup {Plan(o)}
      BY <2>2 DEF HandlePlanOnly
    <3>2. IsPackagePlan(Plan(o))
      BY <3>1, PlanFacts
    <3> QED
      BY <3>1, <3>2
  <2> QED
    BY <2>1, <2>2 DEF PlanNext
<1>3. AptTypeOK'
  BY <1>1, <1>2 DEF AptTypeOK
<1>4. Fresh' /\ Vetted' /\ Scoped' /\ InstallsApproved'
  BY <1>1 DEF Fresh, Vetted, Scoped, InstallsApproved
<1> QED
  BY <1>3, <1>4

\* A worker's step: each case shows what the step does to the worker itself;
\* the others are untouched, and only the holder of the lock changes the status.
LEMMA WorkerStep ==
    ASSUME AptInv, NEW w \in Workers, WorkerNext(w) PROVE AptInv'
<1> USE AptAssumption DEF AptInv, hostVars, workVars, Goes
<1>1. CASE ParseApproval(w)
  <2>1. AptTypeOK'
    BY <1>1 DEF ParseApproval, Requested, AptTypeOK, Phases, Locking, Checked,
       Executing, Updating
  <2>2. Fresh' /\ Vetted' /\ Scoped' /\ InstallsApproved'
    BY <1>1 DEF ParseApproval, Requested, AptTypeOK, Fresh, Vetted, Scoped,
       InstallsApproved, Checked, Executing, Locking
  <2> QED
    BY <2>1, <2>2
<1>2. CASE OpenFirst(w)
  <2>1. AptTypeOK'
    BY <1>2, PlanFacts DEF OpenFirst, TakeLock, AptTypeOK, Phases, Locking, Checked,
       Executing, Updating
  <2>2. Fresh' /\ Vetted' /\ Scoped' /\ InstallsApproved'
    BY <1>2, PlanFacts DEF OpenFirst, TakeLock, AptTypeOK, Fresh, Vetted, Scoped,
       InstallsApproved, Checked, Executing, Locking
  <2> QED
    BY <2>1, <2>2
<1>3. CASE CheckFirst(w)
  <2>1. AptTypeOK'
    BY <1>3 DEF CheckFirst, DropLock, Matches, Permitted, AptTypeOK, Phases, Locking, Checked,
       Executing, Updating
  <2>2. Fresh' /\ Vetted' /\ Scoped' /\ InstallsApproved'
    BY <1>3 DEF CheckFirst, DropLock, Matches, Permitted, IsPackagePlan, AptTypeOK, Fresh, Vetted, Scoped,
       InstallsApproved, Checked, Executing, Locking
  <2> QED
    BY <2>1, <2>2
<1>4. CASE OpenSecond(w)
  <2> DEFINE q == Plan(approval[w].plan.operation)
  <2>1. /\ IsPackagePlan(q)
        /\ \A p \in DOMAIN q.to : status[p].ver = q.from[p]
    BY <1>4, PlanFacts DEF OpenSecond, Vetted, Checked
  <2>2. /\ pc[w] = "checked" /\ pc' = [pc EXCEPT ![w] = "reresolved"]
        /\ lock = None /\ lock' = w
        /\ planned' = [planned EXCEPT ![w] = q]
        /\ UNCHANGED <<hostVars, offered, approval, todo, reading>>
    BY <1>4 DEF OpenSecond, TakeLock
  <2> HIDE DEF q
  <2>3. AptTypeOK'
    BY <2>1, <2>2 DEF AptTypeOK, Phases, Locking, Checked, Executing, Updating
  <2>4. Fresh' /\ Vetted' /\ Scoped' /\ InstallsApproved'
    BY <2>1, <2>2 DEF AptTypeOK, Fresh, Vetted, Scoped, InstallsApproved,
       Checked, Executing
  <2> QED
    BY <2>3, <2>4
<1>5. CASE CheckSecond(w)
  <2>1. AptTypeOK'
    BY <1>5 DEF CheckSecond, Matches, AptTypeOK, Phases, Locking, Checked,
       Executing, Updating
  <2>2. Fresh' /\ Vetted' /\ Scoped' /\ InstallsApproved'
    BY <1>5 DEF CheckSecond, Matches, AptTypeOK, Fresh, Vetted, Scoped,
       InstallsApproved, Checked, Executing, Locking
  <2> QED
    BY <2>1, <2>2
<1>6. CASE Fetched(w)
  <2>1. AptTypeOK'
    BY <1>6 DEF Fetched, IsPackagePlan, AptTypeOK, Phases, Locking, Checked,
       Executing, Updating
  <2>2. Fresh' /\ Vetted' /\ Scoped' /\ InstallsApproved'
    BY <1>6 DEF Fetched, IsPackagePlan, AptTypeOK, Fresh, Vetted, Scoped,
       InstallsApproved, Checked, Executing, Locking
  <2> QED
    BY <2>1, <2>2
<1>7. CASE DoInstall(w)
  <2>1. PICK p \in todo[w] :
          /\ status' = [status EXCEPT ![p].ver = planned[w].to[p]]
          /\ todo' = [todo EXCEPT ![w] = @ \ {p}]
    BY <1>7 DEF DoInstall
  <2>2. /\ pc[w] = "installing"
        /\ UNCHANGED <<lists, sources, lock, offered, pc, approval, planned, reading>>
    BY <1>7 DEF DoInstall
  <2>3. p \in Pkgs /\ p \in DOMAIN planned[w].to /\ planned[w].to[p] \in Installed
    BY <2>2 DEF AptTypeOK, Scoped, Checked, Executing, IsPackagePlan
  <2>4. /\ status' \in Status
        /\ status'[p].ver = planned[w].to[p]
        /\ \A r \in Pkgs \ {p} : status'[r] = status[r]
    BY <2>1, <2>3 DEF AptTypeOK, Status
  <2>5. AptTypeOK'
    BY <2>1, <2>2, <2>4 DEF AptTypeOK
  <2>6. \A u \in Workers \ {w} : pc[u] \notin Locking
    BY <2>2 DEF AptTypeOK, Locking
  <2>7. Fresh' /\ Vetted' /\ Scoped'
    BY <2>1, <2>2, <2>6 DEF AptTypeOK, Fresh, Vetted, Scoped, Locking
  <2>8. \A r \in DOMAIN planned[w].to :
          status'[r].ver = IF r \notin todo'[w] THEN planned[w].to[r]
                           ELSE planned[w].from[r]
    <3>1. todo'[w] = todo[w] \ {p}
      BY <2>1 DEF AptTypeOK
    <3>2. DOMAIN planned[w].to \subseteq Pkgs
      BY <2>2 DEF AptTypeOK, Checked, Executing, IsPackagePlan
    <3> QED
      BY <2>2, <2>4, <3>1, <3>2 DEF InstallsApproved, Executing
  <2>9. InstallsApproved'
    BY <2>2, <2>6, <2>8 DEF InstallsApproved, Executing, Locking
  <2> QED
    BY <2>5, <2>7, <2>9
<1>8. CASE BuildSourcesManifest(w)
  <2>1. AptTypeOK'
    BY <1>8 DEF BuildSourcesManifest, Requested, AptTypeOK, Phases, Locking, Checked,
       Executing, Updating
  <2>2. Fresh' /\ Vetted' /\ Scoped' /\ InstallsApproved'
    BY <1>8 DEF BuildSourcesManifest, Requested, AptTypeOK, Fresh, Vetted, Scoped,
       InstallsApproved, Checked, Executing, Locking
  <2> QED
    BY <2>1, <2>2
<1>9. CASE CompareManifest(w)
  <2>1. AptTypeOK'
    BY <1>9 DEF CompareManifest, AptTypeOK, Phases, Locking, Checked,
       Executing, Updating
  <2>2. Fresh' /\ Vetted' /\ Scoped' /\ InstallsApproved'
    BY <1>9 DEF CompareManifest, AptTypeOK, Fresh, Vetted, Scoped,
       InstallsApproved, Checked, Executing, Locking
  <2> QED
    BY <2>1, <2>2
<1>10. CASE LockForUpdate(w)
  <2>1. AptTypeOK'
    BY <1>10 DEF LockForUpdate, TakeLock, AptTypeOK, Phases, Locking, Checked,
       Executing, Updating
  <2>2. Fresh' /\ Vetted' /\ Scoped' /\ InstallsApproved'
    BY <1>10 DEF LockForUpdate, TakeLock, AptTypeOK, Fresh, Vetted, Scoped,
       InstallsApproved, Checked, Executing, Locking
  <2> QED
    BY <2>1, <2>2
<1>11. CASE ReadMainList(w)
  <2>1. AptTypeOK'
    BY <1>11 DEF ReadMainList, AptTypeOK, Phases, Locking, Checked,
       Executing, Updating
  <2>2. Fresh' /\ Vetted' /\ Scoped' /\ InstallsApproved'
    BY <1>11 DEF ReadMainList, AptTypeOK, Fresh, Vetted, Scoped,
       InstallsApproved, Checked, Executing, Locking
  <2> QED
    BY <2>1, <2>2
<1>12. CASE ListUpdate(w)
  <2>1. AptTypeOK'
    BY <1>12 DEF ListUpdate, AptTypeOK, Phases, Locking, Checked,
       Executing, Updating
  <2>2. Fresh' /\ Vetted' /\ Scoped' /\ InstallsApproved'
    BY <1>12 DEF ListUpdate, AptTypeOK, Fresh, Vetted, Scoped,
       InstallsApproved, Checked, Executing, Locking
  <2> QED
    BY <2>1, <2>2
<1>13. CASE Exit(w)
  <2>1. AptTypeOK'
    BY <1>13 DEF Exit, DropLock, AptTypeOK, Phases, Locking, Checked,
       Executing, Updating
  <2>2. Fresh' /\ Vetted' /\ Scoped' /\ InstallsApproved'
    BY <1>13 DEF Exit, DropLock, AptTypeOK, Fresh, Vetted, Scoped,
       InstallsApproved, Checked, Executing, Locking
  <2> QED
    BY <2>1, <2>2
<1> QED
  BY <1>1, <1>2, <1>3, <1>4, <1>5, <1>6, <1>7, <1>8, <1>9, <1>10, <1>11, <1>12, <1>13 DEF WorkerNext

\* The invariant is inductive.
THEOREM AptInductive == Spec => []AptInv
<1>1. Init => AptInv
  BY AptAssumption DEF Init, AptInv, AptTypeOK, Fresh, Vetted, Scoped,
     InstallsApproved, Phases, Locking, Checked, Executing, Updating
<1>2. AptInv /\ [Next]_vars => AptInv'
  <2>1. AptInv /\ UNCHANGED vars => AptInv'
    BY DEF vars, hostVars, workVars, AptInv, AptTypeOK, Fresh, Vetted, Scoped,
           InstallsApproved
  <2> QED
    BY <2>1, HostStep, PlanStep, WorkerStep DEF Next
<1> QED
  BY <1>1, <1>2, PTL DEF Spec

\* Types hold and no path of the worker leaks the package system lock.
THEOREM AptTypeCorrect == Spec => []AptTypeOK
BY AptInductive, PTL DEF AptInv

\* A worker that executes runs the approved plan, on the versions it showed.
THEOREM InstallsAreApproved == Spec => []InstallsApproved
BY AptInductive, PTL DEF AptInv

\* A change the approval does not allow is never executed, though the refusals
\* are tested on the first resolution only.
THEOREM ForbiddenChangesNeverRun == Spec => []ForbiddenNeverRuns
<1>1. AptInv => ForbiddenNeverRuns
  BY DEF AptInv, Vetted, InstallsApproved, ForbiddenNeverRuns, Checked, Executing
<1> QED
  BY <1>1, AptInductive, PTL

\* The status changes only under the lock and, at a worker's hands, only along
\* its approved plan.
THEOREM ChangesAreApproved == Spec => ChangesApproved
<1> DEFINE Approved ==
      \/ lock = Foreign
      \/ \E w \in Workers, p \in Pkgs :
           /\ lock = w
           /\ p \in DOMAIN approval[w].plan.to
           /\ status[p].ver = approval[w].plan.from[p]
           /\ status' = [status EXCEPT ![p].ver = approval[w].plan.to[p]]
<1>1. AptInv /\ [Next]_vars => [status' # status => Approved]_vars
  <2> SUFFICES ASSUME AptInv, Next, status' # status PROVE Approved
    BY DEF vars, hostVars
  <2>1. CASE HostNext
    BY <2>1 DEF HostNext, ForeignLock, ForeignChange, ForeignUnlock,
                ForeignUpdate, EditSources, hostVars
  <2>2. CASE PlanNext
    BY <2>2 DEF PlanNext, PlanUpdate, HandlePlanOnly, hostVars
  <2>3. ASSUME NEW w \in Workers, WorkerNext(w) PROVE Approved
    <3>1. DoInstall(w)
      BY <2>3 DEF WorkerNext, ParseApproval, OpenFirst, CheckFirst, OpenSecond,
         CheckSecond, Fetched, BuildSourcesManifest, CompareManifest,
         LockForUpdate, ReadMainList, ListUpdate, Exit, hostVars
    <3>2. PICK p \in todo[w] :
            status' = [status EXCEPT ![p].ver = planned[w].to[p]]
      BY <3>1 DEF DoInstall
    <3>3. /\ pc[w] = "installing" /\ lock = w
          /\ p \in DOMAIN planned[w].to /\ p \in Pkgs
      BY <3>1 DEF DoInstall, AptInv, AptTypeOK, Scoped, Locking
    <3>4. planned[w] = approval[w].plan /\ status[p].ver = planned[w].from[p]
      BY <3>3 DEF AptInv, InstallsApproved, Executing
    <3> QED
      BY <3>2, <3>3, <3>4
  <2> QED
    BY <2>1, <2>2, <2>3 DEF Next
<1> QED
  BY <1>1, AptInductive, PTL DEF Spec, ChangesApproved
=============================================================================
