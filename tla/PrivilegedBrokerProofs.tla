----------------------- MODULE PrivilegedBrokerProofs -----------------------
(* Proofs, for every value of the constants, about module PrivilegedBroker. *)
EXTENDS PrivilegedBroker, FiniteSetTheorems, TLAPS

\* What CanonicalPlan means for a plan in an attempt.
LEMMA PlanFields ==
    ASSUME NEW p \in CanonicalPlan
    PROVE  /\ p.id \in Ids
           /\ p.caller \in Caller
           /\ p.operation \in Operations
           /\ p.state \in States
           /\ p.issued_at \in Times
BY DEF CanonicalPlan

\* A mutation appends one well-formed record to the effects of its plan.
LEMMA RecordsType ==
    ASSUME NEW c \in Calls, TypeOK, plan[c] \in CanonicalPlan,
           NEW s \in States, Records(c, s)
    PROVE  effects' \in [Ids -> Seq(Effect)]
<1> DEFINE e == [operation |-> plan[c].operation, approved |-> plan[c].state,
                 hit |-> s, seen |-> seen[c]]
<1>1. e \in Effect
  BY PlanFields DEF TypeOK, Effect
<1>2. plan[c].id \in Ids /\ effects \in [Ids -> Seq(Effect)]
  BY PlanFields DEF TypeOK
<1>3. Append(effects[plan[c].id], e) \in Seq(Effect)
  BY <1>1, <1>2
<1> QED
  BY <1>2, <1>3 DEF Records

\* Every step keeps the types: what each call holds at its step is what the
\* next statement of prepare, apply or execute needs.
LEMMA TypeStep == IndInv /\ [Next]_vars => TypeOK'
<1> SUFFICES ASSUME IndInv, [Next]_vars PROVE TypeOK'
  OBVIOUS
<1> USE BrokerAssumption DEF IndInv, TypeOK, HandInv, envVars, callVars, Goes, Ends, Releases, Steps, PrepareSteps, BeforeConsume, BeforeGrant, AfterGrant, Executing, Attempting, InAttempt
<1>1. CASE UNCHANGED vars
  BY <1>1 DEF vars
<1>2. CASE EnvNext
  <2>1. ASSUME NEW t \in Times, SetClock(t) PROVE TypeOK'
    BY <2>1 DEF SetClock
  <2>2. ASSUME NEW o \in Operations \ KillOps, NEW s \in States, ChangeHost(o, s) PROVE TypeOK'
    BY <2>2 DEF ChangeHost
  <2>3. ASSUME NEW o \in KillOps, ChangeProcess(o) PROVE TypeOK'
    <3>1. alive' \in [KillOps -> BOOLEAN]
      BY <2>3, Zenon DEF ChangeProcess
    <3>2. host' \in [Operations -> States]
      BY <2>3 DEF ChangeProcess
    <3> QED
      BY <2>3, <3>1, <3>2 DEF ChangeProcess
  <2> QED
    BY <1>2, <2>1, <2>2, <2>3 DEF EnvNext
<1>3. CASE Restart
  BY <1>3 DEF Restart
<1>4. ASSUME NEW c \in Calls, TakeLock(c) PROVE TypeOK'
  BY <1>4 DEF TakeLock
<1>5. ASSUME NEW c \in Calls, Busy(c) \/ Fails(c) \/ Finish(c) PROVE TypeOK'
  BY <1>5 DEF Busy, Fails, Finish
<1>6. ASSUME NEW c \in Calls, PrepareNext(c) PROVE TypeOK'
  <2>1. ASSUME NEW n \in Names, NEW w \in Principals, NEW o \in Operations, PrepareBegin(c, n, w, o) PROVE TypeOK'
    BY <1>6, <2>1 DEF PrepareBegin, Caller
  <2>2. CASE PrepareSnapshot(c)
    BY <1>6, <2>2 DEF PrepareSnapshot, Snapshots
  <2>3. ASSUME NEW w \in Principals, PrepareIdentify(c, w) PROVE TypeOK'
    BY <1>6, <2>3 DEF PrepareIdentify
  <2>4. CASE PrepareStore(c)
    BY <1>6, <2>4 DEF PrepareStore, Retained, CanonicalPlan
  <2> QED BY <1>6, <2>1, <2>2, <2>3, <2>4 DEF PrepareNext
<1>7. ASSUME NEW c \in Calls, ApplyNext(c) PROVE TypeOK'
  <2>1. ASSUME NEW n \in Names, NEW w \in Principals, NEW i \in Ids, NEW d \in Ids, ApplyBegin(c, n, w, i, d) PROVE TypeOK'
    BY <1>7, <2>1 DEF ApplyBegin, Caller
  <2>2. CASE ApplyConsume(c)
    <3>1. CASE Consumable(c) = {} /\ Ends(c) /\ Releases(c) /\ UNCHANGED plans
      BY <2>2, <3>1 DEF ApplyConsume
    <3>2. ASSUME NEW p \in Consumable(c), plans' = AfterConsume(p),
                 plan' = [plan EXCEPT ![c] = p], Goes(c, "a_consume", "a_snapshot"),
                 UNCHANGED <<lock, op, ref, caller, snap, seen>>
          PROVE  TypeOK'
      BY <2>2, <3>2 DEF ApplyConsume, AfterConsume, Consumable
    <3>3. ASSUME NEW p \in Consumable(c), plans' = AfterConsume(p), Ends(c), Releases(c)
          PROVE  TypeOK'
      BY <2>2, <3>3 DEF ApplyConsume, AfterConsume
    <3> QED
      BY <2>2, <3>1, <3>2, <3>3 DEF ApplyConsume
  <2>3. CASE ApplySnapshot(c)
    <3>1. plan[c].operation \in Operations
      BY <1>7, <2>3, PlanFields DEF ApplySnapshot
    <3>2. seen' \in [Calls -> SUBSET Findings]
      BY <1>7, <2>3 DEF ApplySnapshot, Findings
    <3>3. snap' \in [Calls -> States \cup {None}]
      BY <1>7, <2>3, <3>1 DEF ApplySnapshot, Snapshots
    <3> QED
      BY <1>7, <2>3, <3>2, <3>3 DEF ApplySnapshot
  <2>4. CASE ApplyRevalidate(c)
    BY <1>7, <2>4 DEF ApplyRevalidate
  <2>5. CASE ApplyAuthorize(c)
    BY <1>7, <2>5 DEF ApplyAuthorize, Findings
  <2>6. ASSUME NEW w \in Principals, ApplyIdentify(c, w) PROVE TypeOK'
    BY <1>7, <2>6 DEF ApplyIdentify, Findings, Caller
  <2> QED BY <1>7, <2>1, <2>2, <2>3, <2>4, <2>5, <2>6 DEF ApplyNext
<1>8. ASSUME NEW c \in Calls, ExecuteNext(c) PROVE TypeOK'
  <2>1. CASE ExecuteService(c) \/ EnsureUnexpired(c) \/ ExecuteKill(c) \/ CompareSources(c)
    BY <1>8, <2>1, ZenonT(40) DEF ExecuteService, EnsureUnexpired, ExecuteKill, CompareSources
  <2>2. CASE OpenPidfd(c)
    BY <1>8, <2>2, PlanFields DEF OpenPidfd, Snapshots
  <2>3. ASSUME NEW s \in States, Systemctl(c, s) \/ RunPackages(c, s) PROVE TypeOK'
    <3>1. plan[c] \in CanonicalPlan /\ host[plan[c].operation] \in States
      BY <1>8, <2>3, PlanFields DEF Systemctl, RunPackages
    <3>2. effects' \in [Ids -> Seq(Effect)]
      BY <1>8, <2>3, <3>1, RecordsType DEF Systemctl, RunPackages
    <3>3. host' \in [Operations -> States]
      <4>1. host' = [host EXCEPT ![plan[c].operation] = s]
        BY <2>3 DEF Systemctl, RunPackages
      <4> HIDE <2>3
      <4> QED
        BY <4>1, Zenon
    <3>4. pc' \in [Calls -> Steps]
      BY <2>3 DEF Systemctl, RunPackages
    <3>5. UNCHANGED <<clock, alive, plans, nonces, lock, op, ref, caller, plan, snap, seen>>
      BY <2>3 DEF Systemctl, RunPackages
    <3> QED
      BY <3>2, <3>3, <3>4, <3>5
  <2>4. CASE Terminate(c) \/ UpdateLists(c)
    <3>1. plan[c] \in CanonicalPlan /\ host[plan[c].operation] \in States
      BY <1>8, <2>4, PlanFields DEF Terminate, UpdateLists
    <3>2. effects' \in [Ids -> Seq(Effect)]
      BY <1>8, <2>4, <3>1, RecordsType DEF Terminate, UpdateLists
    <3> QED
      BY <1>8, <2>4, <3>2 DEF Terminate, UpdateLists
  <2> QED BY <1>5, <1>8, <2>1, <2>2, <2>3, <2>4 DEF ExecuteNext
<1> QED
  BY <1>1, <1>2, <1>3, <1>4, <1>5, <1>6, <1>7, <1>8 DEF Next

\* Every step keeps operation_lock with the one call past its try_lock.
LEMMA GateStep == IndInv /\ [Next]_vars => GateInv'
<1> SUFFICES ASSUME IndInv, [Next]_vars PROVE GateInv'
  OBVIOUS
<1> USE BrokerAssumption DEF IndInv, TypeOK, GateInv, callVars, Goes, Ends, Releases,
        Critical, Steps, PrepareSteps, BeforeConsume, BeforeGrant, AfterGrant,
        Executing, Attempting
<1>1. CASE UNCHANGED vars
  BY <1>1 DEF vars
<1>2. CASE EnvNext
  BY <1>2 DEF EnvNext, SetClock, ChangeHost, ChangeProcess
<1>3. CASE Restart
  BY <1>3 DEF Restart
<1>4. ASSUME NEW c \in Calls, TakeLock(c)
      PROVE  GateInv'
  BY <1>4 DEF TakeLock, Gate
<1>5. ASSUME NEW c \in Calls, Busy(c)
      PROVE  GateInv'
  BY <1>5 DEF Busy
<1>6. ASSUME NEW c \in Calls, Fails(c)
      PROVE  GateInv'
  BY <1>6 DEF Fails
<1>7. ASSUME NEW c \in Calls, Finish(c)
      PROVE  GateInv'
  BY <1>7 DEF Finish
<1>8. ASSUME NEW c \in Calls, NEW n \in Names, NEW w \in Principals, NEW o \in Operations,
             PrepareBegin(c, n, w, o)
      PROVE  GateInv'
  BY <1>8 DEF PrepareBegin
<1>9. ASSUME NEW c \in Calls, PrepareSnapshot(c)
      PROVE  GateInv'
  BY <1>9 DEF PrepareSnapshot, Snapshots
<1>10. ASSUME NEW c \in Calls, NEW w \in Principals, PrepareIdentify(c, w)
      PROVE  GateInv'
  BY <1>10 DEF PrepareIdentify
<1>11. ASSUME NEW c \in Calls, PrepareStore(c)
      PROVE  GateInv'
  BY <1>11 DEF PrepareStore, Retained
<1>12. ASSUME NEW c \in Calls, NEW n \in Names, NEW w \in Principals, NEW i \in Ids, NEW d \in Ids,
             ApplyBegin(c, n, w, i, d)
      PROVE  GateInv'
  BY <1>12 DEF ApplyBegin
<1>13. ASSUME NEW c \in Calls, ApplyConsume(c)
      PROVE  GateInv'
  BY <1>13 DEF ApplyConsume, AfterConsume, Consumable
<1>14. ASSUME NEW c \in Calls, ApplySnapshot(c)
      PROVE  GateInv'
  BY <1>14 DEF ApplySnapshot, Snapshots
<1>15. ASSUME NEW c \in Calls, ApplyRevalidate(c)
      PROVE  GateInv'
  BY <1>15 DEF ApplyRevalidate, Revalidate
<1>16. ASSUME NEW c \in Calls, ApplyAuthorize(c)
      PROVE  GateInv'
  BY <1>16 DEF ApplyAuthorize
<1>17. ASSUME NEW c \in Calls, NEW w \in Principals, ApplyIdentify(c, w)
      PROVE  GateInv'
  BY <1>17 DEF ApplyIdentify
<1>18. ASSUME NEW c \in Calls, ExecuteService(c)
      PROVE  GateInv'
  BY <1>18 DEF ExecuteService
<1>19. ASSUME NEW c \in Calls, EnsureUnexpired(c)
      PROVE  GateInv'
  BY <1>19 DEF EnsureUnexpired
<1>20. ASSUME NEW c \in Calls, NEW s \in States, Systemctl(c, s)
      PROVE  GateInv'
  BY <1>20 DEF Systemctl, Records
<1>21. ASSUME NEW c \in Calls, OpenPidfd(c)
      PROVE  GateInv'
  BY <1>21 DEF OpenPidfd, Snapshots
<1>22. ASSUME NEW c \in Calls, ExecuteKill(c)
      PROVE  GateInv'
  BY <1>22 DEF ExecuteKill, CheckPidfd
<1>23. ASSUME NEW c \in Calls, Terminate(c)
      PROVE  GateInv'
  BY <1>23 DEF Terminate, Signalled, HandleAlive, Records
<1>24. ASSUME NEW c \in Calls, NEW s \in States, RunPackages(c, s)
      PROVE  GateInv'
  BY <1>24 DEF RunPackages, Records
<1>25. ASSUME NEW c \in Calls, CompareSources(c)
      PROVE  GateInv'
  BY <1>25 DEF CompareSources
<1>26. ASSUME NEW c \in Calls, UpdateLists(c)
      PROVE  GateInv'
  BY <1>26 DEF UpdateLists, Records
<1> QED
  BY <1>1, <1>2, <1>3, <1>4, <1>5, <1>6, <1>7, <1>8, <1>9, <1>10, <1>11, <1>12, <1>13,
     <1>14, <1>15, <1>16, <1>17, <1>18, <1>19, <1>20, <1>21, <1>22, <1>23, <1>24, <1>25,
     <1>26
  DEF Next, PrepareNext, ApplyNext, ExecuteNext

\* identify() after the authentication keeps the name and renews the principal.
LEMMA IdentifiedCaller ==
    ASSUME TypeOK, HandInv, NEW c \in Calls, NEW w \in Principals, ApplyIdentify(c, w)
    PROVE  /\ caller[c] \in Caller
           /\ caller'[c] = [name |-> caller[c].name, who |-> w]
           /\ caller'[c] \in Caller
           /\ \A d \in Calls : d # c => caller'[d] = caller[d]
<1>1. caller[c] \in Caller
  BY DEF ApplyIdentify, HandInv, Goes, InAttempt, Attempting, AfterGrant
<1>2. caller' = [caller EXCEPT ![c] = [caller[c] EXCEPT !.who = w]]
  BY DEF ApplyIdentify
<1>3. [caller[c] EXCEPT !.who = w] = [name |-> caller[c].name, who |-> w]
  BY <1>1 DEF Caller
<1> QED
  BY <1>1, <1>2, <1>3 DEF TypeOK, Caller

\* Every step hands the next one the caller, plan and snapshot it uses.
LEMMA HandStep == IndInv /\ [Next]_vars => HandInv'
<1> SUFFICES ASSUME IndInv, [Next]_vars PROVE HandInv'
  OBVIOUS
<1> USE BrokerAssumption DEF IndInv, TypeOK, HandInv, InAttempt, callVars, Goes, Ends,
        PrepareSteps, BeforeConsume, BeforeGrant, AfterGrant, Executing, Attempting
<1>1. CASE UNCHANGED vars
  BY <1>1 DEF vars
<1>2. CASE EnvNext
  BY <1>2 DEF EnvNext, SetClock, ChangeHost, ChangeProcess
<1>3. CASE Restart
  BY <1>3 DEF Restart
<1>4. ASSUME NEW c \in Calls, TakeLock(c)
      PROVE  HandInv'
  BY <1>4 DEF TakeLock, Gate
<1>5. ASSUME NEW c \in Calls, Busy(c)
      PROVE  HandInv'
  BY <1>5 DEF Busy
<1>6. ASSUME NEW c \in Calls, Fails(c)
      PROVE  HandInv'
  BY <1>6 DEF Fails
<1>7. ASSUME NEW c \in Calls, Finish(c)
      PROVE  HandInv'
  BY <1>7 DEF Finish
<1>8. ASSUME NEW c \in Calls, NEW n \in Names, NEW w \in Principals, NEW o \in Operations,
             PrepareBegin(c, n, w, o)
      PROVE  HandInv'
  BY <1>8 DEF PrepareBegin, Caller
<1>9. ASSUME NEW c \in Calls, PrepareSnapshot(c)
      PROVE  HandInv'
  BY <1>9 DEF PrepareSnapshot, Snapshots
<1>10. ASSUME NEW c \in Calls, NEW w \in Principals, PrepareIdentify(c, w)
      PROVE  HandInv'
  BY <1>10 DEF PrepareIdentify
<1>11. ASSUME NEW c \in Calls, PrepareStore(c)
      PROVE  HandInv'
  BY <1>11 DEF PrepareStore, Retained
<1>12. ASSUME NEW c \in Calls, NEW n \in Names, NEW w \in Principals, NEW i \in Ids, NEW d \in Ids,
             ApplyBegin(c, n, w, i, d)
      PROVE  HandInv'
  BY <1>12 DEF ApplyBegin, Caller
<1>13. ASSUME NEW c \in Calls, ApplyConsume(c)
      PROVE  HandInv'
  BY <1>13 DEF ApplyConsume, AfterConsume, Consumable
<1>14. ASSUME NEW c \in Calls, ApplySnapshot(c)
      PROVE  HandInv'
  BY <1>14 DEF ApplySnapshot, Snapshots
<1>15. ASSUME NEW c \in Calls, ApplyRevalidate(c)
      PROVE  HandInv'
  BY <1>15 DEF ApplyRevalidate, Revalidate
<1>16. ASSUME NEW c \in Calls, ApplyAuthorize(c)
      PROVE  HandInv'
  BY <1>16 DEF ApplyAuthorize
<1>17. ASSUME NEW c \in Calls, NEW w \in Principals, ApplyIdentify(c, w)
      PROVE  HandInv'
  <2>1. caller'[c] \in Caller /\ \A d \in Calls : d # c => caller'[d] = caller[d]
    BY <1>17, IdentifiedCaller
  <2>2. /\ pc[c] = "a_identify" /\ pc' = [pc EXCEPT ![c] = "a_resnapshot"]
        /\ UNCHANGED <<op, ref, plan, snap>>
    BY <1>17 DEF ApplyIdentify
  <2> QED
    BY <2>1, <2>2
<1>18. ASSUME NEW c \in Calls, ExecuteService(c)
      PROVE  HandInv'
  BY <1>18 DEF ExecuteService
<1>19. ASSUME NEW c \in Calls, EnsureUnexpired(c)
      PROVE  HandInv'
  BY <1>19 DEF EnsureUnexpired
<1>20. ASSUME NEW c \in Calls, NEW s \in States, Systemctl(c, s)
      PROVE  HandInv'
  BY <1>20 DEF Systemctl, Records
<1>21. ASSUME NEW c \in Calls, OpenPidfd(c)
      PROVE  HandInv'
  BY <1>21 DEF OpenPidfd, Snapshots
<1>22. ASSUME NEW c \in Calls, ExecuteKill(c)
      PROVE  HandInv'
  BY <1>22 DEF ExecuteKill, CheckPidfd
<1>23. ASSUME NEW c \in Calls, Terminate(c)
      PROVE  HandInv'
  BY <1>23 DEF Terminate, Signalled, HandleAlive, Records
<1>24. ASSUME NEW c \in Calls, NEW s \in States, RunPackages(c, s)
      PROVE  HandInv'
  BY <1>24 DEF RunPackages, Records
<1>25. ASSUME NEW c \in Calls, CompareSources(c)
      PROVE  HandInv'
  BY <1>25 DEF CompareSources
<1>26. ASSUME NEW c \in Calls, UpdateLists(c)
      PROVE  HandInv'
  BY <1>26 DEF UpdateLists, Records
<1> QED
  BY <1>1, <1>2, <1>3, <1>4, <1>5, <1>6, <1>7, <1>8, <1>9, <1>10, <1>11, <1>12, <1>13,
     <1>14, <1>15, <1>16, <1>17, <1>18, <1>19, <1>20, <1>21, <1>22, <1>23, <1>24, <1>25,
     <1>26
  DEF Next, PrepareNext, ApplyNext, ExecuteNext

\* Every step of an attempt that relies on a finding was preceded by it: the
\* grant, then the caller, then the state.
LEMMA FoundStep == IndInv /\ [Next]_vars => FoundInv'
<1> SUFFICES ASSUME IndInv, [Next]_vars PROVE FoundInv'
  OBVIOUS
<1> USE BrokerAssumption DEF IndInv, TypeOK, HandInv, FoundInv, InAttempt, callVars,
        Goes, Ends, Findings, BeforeGrant, AfterGrant, Executing, Attempting
<1>1. CASE UNCHANGED vars
  BY <1>1 DEF vars
<1>2. CASE EnvNext
  BY <1>2 DEF EnvNext, SetClock, ChangeHost, ChangeProcess
<1>3. CASE Restart
  BY <1>3 DEF Restart
<1>4. ASSUME NEW c \in Calls, TakeLock(c)
      PROVE  FoundInv'
  BY <1>4 DEF TakeLock, Gate
<1>5. ASSUME NEW c \in Calls, Busy(c)
      PROVE  FoundInv'
  BY <1>5 DEF Busy
<1>6. ASSUME NEW c \in Calls, Fails(c)
      PROVE  FoundInv'
  BY <1>6 DEF Fails
<1>7. ASSUME NEW c \in Calls, Finish(c)
      PROVE  FoundInv'
  BY <1>7 DEF Finish
<1>8. ASSUME NEW c \in Calls, NEW n \in Names, NEW w \in Principals, NEW o \in Operations,
             PrepareBegin(c, n, w, o)
      PROVE  FoundInv'
  BY <1>8 DEF PrepareBegin
<1>9. ASSUME NEW c \in Calls, PrepareSnapshot(c)
      PROVE  FoundInv'
  BY <1>9 DEF PrepareSnapshot, Snapshots
<1>10. ASSUME NEW c \in Calls, NEW w \in Principals, PrepareIdentify(c, w)
      PROVE  FoundInv'
  BY <1>10 DEF PrepareIdentify
<1>11. ASSUME NEW c \in Calls, PrepareStore(c)
      PROVE  FoundInv'
  BY <1>11 DEF PrepareStore, Retained
<1>12. ASSUME NEW c \in Calls, NEW n \in Names, NEW w \in Principals, NEW i \in Ids, NEW d \in Ids,
             ApplyBegin(c, n, w, i, d)
      PROVE  FoundInv'
  BY <1>12 DEF ApplyBegin
<1>13. ASSUME NEW c \in Calls, ApplyConsume(c)
      PROVE  FoundInv'
  BY <1>13 DEF ApplyConsume, AfterConsume, Consumable
<1>14. ASSUME NEW c \in Calls, ApplySnapshot(c)
      PROVE  FoundInv'
  BY <1>14 DEF ApplySnapshot, Snapshots
<1>15. ASSUME NEW c \in Calls, ApplyRevalidate(c)
      PROVE  FoundInv'
  BY <1>15 DEF ApplyRevalidate, Revalidate
<1>16. ASSUME NEW c \in Calls, ApplyAuthorize(c)
      PROVE  FoundInv'
  BY <1>16 DEF ApplyAuthorize
<1>17. ASSUME NEW c \in Calls, NEW w \in Principals, ApplyIdentify(c, w)
      PROVE  FoundInv'
  <2>1. /\ caller'[c] = [name |-> caller[c].name, who |-> w]
        /\ \A d \in Calls : d # c => caller'[d] = caller[d]
    BY <1>17, IdentifiedCaller
  <2>2. /\ pc[c] = "a_identify" /\ pc' = [pc EXCEPT ![c] = "a_resnapshot"]
        /\ UNCHANGED <<op, ref, plan, snap>>
        /\ seen' = IF caller'[c] = plan[c].caller
                   THEN [seen EXCEPT ![c] = @ \cup {"caller"}] ELSE seen
    BY <1>17, <2>1 DEF ApplyIdentify
  <2> QED
    BY <2>1, <2>2
<1>18. ASSUME NEW c \in Calls, ExecuteService(c)
      PROVE  FoundInv'
  BY <1>18 DEF ExecuteService
<1>19. ASSUME NEW c \in Calls, EnsureUnexpired(c)
      PROVE  FoundInv'
  BY <1>19 DEF EnsureUnexpired
<1>20. ASSUME NEW c \in Calls, NEW s \in States, Systemctl(c, s)
      PROVE  FoundInv'
  BY <1>20 DEF Systemctl, Records
<1>21. ASSUME NEW c \in Calls, OpenPidfd(c)
      PROVE  FoundInv'
  BY <1>21 DEF OpenPidfd, Snapshots
<1>22. ASSUME NEW c \in Calls, ExecuteKill(c)
      PROVE  FoundInv'
  BY <1>22 DEF ExecuteKill, CheckPidfd
<1>23. ASSUME NEW c \in Calls, Terminate(c)
      PROVE  FoundInv'
  BY <1>23 DEF Terminate, Signalled, HandleAlive, Records
<1>24. ASSUME NEW c \in Calls, NEW s \in States, RunPackages(c, s)
      PROVE  FoundInv'
  BY <1>24 DEF RunPackages, Records
<1>25. ASSUME NEW c \in Calls, CompareSources(c)
      PROVE  FoundInv'
  BY <1>25 DEF CompareSources
<1>26. ASSUME NEW c \in Calls, UpdateLists(c)
      PROVE  FoundInv'
  BY <1>26 DEF UpdateLists, Records
<1> QED
  BY <1>1, <1>2, <1>3, <1>4, <1>5, <1>6, <1>7, <1>8, <1>9, <1>10, <1>11, <1>12, <1>13,
     <1>14, <1>15, <1>16, <1>17, <1>18, <1>19, <1>20, <1>21, <1>22, <1>23, <1>24, <1>25,
     <1>26
  DEF Next, PrepareNext, ApplyNext, ExecuteNext

\* The gate admits one call: while c is past its try_lock no other call is.
LEMMA OneCritical ==
    ASSUME GateInv, NEW c \in Calls, pc[c] \in Critical
    PROVE  \A d \in Calls : d # c => ~InAttempt(d)
BY DEF GateInv, InAttempt, Critical, Steps, Attempting, BeforeGrant, AfterGrant, Executing

\* An effect moves its plan from the attempt to the plans that have their effect.
LEMMA RecordsNonce ==
    ASSUME IndInv, NEW c \in Calls, pc[c] \in Executing, NEW s \in States, Records(c, s),
           pc' = [pc EXCEPT ![c] = "x_finish"], UNCHANGED <<plans, nonces, plan>>
    PROVE  NonceInv'
<1> DEFINE id == plan[c].id
           e == [operation |-> plan[c].operation, approved |-> plan[c].state,
                 hit |-> s, seen |-> seen[c]]
<1>1. /\ plan[c] \in CanonicalPlan /\ id \in Ids /\ id \in nonces \ PlanIds
      /\ effects[id] = <<>>
  BY PlanFields DEF IndInv, HandInv, NonceInv, InAttempt, Attempting
<1>2. effects' = [effects EXCEPT ![id] = <<e>>]
  BY <1>1 DEF Records
<1>3. effects'[id] = <<e>> /\ \A i \in Ids : i # id => effects'[i] = effects[i]
  BY <1>1, <1>2 DEF IndInv, TypeOK
<1>4. \A d \in Calls : d # c => ~InAttempt(d)
  BY OneCritical DEF IndInv, Critical, Steps, Attempting, Executing
<1>5. \A d \in Calls : pc'[d] \notin Attempting
  BY <1>4 DEF IndInv, TypeOK, InAttempt, Attempting, BeforeGrant, AfterGrant, Executing
<1>6. \A d \in Calls : InAttempt(d)' => d = c
  BY <1>4 DEF IndInv, TypeOK, InAttempt
<1>7. PlanIds' = PlanIds
  BY DEF PlanIds
<1>8. \A i \in Ids : Len(effects'[i]) <= 1
  <2>1. Len(effects'[id]) <= 1
    BY <1>3
  <2>2. \A i \in Ids : i # id => Len(effects'[i]) <= 1
    BY <1>3 DEF IndInv, NonceInv
  <2> QED
    BY <2>1, <2>2
<1>9. \A i \in Ids : effects'[i] # <<>> => i \in nonces \ PlanIds
  BY <1>1, <1>3 DEF IndInv, NonceInv
<1> QED
  BY <1>1, <1>5, <1>6, <1>7, <1>8, <1>9 DEF IndInv, NonceInv

\* PlanStore::prepare keeps some plans and may add one under a fresh nonce.
LEMMA PrepareStoreNonce ==
    ASSUME IndInv, NEW c \in Calls, PrepareStore(c)
    PROVE  NonceInv'
<1>1. pc[c] = "p_store" /\ Ends(c) /\ UNCHANGED effects
  BY DEF PrepareStore
<1>2. \A d \in Calls : ~InAttempt(d)'
  BY <1>1, OneCritical DEF IndInv, TypeOK, Ends, InAttempt, Critical, Steps, PrepareSteps,
        Attempting, BeforeGrant, AfterGrant, Executing
<1>3. \A d \in Calls : pc'[d] \notin Attempting
  BY <1>2 DEF InAttempt
<1>4. CASE plans' = Retained(clock) /\ UNCHANGED nonces
  BY <1>1, <1>2, <1>3, <1>4 DEF IndInv, NonceInv, PlanIds, Retained
<1>5. ASSUME NEW i \in Ids \ nonces, NEW p, p.id = i,
             plans' = Retained(clock) \cup {p}, nonces' = nonces \cup {i}
      PROVE  NonceInv'
  <2>1. PlanIds' \subseteq nonces'
    BY <1>5 DEF IndInv, NonceInv, PlanIds, Retained
  <2>2. \A q, r \in plans' : q.id = r.id => q = r
    BY <1>5 DEF IndInv, NonceInv, PlanIds, Retained
  <2>3. \A j \in Ids : effects'[j] # <<>> => j \in nonces' \ PlanIds'
    BY <1>1, <1>5 DEF IndInv, NonceInv, PlanIds, Retained
  <2> QED
    BY <1>1, <1>2, <1>3, <2>1, <2>2, <2>3 DEF IndInv, NonceInv
<1>6. ASSUME NEW i \in Ids \ nonces,
             LET p == [id |-> i, caller |-> caller[c], operation |-> op[c],
                       state |-> snap[c], issued_at |-> clock]
             IN  /\ plans' = Retained(clock) \cup {p}
                 /\ nonces' = nonces \cup {i}
      PROVE  NonceInv'
  <2> DEFINE p == [id |-> i, caller |-> caller[c], operation |-> op[c],
                   state |-> snap[c], issued_at |-> clock]
  <2>1. p.id = i /\ plans' = Retained(clock) \cup {p} /\ nonces' = nonces \cup {i}
    BY <1>6
  <2> HIDE DEF p
  <2> QED
    BY <1>5, <2>1
<1> QED
  BY <1>4, <1>6 DEF PrepareStore

\* PlanStore::consume takes the plan out of the store, for one attempt or none.
LEMMA ApplyConsumeNonce ==
    ASSUME IndInv, NEW c \in Calls, ApplyConsume(c)
    PROVE  NonceInv'
<1>1. pc[c] = "a_consume" /\ UNCHANGED <<nonces, effects>>
  BY DEF ApplyConsume
<1>2. \A d \in Calls : d # c => ~InAttempt(d)
  BY <1>1, OneCritical DEF IndInv, Critical, Steps, BeforeConsume
<1>3. ASSUME Ends(c), plans' \subseteq plans
      PROVE  NonceInv'
  <2>1. \A d \in Calls : ~InAttempt(d)' /\ pc'[d] \notin Attempting
    BY <1>2, <1>3 DEF IndInv, TypeOK, Ends, InAttempt, Attempting, BeforeGrant, AfterGrant, Executing
  <2> QED
    BY <1>1, <1>3, <2>1 DEF IndInv, NonceInv, PlanIds
<1>4. ASSUME NEW p \in plans, plans' = plans \ {p}, plan' = [plan EXCEPT ![c] = p],
             pc' = [pc EXCEPT ![c] = "a_snapshot"]
      PROVE  NonceInv'
  <2>1. p.id \in Ids /\ p.id \in nonces /\ p.id \notin PlanIds' /\ effects[p.id] = <<>>
    BY <1>4, PlanFields DEF IndInv, TypeOK, NonceInv, PlanIds
  <2>2. \A d \in Calls : InAttempt(d)' => d = c
    BY <1>2, <1>4 DEF IndInv, TypeOK, InAttempt
  <2>3. \A d \in Calls : InAttempt(d)' => plan'[d] = p
    BY <1>4, <2>2 DEF IndInv, TypeOK
  <2>4. \A d \in Calls : pc'[d] \in Attempting => InAttempt(d)'
    BY DEF InAttempt
  <2> QED
    BY <1>1, <1>4, <2>1, <2>3, <2>4 DEF IndInv, NonceInv, PlanIds
<1> QED
  BY <1>3, <1>4 DEF ApplyConsume, AfterConsume, Consumable, Goes

\* Every step keeps each nonce in one place: the store, one attempt, or the
\* plans that had their effect.
LEMMA NonceStep == IndInv /\ [Next]_vars => NonceInv'
<1> SUFFICES ASSUME IndInv, [Next]_vars PROVE NonceInv'
  OBVIOUS
<1> USE BrokerAssumption, PlanFields DEF IndInv, TypeOK, GateInv, HandInv, NonceInv, PlanIds, InAttempt,
        callVars, Goes, Ends, Critical, Steps, PrepareSteps, BeforeConsume, BeforeGrant, AfterGrant, Executing, Attempting
<1>1. CASE UNCHANGED vars
  BY <1>1 DEF vars
<1>2. CASE EnvNext
  BY <1>2 DEF EnvNext, SetClock, ChangeHost, ChangeProcess
<1>3. CASE Restart
  BY <1>3 DEF Restart
<1>4. ASSUME NEW c \in Calls, TakeLock(c)
      PROVE  NonceInv'
  BY <1>4 DEF TakeLock, Gate
<1>5. ASSUME NEW c \in Calls, Busy(c)
      PROVE  NonceInv'
  BY <1>5 DEF Busy
<1>6. ASSUME NEW c \in Calls, Fails(c)
      PROVE  NonceInv'
  BY <1>6 DEF Fails
<1>7. ASSUME NEW c \in Calls, Finish(c)
      PROVE  NonceInv'
  BY <1>7 DEF Finish
<1>8. ASSUME NEW c \in Calls, NEW n \in Names, NEW w \in Principals, NEW o \in Operations,
             PrepareBegin(c, n, w, o)
      PROVE  NonceInv'
  BY <1>8 DEF PrepareBegin
<1>9. ASSUME NEW c \in Calls, PrepareSnapshot(c)
      PROVE  NonceInv'
  BY <1>9 DEF PrepareSnapshot, Snapshots
<1>10. ASSUME NEW c \in Calls, NEW w \in Principals, PrepareIdentify(c, w)
      PROVE  NonceInv'
  BY <1>10 DEF PrepareIdentify
<1>11. ASSUME NEW c \in Calls, PrepareStore(c)
      PROVE  NonceInv'
  BY <1>11, PrepareStoreNonce
<1>12. ASSUME NEW c \in Calls, NEW n \in Names, NEW w \in Principals, NEW i \in Ids, NEW d \in Ids,
             ApplyBegin(c, n, w, i, d)
      PROVE  NonceInv'
  BY <1>12 DEF ApplyBegin
<1>13. ASSUME NEW c \in Calls, ApplyConsume(c)
      PROVE  NonceInv'
  BY <1>13, ApplyConsumeNonce
<1>14. ASSUME NEW c \in Calls, ApplySnapshot(c)
      PROVE  NonceInv'
  BY <1>14 DEF ApplySnapshot, Snapshots
<1>15. ASSUME NEW c \in Calls, ApplyRevalidate(c)
      PROVE  NonceInv'
  BY <1>15 DEF ApplyRevalidate, Revalidate
<1>16. ASSUME NEW c \in Calls, ApplyAuthorize(c)
      PROVE  NonceInv'
  BY <1>16 DEF ApplyAuthorize
<1>17. ASSUME NEW c \in Calls, NEW w \in Principals, ApplyIdentify(c, w)
      PROVE  NonceInv'
  BY <1>17 DEF ApplyIdentify
<1>18. ASSUME NEW c \in Calls, ExecuteService(c)
      PROVE  NonceInv'
  BY <1>18 DEF ExecuteService
<1>19. ASSUME NEW c \in Calls, EnsureUnexpired(c)
      PROVE  NonceInv'
  BY <1>19 DEF EnsureUnexpired
<1>20. ASSUME NEW c \in Calls, NEW s \in States, Systemctl(c, s)
      PROVE  NonceInv'
  BY <1>20, RecordsNonce DEF Systemctl
<1>21. ASSUME NEW c \in Calls, OpenPidfd(c)
      PROVE  NonceInv'
  BY <1>21 DEF OpenPidfd, Snapshots
<1>22. ASSUME NEW c \in Calls, ExecuteKill(c)
      PROVE  NonceInv'
  BY <1>22 DEF ExecuteKill, CheckPidfd
<1>23. ASSUME NEW c \in Calls, Terminate(c)
      PROVE  NonceInv'
  BY <1>23, RecordsNonce DEF Terminate
<1>24. ASSUME NEW c \in Calls, NEW s \in States, RunPackages(c, s)
      PROVE  NonceInv'
  BY <1>24, RecordsNonce DEF RunPackages
<1>25. ASSUME NEW c \in Calls, CompareSources(c)
      PROVE  NonceInv'
  BY <1>25 DEF CompareSources
<1>26. ASSUME NEW c \in Calls, UpdateLists(c)
      PROVE  NonceInv'
  BY <1>26, RecordsNonce DEF UpdateLists
<1> QED
  BY <1>1, <1>2, <1>3, <1>4, <1>5, <1>6, <1>7, <1>8, <1>9, <1>10, <1>11, <1>12, <1>13,
     <1>14, <1>15, <1>16, <1>17, <1>18, <1>19, <1>20, <1>21, <1>22, <1>23, <1>24, <1>25,
     <1>26
  DEF Next, PrepareNext, ApplyNext, ExecuteNext

\* The one effect of an attempt that has found everything it must.
LEMMA RecordsEffect ==
    ASSUME IndInv, NEW c \in Calls, pc[c] \in Executing, NEW s \in States, Records(c, s),
           plan[c].operation \in KillOps \cup PackageOps => s = plan[c].state
    PROVE  (EarnedEffects /\ ApprovedTarget)'
<1> DEFINE id == plan[c].id
           e == [operation |-> plan[c].operation, approved |-> plan[c].state,
                 hit |-> s, seen |-> seen[c]]
<1>1. id \in Ids /\ effects[id] = <<>> /\ seen[c] = Findings
  BY PlanFields DEF IndInv, HandInv, NonceInv, FoundInv, InAttempt, Attempting
<1>2. effects' = [effects EXCEPT ![id] = <<e>>]
  BY <1>1 DEF Records
<1>3. effects'[id] = <<e>> /\ \A i \in Ids : i # id => effects'[i] = effects[i]
  BY <1>1, <1>2 DEF IndInv, TypeOK
<1>4. ASSUME NEW i \in Ids, NEW k \in DOMAIN effects'[i]
      PROVE  /\ effects'[i][k].seen = Findings
             /\ effects'[i][k].operation \in KillOps \cup PackageOps =>
                    effects'[i][k].hit = effects'[i][k].approved
  <2>1. CASE i # id
    BY <1>3, <1>4, <2>1 DEF IndInv, EarnedEffects, ApprovedTarget
  <2>2. CASE i = id
    <3>1. effects'[i][k] = e
      BY <1>3, <1>4, <2>2
    <3> QED
      BY <1>1, <3>1
  <2> QED
    BY <2>1, <2>2
<1> QED
  BY <1>4 DEF EarnedEffects, ApprovedTarget

\* Every mutation was earned and, for kills and packages, hit what was approved.
LEMMA EffectStep == IndInv /\ [Next]_vars => (EarnedEffects /\ ApprovedTarget)'
<1> SUFFICES ASSUME IndInv, [Next]_vars PROVE (EarnedEffects /\ ApprovedTarget)'
  OBVIOUS
<1>1. CASE UNCHANGED effects
  BY <1>1 DEF IndInv, EarnedEffects, ApprovedTarget
<1>2. ASSUME NEW c \in Calls, NEW s \in States, Systemctl(c, s) \/ RunPackages(c, s)
      PROVE  (EarnedEffects /\ ApprovedTarget)'
  <2>1. /\ pc[c] \in Executing
        /\ host[plan[c].operation] \in States
        /\ Records(c, host[plan[c].operation])
    BY <1>2, PlanFields DEF Systemctl, RunPackages, Goes, Executing, Attempting, InAttempt,
                            IndInv, HandInv, TypeOK
  <2>2. plan[c].operation \in KillOps \cup PackageOps => host[plan[c].operation] = plan[c].state
    BY <1>2, BrokerAssumption DEF Systemctl, RunPackages, Goes, IndInv, HandInv
  <2> QED
    BY <2>1, <2>2, RecordsEffect
<1>3. ASSUME NEW c \in Calls, Terminate(c) \/ UpdateLists(c)
      PROVE  (EarnedEffects /\ ApprovedTarget)'
  <2>1. /\ pc[c] \in Executing
        /\ host[plan[c].operation] \in States
        /\ Records(c, host[plan[c].operation])
    BY <1>3, PlanFields DEF Terminate, UpdateLists, Goes, Executing, Attempting, InAttempt,
                            IndInv, HandInv, TypeOK
  <2>2. plan[c].operation \in KillOps \cup PackageOps => host[plan[c].operation] = plan[c].state
    BY <1>3, BrokerAssumption DEF Terminate, UpdateLists, Signalled, HandleAlive, Goes,
                                  IndInv, HandInv, FoundInv
  <2> QED
    BY <2>1, <2>2, RecordsEffect
<1>4. ASSUME NEW c \in Calls, ExecuteNext(c)
      PROVE  (EarnedEffects /\ ApprovedTarget)'
  BY <1>1, <1>2, <1>3, <1>4 DEF ExecuteNext, ExecuteService, EnsureUnexpired, OpenPidfd,
                                ExecuteKill, CompareSources, Finish
<1>5. CASE UNCHANGED vars \/ EnvNext \/ Restart
  BY <1>1, <1>5 DEF vars, EnvNext, SetClock, ChangeHost, ChangeProcess, Restart
<1>6. ASSUME NEW c \in Calls, TakeLock(c) \/ Busy(c) \/ Fails(c) \/ PrepareNext(c)
      PROVE  UNCHANGED effects
  BY <1>6 DEF TakeLock, Busy, Fails, PrepareNext, PrepareBegin, PrepareSnapshot,
              PrepareIdentify, PrepareStore
<1>7. ASSUME NEW c \in Calls, ApplyNext(c)
      PROVE  UNCHANGED effects
  BY <1>7 DEF ApplyNext, ApplyBegin, ApplyConsume, ApplySnapshot, ApplyRevalidate,
              ApplyAuthorize, ApplyIdentify
<1> QED
  BY <1>1, <1>4, <1>5, <1>6, <1>7 DEF Next

-----------------------------------------------------------------------------
\* A broker that has just started satisfies the invariant.
LEMMA InitInductive == Init => IndInv
<1> SUFFICES ASSUME Init PROVE IndInv
  OBVIOUS
<1>1. TypeOK
  BY DEF Init, TypeOK, Steps
<1>2. GateInv /\ HandInv /\ FoundInv
  BY BrokerAssumption DEF Init, GateInv, HandInv, FoundInv, Critical, PrepareSteps,
        BeforeConsume, BeforeGrant, AfterGrant, Executing, Attempting, InAttempt
<1>3. NonceInv
  BY DEF Init, NonceInv, PlanIds, InAttempt, BeforeGrant, AfterGrant, Executing, Attempting
<1>4. EarnedEffects /\ ApprovedTarget
  BY DEF Init, EarnedEffects, ApprovedTarget
<1> QED
  BY <1>1, <1>2, <1>3, <1>4 DEF IndInv

\* IndInv holds in every state of every behaviour of the broker.
THEOREM Inductive == Spec => []IndInv
<1>1. IndInv /\ [Next]_vars => IndInv'
  BY TypeStep, GateStep, HandStep, NonceStep, FoundStep, EffectStep DEF IndInv
<1> QED
  BY InitInductive, <1>1, PTL DEF Spec

\* Every variable of the broker keeps its type.
THEOREM TypeCorrect == Spec => []TypeOK
<1>1. IndInv => TypeOK
  BY DEF IndInv
<1> QED
  BY Inductive, <1>1, PTL

\* A plan is attempted once and changes the host at most once (broker.rs
\* consume), for any number of concurrent calls, connections and restarts.
THEOREM PlansAreSingleUse == Spec => []SingleUse
<1>1. IndInv => SingleUse
  <2> SUFFICES ASSUME IndInv PROVE SingleUse
    OBVIOUS
  <2>1. \A c, d \in Calls : InAttempt(c) /\ InAttempt(d) => c = d
    BY DEF IndInv, GateInv, InAttempt, Critical, Steps, Attempting, BeforeGrant,
           AfterGrant, Executing
  <2> QED
    BY <2>1 DEF IndInv, NonceInv, PlanIds, SingleUse
<1> QED
  BY Inductive, <1>1, PTL

\* The host is changed only after the grant and both checks that follow it.
THEOREM EffectsAreEarned == Spec => []EarnedEffects
<1>1. IndInv => EarnedEffects
  BY DEF IndInv
<1> QED
  BY Inductive, <1>1, PTL

\* A signal reaches the previewed process and packages change from the
\* previewed resolution, whatever pids are reused and whoever else changes them.
THEOREM TargetsAreApproved == Spec => []ApprovedTarget
<1>1. IndInv => ApprovedTarget
  BY DEF IndInv
<1> QED
  BY Inductive, <1>1, PTL

-----------------------------------------------------------------------------
\* Only three operations ever take a plan out of the store.
LEMMA StoreWriters ==
    ASSUME [Next]_vars
    PROVE  \/ UNCHANGED plans
           \/ Restart
           \/ \E c \in Calls : PrepareStore(c) \/ ApplyConsume(c)
BY ZenonT(40) DEF Next, vars, EnvNext, SetClock, ChangeHost, ChangeProcess, TakeLock, Busy, Fails,
       PrepareNext, PrepareBegin, PrepareSnapshot, PrepareIdentify,
       ApplyNext, ApplyBegin, ApplySnapshot, ApplyRevalidate, ApplyAuthorize, ApplyIdentify,
       ExecuteNext, ExecuteService, EnsureUnexpired, Systemctl, OpenPidfd, ExecuteKill,
       Terminate, RunPackages, CompareSources, UpdateLists, Finish

\* Nobody but its caller, its expiry and a restart takes a plan away.
THEOREM PendingPlansAreKept == Spec => PendingKept
<1> DEFINE Kept == \A p \in plans \ plans' :
                      \/ clock >= Expires(p)
                      \/ \E c \in Calls : /\ pc[c] = "a_consume"
                                          /\ ref[c].id = p.id
                                          /\ caller[c] = p.caller
                      \/ Restart
<1>1. IndInv /\ [Next]_vars => [Kept]_vars
  <2> SUFFICES ASSUME IndInv, [Next]_vars PROVE Kept
    OBVIOUS
  <2>1. CASE UNCHANGED plans
    BY <2>1
  <2>2. CASE Restart
    BY <2>2
  <2>3. ASSUME NEW c \in Calls, PrepareStore(c) PROVE Kept
    <3>1. Retained(clock) \subseteq plans'
      BY <2>3 DEF PrepareStore
    <3>2. \A p \in plans : p.issued_at \in Nat /\ clock \in Nat /\ Lifetime \in Nat
      BY BrokerAssumption, PlanFields DEF IndInv, TypeOK
    <3> QED
      BY <3>1, <3>2 DEF Retained, Expires
  <2>4. ASSUME NEW c \in Calls, ApplyConsume(c) PROVE Kept
    BY <2>4 DEF ApplyConsume, AfterConsume, Consumable
  <2> QED
    BY StoreWriters, <2>1, <2>2, <2>3, <2>4
<1> QED
  BY Inductive, <1>1, PTL DEF Spec, PendingKept

-----------------------------------------------------------------------------
\* A finite set of plans within the quotas.
Within(S) == /\ IsFiniteSet(S)
             /\ Cardinality(S) <= MaxPlans
             /\ \A n \in Names : Cardinality(OfName(S, n)) <= MaxPerName

\* Removing plans keeps the quotas.
LEMMA WithinSubset ==
    ASSUME NEW S, Within(S), NEW T \in SUBSET S
    PROVE  Within(T)
<1>1. IsFiniteSet(T) /\ Cardinality(T) <= Cardinality(S)
  BY FS_Subset DEF Within
<1>2. \A n \in Names : /\ OfName(T, n) \subseteq OfName(S, n)
                       /\ IsFiniteSet(OfName(S, n)) /\ IsFiniteSet(OfName(T, n))
  BY <1>1, FS_Subset DEF Within, OfName
<1>3. \A n \in Names : Cardinality(OfName(T, n)) <= Cardinality(OfName(S, n))
  BY <1>2, FS_Subset
<1>4. /\ Cardinality(S) \in Nat /\ Cardinality(T) \in Nat
      /\ \A n \in Names : /\ Cardinality(OfName(S, n)) \in Nat
                          /\ Cardinality(OfName(T, n)) \in Nat
  BY <1>1, <1>2, FS_CardinalityType DEF Within
<1> QED
  BY <1>1, <1>3, <1>4, BrokerAssumption DEF Within

\* One more element makes a finite set larger by one at most.
LEMMA CardinalityAdd ==
    ASSUME NEW S, IsFiniteSet(S), NEW x
    PROVE  /\ IsFiniteSet(S \cup {x})
           /\ Cardinality(S) \in Nat /\ Cardinality(S \cup {x}) \in Nat
           /\ Cardinality(S \cup {x}) <= Cardinality(S) + 1
<1>1. /\ IsFiniteSet(S \cup {x})
      /\ x \in S => Cardinality(S \cup {x}) = Cardinality(S)
      /\ x \notin S => Cardinality(S \cup {x}) = Cardinality(S) + 1
  BY FS_AddElement
<1>2. Cardinality(S) \in Nat
  BY FS_CardinalityType
<1>3. CASE x \in S
  BY <1>1, <1>2, <1>3
<1>4. CASE x \notin S
  BY <1>1, <1>2, <1>4
<1> QED
  BY <1>3, <1>4

\* Adding one plan of a connection that has room keeps the quotas.
LEMMA WithinAdd ==
    ASSUME NEW S, Within(S), NEW p, ~StoreFull(S, p.caller.name)
    PROVE  Within(S \cup {p})
<1>1. IsFiniteSet(S \cup {p}) /\ Cardinality(S) \in Nat
      /\ Cardinality(S \cup {p}) <= Cardinality(S) + 1
      /\ Cardinality(S \cup {p}) \in Nat
  BY CardinalityAdd DEF Within
<1>2. Cardinality(S \cup {p}) <= MaxPlans
  BY <1>1, BrokerAssumption DEF StoreFull
<1>3. ASSUME NEW n \in Names
      PROVE  Cardinality(OfName(S \cup {p}, n)) <= MaxPerName
  <2>1. IsFiniteSet(OfName(S, n)) /\ Cardinality(OfName(S, n)) \in Nat
    BY FS_Subset, FS_CardinalityType DEF Within, OfName
  <2>2. CASE n # p.caller.name
    <3>1. OfName(S \cup {p}, n) = OfName(S, n)
      BY <2>2 DEF OfName
    <3> QED
      BY <3>1 DEF Within
  <2>3. CASE n = p.caller.name
    <3>1. OfName(S \cup {p}, n) = OfName(S, n) \cup {p}
      BY <2>3 DEF OfName
    <3>2. /\ Cardinality(OfName(S, n) \cup {p}) \in Nat
          /\ Cardinality(OfName(S, n) \cup {p}) <= Cardinality(OfName(S, n)) + 1
      BY <2>1, CardinalityAdd
    <3>3. ~(Cardinality(OfName(S, n)) >= MaxPerName)
      BY <2>3 DEF StoreFull
    <3>4. Cardinality(OfName(S, n) \cup {p}) <= MaxPerName
      BY <2>1, <3>2, <3>3, BrokerAssumption
    <3> QED
      BY <3>1, <3>4, Zenon
  <2> QED
    BY <2>2, <2>3
<1> QED
  BY <1>1, <1>2, <1>3 DEF Within

\* The store never exceeds its limits, in all and per connection
\* (PlanStore::prepare counts after dropping the expired plans).
THEOREM QuotasHold == Spec => []QuotaHolds
<1>1. Init => Within(plans)
  <2> SUFFICES ASSUME Init PROVE Within({})
    BY DEF Init
  <2>1. \A n \in Names : OfName({}, n) = {}
    BY DEF OfName
  <2> QED
    BY <2>1, FS_EmptySet, BrokerAssumption DEF Within
<1>2. Within(plans) /\ [Next]_vars => Within(plans)'
  <2> SUFFICES ASSUME Within(plans), [Next]_vars PROVE Within(plans')
    BY DEF Within, OfName
  <2>1. CASE plans' \subseteq plans
    BY <2>1, WithinSubset
  <2>2. ASSUME NEW c \in Calls, PrepareStore(c) PROVE Within(plans')
    <3>1. Within(Retained(clock))
      BY WithinSubset DEF Retained
    <3>2. CASE plans' = Retained(clock)
      BY <3>1, <3>2
    <3>3. ASSUME NEW i \in Ids, ~StoreFull(Retained(clock), caller[c].name),
                 plans' = Retained(clock) \cup
                     {[id |-> i, caller |-> caller[c], operation |-> op[c],
                       state |-> snap[c], issued_at |-> clock]}
          PROVE  Within(plans')
      BY <3>1, <3>3, WithinAdd
    <3> QED
      BY <2>2, <3>2, <3>3 DEF PrepareStore
  <2>3. ASSUME NEW c \in Calls, ApplyConsume(c) PROVE plans' \subseteq plans
    BY <2>3 DEF ApplyConsume, AfterConsume
  <2>4. CASE Restart
    BY <2>1, <2>4 DEF Restart
  <2> QED
    BY StoreWriters, <2>1, <2>2, <2>3, <2>4
<1>3. Within(plans) => QuotaHolds
  BY DEF Within, QuotaHolds
<1> QED
  BY <1>1, <1>2, <1>3, PTL DEF Spec

-----------------------------------------------------------------------------
(* The broker implements PlanLifecycle *)

Granted(c) == pc[c] \in AfterGrant \cup Executing
Ungranted(c) == pc[c] \in BeforeGrant

\* Every plan stays, is lost, or is the one plan that advances.
OneMove ==
    \E x \in Ids \cup {None} : \A i \in Ids :
        \/ Phase(i)' = Phase(i)
        \/ <<Phase(i), Phase(i)'>> \in Lifecycle!Losses
        \/ i = x /\ <<Phase(i), Phase(i)'>> \in Lifecycle!Advances

\* A step of OneMove is a step of PlanLifecycle.
LEMMA OneMoveRefines == OneMove => Lifecycle!Next
<1> DEFINE ph == [i \in Ids |-> Phase(i)]
<1> SUFFICES ASSUME OneMove PROVE Lifecycle!Next
  OBVIOUS
<1>1. PICK x \in Ids \cup {None} : \A i \in Ids :
        \/ Phase(i)' = Phase(i)
        \/ <<Phase(i), Phase(i)'>> \in Lifecycle!Losses
        \/ i = x /\ <<Phase(i), Phase(i)'>> \in Lifecycle!Advances
  BY DEF OneMove
<1>2. \A i \in Ids : ph[i] = Phase(i) /\ ph'[i] = Phase(i)'
  OBVIOUS
<1>3. ph' \in [Ids -> Lifecycle!Phases]
  BY DEF Phase, Lifecycle!Phases
<1>4. \A i \in Ids : <<Phase(i), Phase(i)'>> \in Lifecycle!Advances => i = x
  BY <1>1 DEF Lifecycle!Advances, Lifecycle!Losses
<1> QED
  BY <1>1, <1>2, <1>3, <1>4 DEF Lifecycle!Next

\* Steps that move no call across the grant and touch neither the store nor the
\* effects move no plan.
LEMMA QuietMove ==
    ASSUME UNCHANGED <<plans, nonces, effects>>,
           \A c \in Calls : /\ Granted(c)' <=> Granted(c)
                            /\ Ungranted(c)' <=> Ungranted(c)
                            /\ Granted(c) \/ Ungranted(c) => plan'[c] = plan[c]
    PROVE  OneMove
<1>1. \A i \in Ids : Phase(i)' = Phase(i)
  BY DEF Phase, Granted, Ungranted
<1> QED
  BY <1>1 DEF OneMove

\* A plan that is held as before, in a store and effects as before, stays.
LEMMA Stays ==
    ASSUME NEW i \in Ids, effects'[i] = effects[i],
           i \in PlanIds' <=> i \in PlanIds, i \in nonces' <=> i \in nonces,
           \A d \in Calls : /\ (Granted(d) /\ plan[d].id = i)' <=> Granted(d) /\ plan[d].id = i
                            /\ (Ungranted(d) /\ plan[d].id = i)' <=> Ungranted(d) /\ plan[d].id = i
    PROVE  Phase(i)' = Phase(i)
BY Zenon DEF Phase, Granted, Ungranted, PlanIds

\* The plan in an attempt is approved once polkit granted it, attempted before.
LEMMA Held ==
    ASSUME IndInv, NEW c \in Calls
    PROVE  /\ Granted(c) => plan[c].id \in Ids /\ Phase(plan[c].id) = "approved"
           /\ Ungranted(c) => plan[c].id \in Ids /\ Phase(plan[c].id) = "attempted"
           /\ Granted(c) \/ Ungranted(c) => \A d \in Calls : d # c => ~Granted(d) /\ ~Ungranted(d)
<1> SUFFICES ASSUME Granted(c) \/ Ungranted(c)
             PROVE  /\ plan[c].id \in Ids
                    /\ Granted(c) => Phase(plan[c].id) = "approved"
                    /\ Ungranted(c) => Phase(plan[c].id) = "attempted"
                    /\ \A d \in Calls : d # c => ~Granted(d) /\ ~Ungranted(d)
  OBVIOUS
<1>1. pc[c] \in Attempting /\ InAttempt(c) /\ pc[c] \in Critical
  BY DEF Granted, Ungranted, InAttempt, Critical, Steps, Attempting, BeforeGrant, AfterGrant, Executing
<1>2. plan[c].id \in Ids /\ effects[plan[c].id] = <<>> /\ plan[c].id \in nonces \ PlanIds
  BY <1>1, PlanFields DEF IndInv, HandInv, NonceInv
<1>3. \A d \in Calls : d # c => ~Granted(d) /\ ~Ungranted(d)
  BY <1>1, OneCritical DEF IndInv, Granted, Ungranted, InAttempt, Attempting
<1>4. ~(Granted(c) /\ Ungranted(c))
  BY DEF Granted, Ungranted, BeforeGrant, AfterGrant, Executing
<1> QED
  BY <1>2, <1>3, <1>4 DEF Phase, PlanIds, Granted, Ungranted

\* An Apply that gives up makes its plan void and moves no other plan.
LEMMA GivesUp ==
    ASSUME IndInv, NEW c \in Calls, Ends(c), UNCHANGED <<plans, nonces, effects>>
    PROVE  OneMove
<1>1. \A d \in Calls : d # c => /\ Granted(d)' <=> Granted(d)
                                /\ Ungranted(d)' <=> Ungranted(d)
                                /\ plan'[d] = plan[d]
  BY DEF IndInv, TypeOK, Ends, Granted, Ungranted
<1>2. ~Granted(c)' /\ ~Ungranted(c)'
  BY DEF IndInv, TypeOK, Ends, Granted, Ungranted, BeforeGrant, AfterGrant, Executing
<1>3. PlanIds' = PlanIds
  BY DEF PlanIds
<1>4. CASE ~Granted(c) /\ ~Ungranted(c)
  BY <1>1, <1>2, <1>4, QuietMove
<1>5. CASE Granted(c) \/ Ungranted(c)
  <2>1. /\ plan[c].id \in Ids
        /\ Phase(plan[c].id) \in {"approved", "attempted"}
        /\ \A d \in Calls : d # c => ~Granted(d) /\ ~Ungranted(d)
    BY <1>5, Held
  <2>2. \A d \in Calls : ~Granted(d)' /\ ~Ungranted(d)'
    BY <1>1, <1>2, <2>1
  <2>3. \A i \in Ids : i # plan[c].id => Phase(i)' = Phase(i)
    BY <1>3, <2>1, <2>2, Stays
  <2>4. /\ effects[plan[c].id] = <<>> /\ plan[c].id \in nonces /\ plan[c].id \notin PlanIds
    BY <1>5 DEF IndInv, NonceInv, InAttempt, Attempting, Granted, Ungranted
  <2>5. \A i \in Ids : i = plan[c].id => Phase(i)' = "void"
    BY <1>3, <2>2, <2>4 DEF Phase, Granted, Ungranted, PlanIds
  <2>6. \A i \in Ids : i = plan[c].id => <<Phase(i), Phase(i)'>> \in Lifecycle!Losses
    BY <2>1, <2>5 DEF Lifecycle!Losses
  <2> QED
    BY <2>3, <2>6 DEF OneMove
<1> QED
  BY <1>4, <1>5

\* A mutation takes its plan, and no other, from approved to applied.
LEMMA Applies ==
    ASSUME IndInv, IndInv', NEW c \in Calls, pc[c] \in Executing, NEW s \in States,
           Records(c, s), pc' = [pc EXCEPT ![c] = "x_finish"],
           UNCHANGED <<plans, nonces, plan>>
    PROVE  OneMove
<1> DEFINE id == plan[c].id
<1>1. Granted(c)
  BY DEF Granted
<1>2. id \in Ids /\ Phase(id) = "approved"
  BY <1>1, Held
<1>3. \A d \in Calls : d # c => ~Granted(d) /\ ~Ungranted(d)
  BY <1>1, Held
<1>4. \A d \in Calls : ~Granted(d)' /\ ~Ungranted(d)'
  BY <1>3 DEF IndInv, TypeOK, Granted, Ungranted, BeforeGrant, AfterGrant, Executing
<1> DEFINE e == [operation |-> plan[c].operation, approved |-> plan[c].state,
                 hit |-> s, seen |-> seen[c]]
<1>5. effects' = [effects EXCEPT ![id] = <<e>>]
  <2>1. effects[id] = <<>>
    BY DEF IndInv, NonceInv, Attempting
  <2> QED
    BY <2>1 DEF Records
<1>6. effects'[id] # <<>> /\ \A i \in Ids : i # id => effects'[i] = effects[i]
  <2> HIDE DEF e
  <2> QED
    BY <1>2, <1>5 DEF IndInv, TypeOK
<1>7. PlanIds' = PlanIds
  BY DEF PlanIds
<1>8. \A i \in Ids : i # id => Phase(i)' = Phase(i)
  BY <1>1, <1>3, <1>4, <1>6, <1>7, Stays
<1>9. \A i \in Ids : i = id => Phase(i)' = "applied"
  BY <1>6 DEF Phase
<1>10. \A i \in Ids : i = id => <<Phase(i), Phase(i)'>> \in Lifecycle!Advances
  BY <1>2, <1>9 DEF Lifecycle!Advances
<1> QED
  BY <1>2, <1>8, <1>10 DEF OneMove

\* polkit's grant takes the plan of the attempt from attempted to approved.
LEMMA Approves ==
    ASSUME IndInv, IndInv', NEW c \in Calls, ApplyAuthorize(c)
    PROVE  OneMove
<1> DEFINE id == plan[c].id
<1>1. /\ pc[c] = "a_authorize" /\ pc' = [pc EXCEPT ![c] = "a_identify"]
      /\ UNCHANGED <<plans, nonces, plan, effects>>
  BY DEF ApplyAuthorize, Goes
<1>2. Ungranted(c) /\ ~Granted(c)
  BY <1>1 DEF Granted, Ungranted, BeforeGrant, AfterGrant, Executing
<1>3. Granted(c)' /\ ~Ungranted(c)'
  BY <1>1 DEF IndInv, TypeOK, Granted, Ungranted, BeforeGrant, AfterGrant, Executing
<1>4. id \in Ids /\ Phase(id) = "attempted"
  BY <1>2, Held
<1>5. \A d \in Calls : d # c => ~Granted(d) /\ ~Ungranted(d)
  BY <1>2, Held
<1>6. \A d \in Calls : d # c => ~Granted(d)' /\ ~Ungranted(d)'
  BY <1>1, <1>5 DEF IndInv, TypeOK, Granted, Ungranted
<1>7. PlanIds' = PlanIds
  BY <1>1 DEF PlanIds
<1>8. \A i \in Ids : i # id => Phase(i)' = Phase(i)
  BY <1>1, <1>5, <1>6, <1>7, Stays
<1>9. effects[id] = <<>> /\ id \notin PlanIds
  BY <1>2 DEF IndInv, NonceInv, InAttempt, Attempting, Ungranted
<1>10. \A i \in Ids : i = id => Phase(i)' = "approved"
  BY <1>1, <1>3, <1>9 DEF Phase, Granted, PlanIds
<1>11. \A i \in Ids : i = id => <<Phase(i), Phase(i)'>> \in Lifecycle!Advances
  BY <1>4, <1>10 DEF Lifecycle!Advances
<1> QED
  BY <1>4, <1>8, <1>11 DEF OneMove

\* Where nobody is in an attempt, a phase is read off the store and the effects.
LEMMA AtRest ==
    ASSUME IndInv, \A c \in Calls : ~Granted(c) /\ ~Ungranted(c), NEW i \in Ids
    PROVE  /\ i \in PlanIds <=> Phase(i) = "pending"
           /\ Phase(i) = "void" <=> i \in nonces \ PlanIds /\ effects[i] = <<>>
           /\ Phase(i) = "unused" <=> i \notin nonces
           /\ Phase(i) = "applied" <=> effects[i] # <<>>
BY DEF Phase, Granted, Ungranted, PlanIds, IndInv, NonceInv

\* A restart voids the pending plans and the plan of the attempt.
LEMMA Forgets == IndInv /\ IndInv' /\ Restart => OneMove
<1> SUFFICES ASSUME IndInv, IndInv', Restart, NEW i \in Ids
             PROVE  Phase(i)' = Phase(i) \/ <<Phase(i), Phase(i)'>> \in Lifecycle!Losses
  BY Zenon DEF OneMove
<1>1. \A c \in Calls : ~Granted(c)' /\ ~Ungranted(c)'
  BY DEF Restart, Granted, Ungranted, BeforeGrant, AfterGrant, Executing
<1>2. i \notin PlanIds' /\ effects'[i] = effects[i] /\ nonces' = nonces
  BY DEF Restart, PlanIds
<1>3. CASE effects[i] # <<>>
  BY <1>2, <1>3 DEF Phase
<1>4. CASE effects[i] = <<>> /\ i \in nonces
  <2>1. Phase(i)' = "void"
    BY <1>1, <1>2, <1>4 DEF Phase, Granted, Ungranted, PlanIds
  <2>2. Phase(i) \in {"pending", "approved", "attempted", "void"}
    BY <1>4 DEF Phase
  <2> QED
    BY <2>1, <2>2 DEF Lifecycle!Losses
<1>5. CASE effects[i] = <<>> /\ i \notin nonces
  <2>1. i \notin PlanIds
    BY <1>5 DEF IndInv, NonceInv
  <2>2. \A c \in Calls : Granted(c) \/ Ungranted(c) => plan[c].id # i
    BY <1>5 DEF IndInv, NonceInv, Granted, Ungranted, InAttempt, Attempting
  <2>3. Phase(i) = "unused"
    BY <1>5, <2>1, <2>2 DEF Phase, Granted, Ungranted, PlanIds
  <2>4. Phase(i)' = "unused"
    BY <1>1, <1>2, <1>5 DEF Phase, Granted, Ungranted, PlanIds
  <2> QED
    BY <2>3, <2>4
<1> QED
  BY <1>3, <1>4, <1>5

\* PlanStore::prepare voids expired plans and makes one fresh nonce pending.
LEMMA Stores ==
    ASSUME IndInv, IndInv', NEW c \in Calls, PrepareStore(c)
    PROVE  OneMove
<1>1. pc[c] = "p_store" /\ Ends(c) /\ UNCHANGED effects
  BY DEF PrepareStore
<1>2. \A d \in Calls : ~Granted(d) /\ ~Ungranted(d)
  BY <1>1, OneCritical DEF IndInv, InAttempt, Granted, Ungranted, Critical, Steps,
     PrepareSteps, Attempting, BeforeGrant, AfterGrant, Executing
<1>3. \A d \in Calls : ~Granted(d)' /\ ~Ungranted(d)'
  BY <1>1, <1>2 DEF IndInv, TypeOK, Ends, Granted, Ungranted, BeforeGrant, AfterGrant, Executing
<1>4. PICK x \in Ids \cup {None} :
        /\ nonces' = nonces \cup ({x} \cap Ids)
        /\ x \notin nonces
        /\ PlanIds' \subseteq PlanIds \cup {x}
        /\ x \in Ids => x \in PlanIds'
  <2>1. CASE plans' = Retained(clock) /\ UNCHANGED nonces
    <3>1. PlanIds' \subseteq PlanIds
      BY <2>1 DEF PlanIds, Retained
    <3>2. None \notin Ids /\ None \notin nonces
      BY BrokerAssumption DEF IndInv, TypeOK
    <3> QED
      BY <2>1, <3>1, <3>2
  <2>2. ASSUME NEW i \in Ids \ nonces, nonces' = nonces \cup {i},
               plans' = Retained(clock) \cup
                   {[id |-> i, caller |-> caller[c], operation |-> op[c],
                     state |-> snap[c], issued_at |-> clock]}
        PROVE  /\ nonces' = nonces \cup ({i} \cap Ids)
               /\ PlanIds' \subseteq PlanIds \cup {i}
               /\ i \in PlanIds'
    <3> DEFINE p == [id |-> i, caller |-> caller[c], operation |-> op[c],
                     state |-> snap[c], issued_at |-> clock]
    <3>1. p.id = i
      OBVIOUS
    <3> HIDE DEF p
    <3>2. plans' = Retained(clock) \cup {p}
      BY <2>2 DEF p
    <3> QED
      BY <2>2, <3>1, <3>2 DEF PlanIds, Retained
  <2> QED
    BY <2>1, <2>2 DEF PrepareStore
<1>5. ASSUME NEW i \in Ids
      PROVE  \/ Phase(i)' = Phase(i)
             \/ <<Phase(i), Phase(i)'>> \in Lifecycle!Losses
             \/ i = x /\ <<Phase(i), Phase(i)'>> \in Lifecycle!Advances
  <2>1. CASE effects[i] # <<>>
    BY <1>1, <2>1 DEF Phase
  <2>2. CASE effects[i] = <<>> /\ i = x
    <3>1. Phase(i) = "unused"
      BY <1>2, <1>4, <2>2, AtRest
    <3>2. Phase(i)' = "pending"
      BY <1>1, <1>4, <2>2 DEF Phase, PlanIds
    <3> QED
      BY <2>2, <3>1, <3>2 DEF Lifecycle!Advances
  <2>3. CASE effects[i] = <<>> /\ i # x /\ i \in PlanIds \ PlanIds'
    <3>1. Phase(i) = "pending" /\ i \in nonces
      BY <1>2, <2>3, AtRest DEF IndInv, NonceInv
    <3>2. Phase(i)' = "void"
      BY <1>1, <1>3, <1>4, <2>3, <3>1 DEF Phase, Granted, Ungranted, PlanIds
    <3> QED
      BY <3>1, <3>2 DEF Lifecycle!Losses
  <2>4. CASE i # x /\ i \notin PlanIds \ PlanIds'
    BY <1>1, <1>2, <1>3, <1>4, <2>4, Stays
  <2> QED
    BY <2>1, <2>2, <2>3, <2>4
<1> QED
  BY <1>5 DEF OneMove

\* PlanStore::consume makes its caller's pending plan attempted, or void.
LEMMA Consumes ==
    ASSUME IndInv, IndInv', NEW c \in Calls, ApplyConsume(c)
    PROVE  OneMove
<1>1. pc[c] = "a_consume" /\ UNCHANGED <<nonces, effects>>
  BY DEF ApplyConsume
<1>2. \A d \in Calls : ~Granted(d) /\ ~Ungranted(d)
  BY <1>1, OneCritical DEF IndInv, InAttempt, Granted, Ungranted, Critical, Steps,
     BeforeConsume, Attempting, BeforeGrant, AfterGrant, Executing
<1>3. CASE UNCHANGED plans /\ Ends(c)
  BY <1>1, <1>3, GivesUp
<1>4. ASSUME NEW p \in plans, plans' = plans \ {p},
             \/ Ends(c)
             \/ plan' = [plan EXCEPT ![c] = p] /\ pc' = [pc EXCEPT ![c] = "a_snapshot"]
      PROVE  OneMove
  <2>1. /\ p.id \in Ids /\ Phase(p.id) = "pending"
        /\ p.id \in nonces /\ effects[p.id] = <<>>
    BY <1>2, AtRest, PlanFields DEF IndInv, TypeOK, NonceInv, PlanIds
  <2>2. PlanIds' = PlanIds \ {p.id}
    BY <1>4 DEF IndInv, NonceInv, PlanIds
  <2>3. \A d \in Calls : ~Granted(d)' /\ (d # c => ~Ungranted(d)')
    BY <1>1, <1>2, <1>4 DEF IndInv, TypeOK, Ends, Granted, Ungranted, BeforeGrant,
       AfterGrant, Executing
  <2>4. Ungranted(c)' => plan'[c] = p
    BY <1>4 DEF IndInv, TypeOK, Ends, Ungranted, BeforeGrant
  <2>5. \A i \in Ids : i # p.id => Phase(i)' = Phase(i)
    BY <1>1, <1>2, <2>2, <2>3, <2>4, Stays
  <2>6. \A i \in Ids : i = p.id => Phase(i)' \in {"attempted", "void"}
    BY <1>1, <2>1, <2>2, <2>3 DEF Phase, Granted, PlanIds
  <2>7. \A i \in Ids : i = p.id =>
            <<Phase(i), Phase(i)'>> \in Lifecycle!Advances \cup Lifecycle!Losses
    BY <2>1, <2>6 DEF Lifecycle!Advances, Lifecycle!Losses
  <2> QED
    BY <2>1, <2>5, <2>7 DEF OneMove
<1> QED
  BY <1>3, <1>4 DEF ApplyConsume, AfterConsume, Consumable, Goes

\* Every other step of a call leaves it on its side of the grant.
QuietCall(c) ==
    /\ UNCHANGED <<plans, nonces, effects>>
    /\ \A d \in Calls \ {c} : pc'[d] = pc[d] /\ plan'[d] = plan[d]
    /\ Granted(c)' <=> Granted(c)
    /\ Ungranted(c)' <=> Ungranted(c)
    /\ Granted(c) \/ Ungranted(c) => plan'[c] = plan[c]

\* A quiet step of one call moves no plan.
LEMMA QuietCallMove ==
    ASSUME NEW c \in Calls, QuietCall(c)
    PROVE  OneMove
<1>1. \A d \in Calls : /\ Granted(d)' <=> Granted(d)
                       /\ Ungranted(d)' <=> Ungranted(d)
                       /\ Granted(d) \/ Ungranted(d) => plan'[d] = plan[d]
  BY DEF QuietCall, Granted, Ungranted
<1> QED
  BY <1>1, QuietMove DEF QuietCall

\* Each step of the broker is one move of PlanLifecycle, or none.
LEMMA StepRefines ==
    ASSUME IndInv, IndInv', [Next]_vars
    PROVE  OneMove
<1>1. CASE UNCHANGED vars
  BY <1>1, QuietMove DEF vars, callVars, Granted, Ungranted
<1>2. CASE EnvNext
  BY <1>2, QuietMove DEF EnvNext, SetClock, ChangeHost, ChangeProcess, callVars, Granted, Ungranted
<1>3. CASE Restart
  BY <1>3, Forgets
<1>4. ASSUME NEW c \in Calls, TakeLock(c)
      PROVE  OneMove
  <2>1. QuietCall(c)
    BY <1>4 DEF TakeLock, QuietCall, Granted, Ungranted, BeforeGrant, AfterGrant, Executing, Goes, IndInv, TypeOK
  <2> QED
    BY <2>1, QuietCallMove
<1>5. ASSUME NEW c \in Calls, Busy(c)
      PROVE  OneMove
  <2>1. QuietCall(c)
    BY <1>5 DEF Busy, Ends, QuietCall, Granted, Ungranted, BeforeGrant, AfterGrant, Executing, Goes, IndInv, TypeOK
  <2> QED
    BY <2>1, QuietCallMove
<1>6. ASSUME NEW c \in Calls, Fails(c)
      PROVE  OneMove
  BY <1>6, GivesUp DEF Fails
<1>7. ASSUME NEW c \in Calls, Finish(c)
      PROVE  OneMove
  <2>1. QuietCall(c)
    BY <1>7 DEF Finish, Ends, QuietCall, Granted, Ungranted, BeforeGrant, AfterGrant, Executing, Goes, IndInv, TypeOK
  <2> QED
    BY <2>1, QuietCallMove
<1>8. ASSUME NEW c \in Calls, NEW n \in Names, NEW w \in Principals, NEW o \in Operations,
             PrepareBegin(c, n, w, o)
      PROVE  OneMove
  <2>1. QuietCall(c)
    BY <1>8 DEF PrepareBegin, QuietCall, Granted, Ungranted, BeforeGrant, AfterGrant, Executing, Goes, IndInv, TypeOK
  <2> QED
    BY <2>1, QuietCallMove
<1>9. ASSUME NEW c \in Calls, PrepareSnapshot(c)
      PROVE  OneMove
  <2>1. QuietCall(c)
    BY <1>9 DEF PrepareSnapshot, QuietCall, Granted, Ungranted, BeforeGrant, AfterGrant, Executing, Goes, IndInv, TypeOK
  <2> QED
    BY <2>1, QuietCallMove
<1>10. ASSUME NEW c \in Calls, NEW w \in Principals, PrepareIdentify(c, w)
      PROVE  OneMove
  <2>1. QuietCall(c)
    BY <1>10 DEF PrepareIdentify, QuietCall, Granted, Ungranted, BeforeGrant, AfterGrant, Executing, Goes, IndInv, TypeOK
  <2> QED
    BY <2>1, QuietCallMove
<1>11. ASSUME NEW c \in Calls, PrepareStore(c)
      PROVE  OneMove
  BY <1>11, Stores
<1>12. ASSUME NEW c \in Calls, NEW n \in Names, NEW w \in Principals, NEW i \in Ids, NEW d \in Ids,
             ApplyBegin(c, n, w, i, d)
      PROVE  OneMove
  <2>1. QuietCall(c)
    BY <1>12 DEF ApplyBegin, QuietCall, Granted, Ungranted, BeforeGrant, AfterGrant, Executing, Goes, IndInv, TypeOK
  <2> QED
    BY <2>1, QuietCallMove
<1>13. ASSUME NEW c \in Calls, ApplyConsume(c)
      PROVE  OneMove
  BY <1>13, Consumes
<1>14. ASSUME NEW c \in Calls, ApplySnapshot(c)
      PROVE  OneMove
  <2>1. QuietCall(c)
    BY <1>14 DEF ApplySnapshot, QuietCall, Granted, Ungranted, BeforeGrant, AfterGrant, Executing, Goes, IndInv, TypeOK
  <2> QED
    BY <2>1, QuietCallMove
<1>15. ASSUME NEW c \in Calls, ApplyRevalidate(c)
      PROVE  OneMove
  <2>1. QuietCall(c)
    BY <1>15 DEF ApplyRevalidate, QuietCall, Granted, Ungranted, BeforeGrant, AfterGrant, Executing, Goes, IndInv, TypeOK
  <2> QED
    BY <2>1, QuietCallMove
<1>16. ASSUME NEW c \in Calls, ApplyAuthorize(c)
      PROVE  OneMove
  BY <1>16, Approves
<1>17. ASSUME NEW c \in Calls, NEW w \in Principals, ApplyIdentify(c, w)
      PROVE  OneMove
  <2>1. QuietCall(c)
    BY <1>17 DEF ApplyIdentify, QuietCall, Granted, Ungranted, BeforeGrant, AfterGrant, Executing, Goes, IndInv, TypeOK
  <2> QED
    BY <2>1, QuietCallMove
<1>18. ASSUME NEW c \in Calls, ExecuteService(c)
      PROVE  OneMove
  <2>1. QuietCall(c)
    BY <1>18 DEF ExecuteService, QuietCall, Granted, Ungranted, BeforeGrant, AfterGrant, Executing, Goes, IndInv, TypeOK
  <2> QED
    BY <2>1, QuietCallMove
<1>19. ASSUME NEW c \in Calls, EnsureUnexpired(c)
      PROVE  OneMove
  <2>1. QuietCall(c)
    BY <1>19 DEF EnsureUnexpired, QuietCall, Granted, Ungranted, BeforeGrant, AfterGrant, Executing, Goes, IndInv, TypeOK
  <2> QED
    BY <2>1, QuietCallMove
<1>20. ASSUME NEW c \in Calls, NEW s \in States, Systemctl(c, s)
      PROVE  OneMove
  <2>1. pc[c] \in Executing /\ pc[c] \in Attempting
    BY <1>20 DEF Systemctl, Goes, Executing, Attempting
  <2>2. host[plan[c].operation] \in States
    BY <2>1, PlanFields DEF IndInv, TypeOK, HandInv, InAttempt
  <2> QED
    BY <1>20, <2>1, <2>2, Applies DEF Systemctl, Goes
<1>21. ASSUME NEW c \in Calls, OpenPidfd(c)
      PROVE  OneMove
  <2>1. QuietCall(c)
    BY <1>21 DEF OpenPidfd, QuietCall, Granted, Ungranted, BeforeGrant, AfterGrant, Executing, Goes, IndInv, TypeOK
  <2> QED
    BY <2>1, QuietCallMove
<1>22. ASSUME NEW c \in Calls, ExecuteKill(c)
      PROVE  OneMove
  <2>1. QuietCall(c)
    BY <1>22 DEF ExecuteKill, QuietCall, Granted, Ungranted, BeforeGrant, AfterGrant, Executing, Goes, IndInv, TypeOK
  <2> QED
    BY <2>1, QuietCallMove
<1>23. ASSUME NEW c \in Calls, Terminate(c)
      PROVE  OneMove
  <2>1. pc[c] \in Executing /\ pc[c] \in Attempting
    BY <1>23 DEF Terminate, Goes, Executing, Attempting
  <2>2. host[plan[c].operation] \in States
    BY <2>1, PlanFields DEF IndInv, TypeOK, HandInv, InAttempt
  <2> QED
    BY <1>23, <2>1, <2>2, Applies DEF Terminate, Goes
<1>24. ASSUME NEW c \in Calls, NEW s \in States, RunPackages(c, s)
      PROVE  OneMove
  <2>1. pc[c] \in Executing /\ pc[c] \in Attempting
    BY <1>24 DEF RunPackages, Goes, Executing, Attempting
  <2>2. host[plan[c].operation] \in States
    BY <2>1, PlanFields DEF IndInv, TypeOK, HandInv, InAttempt
  <2> QED
    BY <1>24, <2>1, <2>2, Applies DEF RunPackages, Goes
<1>25. ASSUME NEW c \in Calls, CompareSources(c)
      PROVE  OneMove
  <2>1. QuietCall(c)
    BY <1>25 DEF CompareSources, QuietCall, Granted, Ungranted, BeforeGrant, AfterGrant, Executing, Goes, IndInv, TypeOK
  <2> QED
    BY <2>1, QuietCallMove
<1>26. ASSUME NEW c \in Calls, UpdateLists(c)
      PROVE  OneMove
  <2>1. pc[c] \in Executing /\ pc[c] \in Attempting
    BY <1>26 DEF UpdateLists, Goes, Executing, Attempting
  <2>2. host[plan[c].operation] \in States
    BY <2>1, PlanFields DEF IndInv, TypeOK, HandInv, InAttempt
  <2> QED
    BY <1>26, <2>1, <2>2, Applies DEF UpdateLists, Goes
<1> QED
  BY <1>1, <1>2, <1>3, <1>4, <1>5, <1>6, <1>7, <1>8, <1>9, <1>10, <1>11, <1>12, <1>13,
     <1>14, <1>15, <1>16, <1>17, <1>18, <1>19, <1>20, <1>21, <1>22, <1>23, <1>24, <1>25,
     <1>26
  DEF Next, PrepareNext, ApplyNext, ExecuteNext

\* The broker implements PlanLifecycle: whatever calls, failures and restarts
\* do, a plan is issued once, attempted once, approved in the attempt and
\* applied only after that.
THEOREM BrokerImplementsLifecycle == Spec => LifecycleSpec
<1>1. Init => Lifecycle!Init
  BY DEF Init, Lifecycle!Init, Phase, AfterGrant, Executing, BeforeGrant
<1>2. IndInv /\ IndInv' /\ [Next]_vars => [Lifecycle!Next]_([i \in Ids |-> Phase(i)])
  BY StepRefines, OneMoveRefines
<1> QED
  BY <1>1, <1>2, Inductive, PTL DEF Spec, LifecycleSpec, Lifecycle!Spec
=============================================================================
