---------------------------- MODULE InferenceQueue ----------------------------
(***************************************************************************)
(* The admission queue of the local inference broker                       *)
(* (crates/sentia-local-broker/src/queue.rs): reserve() under the counts   *)
(* mutex, acquire() on tokio's fair semaphore, and Drop for Reservation.   *)
(*                                                                         *)
(* The semaphore and the counts are two pieces of shared state that the    *)
(* code updates one after the other, on several threads: acquire() has the *)
(* permit before it counts itself active, and drop() gives the permit back *)
(* before it uncounts itself.  Each update is an action of its own.        *)
(***************************************************************************)
EXTENDS Integers, Sequences, FiniteSets

CONSTANTS
    Requests,       \* chat requests that can be in the broker
    Uids,           \* peer uids
    UidOf,          \* the uid each request is made for
    MaxActive,      \* max_active, the semaphore's permits
    GlobalLimit,    \* max_global_queue
    PerUidLimit     \* max_queue_per_uid

ASSUME QueueAssumption ==
    /\ IsFiniteSet(Requests)
    /\ UidOf \in [Requests -> Uids]
    /\ MaxActive \in Nat
    /\ GlobalLimit \in Nat
    /\ PerUidLimit \in Nat

VARIABLES
    phase,      \* where each reservation is, see Phases
    free,       \* permits the semaphore has in hand
    waiters,    \* the semaphore's FIFO list of requests without a permit
    queued, active, byUid       \* Counts

queueVars == <<phase, free, waiters, queued, active, byUid>>

-----------------------------------------------------------------------------
\* A reservation is made (queued), waits in the semaphore's list (waiting), is
\* given a permit (assigned), returns from acquire_owned (granted) and counts
\* itself active; or acquire returns Cancelled (cancelled).  When it is dropped
\* the permit goes first and the count second (uncounting, for an active one,
\* leaving, for one that never was).
Phases == {"none", "queued", "waiting", "assigned", "granted", "active",
           "cancelled", "uncounting", "leaving"}

Holding == {r \in Requests : phase[r] \in {"assigned", "granted", "active"}}
CountedActive == {r \in Requests : phase[r] \in {"active", "uncounting"}}
Reserved == {r \in Requests : phase[r] # "none"}
ReservedBy(u) == {r \in Reserved : UidOf[r] = u}

\* usize::saturating_sub(1)
Dec(n) == IF n = 0 THEN 0 ELSE n - 1

\* The sequence s without its k-th element.
Without(s, k) == [i \in 1 .. Len(s) - 1 |-> s[IF i < k THEN i ELSE i + 1]]

QueueInit ==
    /\ phase = [r \in Requests |-> "none"]
    /\ free = MaxActive
    /\ waiters = <<>>
    /\ queued = 0
    /\ active = 0
    /\ byUid = [u \in Uids |-> 0]

-----------------------------------------------------------------------------
(* reserve(uid) *)

GlobalFull == queued + active >= GlobalLimit
UserFull_OffByOne(r) == byUid[UidOf[r]] > PerUidLimit
UserFull(r) == byUid[UidOf[r]] >= PerUidLimit

Reserve(r) ==
    /\ phase[r] = "none"
    /\ ~GlobalFull
    /\ ~UserFull(r)
    /\ phase' = [phase EXCEPT ![r] = "queued"]
    /\ queued' = queued + 1
    /\ byUid' = [byUid EXCEPT ![UidOf[r]] = @ + 1]
    /\ UNCHANGED <<free, waiters, active>>

-----------------------------------------------------------------------------
(* tokio::sync::Semaphore, as acquire() and drop() use it: outside the repository *)

\* A permit comes back, with r leaving for the phase p: the request at the head
\* of the list has it at once; it joins the free permits when nobody waits.
GivePermit(r, p) ==
    \/ /\ waiters = <<>>
       /\ phase' = [phase EXCEPT ![r] = p]
       /\ free' = free + 1
       /\ waiters' = waiters
    \/ /\ waiters # <<>>
       /\ phase' = [phase EXCEPT ![r] = p, ![Head(waiters)] = "assigned"]
       /\ free' = free
       /\ waiters' = Tail(waiters)

\* The first poll of acquire_owned().
PollTaken(r) ==
    /\ phase[r] = "queued"
    /\ free > 0
    /\ phase' = [phase EXCEPT ![r] = "granted"]
    /\ free' = free - 1
    /\ UNCHANGED <<waiters, queued, active, byUid>>

PollWaits(r) ==
    /\ phase[r] = "queued"
    /\ free = 0
    /\ phase' = [phase EXCEPT ![r] = "waiting"]
    /\ waiters' = Append(waiters, r)
    /\ UNCHANGED <<free, queued, active, byUid>>

\* The task is woken with its permit: acquire_owned() returns.
Wake(r) ==
    /\ phase[r] = "assigned"
    /\ phase' = [phase EXCEPT ![r] = "granted"]
    /\ UNCHANGED <<free, waiters, queued, active, byUid>>

-----------------------------------------------------------------------------
(* The rest of acquire(cancellation) *)

\* The counts are moved from queued to active.
Activate(r) ==
    /\ phase[r] = "granted"
    /\ phase' = [phase EXCEPT ![r] = "active"]
    /\ queued' = Dec(queued)
    /\ active' = active + 1
    /\ UNCHANGED <<free, waiters, byUid>>

\* select! takes the cancellation branch: the acquire future is dropped, which
\* takes it off the semaphore's list or hands on the permit it was given.
Abandon(r) ==
    /\ \/ /\ phase[r] = "queued"
          /\ phase' = [phase EXCEPT ![r] = "cancelled"]
          /\ UNCHANGED <<free, waiters>>
       \/ \E k \in 1 .. Len(waiters) :
          /\ waiters[k] = r
          /\ phase' = [phase EXCEPT ![r] = "cancelled"]
          /\ waiters' = Without(waiters, k)
          /\ UNCHANGED free
       \/ /\ phase[r] = "assigned"
          /\ GivePermit(r, "cancelled")
    /\ UNCHANGED <<queued, active, byUid>>

-----------------------------------------------------------------------------
(* Drop for Reservation *)

\* self.phase = Phase::Released drops the permit, if there is one ...
Release_KeepsPermit(r) ==
    /\ \/ phase[r] = "active" /\ phase' = [phase EXCEPT ![r] = "uncounting"]
       \/ phase[r] = "cancelled" /\ phase' = [phase EXCEPT ![r] = "leaving"]
    /\ UNCHANGED <<free, waiters, queued, active, byUid>>
Release(r) ==
    /\ \/ phase[r] = "active" /\ GivePermit(r, "uncounting")
       \/ /\ phase[r] = "cancelled"
          /\ phase' = [phase EXCEPT ![r] = "leaving"]
          /\ UNCHANGED <<free, waiters>>
    /\ UNCHANGED <<queued, active, byUid>>

\* ... and then the counts are put right.
Uncount_AlwaysActive(r) ==
    /\ phase[r] \in {"uncounting", "leaving"} /\ active' = active - 1
    /\ phase' = [phase EXCEPT ![r] = "none"]
    /\ byUid' = [byUid EXCEPT ![UidOf[r]] = Dec(@)]
    /\ UNCHANGED <<free, waiters, queued>>
Uncount_ForgetsUid(r) ==
    /\ \/ phase[r] = "uncounting" /\ active' = Dec(active) /\ UNCHANGED queued
       \/ phase[r] = "leaving" /\ queued' = Dec(queued) /\ UNCHANGED active
    /\ phase' = [phase EXCEPT ![r] = "none"]
    /\ UNCHANGED <<free, waiters, byUid>>
Uncount(r) ==
    /\ \/ phase[r] = "uncounting" /\ active' = Dec(active) /\ UNCHANGED queued
       \/ phase[r] = "leaving" /\ queued' = Dec(queued) /\ UNCHANGED active
    /\ phase' = [phase EXCEPT ![r] = "none"]
    /\ byUid' = [byUid EXCEPT ![UidOf[r]] = Dec(@)]
    /\ UNCHANGED <<free, waiters>>

-----------------------------------------------------------------------------
\* What the queue does once a task is scheduled, and what the task decides.
QueueSteps(r) ==
    \/ PollTaken(r)
    \/ PollWaits(r)
    \/ Wake(r)
    \/ Activate(r)
    \/ Uncount(r)

QueueNext == \E r \in Requests :
    \/ QueueSteps(r)
    \/ Reserve(r)
    \/ Abandon(r)
    \/ Release(r)

\* Every task is scheduled again and again, and gives its permit back some day: run_chat
\* bounds the generation with request_timeout.  Two waits it does not bound, and there
\* the fairness of Release is an assumption: a health probe the backend accepts and
\* never answers, and an event sent to a peer that neither reads nor leaves.
QueueFairness == \A r \in Requests :
    /\ WF_queueVars(QueueSteps(r))
    /\ WF_queueVars(Release(r))

QueueSpec == QueueInit /\ [][QueueNext]_queueVars /\ QueueFairness

-----------------------------------------------------------------------------
(* Properties *)

\* Every variable has its type.
QueueTypeOK ==
    /\ phase \in [Requests -> Phases]
    /\ free \in Nat
    /\ waiters \in Seq(Requests)
    /\ queued \in Nat
    /\ active \in Nat
    /\ byUid \in [Uids -> Nat]

\* The semaphore's list holds each waiting request once.
ListInv ==
    /\ \A k \in 1 .. Len(waiters) : phase[waiters[k]] = "waiting"
    /\ \A k, l \in 1 .. Len(waiters) : waiters[k] = waiters[l] => k = l
    /\ \A r \in Requests : phase[r] = "waiting" => \E k \in 1 .. Len(waiters) : waiters[k] = r

\* No permit is lost or made up, whichever way requests leave: "serializes
\* inference by default" with max_active permits.
PermitsConserved == free + Cardinality(Holding) = MaxActive

\* The counts that reserve() decides by agree with the reservations that exist,
\* although they lag behind the permits: no saturating_sub ever saturates.
CountsExact ==
    /\ active = Cardinality(CountedActive)
    /\ queued + active = Cardinality(Reserved)
    /\ \A u \in Uids : byUid[u] = Cardinality(ReservedBy(u))

\* No user and not all users together hold more reservations than configured.
LimitsHold ==
    /\ Cardinality(Reserved) <= GlobalLimit
    /\ \A u \in Uids : Cardinality(ReservedBy(u)) <= PerUidLimit

\* A reservation that is not cancelled is served: the semaphore's list is fair.
Served == \A r \in Requests :
    phase[r] = "queued" ~> phase[r] \in {"active", "cancelled"}

-----------------------------------------------------------------------------
(* The inductive invariant of InferenceQueueProofs *)

QueueInv == QueueTypeOK /\ ListInv /\ PermitsConserved /\ CountsExact /\ LimitsHold
=============================================================================
