------------------------- MODULE InferenceQueueProofs -------------------------
(* Proofs, for every value of the constants, about module InferenceQueue. *)
EXTENDS InferenceQueue, FiniteSetTheorems, TLAPS

\* Counting over finite sets, one element at a time.
LEMMA Counting ==
    ASSUME NEW S, IsFiniteSet(S), NEW x
    PROVE  /\ Cardinality(S) \in Nat
           /\ IsFiniteSet(S \cup {x}) /\ IsFiniteSet(S \ {x})
           /\ x \notin S => Cardinality(S \cup {x}) = Cardinality(S) + 1
           /\ x \in S => Cardinality(S \ {x}) = Cardinality(S) - 1
BY FS_CardinalityType, FS_AddElement, FS_RemoveElement

\* The requests whose phase is in A.
In(A) == {r \in Requests : phase[r] \in A}

\* Every set that the counts stand for is a finite set of requests.
LEMMA CountedFinite ==
    /\ \A A : IsFiniteSet(In(A))
    /\ IsFiniteSet(Reserved) /\ IsFiniteSet(Holding) /\ IsFiniteSet(CountedActive)
    /\ \A u : IsFiniteSet(ReservedBy(u))
BY QueueAssumption, FS_Subset DEF In, Reserved, Holding, CountedActive, ReservedBy

\* How many requests are in the phases A, when one request moves.
LEMMA Moved ==
    ASSUME QueueTypeOK, NEW r \in Requests, NEW p, NEW A,
           phase' = [phase EXCEPT ![r] = p]
    PROVE  /\ (phase[r] \in A <=> p \in A) => In(A)' = In(A)
           /\ phase[r] \notin A /\ p \in A =>
                  Cardinality(In(A)') = Cardinality(In(A)) + 1
           /\ phase[r] \in A /\ p \notin A =>
                  Cardinality(In(A)') = Cardinality(In(A)) - 1
<1>1. IsFiniteSet(In(A))
  BY CountedFinite
<1>2. (phase[r] \in A <=> p \in A) => In(A)' = In(A)
  BY DEF In, QueueTypeOK
<1>3. phase[r] \notin A /\ p \in A => In(A)' = In(A) \cup {r} /\ r \notin In(A)
  BY DEF In, QueueTypeOK
<1>4. phase[r] \in A /\ p \notin A => In(A)' = In(A) \ {r} /\ r \in In(A)
  BY DEF In, QueueTypeOK
<1> QED
  BY <1>1, <1>2, <1>3, <1>4, Counting

HoldingPhases == {"assigned", "granted", "active"}
ActivePhases == {"active", "uncounting"}
ReservedPhases == Phases \ {"none"}

\* What a move of one request between phases p0 and p does to the counted sets.
LEMMA MovedCounts ==
    ASSUME QueueTypeOK, QueueTypeOK', NEW r \in Requests, NEW p \in Phases,
           phase' = [phase EXCEPT ![r] = p]
    PROVE  /\ (phase[r] \in HoldingPhases <=> p \in HoldingPhases) => Holding' = Holding
           /\ (phase[r] \in ActivePhases <=> p \in ActivePhases) => CountedActive' = CountedActive
           /\ (phase[r] # "none" <=> p # "none") =>
                  Reserved' = Reserved /\ \A u : ReservedBy(u)' = ReservedBy(u)
           /\ phase[r] \notin HoldingPhases /\ p \in HoldingPhases =>
                  Cardinality(Holding') = Cardinality(Holding) + 1
           /\ phase[r] \in HoldingPhases /\ p \notin HoldingPhases =>
                  Cardinality(Holding') = Cardinality(Holding) - 1
           /\ phase[r] \notin ActivePhases /\ p \in ActivePhases =>
                  Cardinality(CountedActive') = Cardinality(CountedActive) + 1
           /\ phase[r] \in ActivePhases /\ p \notin ActivePhases =>
                  Cardinality(CountedActive') = Cardinality(CountedActive) - 1
<1>1. /\ Holding = In(HoldingPhases) /\ Holding' = In(HoldingPhases)'
      /\ CountedActive = In(ActivePhases) /\ CountedActive' = In(ActivePhases)'
      /\ Reserved = In(ReservedPhases) /\ Reserved' = In(ReservedPhases)'
  BY DEF QueueTypeOK, Holding, CountedActive, Reserved, In, HoldingPhases, ActivePhases,
         ReservedPhases, Phases
<1>2. (phase[r] # "none" <=> p # "none") => Reserved' = Reserved
  BY DEF QueueTypeOK, Reserved
<1>3. Reserved' = Reserved => \A u : ReservedBy(u)' = ReservedBy(u)
  BY DEF ReservedBy
<1>4. \A A : /\ (phase[r] \in A <=> p \in A) => In(A)' = In(A)
             /\ phase[r] \notin A /\ p \in A =>
                    Cardinality(In(A)') = Cardinality(In(A)) + 1
             /\ phase[r] \in A /\ p \notin A =>
                    Cardinality(In(A)') = Cardinality(In(A)) - 1
  BY Moved
<1> QED
  BY <1>1, <1>2, <1>3, <1>4

\* A sequence without one of its elements.
LEMMA WithoutFacts ==
    ASSUME NEW S, NEW s \in Seq(S), NEW k \in 1 .. Len(s)
    PROVE  /\ Without(s, k) \in Seq(S)
           /\ Len(Without(s, k)) = Len(s) - 1
           /\ \A i \in 1 .. Len(s) - 1 :
                  /\ i < k => Without(s, k)[i] = s[i]
                  /\ i >= k => Without(s, k)[i] = s[i + 1]
<1> DEFINE n == Len(s) - 1
<1>1. n \in Nat
  OBVIOUS
<1>2. \A i \in 1 .. n : s[IF i < k THEN i ELSE i + 1] \in S
  OBVIOUS
<1> QED
  BY <1>1, <1>2 DEF Without

-----------------------------------------------------------------------------
\* Every step keeps the types.
LEMMA QueueTypeStep == QueueInv /\ [QueueNext]_queueVars => QueueTypeOK'
<1> SUFFICES ASSUME QueueInv, [QueueNext]_queueVars PROVE QueueTypeOK'
  OBVIOUS
<1> USE QueueAssumption DEF QueueInv, QueueTypeOK, Phases
<1>1. CASE UNCHANGED queueVars
  BY <1>1 DEF queueVars
<1>2. ASSUME NEW r \in Requests, QueueSteps(r) PROVE QueueTypeOK'
  <2>1. CASE PollTaken(r)
    BY <2>1 DEF PollTaken
  <2>2. CASE PollWaits(r)
    BY <2>2 DEF PollWaits
  <2>3. CASE Wake(r)
    BY <2>3 DEF Wake
  <2>4. CASE Activate(r)
    BY <2>4 DEF Activate, Dec
  <2>5. CASE Uncount(r)
    BY <2>5 DEF Uncount, Dec
  <2> QED
    BY <1>2, <2>1, <2>2, <2>3, <2>4, <2>5 DEF QueueSteps
<1>3. ASSUME NEW r \in Requests, Reserve(r) PROVE QueueTypeOK'
  BY <1>3 DEF Reserve
<1>4. ASSUME NEW r \in Requests, NEW p \in Phases, GivePermit(r, p)
      PROVE  /\ phase' \in [Requests -> Phases]
             /\ free' \in Nat /\ waiters' \in Seq(Requests)
  <2>1. CASE waiters = <<>>
    BY <1>4, <2>1 DEF GivePermit
  <2>2. CASE waiters # <<>>
    <3>1. Head(waiters) \in Requests /\ Tail(waiters) \in Seq(Requests)
      BY <2>2
    <3> QED
      BY <1>4, <2>2, <3>1 DEF GivePermit
  <2> QED
    BY <2>1, <2>2
<1>5. ASSUME NEW r \in Requests, Abandon(r) PROVE QueueTypeOK'
  <2>1. UNCHANGED <<queued, active, byUid>>
    BY <1>5 DEF Abandon
  <2>2. CASE phase' = [phase EXCEPT ![r] = "cancelled"] /\ UNCHANGED <<free, waiters>>
    BY <2>1, <2>2
  <2>3. ASSUME NEW k \in 1 .. Len(waiters), waiters' = Without(waiters, k),
               phase' = [phase EXCEPT ![r] = "cancelled"], UNCHANGED free
        PROVE  QueueTypeOK'
    BY <2>1, <2>3, WithoutFacts
  <2>4. CASE GivePermit(r, "cancelled")
    BY <1>4, <2>1, <2>4
  <2> QED
    BY <1>5, <2>2, <2>3, <2>4 DEF Abandon
<1>6. ASSUME NEW r \in Requests, Release(r) PROVE QueueTypeOK'
  BY <1>4, <1>6 DEF Release
<1> QED
  BY <1>1, <1>2, <1>3, <1>5, <1>6 DEF QueueNext

-----------------------------------------------------------------------------
\* A permit that comes back goes to the request that has waited longest.
LEMMA GivePermitList ==
    ASSUME QueueInv, NEW r \in Requests, NEW p \in Phases \ {"waiting"},
           phase[r] # "waiting", GivePermit(r, p)
    PROVE  ListInv'
<1> USE DEF QueueInv, QueueTypeOK, ListInv
<1>1. CASE waiters = <<>>
  BY <1>1 DEF GivePermit
<1>2. CASE waiters # <<>>
  <2> DEFINE h == Head(waiters)
  <2>1. /\ h \in Requests /\ h = waiters[1] /\ phase[h] = "waiting" /\ h # r
    BY <1>2
  <2>2. /\ phase' = [phase EXCEPT ![r] = p, ![h] = "assigned"]
        /\ waiters' = Tail(waiters) /\ free' = free
    BY <1>2 DEF GivePermit
  <2>3. /\ phase'[h] = "assigned" /\ phase'[r] = p
        /\ \A x \in Requests : x # h /\ x # r => phase'[x] = phase[x]
    BY <2>1, <2>2
  <2>4. /\ Len(waiters') = Len(waiters) - 1
        /\ \A k \in 1 .. Len(waiters') : waiters'[k] = waiters[k + 1] /\ k + 1 \in 1 .. Len(waiters)
    BY <1>2, <2>2
  <2>5. \A k \in 1 .. Len(waiters) : waiters[k] \in Requests /\ waiters[k] # r
    OBVIOUS
  <2>6. \A k \in 1 .. Len(waiters') : phase'[waiters'[k]] = "waiting"
    BY <2>1, <2>3, <2>4, <2>5
  <2>7. ASSUME NEW k \in 1 .. Len(waiters'), NEW l \in 1 .. Len(waiters'),
               waiters'[k] = waiters'[l]
        PROVE  k = l
    <3>1. /\ waiters[k + 1] = waiters[l + 1]
          /\ k + 1 \in 1 .. Len(waiters) /\ l + 1 \in 1 .. Len(waiters)
      BY <2>4, <2>7
    <3>2. k + 1 = l + 1
      BY <3>1
    <3> QED
      BY <3>2
  <2>8. ASSUME NEW x \in Requests, phase'[x] = "waiting"
        PROVE  \E k \in 1 .. Len(waiters') : waiters'[k] = x
    <3>1. x # h /\ phase[x] = "waiting"
      BY <2>3, <2>8
    <3>2. PICK k \in 1 .. Len(waiters) : waiters[k] = x
      BY <3>1
    <3>3. k - 1 \in 1 .. Len(waiters') /\ waiters'[k - 1] = x
      BY <2>1, <2>4, <3>1, <3>2
    <3> QED
      BY <3>3
  <2> QED
    BY <2>6, <2>7, <2>8
<1> QED
  BY <1>1, <1>2

\* A request that neither enters nor leaves the list leaves it as it is.
LEMMA ListKept ==
    ASSUME QueueInv, NEW r \in Requests, NEW p \in Phases \ {"waiting"}, phase[r] # "waiting",
           phase' = [phase EXCEPT ![r] = p], waiters' = waiters
    PROVE  ListInv'
BY DEF QueueInv, QueueTypeOK, ListInv

\* Every step keeps the list exact.
LEMMA ListStep == QueueInv /\ [QueueNext]_queueVars => ListInv'
<1> SUFFICES ASSUME QueueInv, [QueueNext]_queueVars PROVE ListInv'
  OBVIOUS
<1>1. CASE UNCHANGED queueVars
  BY <1>1 DEF queueVars, QueueInv, ListInv
<1>2. ASSUME NEW r \in Requests, PollTaken(r) PROVE ListInv'
  BY <1>2, ListKept DEF PollTaken, Phases
<1>3. ASSUME NEW r \in Requests, PollWaits(r) PROVE ListInv'
  <2> USE DEF QueueInv, QueueTypeOK, ListInv
  <2>1. /\ phase'[r] = "waiting" /\ phase[r] = "queued"
        /\ \A x \in Requests : x # r => phase'[x] = phase[x]
    BY <1>3 DEF PollWaits
  <2>2. /\ Len(waiters') = Len(waiters) + 1
        /\ waiters'[Len(waiters) + 1] = r
        /\ \A k \in 1 .. Len(waiters) : waiters'[k] = waiters[k]
    BY <1>3 DEF PollWaits
  <2>3. \A k \in 1 .. Len(waiters) : waiters[k] \in Requests /\ waiters[k] # r
    BY <2>1
  <2>4. \A k \in 1 .. Len(waiters') : phase'[waiters'[k]] = "waiting"
    BY <2>1, <2>2, <2>3, SMTT(30)
  <2>5. \A k, l \in 1 .. Len(waiters') : waiters'[k] = waiters'[l] => k = l
    BY <2>2, <2>3
  <2>6. \A x \in Requests : phase'[x] = "waiting" =>
            \E k \in 1 .. Len(waiters') : waiters'[k] = x
    BY <2>1, <2>2
  <2> QED
    BY <2>4, <2>5, <2>6
<1>4. ASSUME NEW r \in Requests, Wake(r) \/ Activate(r) \/ Uncount(r) \/ Reserve(r)
      PROVE  ListInv'
  <2>1. PICK p \in Phases \ {"waiting"} :
          /\ phase' = [phase EXCEPT ![r] = p] /\ phase[r] # "waiting"
          /\ UNCHANGED <<free, waiters>>
    BY <1>4 DEF Wake, Activate, Uncount, Reserve, Phases
  <2> QED
    BY <2>1, ListKept
<1>5. ASSUME NEW r \in Requests, Abandon(r) PROVE ListInv'
  <2>1. CASE phase[r] = "queued" /\ phase' = [phase EXCEPT ![r] = "cancelled"]
             /\ UNCHANGED <<free, waiters>>
    BY <2>1, ListKept DEF Phases
  <2>2. CASE phase[r] = "assigned" /\ GivePermit(r, "cancelled")
    BY <2>2, GivePermitList DEF Phases
  <2>3. ASSUME NEW j \in 1 .. Len(waiters), waiters[j] = r, waiters' = Without(waiters, j),
               phase' = [phase EXCEPT ![r] = "cancelled"], UNCHANGED free
        PROVE  ListInv'
    <3> USE DEF QueueInv, QueueTypeOK, ListInv
    <3>1. /\ phase'[r] = "cancelled"
          /\ \A x \in Requests : x # r => phase'[x] = phase[x]
      BY <2>3
    <3>2. /\ Len(waiters') = Len(waiters) - 1
          /\ \A k \in 1 .. Len(waiters) - 1 :
                 /\ k < j => waiters'[k] = waiters[k]
                 /\ k >= j => waiters'[k] = waiters[k + 1]
      <4>1. waiters \in Seq(Requests)
        OBVIOUS
      <4>2. /\ Len(Without(waiters, j)) = Len(waiters) - 1
            /\ \A k \in 1 .. Len(waiters) - 1 :
                 /\ k < j => Without(waiters, j)[k] = waiters[k]
                 /\ k >= j => Without(waiters, j)[k] = waiters[k + 1]
        BY <4>1 DEF Without
      <4> QED
        BY <2>3, <4>2
    <3> DEFINE m(k) == IF k < j THEN k ELSE k + 1
    <3>3. \A k \in 1 .. Len(waiters') :
              waiters'[k] = waiters[m(k)] /\ m(k) \in 1 .. Len(waiters) /\ m(k) # j
      BY <3>2
    <3>4. \A k \in 1 .. Len(waiters) : waiters[k] \in Requests /\ (k # j => waiters[k] # r)
      BY <2>3
    <3>5. \A k \in 1 .. Len(waiters') : phase'[waiters'[k]] = "waiting"
      BY <3>1, <3>3, <3>4, SMTT(30)
    <3>6. \A k, l \in 1 .. Len(waiters') : waiters'[k] = waiters'[l] => k = l
      <4>1. \A k, l \in 1 .. Len(waiters') : m(k) = m(l) => k = l
        OBVIOUS
      <4> QED
        BY <3>3, <4>1
    <3>7. ASSUME NEW x \in Requests, phase'[x] = "waiting"
          PROVE  \E k \in 1 .. Len(waiters') : waiters'[k] = x
      <4>1. x # r /\ phase[x] = "waiting"
        BY <3>1, <3>7
      <4>2. PICK k \in 1 .. Len(waiters) : waiters[k] = x
        BY <4>1
      <4>3. CASE k < j
        <5>1. k \in 1 .. Len(waiters') /\ waiters'[k] = x
          BY <3>2, <4>2, <4>3
        <5> QED
          BY <5>1
      <4>4. CASE k > j
        <5>1. k - 1 \in 1 .. Len(waiters') /\ waiters'[k - 1] = x
          BY <3>2, <4>2, <4>4
        <5> QED
          BY <5>1
      <4> QED
        BY <2>3, <4>1, <4>2, <4>3, <4>4
    <3> QED
      BY <3>5, <3>6, <3>7
  <2> QED
    BY <1>5, <2>1, <2>2, <2>3 DEF Abandon
<1>6. ASSUME NEW r \in Requests, Release(r) PROVE ListInv'
  <2>1. CASE phase[r] = "active" /\ GivePermit(r, "uncounting")
    BY <2>1, GivePermitList DEF Phases
  <2>2. CASE phase[r] = "cancelled" /\ phase' = [phase EXCEPT ![r] = "leaving"]
             /\ UNCHANGED <<free, waiters>>
    BY <2>2, ListKept DEF Phases
  <2> QED
    BY <1>6, <2>1, <2>2 DEF Release
<1> QED
  BY <1>1, <1>2, <1>3, <1>4, <1>5, <1>6 DEF QueueNext, QueueSteps

-----------------------------------------------------------------------------
\* What the counts say about the reservations, and the permits about holders.
Counted == PermitsConserved /\ CountsExact /\ LimitsHold

\* The cardinalities are natural numbers, and an active request is reserved.
LEMMA CardFacts ==
    ASSUME QueueTypeOK
    PROVE  /\ Cardinality(Holding) \in Nat
           /\ Cardinality(CountedActive) \in Nat
           /\ Cardinality(Reserved) \in Nat
           /\ \A u : Cardinality(ReservedBy(u)) \in Nat
           /\ CountedActive \subseteq Reserved
           /\ Cardinality(CountedActive) <= Cardinality(Reserved)
<1>1. CountedActive \subseteq Reserved
  BY DEF CountedActive, Reserved
<1> QED
  BY <1>1, CountedFinite, FS_CardinalityType, FS_Subset

\* A permit that changes hands, or is freed, is conserved; the counts, which
\* are not touched, still agree with the reservations.
LEMMA GivePermitCounts ==
    ASSUME QueueInv, QueueTypeOK', NEW r \in Requests, NEW p \in Phases \ HoldingPhases,
           phase[r] \in HoldingPhases, p # "none", p # "waiting",
           phase[r] \in ActivePhases <=> p \in ActivePhases,
           GivePermit(r, p), UNCHANGED <<queued, active, byUid>>
    PROVE  Counted'
<1> USE DEF QueueInv
<1>1. CASE waiters = <<>>
  <2>1. /\ phase' = [phase EXCEPT ![r] = p] /\ free' = free + 1
    BY <1>1 DEF GivePermit
  <2>2. /\ Cardinality(Holding') = Cardinality(Holding) - 1
        /\ CountedActive' = CountedActive /\ Reserved' = Reserved
        /\ \A u : ReservedBy(u)' = ReservedBy(u)
    BY <2>1, MovedCounts DEF HoldingPhases
  <2>3. PermitsConserved'
    <3>1. free \in Nat /\ Cardinality(Holding) \in Nat
      BY CardFacts DEF QueueTypeOK
    <3>2. free + Cardinality(Holding) = MaxActive
      BY DEF Counted, PermitsConserved
    <3> QED
      BY <2>1, <2>2, <3>1, <3>2, QueueAssumption DEF PermitsConserved
  <2>4. CountsExact' /\ LimitsHold'
    BY <2>2 DEF Counted, CountsExact, LimitsHold
  <2> QED
    BY <2>3, <2>4 DEF Counted
<1>2. CASE waiters # <<>>
  <2> DEFINE h == Head(waiters)
  <2>1. h \in Requests /\ phase[h] = "waiting" /\ h # r
    BY <1>2 DEF QueueTypeOK, ListInv, HoldingPhases
  <2>2. phase' = [phase EXCEPT ![r] = p, ![h] = "assigned"] /\ free' = free
    BY <1>2 DEF GivePermit
  <2>3. /\ phase'[h] = "assigned" /\ phase'[r] = p
        /\ \A x \in Requests : x # h /\ x # r => phase'[x] = phase[x]
    BY <2>1, <2>2 DEF QueueTypeOK
  <2> HIDE DEF h
  <2>4. Holding' = (Holding \ {r}) \cup {h} /\ r \in Holding /\ h \notin Holding \ {r}
    BY <2>1, <2>3 DEF Holding, HoldingPhases
  <2>5. Cardinality(Holding') = Cardinality(Holding)
    <3>1. IsFiniteSet(Holding) /\ IsFiniteSet(Holding \ {r})
      BY CountedFinite, Counting
    <3>2. Cardinality(Holding \ {r}) = Cardinality(Holding) - 1 /\ Cardinality(Holding) \in Nat
      BY <2>4, <3>1, Counting
    <3>3. Cardinality(Holding') = Cardinality(Holding \ {r}) + 1
      BY <2>4, <3>1, Counting
    <3> QED
      BY <3>2, <3>3
  <2>6. CountedActive' = CountedActive /\ Reserved' = Reserved
    BY <2>1, <2>3 DEF CountedActive, Reserved, ActivePhases, HoldingPhases
  <2>7. \A u : ReservedBy(u)' = ReservedBy(u)
    BY <2>6 DEF ReservedBy
  <2> QED
    BY <2>2, <2>5, <2>6, <2>7
    DEF Counted, PermitsConserved, CountsExact, LimitsHold
<1> QED
  BY <1>1, <1>2

\* reserve(): the request joins the reservations that exist, which the counts
\* showed to be below both limits.
LEMMA ReserveCounts ==
    ASSUME QueueInv, QueueTypeOK', NEW r \in Requests, Reserve(r)
    PROVE  Counted'
<1> USE DEF QueueInv
<1>1. /\ phase[r] = "none" /\ phase' = [phase EXCEPT ![r] = "queued"]
      /\ queued' = queued + 1 /\ active' = active /\ free' = free
      /\ byUid' = [byUid EXCEPT ![UidOf[r]] = byUid[UidOf[r]] + 1]
      /\ ~(queued + active >= GlobalLimit) /\ ~(byUid[UidOf[r]] >= PerUidLimit)
  BY DEF Reserve, GlobalFull, UserFull
<1>2. Holding' = Holding /\ CountedActive' = CountedActive
  BY <1>1, MovedCounts DEF HoldingPhases, ActivePhases, Phases
<1>3. Reserved' = Reserved \cup {r} /\ r \notin Reserved
  BY <1>1 DEF Reserved, QueueTypeOK
<1>4. Cardinality(Reserved') = Cardinality(Reserved) + 1
  BY <1>3, CountedFinite, Counting
<1>5. ASSUME NEW u \in Uids
      PROVE  /\ byUid'[u] = Cardinality(ReservedBy(u)')
             /\ Cardinality(ReservedBy(u)') <= PerUidLimit
  <2>1. CASE u = UidOf[r]
    <3>1. ReservedBy(u)' = ReservedBy(u) \cup {r} /\ r \notin ReservedBy(u)
      BY <1>3, <2>1 DEF ReservedBy
    <3>2. Cardinality(ReservedBy(u)') = Cardinality(ReservedBy(u)) + 1
      BY <3>1, CountedFinite, Counting
    <3>3. byUid'[u] = byUid[u] + 1 /\ byUid[u] \in Nat /\ PerUidLimit \in Nat
      BY <1>1, <2>1, QueueAssumption DEF QueueTypeOK
    <3>4. byUid[u] = Cardinality(ReservedBy(u)) /\ ~(byUid[u] >= PerUidLimit)
      BY <1>1, <2>1 DEF CountsExact
    <3> QED
      BY <3>2, <3>3, <3>4
  <2>2. CASE u # UidOf[r]
    <3>1. ReservedBy(u)' = ReservedBy(u)
      BY <1>3, <2>2 DEF ReservedBy
    <3>2. byUid'[u] = byUid[u]
      BY <1>1, <2>2 DEF QueueTypeOK
    <3> QED
      BY <3>1, <3>2 DEF CountsExact, LimitsHold
  <2> QED
    BY <2>1, <2>2
<1>6. Cardinality(Reserved') <= GlobalLimit
  BY <1>1, <1>4, CardFacts, QueueAssumption DEF CountsExact, QueueTypeOK
<1>7. queued' + active' = Cardinality(Reserved')
  BY <1>1, <1>4, CardFacts DEF CountsExact, QueueTypeOK
<1> QED
  BY <1>1, <1>2, <1>5, <1>6, <1>7 DEF Counted, PermitsConserved, CountsExact, LimitsHold

\* drop(): the counts lose exactly the reservation that is gone, and there was
\* one to lose.
LEMMA UncountCounts ==
    ASSUME QueueInv, QueueTypeOK', NEW r \in Requests, Uncount(r)
    PROVE  Counted'
<1> USE DEF QueueInv
<1>1. /\ phase[r] \in {"uncounting", "leaving"} /\ phase' = [phase EXCEPT ![r] = "none"]
      /\ byUid' = [byUid EXCEPT ![UidOf[r]] = Dec(byUid[UidOf[r]])] /\ free' = free
  BY DEF Uncount
<1>2. Holding' = Holding
  BY <1>1, MovedCounts DEF HoldingPhases, Phases
<1>3. Reserved' = Reserved \ {r} /\ r \in Reserved
  BY <1>1 DEF Reserved, QueueTypeOK
<1>4. Cardinality(Reserved') = Cardinality(Reserved) - 1
  BY <1>3, CountedFinite, Counting
<1>5. ASSUME NEW u \in Uids
      PROVE  /\ byUid'[u] = Cardinality(ReservedBy(u)')
             /\ Cardinality(ReservedBy(u)') <= PerUidLimit
  <2>1. CASE u = UidOf[r]
    <3>1. ReservedBy(u)' = ReservedBy(u) \ {r} /\ r \in ReservedBy(u)
      BY <1>3, <2>1 DEF ReservedBy
    <3>2. Cardinality(ReservedBy(u)') = Cardinality(ReservedBy(u)) - 1
      BY <3>1, CountedFinite, Counting
    <3>3. /\ Cardinality(ReservedBy(u)) \in Nat /\ Cardinality(ReservedBy(u)') \in Nat
      BY CardFacts, CountedFinite, Counting, <3>1
    <3>4. byUid[u] = Cardinality(ReservedBy(u)) /\ Cardinality(ReservedBy(u)) <= PerUidLimit
      BY DEF CountsExact, LimitsHold
    <3>5. byUid'[u] = Dec(byUid[u])
      BY <1>1, <2>1 DEF QueueTypeOK
    <3>6. Dec(byUid[u]) = byUid[u] - 1
      BY <3>2, <3>3, <3>4 DEF Dec
    <3> QED
      BY <3>2, <3>3, <3>4, <3>5, <3>6, QueueAssumption
  <2>2. CASE u # UidOf[r]
    <3>1. ReservedBy(u)' = ReservedBy(u)
      BY <1>3, <2>2 DEF ReservedBy
    <3>2. byUid'[u] = byUid[u]
      BY <1>1, <2>2 DEF QueueTypeOK
    <3> QED
      BY <3>1, <3>2 DEF CountsExact, LimitsHold
  <2> QED
    BY <2>1, <2>2
<1>6. active' = Cardinality(CountedActive') /\ queued' + active' = Cardinality(Reserved')
  <2>1. CASE phase[r] = "uncounting"
    <3>1. Cardinality(CountedActive') = Cardinality(CountedActive) - 1
      BY <1>1, <2>1, MovedCounts DEF ActivePhases, Phases
    <3>2. CountedActive' = CountedActive \ {r} /\ r \in CountedActive
      BY <1>1, <2>1 DEF CountedActive, QueueTypeOK
    <3>3. Cardinality(CountedActive') \in Nat
      BY <3>2, CountedFinite, Counting
    <3>4. active' = Dec(active) /\ queued' = queued
      BY <2>1 DEF Uncount
    <3>5. Dec(active) = active - 1
      BY <3>1, <3>3, CardFacts DEF Dec, CountsExact
    <3> QED
      BY <1>4, <3>1, <3>4, <3>5, CardFacts DEF CountsExact, QueueTypeOK
  <2>2. CASE phase[r] = "leaving"
    <3>1. CountedActive' = CountedActive
      BY <1>1, <2>2, MovedCounts DEF ActivePhases, Phases
    <3>2. queued' = Dec(queued) /\ active' = active
      BY <2>2 DEF Uncount
    <3>3. CountedActive \subseteq Reserved \ {r}
      BY <2>2 DEF CountedActive, Reserved
    <3>4. Cardinality(CountedActive) <= Cardinality(Reserved) - 1
      BY <1>3, <1>4, <3>3, CountedFinite, Counting, FS_Subset
    <3>5. Dec(queued) = queued - 1
      BY <3>4, CardFacts DEF Dec, CountsExact, QueueTypeOK
    <3> QED
      BY <1>4, <3>1, <3>2, <3>5, CardFacts DEF CountsExact, QueueTypeOK
  <2> QED
    BY <1>1, <2>1, <2>2
<1>7. Cardinality(Reserved') <= GlobalLimit
  BY <1>4, CardFacts, QueueAssumption DEF LimitsHold
<1> QED
  BY <1>1, <1>2, <1>5, <1>6, <1>7 DEF Counted, PermitsConserved, CountsExact, LimitsHold

\* Every step keeps permits and counts exact.
LEMMA CountStep == QueueInv /\ QueueTypeOK' /\ [QueueNext]_queueVars => Counted'
<1> SUFFICES ASSUME QueueInv, QueueTypeOK', [QueueNext]_queueVars PROVE Counted'
  OBVIOUS
<1> USE DEF QueueInv
<1>1. CASE UNCHANGED queueVars
  <2>1. UNCHANGED <<Holding, CountedActive, Reserved>> /\ \A u : ReservedBy(u)' = ReservedBy(u)
    BY <1>1 DEF queueVars, Holding, CountedActive, Reserved, ReservedBy
  <2> QED
    BY <1>1, <2>1 DEF queueVars, Counted, PermitsConserved, CountsExact, LimitsHold
<1>2. ASSUME NEW r \in Requests, PollTaken(r) PROVE Counted'
  <2>1. /\ phase[r] = "queued" /\ phase' = [phase EXCEPT ![r] = "granted"]
        /\ free' = free - 1 /\ UNCHANGED <<queued, active, byUid>>
    BY <1>2 DEF PollTaken
  <2>2. /\ Cardinality(Holding') = Cardinality(Holding) + 1
        /\ CountedActive' = CountedActive /\ Reserved' = Reserved
        /\ \A u : ReservedBy(u)' = ReservedBy(u)
    BY <2>1, MovedCounts DEF HoldingPhases, ActivePhases, Phases
  <2>3. free' + Cardinality(Holding') = MaxActive
    BY <2>1, <2>2, CardFacts DEF PermitsConserved, QueueTypeOK
  <2> QED
    BY <2>1, <2>2, <2>3 DEF Counted, PermitsConserved, CountsExact, LimitsHold
<1>3. ASSUME NEW r \in Requests, PollWaits(r) \/ Wake(r) PROVE Counted'
  <2>1. PICK p \in Phases :
          /\ phase' = [phase EXCEPT ![r] = p] /\ UNCHANGED <<free, queued, active, byUid>>
          /\ phase[r] \in HoldingPhases <=> p \in HoldingPhases
          /\ phase[r] \in ActivePhases <=> p \in ActivePhases
          /\ phase[r] # "none" <=> p # "none"
    BY <1>3 DEF PollWaits, Wake, HoldingPhases, ActivePhases, Phases
  <2>2. /\ Holding' = Holding /\ CountedActive' = CountedActive /\ Reserved' = Reserved
        /\ \A u : ReservedBy(u)' = ReservedBy(u)
    BY <2>1, MovedCounts
  <2> QED
    BY <2>1, <2>2 DEF Counted, PermitsConserved, CountsExact, LimitsHold
<1>4. ASSUME NEW r \in Requests, Activate(r) PROVE Counted'
  <2>1. /\ phase[r] = "granted" /\ phase' = [phase EXCEPT ![r] = "active"]
        /\ queued' = Dec(queued) /\ active' = active + 1 /\ UNCHANGED <<free, byUid>>
    BY <1>4 DEF Activate
  <2>2. /\ Cardinality(CountedActive') = Cardinality(CountedActive) + 1
        /\ Holding' = Holding /\ Reserved' = Reserved
        /\ \A u : ReservedBy(u)' = ReservedBy(u)
    BY <2>1, MovedCounts DEF HoldingPhases, ActivePhases, Phases
  <2>3. Cardinality(CountedActive) < Cardinality(Reserved)
    <3>1. r \in Reserved /\ CountedActive \subseteq Reserved \ {r}
      BY <2>1 DEF CountedActive, Reserved
    <3>2. Cardinality(Reserved \ {r}) = Cardinality(Reserved) - 1
      BY <3>1, CountedFinite, Counting
    <3>3. Cardinality(CountedActive) <= Cardinality(Reserved \ {r})
      BY <3>1, CountedFinite, Counting, FS_Subset
    <3> QED
      BY <3>2, <3>3, CardFacts
  <2>4. Dec(queued) = queued - 1
    BY <2>3, CardFacts DEF Dec, CountsExact, QueueTypeOK
  <2>5. active' = Cardinality(CountedActive') /\ queued' + active' = Cardinality(Reserved')
    BY <2>1, <2>2, <2>4, CardFacts DEF CountsExact, QueueTypeOK
  <2> QED
    BY <2>1, <2>2, <2>5 DEF Counted, PermitsConserved, CountsExact, LimitsHold
<1>5. ASSUME NEW r \in Requests, NEW p \in {"cancelled", "leaving"},
             phase[r] \in {"queued", "waiting", "cancelled"},
             phase' = [phase EXCEPT ![r] = p], UNCHANGED <<free, queued, active, byUid>>
      PROVE  Counted'
  <2>1. /\ Holding' = Holding /\ CountedActive' = CountedActive /\ Reserved' = Reserved
        /\ \A u : ReservedBy(u)' = ReservedBy(u)
    BY <1>5, MovedCounts DEF HoldingPhases, ActivePhases, Phases
  <2> QED
    BY <1>5, <2>1 DEF Counted, PermitsConserved, CountsExact, LimitsHold
<1>6. ASSUME NEW r \in Requests, Abandon(r) PROVE Counted'
  <2>1. CASE phase[r] = "assigned" /\ GivePermit(r, "cancelled")
    BY <1>6, <2>1, GivePermitCounts DEF Abandon, HoldingPhases, ActivePhases, Phases
  <2>2. CASE phase[r] = "queued" /\ phase' = [phase EXCEPT ![r] = "cancelled"]
             /\ UNCHANGED free
    BY <1>5, <1>6, <2>2 DEF Abandon
  <2>3. ASSUME NEW k \in 1 .. Len(waiters), waiters[k] = r,
               phase' = [phase EXCEPT ![r] = "cancelled"], UNCHANGED free
        PROVE  Counted'
    BY <1>5, <1>6, <2>3 DEF Abandon, ListInv
  <2> QED
    BY <1>6, <2>1, <2>2, <2>3 DEF Abandon
<1>7. ASSUME NEW r \in Requests, Release(r) PROVE Counted'
  <2>1. CASE phase[r] = "active" /\ GivePermit(r, "uncounting")
    BY <1>7, <2>1, GivePermitCounts DEF Release, HoldingPhases, ActivePhases, Phases
  <2>2. CASE phase[r] = "cancelled" /\ phase' = [phase EXCEPT ![r] = "leaving"]
             /\ UNCHANGED free
    BY <1>5, <1>7, <2>2 DEF Release
  <2> QED
    BY <1>7, <2>1, <2>2 DEF Release
<1> QED
  BY <1>1, <1>2, <1>3, <1>4, <1>6, <1>7, ReserveCounts, UncountCounts DEF QueueNext, QueueSteps

\* A queue that has just been made satisfies the invariant.
LEMMA QueueInitInductive == QueueInit => QueueInv
<1> SUFFICES ASSUME QueueInit PROVE QueueInv
  OBVIOUS
<1>1. Holding = {} /\ CountedActive = {} /\ Reserved = {} /\ \A u : ReservedBy(u) = {}
  BY DEF QueueInit, Holding, CountedActive, Reserved, ReservedBy
<1>2. Cardinality({}) = 0
  BY FS_EmptySet
<1>3. QueueTypeOK /\ ListInv
  <2>1. waiters = <<>> /\ Len(waiters) = 0 /\ waiters \in Seq(Requests)
    BY DEF QueueInit
  <2>2. QueueTypeOK
    BY <2>1, QueueAssumption DEF QueueInit, QueueTypeOK, Phases
  <2>3. ListInv
    BY <2>1 DEF QueueInit, ListInv
  <2> QED
    BY <2>2, <2>3
<1>4. /\ Cardinality(Holding) = 0 /\ Cardinality(CountedActive) = 0
      /\ Cardinality(Reserved) = 0 /\ \A u : Cardinality(ReservedBy(u)) = 0
  BY <1>1, <1>2
<1>5. PermitsConserved /\ CountsExact /\ LimitsHold
  BY <1>4, QueueAssumption DEF QueueInit, PermitsConserved, CountsExact, LimitsHold
<1> QED
  BY <1>3, <1>5 DEF QueueInv

-----------------------------------------------------------------------------
\* The invariant of the admission queue holds whatever reserve(), acquire() and
\* drop() interleave.
THEOREM QueueInductive == QueueSpec => []QueueInv
<1>1. QueueInv /\ [QueueNext]_queueVars => QueueInv'
  BY QueueTypeStep, ListStep, CountStep DEF Counted, QueueInv
<1> QED
  BY QueueInitInductive, <1>1, PTL DEF QueueSpec

\* Every variable of the queue has its type.
THEOREM QueueTypeCorrect == QueueSpec => []QueueTypeOK
<1>1. QueueInv => QueueTypeOK
  BY DEF QueueInv
<1> QED
  BY <1>1, QueueInductive, PTL

\* acquire() and drop() neither lose nor invent a permit: at most max_active
\* requests run at a time, and a request that leaves makes room for another.
THEOREM PermitsAreConserved == QueueSpec => []PermitsConserved
<1>1. QueueInv => PermitsConserved
  BY DEF QueueInv
<1> QED
  BY <1>1, QueueInductive, PTL

\* Counts agrees with the reservations that exist, although the permits and the
\* counts are updated one after the other: saturating_sub never hides an error.
THEOREM CountsAreExact == QueueSpec => []CountsExact
<1>1. QueueInv => CountsExact
  BY DEF QueueInv
<1> QED
  BY <1>1, QueueInductive, PTL

\* reserve() never admits more than max_global_queue reservations, nor more than
\* max_queue_per_uid for one user.
THEOREM LimitsAreKept == QueueSpec => []LimitsHold
<1>1. QueueInv => LimitsHold
  BY DEF QueueInv
<1> QED
  BY <1>1, QueueInductive, PTL
=============================================================================
