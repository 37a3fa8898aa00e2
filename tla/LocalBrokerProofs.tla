-------------------------- MODULE LocalBrokerProofs --------------------------
(***************************************************************************)
(* Proofs about the local inference broker, for any connections, requests, *)
(* ids, limits and channel capacity: every step of it is a step of the     *)
(* admission queue or leaves the queue alone, so that the queue's          *)
(* invariants are the broker's; two answers on a connection never share an *)
(* id; and a closed connection leaves nothing behind.                      *)
(***************************************************************************)
EXTENDS LocalBroker, InferenceQueueProofs

-----------------------------------------------------------------------------
(* The queue *)

LEMMA BrokerStepsQueue == [Next]_vars => [QueueNext]_queueVars
<1> SUFFICES ASSUME [Next]_vars, ~UNCHANGED queueVars PROVE QueueNext
  BY DEF vars
<1>1. ASSUME NEW k \in Conns,
             Accept(k) \/ (\E c \in {"eof", "gone"} : Leave(k, c)) \/ LoopNext(k) \/ WriterNext(k)
      PROVE  FALSE
  BY <1>1 DEF Accept, Leave, LoopNext, WriterNext, Reply, Announce, Break, Join, Close, Receive,
     Write, WriterEnds
<1>2. ASSUME NEW k \in Conns, InputNext(k) PROVE QueueNext
  <2>1. PICK i \in Ids : ReadChat(k, i)
    BY <1>2 DEF InputNext, ReadOther, ReadBadFrame, ReadCancel, ReadChatRefused
  <2>2. Place(k) \in Requests /\ Reserve(Place(k))
    BY <2>1 DEF ReadChat, Place, Free, Of
  <2> QED
    BY <2>2 DEF QueueNext
<1>3. ASSUME NEW r \in Requests, TaskNext(r) \/ BackendNext(r) \/ Timeout(r) PROVE QueueNext
  BY <1>3 DEF QueueNext, QueueSteps, TaskNext, BackendNext, Timeout, AcquireSteps, Acquired,
     AcquireCancelled, Reports, Interrupt, Answer, DropPermit, DropCount, Remove, Probe, Generate
<1>4. CASE Shutdown \/ Ended
  BY <1>4 DEF Shutdown, Ended, vars
<1> QED
  BY <1>1, <1>2, <1>3, <1>4 DEF Next, vars

\* Whatever connections, cancellations and the backend do, the broker works its queue as
\* queue.rs intends: permits are conserved, the counts are exact and the limits hold
\* (server.rs: handle_connection, run_chat).
THEOREM BrokerKeepsQueue == Spec => [][QueueNext]_queueVars /\ []QueueInv
<1>1. Init => QueueInv
  BY QueueInitInductive DEF Init
<1>2. QueueInv /\ [QueueNext]_queueVars => QueueInv'
  BY QueueTypeStep, ListStep, CountStep DEF QueueInv, Counted
<1> QED
  BY <1>1, <1>2, BrokerStepsQueue, PTL DEF Spec

-----------------------------------------------------------------------------
(* Runs and connections *)

\* Where the reservation of a run is while run_chat is at t.
PhaseOK(t, p) ==
    /\ t \in {"none", "remove"} => p = "none"
    /\ t = "spawned" => p = "queued"
    /\ t = "acquire" => p \in {"queued", "waiting", "assigned", "granted"}
    /\ t \in {"starting", "wait", "probed", "ready", "chat", "delta", "error_body"} => p = "active"
    /\ t \in {"final", "drop"} => p \in {"active", "cancelled"}
    /\ t = "uncount" => p \in {"uncounting", "leaving"}

RunTypeOK ==
    /\ main \in [Conns -> MainSteps]
    /\ pend \in [Conns -> Requests \cup {None}]
    /\ running \in [Conns -> SUBSET Requests]
    /\ task \in [Requests -> TaskSteps]
    /\ id \in [Requests -> Ids \cup {None}]

\* The run whose Queued event a read loop sends is the connection's only one that is
\* not in the map; the map holds every other run, and none is left after the join.
Shape ==
    /\ \A r \in Requests : PhaseOK(task[r], phase[r])
    /\ \A k \in Conns : main[k] = "announce" =>
          pend[k] \in Requests /\ ConnOf[pend[k]] = k /\ task[pend[k]] = "spawned"
    /\ \A r \in Requests : task[r] = "spawned" =>
          main[ConnOf[r]] = "announce" /\ pend[ConnOf[r]] = r
    /\ \A k \in Conns, r \in Requests :
          r \in running[k] <=> ConnOf[r] = k /\ task[r] \notin {"none", "spawned"}
    /\ \A r \in Requests : main[ConnOf[r]] \in {"flush", "closed"} => task[r] = "none"

RunInv == RunTypeOK /\ Shape /\ UniqueIds

\* The read loop goes on without a run.
LoopStep ==
    /\ UNCHANGED <<pend, running, task, id, phase>>
    /\ \E k \in Conns, a \in MainSteps \ {"announce"} :
          /\ main' = [main EXCEPT ![k] = a] /\ main[k] # "announce"
          /\ a \in {"flush", "closed"} => Joined(k) \/ main[k] = "flush"

\* A run goes on from one await to the next; the permit it gives back may go to the
\* request at the head of the semaphore's list.
RunStep ==
    /\ UNCHANGED <<main, pend, running, id>>
    /\ \E r \in Requests, b \in TaskSteps \ {"none", "spawned"} :
          /\ task[r] \notin {"none", "spawned"} /\ task' = [task EXCEPT ![r] = b]
          /\ PhaseOK(b, phase'[r])
          /\ \A s \in Requests \ {r} : \/ phase'[s] = phase[s]
                                       \/ phase[s] = "waiting" /\ phase'[s] = "assigned"

LEMMA LoopStepInv == RunInv /\ LoopStep => RunInv'
<1> SUFFICES ASSUME RunInv, LoopStep PROVE RunInv'
  OBVIOUS
<1> PICK k \in Conns, a \in MainSteps \ {"announce"} :
          /\ main' = [main EXCEPT ![k] = a] /\ main[k] # "announce"
          /\ a \in {"flush", "closed"} => Joined(k) \/ main[k] = "flush"
  BY DEF LoopStep
<1>1. RunTypeOK' /\ UniqueIds'
  BY DEF LoopStep, RunInv, RunTypeOK, UniqueIds
<1>2. a \in {"flush", "closed"} => \A r \in Requests : ConnOf[r] = k => task[r] = "none"
  BY DEF RunInv, Shape, Joined, Of
<1>3. Shape'
  BY <1>2, LocalBrokerAssumption DEF LoopStep, RunInv, RunTypeOK, Shape
<1> QED
  BY <1>1, <1>3 DEF RunInv

LEMMA RunStepInv == RunInv /\ QueueTypeOK /\ RunStep => RunInv'
<1> SUFFICES ASSUME RunInv, QueueTypeOK, RunStep PROVE RunInv'
  OBVIOUS
<1> PICK r \in Requests, b \in TaskSteps \ {"none", "spawned"} :
          /\ task[r] \notin {"none", "spawned"} /\ task' = [task EXCEPT ![r] = b]
          /\ PhaseOK(b, phase'[r])
          /\ \A s \in Requests \ {r} : \/ phase'[s] = phase[s]
                                       \/ phase[s] = "waiting" /\ phase'[s] = "assigned"
  BY DEF RunStep
<1>1. RunTypeOK'
  BY DEF RunStep, RunInv, RunTypeOK
<1>2. UniqueIds'
  BY DEF RunStep, RunInv, RunTypeOK, UniqueIds
<1>3. ASSUME NEW s \in Requests PROVE PhaseOK(task'[s], phase'[s])
  <2>1. CASE s = r
    BY <2>1 DEF RunInv, RunTypeOK
  <2>2. CASE s # r
    <3>1. task'[s] = task[s] /\ PhaseOK(task[s], phase[s]) /\ task[s] \in TaskSteps
      BY <2>2 DEF RunInv, RunTypeOK, Shape
    <3>2. phase[s] = "waiting" => task[s] = "acquire"
      BY <3>1 DEF PhaseOK, TaskSteps
    <3> QED
      BY <2>2, <3>1, <3>2 DEF PhaseOK
  <2> QED
    BY <2>1, <2>2
<1>4. Shape'
  BY <1>3, LocalBrokerAssumption DEF RunStep, RunInv, RunTypeOK, Shape
<1> QED
  BY <1>1, <1>2, <1>4 DEF RunInv

LEMMA ReadChatInv ==
    ASSUME RunInv, QueueTypeOK, NEW k \in Conns, NEW i \in Ids, ReadChat(k, i)
    PROVE  RunInv'
<1> DEFINE r == Place(k)
<1>1. r \in Requests /\ ConnOf[r] = k /\ task[r] = "none"
  BY DEF ReadChat, Place, Free, Of
<1>2. /\ main[k] = "read" /\ ~Duplicate(k, i)
      /\ main' = [main EXCEPT ![k] = "announce"] /\ pend' = [pend EXCEPT ![k] = r]
      /\ task' = [task EXCEPT ![r] = "spawned"] /\ id' = [id EXCEPT ![r] = i]
      /\ phase' = [phase EXCEPT ![r] = "queued"] /\ running' = running
  BY DEF ReadChat, Reads, Reserve
<1> HIDE DEF r
<1>3. RunTypeOK'
  BY <1>1, <1>2 DEF RunInv, RunTypeOK, MainSteps, TaskSteps
<1>4. ASSUME NEW s \in Requests, ConnOf[s] = k, s # r, task[s] # "none" PROVE id[s] # i
  <2>1. task[s] # "spawned"
    BY <1>2, <1>4 DEF RunInv, Shape
  <2>2. s \in running[k]
    BY <1>4, <2>1 DEF RunInv, Shape
  <2> QED
    BY <1>2, <2>2 DEF Duplicate
<1>5. UniqueIds'
  BY <1>1, <1>2, <1>4 DEF UniqueIds, RunInv, RunTypeOK
<1>6. Shape'
  <2>1. ASSUME NEW s \in Requests PROVE PhaseOK(task'[s], phase'[s])
    BY <1>1, <1>2 DEF PhaseOK, RunInv, RunTypeOK, Shape, QueueTypeOK
  <2>2. \A s \in Requests : task[s] = "spawned" => ConnOf[s] # k
    BY <1>2 DEF RunInv, Shape
  <2> QED
    BY <1>1, <1>2, <2>1, <2>2, LocalBrokerAssumption DEF RunInv, RunTypeOK, Shape
<1> QED
  BY <1>3, <1>5, <1>6 DEF RunInv

LEMMA AnnounceInv ==
    ASSUME RunInv, QueueTypeOK, NEW k \in Conns, Announce(k), phase' = phase
    PROVE  RunInv'
<1> DEFINE r == pend[k]
<1>1. r \in Requests /\ ConnOf[r] = k /\ task[r] = "spawned" /\ main[k] = "announce"
  BY DEF Announce, RunInv, Shape
<1>2. /\ main' = [main EXCEPT ![k] = "read"] /\ pend' = [pend EXCEPT ![k] = None]
      /\ running' = [running EXCEPT ![k] = @ \cup {r}]
      /\ task' = [task EXCEPT ![r] = "acquire"] /\ id' = id
  BY DEF Announce
<1>3. \A s \in Requests : task[s] = "spawned" /\ ConnOf[s] = k => s = r
  BY DEF RunInv, Shape
<1> HIDE DEF r
<1>4. RunTypeOK'
  BY <1>1, <1>2 DEF RunInv, RunTypeOK, MainSteps, TaskSteps
<1>5. UniqueIds'
  BY <1>1, <1>2 DEF UniqueIds, RunInv, RunTypeOK
<1>6. ASSUME NEW s \in Requests PROVE PhaseOK(task'[s], phase'[s])
  BY <1>1, <1>2 DEF PhaseOK, RunInv, RunTypeOK, Shape
<1>7. Shape'
  BY <1>1, <1>2, <1>3, <1>6, LocalBrokerAssumption DEF RunInv, RunTypeOK, Shape
<1> QED
  BY <1>4, <1>5, <1>7 DEF RunInv

LEMMA RemoveInv ==
    ASSUME RunInv, NEW r \in Requests, Remove(r)
    PROVE  RunInv'
<1>1. /\ task[r] = "remove" /\ task' = [task EXCEPT ![r] = "none"]
      /\ running' = [running EXCEPT ![ConnOf[r]] = @ \ {r}]
      /\ id' = [id EXCEPT ![r] = None] /\ UNCHANGED <<main, pend, phase>>
  BY DEF Remove, Task, connVars, queueVars
<1>2. RunTypeOK'
  BY <1>1, LocalBrokerAssumption DEF RunInv, RunTypeOK, TaskSteps
<1>3. UniqueIds'
  BY <1>1 DEF UniqueIds, RunInv, RunTypeOK
<1>4. ASSUME NEW s \in Requests PROVE PhaseOK(task'[s], phase'[s])
  BY <1>1 DEF PhaseOK, RunInv, RunTypeOK, Shape
<1>5. Shape'
  BY <1>1, <1>4, LocalBrokerAssumption DEF RunInv, RunTypeOK, Shape
<1> QED
  BY <1>2, <1>3, <1>5 DEF RunInv

LEMMA RunInitInv == Init => RunInv
<1> SUFFICES ASSUME Init PROVE RunInv
  OBVIOUS
<1> QED
  BY LocalBrokerAssumption DEF Init, QueueInit, RunInv, RunTypeOK, Shape, PhaseOK, UniqueIds,
     MainSteps, TaskSteps

\* A permit that comes back changes the phase of the request that had it and of the
\* one that gets it.
LEMMA GivePermitPhases ==
    ASSUME QueueInv, NEW r \in Requests, phase[r] # "waiting", NEW p \in Phases, GivePermit(r, p)
    PROVE  /\ phase'[r] = p
           /\ \A s \in Requests \ {r} : \/ phase'[s] = phase[s]
                                        \/ phase[s] = "waiting" /\ phase'[s] = "assigned"
<1>1. CASE waiters = <<>>
  BY <1>1 DEF GivePermit, QueueInv, QueueTypeOK
<1>2. CASE waiters # <<>>
  <2>1. Head(waiters) = waiters[1] /\ 1 \in 1..Len(waiters) /\ Head(waiters) \in Requests
    BY <1>2 DEF QueueInv, QueueTypeOK
  <2>2. phase[Head(waiters)] = "waiting"
    BY <2>1 DEF QueueInv, ListInv
  <2>3. phase' = [phase EXCEPT ![r] = p, ![Head(waiters)] = "assigned"]
    BY <1>2 DEF GivePermit
  <2> QED
    BY <2>1, <2>2, <2>3 DEF QueueInv, QueueTypeOK
<1> QED
  BY <1>1, <1>2

LEMMA TaskRuns ==
    ASSUME RunInv, QueueInv, NEW r \in Requests,
           TaskNext(r) \/ BackendNext(r) \/ Timeout(r), ~Remove(r)
    PROVE  RunStep
<1>0. phase \in [Requests -> Phases] /\ PhaseOK(task[r], phase[r])
  BY DEF QueueInv, QueueTypeOK, RunInv, Shape
<1> USE DEF RunStep, connVars, Task, TaskSteps
<1>1. CASE AcquireSteps(r)
  <2>1. task[r] = "acquire" /\ task' = [task EXCEPT ![r] = "acquire"]
    BY <1>1 DEF AcquireSteps, RunInv, RunTypeOK, taskVars
  <2>2. phase' \in {[phase EXCEPT ![r] = "granted"], [phase EXCEPT ![r] = "waiting"]}
    BY <1>1 DEF AcquireSteps, PollTaken, PollWaits, Wake
  <2> QED
    BY <1>0, <1>1, <2>1, <2>2 DEF AcquireSteps, taskVars, PhaseOK
<1>2. CASE Acquired(r)
  BY <1>0, <1>2 DEF Acquired, Activate, PhaseOK
<1>3. CASE AcquireCancelled(r)
  <2>1. /\ phase'[r] = "cancelled"
        /\ \A s \in Requests \ {r} : \/ phase'[s] = phase[s]
                                     \/ phase[s] = "waiting" /\ phase'[s] = "assigned"
    <3>1. CASE phase[r] = "assigned" /\ GivePermit(r, "cancelled")
      BY <3>1, GivePermitPhases DEF Phases
    <3>2. CASE phase' = [phase EXCEPT ![r] = "cancelled"]
      BY <1>0, <3>2
    <3> QED
      BY <1>3, <3>1, <3>2 DEF AcquireCancelled, Abandon
  <2> QED
    BY <1>3, <2>1 DEF AcquireCancelled, PhaseOK
<1>4. ASSUME NEW b \in {"wait", "chat", "ready", "probed", "final", "delta", "error_body", "drop"},
             task[r] \in {"starting", "wait", "probed", "ready", "chat", "delta", "error_body"}
                \/ (task[r] = "final" /\ b = "drop"),
             b = "drop" => task[r] = "final",
             task' = [task EXCEPT ![r] = b], UNCHANGED <<main, pend, running, id, queueVars>>
      PROVE  RunStep
  BY <1>0, <1>4 DEF PhaseOK, queueVars
<1>5. CASE Reports(r) \/ Interrupt(r) \/ Answer(r)
  BY <1>4, <1>5 DEF Reports, Interrupt, Answer
<1>6. CASE BackendNext(r)
  BY <1>4, <1>6 DEF BackendNext, Probe, Generate
<1>7. CASE Timeout(r)
  BY <1>4, <1>7 DEF Timeout
<1>8. CASE DropPermit(r)
  <2>1. /\ phase'[r] \in {"uncounting", "leaving"}
        /\ \A s \in Requests \ {r} : \/ phase'[s] = phase[s]
                                     \/ phase[s] = "waiting" /\ phase'[s] = "assigned"
    <3>1. CASE phase[r] = "active" /\ GivePermit(r, "uncounting")
      BY <3>1, GivePermitPhases DEF Phases
    <3>2. CASE phase' = [phase EXCEPT ![r] = "leaving"]
      BY <1>0, <3>2
    <3> QED
      BY <1>8, <3>1, <3>2 DEF DropPermit, Release
  <2> QED
    BY <1>8, <2>1 DEF DropPermit, PhaseOK
<1>9. CASE DropCount(r)
  BY <1>0, <1>9 DEF DropCount, Uncount, PhaseOK
<1> QED
  BY <1>1, <1>2, <1>3, <1>5, <1>6, <1>7, <1>8, <1>9 DEF TaskNext

LEMMA RunInvStep == RunInv /\ QueueInv /\ [Next]_vars => RunInv'
<1> SUFFICES ASSUME RunInv, QueueInv, [Next]_vars PROVE RunInv'
  OBVIOUS
<1>0. QueueTypeOK
  BY DEF QueueInv
<1>1. ASSUME UNCHANGED <<main, pend, running, task, id, phase>> PROVE RunInv'
  BY <1>1 DEF RunInv, RunTypeOK, Shape, UniqueIds
<1>2. ASSUME NEW k \in Conns, WriterNext(k) \/ \E c \in {"eof", "gone"} : Leave(k, c)
      PROVE  RunInv'
  BY <1>1, <1>2 DEF WriterNext, Receive, Write, WriterEnds, Leave, taskVars, queueVars
<1>3. ASSUME NEW k \in Conns, Accept(k) \/ Reply(k) \/ Break(k) \/ Join(k) \/ Close(k)
      PROVE  RunInv'
  <2>1. LoopStep
    BY <1>3 DEF LoopStep, Accept, Reply, Break, Join, Close, MainSteps, taskVars, queueVars
  <2> QED
    BY <2>1, LoopStepInv
<1>4. ASSUME NEW k \in Conns, Announce(k) PROVE RunInv'
  BY <1>0, <1>4, AnnounceInv DEF Announce, queueVars
<1>5. ASSUME NEW k \in Conns, InputNext(k) PROVE RunInv'
  <2>1. ASSUME NEW i \in Ids, ReadChat(k, i) PROVE RunInv'
    BY <1>0, <2>1, ReadChatInv
  <2>2. ASSUME NEW i \in Ids, ReadOther(k) \/ ReadBadFrame(k) \/ ReadCancel(k, i)
                              \/ ReadChatRefused(k, i)
        PROVE  RunInv'
    <3>1. LoopStep
      BY <2>2 DEF LoopStep, ReadOther, ReadBadFrame, ReadCancel, ReadChatRefused, Reads, MainSteps,
         taskVars, queueVars
    <3> QED
      BY <3>1, LoopStepInv
  <2>3. ASSUME ReadOther(k) \/ ReadBadFrame(k) PROVE RunInv'
    <3>1. LoopStep
      BY <2>3 DEF LoopStep, ReadOther, ReadBadFrame, Reads, MainSteps, taskVars, queueVars
    <3> QED
      BY <3>1, LoopStepInv
  <2> QED
    BY <1>5, <2>1, <2>2, <2>3 DEF InputNext
<1>6. ASSUME NEW r \in Requests, TaskNext(r) \/ BackendNext(r) \/ Timeout(r) PROVE RunInv'
  <2>1. CASE Remove(r)
    BY <2>1, RemoveInv
  <2>2. CASE ~Remove(r)
    BY <1>0, <1>6, <2>2, TaskRuns, RunStepInv
  <2> QED
    BY <2>1, <2>2
<1>7. CASE Shutdown \/ Ended \/ UNCHANGED vars
  BY <1>1, <1>7 DEF Shutdown, Ended, vars, connVars, taskVars, queueVars
<1> QED
  BY <1>2, <1>3, <1>4, <1>5, <1>6, <1>7 DEF Next, LoopNext

LEMMA RunInductive == Spec => []RunInv
  BY RunInitInv, RunInvStep, BrokerKeepsQueue, PTL DEF Spec

\* Runs that may still send events on one connection have different ids, however chats,
\* cancellations and the ends of runs interleave (server.rs: the active map of
\* handle_connection).
THEOREM IdsAreUnique == Spec => []UniqueIds
<1>1. RunInv => UniqueIds
  BY DEF RunInv
<1> QED
  BY <1>1, RunInductive, PTL

\* A closed connection has left no run, no reservation and no permit, however the peer
\* left (server.rs: the teardown of handle_connection).
THEOREM ClosedConnectionsAreClean == Spec => []ClosedClean
<1>1. RunInv => ClosedClean
  <2> SUFFICES ASSUME RunInv, NEW k \in Conns, main[k] = "closed"
               PROVE  running[k] = {} /\ \A r \in Of(k) : phase[r] = "none"
    BY DEF ClosedClean
  <2>1. \A r \in Requests : ConnOf[r] = k => task[r] = "none" /\ phase[r] = "none"
    BY DEF RunInv, Shape, PhaseOK
  <2>2. running[k] = {}
    BY <2>1 DEF RunInv, RunTypeOK, Shape
  <2> QED
    BY <2>1, <2>2 DEF Of
<1> QED
  BY <1>1, RunInductive, PTL

-----------------------------------------------------------------------------
(* Types *)

ChannelOK ==
    /\ chan \in [Conns -> Seq(Events)] /\ \A k \in Conns : Len(chan[k]) <= ChannelCap
    /\ wr \in [Conns -> {"recv", "done"} \cup Events]

TokensOK == down \in BOOLEAN /\ stop \in [Conns -> BOOLEAN] /\ tok \in [Requests -> BOOLEAN]

PeersOK == client \in [Conns -> {"up", "eof", "gone"}] /\ left \in [Requests -> 0 .. Patience]

LEMMA SendOK ==
    ASSUME ChannelOK, NEW k \in Conns, NEW e \in Events, Send(k, e), wr' = wr
    PROVE  ChannelOK'
<1>1. chan[k] \in Seq(Events)
  BY DEF ChannelOK
<1>2. Append(chan[k], e) \in Seq(Events) /\ Len(Append(chan[k], e)) = Len(chan[k]) + 1
  BY <1>1
<1>3. chan' = chan \/ (chan' = [chan EXCEPT ![k] = Append(chan[k], e)] /\ Len(chan[k]) < ChannelCap)
  BY DEF Send
<1>4. CASE chan' = chan
  BY <1>4 DEF ChannelOK
<1>5. CASE chan' = [chan EXCEPT ![k] = Append(chan[k], e)] /\ Len(chan[k]) < ChannelCap
  <2> DEFINE x == Append(chan[k], e)
  <2>1. x \in Seq(Events) /\ Len(x) <= ChannelCap
    BY <1>1, <1>2, <1>5, LocalBrokerAssumption
  <2> HIDE DEF x
  <2>2. chan' = [chan EXCEPT ![k] = x]
    BY <1>5 DEF x
  <2> QED
    BY <2>1, <2>2 DEF ChannelOK
<1> QED
  BY <1>3, <1>4, <1>5

LEMMA ChannelStep == RunInv /\ ChannelOK /\ [Next]_vars => ChannelOK'
<1> SUFFICES ASSUME RunInv, ChannelOK, [Next]_vars PROVE ChannelOK'
  OBVIOUS
<1>1. ASSUME UNCHANGED <<chan, wr>> PROVE ChannelOK'
  BY <1>1 DEF ChannelOK
<1>2. "info" \in Events /\ \A r \in Requests : r \in Events
  BY DEF Events
<1>3. ASSUME NEW k \in Conns, Reply(k) \/ Announce(k) PROVE ChannelOK'
  BY <1>2, <1>3, SendOK DEF Reply, Announce
<1>4. ASSUME NEW r \in Requests, Reports(r) \/ Answer(r) PROVE ChannelOK'
  BY <1>2, <1>4, SendOK, LocalBrokerAssumption DEF Reports, Answer
<1>5. ASSUME NEW k \in Conns, WriterNext(k) PROVE ChannelOK'
  <2>0. chan[k] \in Seq(Events)
    BY DEF ChannelOK
  <2>1. CASE Receive(k)
    <3>1. Head(chan[k]) \in Events /\ Tail(chan[k]) \in Seq(Events)
          /\ Len(Tail(chan[k])) = Len(chan[k]) - 1 /\ Len(chan[k]) \in Nat
      BY <2>0, <2>1 DEF Receive
    <3>2. wr' = [wr EXCEPT ![k] = Head(chan[k])] /\ chan' = [chan EXCEPT ![k] = Tail(chan[k])]
      BY <2>1 DEF Receive
    <3> QED
      BY <3>1, <3>2, LocalBrokerAssumption DEF ChannelOK
  <2>2. CASE Write(k)
    BY <2>2 DEF Write, ChannelOK
  <2>3. CASE WriterEnds(k)
    <3>1. wr' = [wr EXCEPT ![k] = "done"] /\ chan' = [chan EXCEPT ![k] = <<>>]
      BY <2>3 DEF WriterEnds
    <3>2. <<>> \in Seq(Events) /\ Len(<<>>) = 0
      OBVIOUS
    <3> QED
      BY <3>1, <3>2, LocalBrokerAssumption DEF ChannelOK
  <2> QED
    BY <1>5, <2>1, <2>2, <2>3 DEF WriterNext
<1>6. ASSUME NEW k \in Conns, Accept(k) PROVE ChannelOK'
  BY <1>6 DEF Accept, ChannelOK
<1>7. ASSUME NEW k \in Conns, InputNext(k) \/ Break(k) \/ Join(k) \/ Close(k)
                              \/ \E c \in {"eof", "gone"} : Leave(k, c)
      PROVE  ChannelOK'
  BY <1>1, <1>7 DEF InputNext, Break, Join, Close, Leave, ReadOther, ReadBadFrame, ReadCancel,
     ReadChatRefused, ReadChat
<1>8. ASSUME NEW r \in Requests, TaskNext(r) \/ BackendNext(r) \/ Timeout(r) PROVE ChannelOK'
  BY <1>1, <1>4, <1>8 DEF TaskNext, BackendNext, Timeout, AcquireSteps, Acquired,
     AcquireCancelled, Interrupt, DropPermit, DropCount, Remove, Probe, Generate, connVars
<1>9. CASE Shutdown \/ Ended \/ UNCHANGED vars
  BY <1>1, <1>9 DEF Shutdown, Ended, vars, connVars
<1> QED
  BY <1>3, <1>5, <1>6, <1>7, <1>8, <1>9 DEF Next, LoopNext

LEMMA TokensStep == TokensOK /\ [Next]_vars => TokensOK'
<1> SUFFICES ASSUME TokensOK, [Next]_vars PROVE TokensOK'
  OBVIOUS
<1>1. ASSUME UNCHANGED <<down, stop, tok>> PROVE TokensOK'
  BY <1>1 DEF TokensOK
<1>2. CASE Shutdown
  <2>1. down' = TRUE /\ stop' = [k \in Conns |-> TRUE] /\ tok' = tok
    BY <1>2 DEF Shutdown, taskVars
  <2> QED
    BY <2>1, Zenon DEF TokensOK
<1>3. ASSUME NEW k \in Conns, NEW b \in BOOLEAN, stop' = [stop EXCEPT ![k] = b],
             UNCHANGED <<down, tok>>
      PROVE  TokensOK'
  BY <1>3 DEF TokensOK
<1>4. ASSUME NEW k \in Conns, Accept(k) \/ LoopNext(k) PROVE TokensOK'
  BY <1>1, <1>3, <1>4 DEF Accept, LoopNext, Reply, Announce, Break, Join, Close, taskVars
<1>5. ASSUME NEW k \in Conns, NEW i \in Ids, ReadCancel(k, i) PROVE TokensOK'
  <2>1. UNCHANGED <<down, stop>>
        /\ tok' = [r \in Requests |-> tok[r] \/ (r \in running[k] /\ id[r] = i)]
    BY <1>5 DEF ReadCancel
  <2>2. tok' \in [Requests -> BOOLEAN]
    BY <2>1, Zenon
  <2> QED
    BY <2>1, <2>2 DEF TokensOK
<1>6. ASSUME NEW k \in Conns, WriterNext(k) \/ InputNext(k) \/ \E c \in {"eof", "gone"} : Leave(k, c)
      PROVE  TokensOK'
  BY <1>1, <1>5, <1>6 DEF WriterNext, InputNext, Leave, Receive, Write, WriterEnds, ReadOther,
     ReadBadFrame, ReadChatRefused, ReadChat, taskVars
<1>7. ASSUME NEW r \in Requests, NEW b \in BOOLEAN, tok' = [tok EXCEPT ![r] = b],
             UNCHANGED <<down, stop>>
      PROVE  TokensOK'
  BY <1>7 DEF TokensOK
<1>8. ASSUME NEW r \in Requests, TaskNext(r) \/ BackendNext(r) \/ Timeout(r) PROVE TokensOK'
  BY <1>1, <1>7, <1>8 DEF TaskNext, BackendNext, Timeout, AcquireSteps, Acquired,
     AcquireCancelled, Interrupt, DropPermit, DropCount, Remove, Probe, Generate, Reports, Answer,
     connVars, taskVars
<1>9. CASE Ended \/ UNCHANGED vars
  BY <1>1, <1>9 DEF Ended, vars, connVars, taskVars
<1> QED
  BY <1>2, <1>4, <1>6, <1>8, <1>9 DEF Next

LEMMA PeersStep == RunInv /\ PeersOK /\ [Next]_vars => PeersOK'
<1> SUFFICES ASSUME RunInv, PeersOK, [Next]_vars PROVE PeersOK'
  OBVIOUS
<1>0. Patience \in Nat /\ 0 \in 0 .. Patience /\ Patience \in 0 .. Patience
  BY LocalBrokerAssumption
<1>1. ASSUME UNCHANGED <<client, left>> PROVE PeersOK'
  BY <1>1 DEF PeersOK
<1>2. ASSUME NEW k \in Conns, Accept(k) \/ Close(k) \/ \E c \in {"eof", "gone"} : Leave(k, c)
      PROVE  PeersOK'
  BY <1>2 DEF Accept, Close, Leave, PeersOK, taskVars
<1>3. ASSUME NEW k \in Conns, Announce(k) PROVE PeersOK'
  <2>1. left' = [left EXCEPT ![pend[k]] = Patience] /\ client' = client
    BY <1>3 DEF Announce
  <2> QED
    BY <1>0, <2>1 DEF PeersOK
<1>4. ASSUME NEW k \in Conns, Reply(k) \/ Break(k) \/ Join(k) \/ WriterNext(k) \/ InputNext(k)
      PROVE  PeersOK'
  BY <1>1, <1>4 DEF Reply, Break, Join, WriterNext, InputNext, Receive, Write, WriterEnds,
     ReadOther, ReadBadFrame, ReadChatRefused, ReadChat, ReadCancel, taskVars
<1>5. ASSUME NEW r \in Requests, BackendNext(r) \/ Remove(r) PROVE PeersOK'
  <2>1. left[r] \in 0 .. Patience /\ client' = client
    BY <1>5 DEF BackendNext, Remove, Probe, Generate, PeersOK, connVars
  <2>2. \E n \in 0 .. Patience : left' = [left EXCEPT ![r] = n]
    <3>1. CASE Remove(r)
      BY <1>0, <3>1 DEF Remove
    <3>2. CASE left' = left
      BY <2>1, <3>2 DEF PeersOK
    <3>3. CASE left[r] > 0 /\ left' = [left EXCEPT ![r] = left[r] - 1]
      <4>1. left[r] - 1 \in 0 .. Patience
        BY <1>0, <2>1, <3>3
      <4> QED
        BY <3>3, <4>1
    <3>4. CASE left' = [left EXCEPT ![r] = Patience]
      BY <1>0, <3>4
    <3> QED
      BY <1>5, <3>1, <3>2, <3>3, <3>4 DEF BackendNext, Probe, Generate
  <2> QED
    BY <2>1, <2>2 DEF PeersOK
<1>6. ASSUME NEW r \in Requests, (TaskNext(r) /\ ~Remove(r)) \/ Timeout(r) PROVE PeersOK'
  BY <1>1, <1>6 DEF TaskNext, Timeout, AcquireSteps, Acquired,
     AcquireCancelled, Interrupt, DropPermit, DropCount, Reports, Answer, connVars, taskVars
<1>7. CASE Shutdown \/ Ended \/ UNCHANGED vars
  BY <1>1, <1>7 DEF Shutdown, Ended, vars, connVars, taskVars
<1> QED
  BY <1>2, <1>3, <1>4, <1>5, <1>6, <1>7 DEF Next, LoopNext

\* Every variable has its type, the channel never holds more than its capacity, and the
\* map of a connection only runs of that connection.
THEOREM BrokerTypeCorrect == Spec => []TypeOK
<1>1. Init => ChannelOK /\ TokensOK /\ PeersOK
  <2> SUFFICES ASSUME Init PROVE ChannelOK /\ TokensOK /\ PeersOK
    OBVIOUS
  <2>1. <<>> \in Seq(Events) /\ Len(<<>>) = 0
    OBVIOUS
  <2>2. ChannelOK
    BY <2>1, LocalBrokerAssumption DEF Init, ChannelOK
  <2>3. TokensOK
    BY DEF Init, TokensOK
  <2>4. PeersOK
    BY LocalBrokerAssumption DEF Init, PeersOK
  <2> QED
    BY <2>2, <2>3, <2>4
<1>2. RunInv /\ ChannelOK /\ TokensOK /\ PeersOK => TypeOK
  <2> SUFFICES ASSUME RunInv, ChannelOK, TokensOK, PeersOK PROVE TypeOK
    OBVIOUS
  <2>1. \A k \in Conns : Len(chan[k]) <= ChannelCap /\ \A j \in 1 .. Len(chan[k]) : chan[k][j] \in Events
    BY DEF ChannelOK
  <2>2. \A k \in Conns : running[k] \subseteq Of(k)
    BY DEF RunInv, RunTypeOK, Shape, Of
  <2> QED
    BY <2>1, <2>2 DEF TypeOK, RunInv, RunTypeOK, ChannelOK, TokensOK, PeersOK
<1> QED
  BY <1>1, <1>2, RunInductive, ChannelStep, TokensStep, PeersStep, PTL DEF Spec
=============================================================================
