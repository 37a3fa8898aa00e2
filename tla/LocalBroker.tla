----------------------------- MODULE LocalBroker -----------------------------
(***************************************************************************)
(* The local inference broker (crates/sentia-local-broker/src/server.rs):  *)
(* handle_connection's read loop, writer task and teardown, and run_chat,  *)
(* one task per accepted chat, over the admission queue of InferenceQueue. *)
(*                                                                         *)
(* A connection's loop, its writer and its chat tasks run concurrently and *)
(* meet in the bounded event channel, the map of active requests, the      *)
(* cancellation tokens and the queue.  An action is the code between two   *)
(* awaits; a send on the channel is an await of its own.                   *)
(***************************************************************************)
EXTENDS InferenceQueue

CONSTANTS
    Conns,          \* client connections
    ConnOf,         \* the connection each request arrives on
    Ids,            \* request ids a client may choose
    ChannelCap,     \* 128 events
    Inputs,         \* what the environment does, of "chat", "cancel", "other", "bad",
                    \* "eof", "gone" and "sigterm"
    Patience,       \* health probes before the deadline, and deltas of an answer
    None

ASSUME LocalBrokerAssumption ==
    /\ ConnOf \in [Requests -> Conns]
    /\ ChannelCap \in Nat \ {0}
    /\ Inputs \subseteq {"chat", "cancel", "other", "bad", "eof", "gone", "sigterm"}
    /\ Patience \in Nat
    /\ None \notin Ids \cup Requests
    /\ "info" \notin Requests /\ "recv" \notin Requests /\ "done" \notin Requests

VARIABLES
    down,       \* the process's shutdown token
    client,     \* what the peer does: "up", "eof" (sends no more), "gone"
    main,       \* where the read loop of each connection is
    pend,       \* the request whose Queued event the read loop is sending
    stop,       \* the connection's shutdown token
    chan,       \* the event channel
    wr,         \* the writer task: "recv", "done", or the event it is writing
    running,    \* the `active` map: runs by request id
    task,       \* where run_chat is, for each request
    id,         \* the request id the client gave
    tok,        \* the request's own cancellation token
    left        \* probes or deltas that may still come

connVars == <<down, client, main, pend, stop, chan, wr>>
taskVars == <<running, task, id, tok, left>>
vars == <<connVars, taskVars, queueVars>>

\* An event is a request's last one (Complete, ToolCalls, Error or Cancelled),
\* written as the request, or any other.
Events == {"info"} \cup Requests
MainSteps == {"read", "reply", "farewell", "announce", "join", "flush", "closed"}
TaskSteps == {"none", "spawned", "acquire", "starting", "wait", "probed", "ready",
              "chat", "delta", "error_body", "final", "drop", "uncount", "remove"}

Of(k) == {r \in Requests : ConnOf[r] = k}

\* CancellationToken::is_cancelled of a child token.
Cancelled(r) == tok[r] \/ stop[ConnOf[r]]

Init ==
    /\ QueueInit
    /\ down = FALSE
    /\ client = [k \in Conns |-> "gone"]
    /\ main = [k \in Conns |-> "closed"]
    /\ pend = [k \in Conns |-> None]
    /\ stop = [k \in Conns |-> FALSE]
    /\ chan = [k \in Conns |-> <<>>]
    /\ wr = [k \in Conns |-> "done"]
    /\ running = [k \in Conns |-> {}]
    /\ task = [r \in Requests |-> "none"]
    /\ id = [r \in Requests |-> None]
    /\ tok = [r \in Requests |-> FALSE]
    /\ left = [r \in Requests |-> 0]

-----------------------------------------------------------------------------
(* The peer and the process *)

\* The peer half-closes, or goes away.
Leave(k, c) ==
    /\ <<client[k], c>> \in {<<"up", "eof">>, <<"up", "gone">>, <<"eof", "gone">>}
    /\ c \in Inputs
    /\ client' = [client EXCEPT ![k] = c]
    /\ UNCHANGED <<down, main, pend, stop, chan, wr, taskVars, queueVars>>

\* SIGTERM: the token of every connection is a child of the process's.
Shutdown ==
    /\ "sigterm" \in Inputs
    /\ ~down
    /\ down' = TRUE
    /\ stop' = [k \in Conns |-> TRUE]
    /\ UNCHANGED <<client, main, pend, chan, wr, taskVars, queueVars>>

\* run() accepts a connection and spawns its handler and writer.  (An error of
\* accept makes run() and the process return; nothing is kept, so that is not a step.)
Accept(k) ==
    /\ main[k] = "closed"
    /\ ~down
    /\ client' = [client EXCEPT ![k] = "up"]
    /\ main' = [main EXCEPT ![k] = "read"]
    /\ stop' = [stop EXCEPT ![k] = FALSE]
    /\ wr' = [wr EXCEPT ![k] = "recv"]
    /\ UNCHANGED <<down, pend, chan, taskVars, queueVars>>

-----------------------------------------------------------------------------
(* The event channel and the writer task *)

\* event_tx.send(e).await: waits for room; fails at once when the writer is
\* gone, which every caller ignores.
Send_Unbounded(k, e) ==
    chan' = [chan EXCEPT ![k] = Append(@, e)]
Send(k, e) ==
    \/ /\ wr[k] = "done"
       /\ UNCHANGED chan
    \/ /\ wr[k] # "done"
       /\ Len(chan[k]) < ChannelCap
       /\ chan' = [chan EXCEPT ![k] = Append(@, e)]

Receive(k) ==
    /\ wr[k] = "recv"
    /\ chan[k] # <<>>
    /\ wr' = [wr EXCEPT ![k] = Head(chan[k])]
    /\ chan' = [chan EXCEPT ![k] = Tail(@)]
    /\ UNCHANGED <<down, client, main, pend, stop, taskVars, queueVars>>

\* write_all ends when the peer has read enough, or is gone; it has no deadline and
\* is outside the select! that looks at the token.
Write(k) ==
    /\ wr[k] \in Events
    /\ client[k] # "gone"
    /\ wr' = [wr EXCEPT ![k] = "recv"]
    /\ UNCHANGED <<down, client, main, pend, stop, chan, taskVars, queueVars>>

\* The writer ends, and with it the receiver and what is in the channel: the
\* write fails, the token is cancelled, or every sender is gone.
WriterEnds(k) ==
    /\ \/ wr[k] \in Events /\ client[k] = "gone"
       \/ wr[k] = "recv" /\ stop[k]
       \/ wr[k] = "recv" /\ chan[k] = <<>> /\ main[k] = "flush"
    /\ wr' = [wr EXCEPT ![k] = "done"]
    /\ chan' = [chan EXCEPT ![k] = <<>>]
    /\ UNCHANGED <<down, client, main, pend, stop, taskVars, queueVars>>

-----------------------------------------------------------------------------
(* The read loop of handle_connection *)

\* A frame arrives while the loop is reading.
Reads(k) == main[k] = "read" /\ client[k] = "up"

\* Health (probe bounded by 10 s), and every request that is refused before
\* anything is reserved: malformed, bad envelope, outside the chat bounds.
ReadOther(k) ==
    /\ Reads(k)
    /\ main' = [main EXCEPT ![k] = "reply"]
    /\ UNCHANGED <<down, client, pend, stop, chan, wr, taskVars, queueVars>>

\* Cancel: the token of the run with this id, if there is one.
ReadCancel(k, i) ==
    /\ Reads(k)
    /\ tok' = [r \in Requests |-> tok[r] \/ (r \in running[k] /\ id[r] = i)]
    /\ main' = [main EXCEPT ![k] = "reply"]
    /\ UNCHANGED <<down, client, pend, stop, chan, wr, running, task, id, left, queueVars>>

\* active.contains_key(request_id)
Duplicate_Never(k, i) == FALSE
Duplicate(k, i) == \E r \in running[k] : id[r] = i

\* A Request names the place a run takes among its connection's; which free
\* place makes no difference.
Free(k) == {r \in Of(k) : task[r] = "none"}
Place(k) == CHOOSE r \in Free(k) : TRUE

ReadChatRefused(k, i) ==
    /\ Reads(k)
    /\ Free(k) # {}
    /\ Duplicate(k, i) \/ GlobalFull \/ UserFull(Place(k))
    /\ main' = [main EXCEPT ![k] = "reply"]
    /\ UNCHANGED <<down, client, pend, stop, chan, wr, taskVars, queueVars>>

ReadChat(k, i) ==
    /\ Reads(k)
    /\ Free(k) # {}
    /\ ~Duplicate(k, i)
    /\ Reserve(Place(k))
    /\ main' = [main EXCEPT ![k] = "announce"]
    /\ pend' = [pend EXCEPT ![k] = Place(k)]
    /\ task' = [task EXCEPT ![Place(k)] = "spawned"]
    /\ id' = [id EXCEPT ![Place(k)] = i]
    /\ UNCHANGED <<down, client, stop, chan, wr, running, tok, left>>

\* The answer to a request that started nothing is sent.
Reply(k) ==
    /\ main[k] \in {"reply", "farewell"}
    /\ Send(k, "info")
    /\ \/ main[k] = "reply" /\ main' = [main EXCEPT ![k] = "read"] /\ UNCHANGED stop
       \/ main[k] = "farewell" /\ main' = [main EXCEPT ![k] = "join"]
                               /\ stop' = [stop EXCEPT ![k] = TRUE]
    /\ UNCHANGED <<down, client, pend, wr, taskVars, queueVars>>

\* The Queued event is sent, the run entered in the map and its task spawned.
Announce(k) ==
    /\ main[k] = "announce"
    /\ Send(k, "info")
    /\ main' = [main EXCEPT ![k] = "read"]
    /\ pend' = [pend EXCEPT ![k] = None]
    /\ running' = [running EXCEPT ![k] = @ \cup {pend[k]}]
    /\ task' = [task EXCEPT ![pend[k]] = "acquire"]
    /\ left' = [left EXCEPT ![pend[k]] = Patience]
    /\ UNCHANGED <<down, client, stop, wr, id, tok, queueVars>>

\* An unterminated or oversized frame is answered, then the loop ends.
ReadBadFrame(k) ==
    /\ main[k] = "read"
    /\ client[k] # "gone"
    /\ main' = [main EXCEPT ![k] = "farewell"]
    /\ UNCHANGED <<down, client, pend, stop, chan, wr, taskVars, queueVars>>

\* End of input or shutdown ends the loop: the connection's token, and with it
\* the token of every run, is cancelled.
InputOver_Eof(k) == client[k] # "up"
InputOver(k) == stop[k] \/ client[k] # "up"

Break(k) ==
    /\ main[k] = "read"
    /\ InputOver(k)
    /\ main' = [main EXCEPT ![k] = "join"]
    /\ stop' = [stop EXCEPT ![k] = TRUE]
    /\ UNCHANGED <<down, client, pend, chan, wr, taskVars, queueVars>>

\* tasks.join_next() until every run has ended; then event_tx is dropped.
Joined_AtOnce(k) == TRUE
Joined(k) == \A r \in Of(k) : task[r] = "none"

Join(k) ==
    /\ main[k] = "join"
    /\ Joined(k)
    /\ main' = [main EXCEPT ![k] = "flush"]
    /\ UNCHANGED <<down, client, pend, stop, chan, wr, taskVars, queueVars>>

\* writer_task.await
Close(k) ==
    /\ main[k] = "flush"
    /\ wr[k] = "done"
    /\ main' = [main EXCEPT ![k] = "closed"]
    /\ client' = [client EXCEPT ![k] = "gone"]
    /\ UNCHANGED <<down, pend, stop, chan, wr, taskVars, queueVars>>

-----------------------------------------------------------------------------
(* run_chat *)

Task(r, from, to) ==
    /\ task[r] = from
    /\ task' = [task EXCEPT ![r] = to]

\* reservation.acquire(&cancellation)
AcquireSteps(r) ==
    /\ task[r] = "acquire"
    /\ PollTaken(r) \/ PollWaits(r) \/ Wake(r)
    /\ UNCHANGED <<connVars, taskVars>>

Acquired(r) ==
    /\ Task(r, "acquire", "starting")
    /\ Activate(r)
    /\ UNCHANGED <<connVars, running, id, tok, left>>

AcquireCancelled(r) ==
    /\ Task(r, "acquire", "final")
    /\ Cancelled(r)
    /\ Abandon(r)
    /\ UNCHANGED <<connVars, running, id, tok, left>>

\* A Progress or Delta event is sent between two stages.
Reports(r) ==
    /\ \/ Task(r, "starting", "wait")
       \/ Task(r, "probed", "wait")
       \/ Task(r, "ready", "chat")
       \/ Task(r, "delta", "chat")
    /\ Send(ConnOf[r], "info")
    /\ UNCHANGED <<down, client, main, pend, stop, wr, running, id, tok, left, queueVars>>

\* wait_until_ready: the probe succeeds, is worth repeating before the deadline,
\* or fails for good.
Probe(r) ==
    /\ \/ Task(r, "wait", "ready") /\ left' = [left EXCEPT ![r] = Patience]
       \/ Task(r, "wait", "probed") /\ left[r] > 0 /\ left' = [left EXCEPT ![r] = @ - 1]
       \/ Task(r, "wait", "final") /\ UNCHANGED left
    /\ UNCHANGED <<connVars, running, id, tok, queueVars>>

\* LlamaClient::chat hands on a delta, meets a status other than 2xx, whose body it
\* reads before it returns the error, or returns an answer or an error.
Generate(r) ==
    /\ \/ Task(r, "chat", "delta") /\ left[r] > 0 /\ left' = [left EXCEPT ![r] = @ - 1]
       \/ Task(r, "chat", "error_body") /\ UNCHANGED left
       \/ Task(r, "chat", "final") /\ UNCHANGED left
       \/ Task(r, "error_body", "final") /\ UNCHANGED left
    /\ UNCHANGED <<connVars, running, id, tok, queueVars>>

\* request_timeout, also while a delta waits for room in the channel.
Timeout(r) ==
    /\ \/ Task(r, "chat", "final")
       \/ Task(r, "delta", "final")
       \/ Task(r, "error_body", "final")
    /\ tok' = [tok EXCEPT ![r] = TRUE]
    /\ UNCHANGED <<connVars, running, id, left, queueVars>>

\* The cancellation branch of a select! in wait_until_ready and in chat.  The read of
\* an error's body is the one await of chat on the backend that has none.
Interrupted_Never(r) == FALSE
Interrupted(r) == Cancelled(r)

Interrupt(r) ==
    /\ Task(r, "wait", "final") \/ Task(r, "chat", "final")
    /\ Interrupted(r)
    /\ UNCHANGED <<connVars, running, id, tok, left, queueVars>>

\* The last event of the run.
Answer(r) ==
    /\ Task(r, "final", "drop")
    /\ Send(ConnOf[r], r)
    /\ UNCHANGED <<down, client, main, pend, stop, wr, running, id, tok, left, queueVars>>

\* run_chat returns and drops the reservation ...
DropPermit_Leaks(r) ==
    /\ Task(r, "drop", "remove")
    /\ UNCHANGED <<connVars, running, id, tok, left, queueVars>>
DropPermit(r) ==
    /\ Task(r, "drop", "uncount")
    /\ Release(r)
    /\ UNCHANGED <<connVars, running, id, tok, left>>

DropCount(r) ==
    /\ Task(r, "uncount", "remove")
    /\ Uncount(r)
    /\ UNCHANGED <<connVars, running, id, tok, left>>

\* ... and only then the task takes the id out of the map.
Remove(r) ==
    /\ Task(r, "remove", "none")
    /\ running' = [running EXCEPT ![ConnOf[r]] = @ \ {r}]
    /\ id' = [id EXCEPT ![r] = None]
    /\ tok' = [tok EXCEPT ![r] = FALSE]
    /\ left' = [left EXCEPT ![r] = 0]
    /\ UNCHANGED <<connVars, queueVars>>

-----------------------------------------------------------------------------
LoopNext(k) ==
    \/ Reply(k)
    \/ Announce(k)
    \/ Break(k)
    \/ Join(k)
    \/ Close(k)

WriterNext(k) == Receive(k) \/ Write(k) \/ WriterEnds(k)

InputNext(k) ==
    \/ "other" \in Inputs /\ ReadOther(k)
    \/ "bad" \in Inputs /\ ReadBadFrame(k)
    \/ "cancel" \in Inputs /\ \E i \in Ids : ReadCancel(k, i)
    \/ /\ "chat" \in Inputs
       /\ \E i \in Ids : ReadChatRefused(k, i) \/ ReadChat(k, i)

\* What a task does without the backend, and what the backend decides.
TaskNext(r) ==
    \/ AcquireSteps(r)
    \/ Acquired(r)
    \/ AcquireCancelled(r)
    \/ Reports(r)
    \/ Interrupt(r)
    \/ Answer(r)
    \/ DropPermit(r)
    \/ DropCount(r)
    \/ Remove(r)

BackendNext(r) == Probe(r) \/ Generate(r)

\* run() has returned.
Ended ==
    /\ down
    /\ \A k \in Conns : main[k] = "closed"
    /\ UNCHANGED vars

Next ==
    \/ Shutdown
    \/ Ended
    \/ \E k \in Conns : \/ Accept(k)
                        \/ \E c \in {"eof", "gone"} : Leave(k, c)
                        \/ LoopNext(k)
                        \/ WriterNext(k)
                        \/ InputNext(k)
    \/ \E r \in Requests : TaskNext(r) \/ BackendNext(r) \/ Timeout(r)

\* Tasks are scheduled.  Fairness is strong where a task competes: senders get the
\* channel's room in the order they asked for it, and select! picks a ready branch
\* at random.
TaskFairness ==
    /\ \A k \in Conns : /\ SF_vars(LoopNext(k))
                        /\ SF_vars(Break(k))
                        /\ WF_vars(Receive(k) \/ WriterEnds(k))
    /\ \A r \in Requests : SF_vars(TaskNext(r))

\* A peer reads what is written to it, or goes away (the code does not bound it).
PeerFairness == \A k \in Conns : WF_vars(Write(k))

\* The backend answers a health probe some day (the code does not bound it),
\* and a generation ends, if only by request_timeout.
BackendFairness == \A r \in Requests : WF_vars(Probe(r)) /\ WF_vars(Timeout(r))

Spec == Init /\ [][Next]_vars /\ TaskFairness /\ PeerFairness /\ BackendFairness

\* Neither the backend nor a peer ever has to do anything.  Of the broker's own timers
\* only one is relied on: request_timeout, for a run that reads the body of an error.
HungSpec ==
    /\ Init /\ [][Next]_vars /\ TaskFairness
    /\ \A r \in Requests : WF_vars(task[r] = "error_body" /\ Timeout(r))

-----------------------------------------------------------------------------
(* Properties *)

\* Every variable has its type, and the channel its capacity.
TypeOK ==
    /\ down \in BOOLEAN
    /\ client \in [Conns -> {"up", "eof", "gone"}]
    /\ main \in [Conns -> MainSteps]
    /\ pend \in [Conns -> Requests \cup {None}]
    /\ stop \in [Conns -> BOOLEAN]
    /\ \A k \in Conns : Len(chan[k]) <= ChannelCap /\ \A j \in 1 .. Len(chan[k]) : chan[k][j] \in Events
    /\ wr \in [Conns -> {"recv", "done"} \cup Events]
    /\ \A k \in Conns : running[k] \subseteq Of(k)
    /\ task \in [Requests -> TaskSteps]
    /\ id \in [Requests -> Ids \cup {None}]
    /\ tok \in [Requests -> BOOLEAN]
    /\ left \in [Requests -> 0 .. Patience]

\* Two runs that may still send events on a connection have different ids: a
\* client never sees the events of two answers mixed, and Cancel reaches the run
\* that the client means (the id is in the map until after the last event).
UniqueIds == \A r, s \in Requests :
    /\ ConnOf[r] = ConnOf[s] /\ r # s
    /\ task[r] # "none" /\ task[s] # "none"
    => id[r] # id[s]

\* A connection that is closed has left nothing behind: no run, no reservation,
\* no permit, however the peer left (teardown joins the tasks).
ClosedClean == \A k \in Conns :
    main[k] = "closed" => running[k] = {} /\ \A r \in Of(k) : phase[r] = "none"

\* The composition uses the queue as InferenceQueue says, and gives it the
\* fairness it relies on: every permit that is taken comes back.
UsesQueue == QueueSpec

\* An accepted request is answered: the writer comes to its last event, unless
\* the connection is torn down first.
AnswerArrives == \A r \in Requests :
    task[r] = "acquire" ~> wr[ConnOf[r]] = r \/ stop[ConnOf[r]] \/ client[ConnOf[r]] = "gone"

\* The writer never comes back from a write: its peer neither reads nor leaves.
Stuck(k) == [](wr[k] \in Events)

\* Shutdown ends the handler of every connection although the backend is silent, with
\* runs that stream, that wait for the slot another run holds, or that read the body of
\* an error (run, handle_connection); only a peer that has stopped reading prevents it.
ShutdownEnds == \A k \in Conns : down ~> (main[k] = "closed" \/ Stuck(k))

\* Cancellation, by a Cancel frame or by the end of the connection, ends a run although
\* the backend never answers again, and without waiting for a timer unless the run is
\* reading the body of an error (run_chat, LlamaClient::chat); only a peer that has
\* stopped reading can keep it from reporting its end.
CancelStops == \A r \in Requests :
    task[r] # "none" /\ Cancelled(r) ~> (task[r] = "none" \/ Stuck(ConnOf[r]))
=============================================================================
