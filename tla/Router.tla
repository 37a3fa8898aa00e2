------------------------------- MODULE Router -------------------------------
(***************************************************************************)
(* The router (crates/sentia-router/src/router.rs): chat with its routing  *)
(* policy and fallback, the agent loop around a provider's streaming task  *)
(* (run_agent_loop) and the tool broker client (tools.rs), with the        *)
(* consents, breakers and settings that every request shares.              *)
(*                                                                         *)
(* An action is the code between two awaits.  A send on the request's      *)
(* channel of internal events is an await of its own; it waits for room    *)
(* and for nothing else.  The receiver is process_request, which           *)
(* RouterServer models; here Receive stands for it.                        *)
(***************************************************************************)
EXTENDS CircuitBreakers, SettingsStore, Sequences

CONSTANTS
    Requests,       \* chat requests
    EligibleIn,     \* UserSettings.remote_categories
    PreferredIn,    \* UserSettings.preferred_remote_provider, or "none"
    EventCap,       \* 128 internal events
    ChunkCap,       \* 64 chunks between the provider task and the loop
    MaxChunks,      \* bound of the chunks of one answer
    MaxRounds,      \* max_agent_rounds
    CallIds,        \* identifiers a model gives its tool calls
    Calls,          \* the lists of tool calls a model may make
    MaxShown,       \* bound of the tokens shown, and of the times each is
    MaxBoots,       \* bound of the restarts
    Scenarios       \* what a behaviour is about: its inputs, its requests and what they
                    \* ask, the settings file it starts from, and whether a local
                    \* provider is registered

Policies == {"local_only", "local_preferred", "remote_preferred", "ask_before_remote"}
\* A provider by name: a remote one that is registered, one that is not, or no name.
Named == Remotes \cup {"none", "unregistered"}
ChatInputs == [policy : Policies, provider : Named, payload : Payloads,
               sensitive : BOOLEAN, valid : BOOLEAN]
\* A tool call by what it asks for: a read-only tool, one that validate_schema or
\* validate_and_invoke refuses, or a proposal to the user.
CallKinds == {"read", "refused", "propose"}
Answers == {"none", "running", "answer", "calls", "error", "cancelled"}

ASSUME RouterAssumption ==
    /\ IsFiniteSet(Requests)
    /\ \A e \in Scenarios :
          /\ e.inputs \subseteq {"cancel", "preview", "status", "update", "tick", "crash",
                               "chunks", "calls", "eof", "gone", "sigterm"}
          /\ e.requests \subseteq Requests /\ e.local \in BOOLEAN
          /\ e.chats \subseteq ChatInputs /\ e.chats # {}
    /\ EligibleIn \in [Settings -> SUBSET UNION {CategoriesOf[p] : p \in Payloads}]
    /\ PreferredIn \in [Settings -> Named]
    /\ EventCap \in Nat \ {0}
    /\ ChunkCap \in Nat \ {0} /\ MaxChunks \in Nat
    /\ MaxRounds \in Nat \ {0}
    /\ Calls \subseteq Seq(CallIds \X CallKinds) \ {<<>>}
    /\ "local" \notin Remotes /\ "none" \notin Remotes /\ "unregistered" \notin Remotes

VARIABLES
    env,        \* the scenario of this behaviour
    pc,         \* where chat is
    chat,       \* the request
    token,      \* the consent token presented, if any
    route,      \* candidates still to be tried
    lastError,  \* last_error.is_some()
    reason,     \* fallback_reason.is_some()
    cancelled,  \* the request's cancellation token
    events,     \* the channel to process_request
    task,       \* the provider task: its answer once there is one
    chunks,     \* the channel from the provider task
    streamed,   \* chunks of this answer
    round,      \* rounds of the agent loop that have begun
    calls,      \* tool calls of this round still to be made
    seen,       \* seen_calls
    basis       \* what the route was granted on: the settings, and the token spent

chatVars == <<env, pc, chat, token, route, lastError, reason, cancelled, basis>>
agentVars == <<task, chunks, streamed, round, calls, seen>>
routerVars == <<chatVars, agentVars, events>>
vars == <<now, consentVars, breakerVars, settingsVars, routerVars>>
shared == <<consentVars, breakerVars, settingsVars, now>>

\* InternalEvent: a status transition, the start of an answer (its provider, and
\* whether it has a fallback reason), or one of the others.
\* ValidTransitions: is_valid_status_transition of the shared protocol.
ValidTransitions ==
    {<<"received", "queued">>, <<"received", "awaiting_consent">>, <<"fallback_to_local", "running_local">>,
     <<"cancel_requested", "cancelled">>}
    \cup {"queued"} \X {"running_local", "running_remote", "cancel_requested"}
    \cup {"awaiting_consent"} \X {"running_remote", "cancel_requested"}
    \cup {"running_remote"} \X {"fallback_to_local", "completed", "failed", "cancel_requested"}
    \cup {"running_local"} \X {"completed", "failed", "cancel_requested"}
Moves == {<<"move", m[1], m[2]>> : m \in ValidTransitions}
Starts == {"start"} \X (Remotes \cup {"local"}) \X BOOLEAN
Plain == {"accepted", "progress", "delta", "tool", "proposal", "complete", "incomplete",
          "error", "cancelled", "done"}
Events == Moves \cup Starts \cup {<<e>> : e \in Plain}

Steps == {"idle", "validate", "queue", "route", "next", "probe", "announce", "fall",
          "start", "round", "stream", "drain", "tools", "invoke", "used", "propose",
          "finish", "fail", "fallback", "error", "cancel", "done", "end"}

Init ==
    /\ ConsentInit /\ BreakersInit /\ SettingsInit
    /\ pc = [r \in Requests |-> "idle"]
    /\ env \in Scenarios
    /\ file \in env.files
    /\ chat = [r \in Requests |-> CHOOSE c \in env.chats : TRUE]
    /\ token = [r \in Requests |-> {}]
    /\ route = [r \in Requests |-> <<>>]
    /\ lastError = [r \in Requests |-> FALSE]
    /\ reason = [r \in Requests |-> FALSE]
    /\ cancelled = [r \in Requests |-> FALSE]
    /\ events = [r \in Requests |-> <<>>]
    /\ task = [r \in Requests |-> "none"]
    /\ chunks = [r \in Requests |-> <<>>]
    /\ streamed = [r \in Requests |-> 0]
    /\ round = [r \in Requests |-> 0]
    /\ calls = [r \in Requests |-> <<>>]
    /\ seen = [r \in Requests |-> {}]
    /\ basis = [r \in Requests |-> [eligible |-> {}, token |-> {}]]

Go(r, next) == pc' = [pc EXCEPT ![r] = next]

\* Mutant of Send: an unbounded channel.
SendUnbounded(r, e) == events' = [events EXCEPT ![r] = Append(@, e)]

Send(r, e) ==
    /\ Len(events[r]) < EventCap
    /\ events' = [events EXCEPT ![r] = Append(@, e)]

-----------------------------------------------------------------------------
(* chat: acceptance and route *)

\* Router::chat is called with a request, a token the client was shown, and a
\* cancellation token that may be cancelled already.
Submit(r, stopped) ==
    /\ pc[r] = "idle"
    /\ r \in env.requests
    /\ \E c \in env.chats :
          /\ chat' = [chat EXCEPT ![r] = c]
          /\ \/ UNCHANGED token
             \/ /\ c.policy = "ask_before_remote"
                /\ \E t \in DOMAIN shown : token' = [token EXCEPT ![r] = {t}]
    /\ cancelled' = [cancelled EXCEPT ![r] = stopped]
    /\ Go(r, "validate")
    /\ UNCHANGED <<env, route, lastError, reason, basis, agentVars, events, shared>>

\* validate_chat.
Validate(r) ==
    /\ pc[r] = "validate"
    /\ IF chat[r].valid
       THEN Send(r, <<"accepted">>) /\ Go(r, "queue")
       ELSE Send(r, <<"error">>) /\ Go(r, "done")
    /\ UNCHANGED <<env, chat, token, route, lastError, reason, cancelled, basis, agentVars, shared>>

Queue(r) ==
    /\ pc[r] = "queue"
    /\ Send(r, <<"move", "received", "queued">>)
    /\ Go(r, "route")
    /\ UNCHANGED <<env, chat, token, route, lastError, reason, cancelled, basis, agentVars, shared>>

\* The remote provider build_route considers, or "none": a request that names one that
\* is not registered has none, even where the settings prefer one that is.
RemoteOf(c, s) ==
    LET name == IF c.provider # "none" THEN c.provider ELSE PreferredIn[s]
    IN  IF name \in Remotes THEN name ELSE "none"

\* Mutant of MayLeave: the sensitivity is not looked at.
MayLeaveSensitive(c, s) == Eligible(c.payload, EligibleIn[s])

\* Persistent eligibility: the prompt's sensitivity and the settings' categories.
MayLeave(c, s) == ~c.sensitive /\ Eligible(c.payload, EligibleIn[s])

LocalRoute == IF env.local THEN <<"local">> ELSE <<>>

\* build_route for the three policies that need no consent: the candidates and
\* whether a fallback reason is known from the start.
Plan(c, s) ==
    LET v == RemoteOf(c, s)
        remote == IF v # "none" /\ MayLeave(c, s) THEN <<v>> ELSE <<>>
    IN  CASE c.policy = "local_only" -> [route |-> LocalRoute, reason |-> FALSE]
          [] c.policy = "local_preferred" ->
                [route |-> LocalRoute \o remote, reason |-> v # "none" /\ c.sensitive]
          [] c.policy = "remote_preferred" ->
                [route |-> remote \o LocalRoute, reason |-> remote = <<>>]

\* settings.get and build_route: ASK_BEFORE_REMOTE spends the consent, whether
\* or not the provider then answers.
Route(r) ==
    LET c == chat[r]
        v == RemoteOf(c, mem)
    IN  /\ pc[r] = "route"
        /\ Unlocked
        /\ \/ /\ c.policy # "ask_before_remote"
              /\ route' = [route EXCEPT ![r] = Plan(c, mem).route]
              /\ reason' = [reason EXCEPT ![r] = Plan(c, mem).reason]
              /\ basis' = [basis EXCEPT ![r].eligible = EligibleIn[mem]]
              /\ Go(r, "next")
              /\ UNCHANGED consentVars
           \/ /\ c.policy = "ask_before_remote"
              /\ v = "none" \/ ~Sanitizes(c.payload) \/ token[r] = {}
              /\ Go(r, "error")
              /\ UNCHANGED <<route, reason, basis, consentVars>>
           \/ /\ c.policy = "ask_before_remote"
              /\ v # "none" /\ Sanitizes(c.payload)
              /\ \E t \in token[r] :
                    /\ Consume(t, v, c.payload)
                    /\ IF Accepts(t, v, c.payload)
                       THEN /\ route' = [route EXCEPT ![r] = <<v>> \o LocalRoute]
                            /\ basis' = [basis EXCEPT ![r].token = {t}]
                            /\ Go(r, "next")
                       ELSE Go(r, "error") /\ UNCHANGED <<route, basis>>
              /\ UNCHANGED reason
    /\ UNCHANGED <<env, chat, token, lastError, cancelled, agentVars, events, now, breakerVars,
                   settingsVars>>

-----------------------------------------------------------------------------
(* chat: the candidates *)

Cand(r) == Head(route[r])
IsRemote(v) == v # "local"

\* A candidate is given up without an answer.
Skip(r) ==
    /\ route' = [route EXCEPT ![r] = Tail(@)]
    /\ lastError' = [lastError EXCEPT ![r] = TRUE]
    /\ reason' = [reason EXCEPT ![r] = TRUE]

\* The head of the loop over the candidates, up to its first await.
NextCandidate(r) ==
    /\ pc[r] = "next"
    /\ \/ /\ route[r] = <<>>
          /\ Go(r, "error")
          /\ UNCHANGED <<route, lastError, reason, breakerVars>>
       \/ /\ route[r] # <<>> /\ cancelled[r]
          /\ Go(r, "cancel")
          /\ UNCHANGED <<route, lastError, reason, breakerVars>>
       \/ /\ route[r] # <<>> /\ ~cancelled[r] /\ ~IsRemote(Cand(r))
          /\ Go(r, "announce")
          /\ UNCHANGED <<route, lastError, reason, breakerVars>>
       \/ /\ route[r] # <<>> /\ ~cancelled[r] /\ IsRemote(Cand(r))
          /\ Allow(Cand(r))
          /\ IF Blocks(Cand(r))
             THEN Skip(r) /\ UNCHANGED pc
             ELSE Go(r, "probe") /\ UNCHANGED <<route, lastError, reason>>
    /\ UNCHANGED <<env, chat, token, cancelled, basis, agentVars, events, now, consentVars,
                   settingsVars>>

\* The remote provider's health, asked before it is used.
Probe(r) ==
    /\ pc[r] = "probe"
    /\ \/ Go(r, "announce") /\ UNCHANGED <<route, lastError, reason, breakerVars>>
       \/ Failure(Cand(r)) /\ Skip(r) /\ Go(r, "next")
    /\ UNCHANGED <<env, chat, token, cancelled, basis, agentVars, events, now, consentVars,
                   settingsVars>>

\* The status transitions announced before an answer: none for a remote
\* candidate that follows a failed local one.
Announce(r) ==
    /\ pc[r] = "announce"
    /\ \/ /\ lastError[r] /\ IsRemote(Cand(r))
          /\ Go(r, "start")
          /\ UNCHANGED events
       \/ /\ lastError[r] /\ ~IsRemote(Cand(r))
          /\ Send(r, <<"move", "running_remote", "fallback_to_local">>)
          /\ Go(r, "fall")
       \/ /\ ~lastError[r]
          /\ Send(r, <<"move", "queued", IF IsRemote(Cand(r)) THEN "running_remote"
                                                           ELSE "running_local">>)
          /\ Go(r, "start")
    /\ UNCHANGED <<env, chat, token, route, lastError, reason, cancelled, basis, agentVars, shared>>

Fall(r) ==
    /\ pc[r] = "fall"
    /\ Send(r, <<"move", "fallback_to_local", "running_local">>)
    /\ Go(r, "start")
    /\ UNCHANGED <<env, chat, token, route, lastError, reason, cancelled, basis, agentVars, shared>>

\* The provider's health is asked (again), AnswerStarted is sent, and the
\* agent loop is entered with no call seen.  The wait for the health, which
\* nothing bounds, is part of the wait for this step.
Start(r) ==
    /\ pc[r] = "start"
    /\ Send(r, <<"start", Cand(r), reason[r]>>)
    /\ Go(r, "round")
    /\ round' = [round EXCEPT ![r] = 0]
    /\ seen' = [seen EXCEPT ![r] = {}]
    /\ streamed' = [streamed EXCEPT ![r] = 0]
    /\ UNCHANGED <<env, chat, token, route, lastError, reason, cancelled, basis, task, chunks,
                   calls, shared>>

-----------------------------------------------------------------------------
(* run_agent_loop *)

\* A round: the provider's chat is spawned as a task of its own.
BeginRound(r) ==
    /\ pc[r] = "round"
    /\ IF round[r] = MaxRounds
       THEN /\ task' = [task EXCEPT ![r] = "error"]
            /\ Go(r, "fail")
            /\ UNCHANGED round
       ELSE /\ task' = [task EXCEPT ![r] = "running"]
            /\ round' = [round EXCEPT ![r] = @ + 1]
            /\ Go(r, "stream")
    /\ chunks' = [chunks EXCEPT ![r] = <<>>]
    /\ UNCHANGED <<env, chat, token, route, lastError, reason, cancelled, basis, streamed, calls,
                   seen, events, shared>>

\* The task hands a chunk over: LocalBrokerProvider::chat for the local
\* broker's Queued, Progress and Delta events, or a remote provider.
Chunk(r) ==
    /\ "chunks" \in env.inputs
    /\ task[r] = "running"
    /\ Len(chunks[r]) < ChunkCap
    /\ streamed[r] < MaxChunks
    /\ \E c \in {"progress", "delta"} : chunks' = [chunks EXCEPT ![r] = Append(@, c)]
    /\ streamed' = [streamed EXCEPT ![r] = @ + 1]
    /\ UNCHANGED <<chatVars, task, round, calls, seen, events, shared>>

\* The task ends: a complete answer, tool calls, an error, a timeout, or
\* Cancelled, which the local broker also reports when it is shutting down.
Answer(r) ==
    /\ task[r] = "running"
    /\ \/ /\ \E a \in {"answer", "error", "cancelled"} : task' = [task EXCEPT ![r] = a]
          /\ calls' = [calls EXCEPT ![r] = <<>>]
       \/ /\ "calls" \in env.inputs
          /\ task' = [task EXCEPT ![r] = "calls"]
          /\ \E c \in Calls : calls' = [calls EXCEPT ![r] = c]
    /\ UNCHANGED <<chatVars, chunks, streamed, round, seen, events, shared>>

\* The select of one round.  Cancellation aborts the task; an ended task may be
\* noticed before the chunks it left, and on an error they are dropped.  A chunk
\* is taken when it can be sent on: the code takes it first and waits in the
\* branch, and a cancellation in that wait is seen in the next round of select.
Select(r) ==
    /\ pc[r] = "stream"
    /\ \/ /\ cancelled[r]
          /\ task' = [task EXCEPT ![r] = "cancelled"]
          /\ Go(r, "fail")
          /\ UNCHANGED <<chunks, events>>
       \/ /\ chunks[r] # <<>>
          /\ Send(r, <<Head(chunks[r])>>)
          /\ chunks' = [chunks EXCEPT ![r] = Tail(@)]
          /\ UNCHANGED <<pc, task>>
       \/ /\ task[r] # "running"
          /\ Go(r, IF task[r] \in {"answer", "calls"} THEN "drain" ELSE "fail")
          /\ UNCHANGED <<task, chunks, events>>
    /\ UNCHANGED <<env, chat, token, route, lastError, reason, cancelled, basis, streamed, round,
                   calls, seen, shared>>

\* Chunks left behind an answer: only text is still delivered.  An answer
\* without tool calls ends the loop, and is the provider's success.
Drain(r) ==
    /\ pc[r] = "drain"
    /\ \/ /\ chunks[r] # <<>>
          /\ IF Head(chunks[r]) = "delta" THEN Send(r, <<"delta">>) ELSE UNCHANGED events
          /\ chunks' = [chunks EXCEPT ![r] = Tail(@)]
          /\ UNCHANGED <<pc, breakerVars>>
       \/ /\ chunks[r] = <<>> /\ task[r] = "calls"
          /\ Go(r, "tools")
          /\ UNCHANGED <<chunks, events, breakerVars>>
       \/ /\ chunks[r] = <<>> /\ task[r] = "answer"
          /\ IF IsRemote(Cand(r)) THEN Success(Cand(r)) ELSE UNCHANGED breakerVars
          /\ Go(r, "finish")
          /\ UNCHANGED <<chunks, events>>
    /\ UNCHANGED <<env, chat, token, route, lastError, reason, cancelled, basis, task, streamed,
                   round, calls, seen, now, consentVars, settingsVars>>

\* One call of the round.  Definitions are given to a local model only, so a
\* remote one names no tool that exists.  validate_and_invoke refuses an id it
\* has seen, an unknown tool, bad arguments and private paths.
Defined(r) == ~IsRemote(Cand(r))

NextCall(r) ==
    /\ pc[r] = "tools"
    /\ IF calls[r] = <<>>
       THEN Go(r, "round") /\ UNCHANGED <<calls, seen>>
       ELSE LET c == Head(calls[r])
            IN  \/ /\ Defined(r) /\ c[2] = "propose"
                   /\ Go(r, "propose")
                   /\ UNCHANGED <<calls, seen>>
                \/ /\ ~(Defined(r) /\ c[2] = "propose")
                   /\ seen' = [seen EXCEPT ![r] = @ \cup {c[1]}]
                   /\ IF c[1] \notin seen[r] /\ Defined(r) /\ c[2] = "read"
                      THEN Go(r, "invoke") /\ UNCHANGED calls
                      ELSE calls' = [calls EXCEPT ![r] = Tail(@)] /\ UNCHANGED pc
    /\ UNCHANGED <<env, chat, token, route, lastError, reason, cancelled, basis, task, chunks,
                   streamed, round, events, shared>>

\* invoke_read_only: a result, or an error (the socket, a timeout, cancellation,
\* an answer to something else), which only the model is told of.
Invoke(r) ==
    /\ pc[r] = "invoke"
    /\ \/ Go(r, "used") /\ UNCHANGED calls
       \/ Go(r, "tools") /\ calls' = [calls EXCEPT ![r] = Tail(@)]
    /\ UNCHANGED <<env, chat, token, route, lastError, reason, cancelled, basis, task, chunks,
                   streamed, round, seen, events, shared>>

Report(r) ==
    /\ pc[r] \in {"used", "propose"}
    /\ Send(r, <<IF pc[r] = "used" THEN "tool" ELSE "proposal">>)
    /\ calls' = [calls EXCEPT ![r] = Tail(@)]
    /\ Go(r, "tools")
    /\ UNCHANGED <<env, chat, token, route, lastError, reason, cancelled, basis, task, chunks,
                   streamed, round, seen, shared>>

-----------------------------------------------------------------------------
(* chat: outcomes *)

Finish(r) ==
    /\ pc[r] = "finish"
    /\ Send(r, <<"complete">>)
    /\ Go(r, "done")
    /\ UNCHANGED <<env, chat, token, route, lastError, reason, cancelled, basis, agentVars, shared>>

\* An answer that ended in an error: the provider's failure is counted even when
\* the user cancelled.
Fail(r) ==
    /\ pc[r] = "fail"
    /\ Send(r, <<"incomplete">>)
    /\ IF IsRemote(Cand(r)) THEN Failure(Cand(r)) ELSE UNCHANGED breakerVars
    /\ IF task[r] = "cancelled"
       THEN Go(r, "cancel") /\ UNCHANGED <<route, lastError, reason>>
       ELSE Go(r, "fallback") /\ Skip(r)
    /\ UNCHANGED <<env, chat, token, cancelled, basis, agentVars, now, consentVars, settingsVars>>

FallBack(r) ==
    /\ pc[r] = "fallback"
    /\ Send(r, <<"progress">>)
    /\ Go(r, "next")
    /\ UNCHANGED <<env, chat, token, route, lastError, reason, cancelled, basis, agentVars, shared>>

\* Mutant of SendError: a cancelled request sends no Done.
SendErrorOnly(r) ==
    /\ pc[r] \in {"error", "cancel"}
    /\ Send(r, <<IF pc[r] = "error" THEN "error" ELSE "cancelled">>)
    /\ Go(r, IF pc[r] = "error" THEN "done" ELSE "end")
    /\ UNCHANGED <<env, chat, token, route, lastError, reason, cancelled, basis, agentVars, shared>>

\* The error of a refused route or of the last candidate, or of a cancellation.
SendError(r) ==
    /\ pc[r] \in {"error", "cancel"}
    /\ Send(r, <<IF pc[r] = "error" THEN "error" ELSE "cancelled">>)
    /\ Go(r, "done")
    /\ UNCHANGED <<env, chat, token, route, lastError, reason, cancelled, basis, agentVars, shared>>

SendDone(r) ==
    /\ pc[r] = "done"
    /\ Send(r, <<"done">>)
    /\ Go(r, "end")
    /\ UNCHANGED <<env, chat, token, route, lastError, reason, cancelled, basis, agentVars, shared>>

Chat(r) ==
    \/ Validate(r) \/ Queue(r) \/ Route(r) \/ NextCandidate(r) \/ Probe(r) \/ Announce(r)
    \/ Fall(r) \/ Start(r) \/ BeginRound(r) \/ Select(r) \/ Drain(r) \/ NextCall(r)
    \/ Invoke(r) \/ Report(r) \/ Finish(r) \/ Fail(r) \/ FallBack(r) \/ SendError(r)
    \/ SendDone(r)

-----------------------------------------------------------------------------
(* The other requests, the receiver, and the process *)

\* process_request takes the next event.
Receive(r) ==
    /\ events[r] # <<>>
    /\ events' = [events EXCEPT ![r] = Tail(@)]
    /\ UNCHANGED <<chatVars, agentVars, shared>>

Cancel(r) ==
    /\ "cancel" \in env.inputs
    /\ pc[r] \notin {"idle", "end"} /\ ~cancelled[r]
    /\ cancelled' = [cancelled EXCEPT ![r] = TRUE]
    /\ UNCHANGED <<env, pc, chat, token, route, lastError, reason, basis, agentVars, events,
                   shared>>

\* Router::consent_preview, of a payload that can be minimized.
ConsentPreview(v, p) ==
    /\ "preview" \in env.inputs
    /\ Sanitizes(p)
    /\ Cardinality(DOMAIN shown) < MaxShown /\ Count(shown, PreviewToken(v, p)) < MaxShown
    /\ Preview(v, p)
    /\ UNCHANGED <<now, breakerVars, settingsVars, routerVars>>

\* Router::status looks at each circuit through `allow`, which may reset it.
Status(v) ==
    /\ "status" \in env.inputs
    /\ Allow(v)
    /\ UNCHANGED <<now, consentVars, settingsVars, routerVars>>

SettingsUpdate(s) ==
    /\ "update" \in env.inputs
    /\ UpdateBegin(s)
    /\ UNCHANGED <<now, consentVars, breakerVars, routerVars>>

Save ==
    /\ UpdateWrite \/ UpdateRename \/ UpdateFinish
    /\ UNCHANGED <<now, consentVars, breakerVars, routerVars>>

Tick ==
    /\ "tick" \in env.inputs
    /\ now < MaxTime
    /\ now' = now + 1
    /\ UNCHANGED <<consentVars, breakerVars, settingsVars, routerVars>>

\* The process dies and is started again: requests, consents, breakers and the
\* lock are gone, what is on disk is not.
Restart ==
    /\ "crash" \in env.inputs
    /\ boot < MaxBoots
    /\ Load
    /\ ForgetConsents
    /\ ResetBreakers
    /\ pc' = [r \in Requests |-> IF pc[r] = "idle" THEN "idle" ELSE "end"]
    /\ events' = [r \in Requests |-> <<>>]
    /\ task' = [r \in Requests |-> "none"]
    /\ UNCHANGED <<env, now, chat, token, route, lastError, reason, cancelled, basis, chunks,
                   streamed, round, calls, seen>>

Provider(r) == Chunk(r) \/ Answer(r)

Next ==
    \/ \E r \in Requests : Submit(r, FALSE) \/ Chat(r) \/ Provider(r) \/ Receive(r) \/ Cancel(r)
    \/ \E v \in Remotes, p \in Payloads : ConsentPreview(v, p)
    \/ \E v \in Remotes : Status(v)
    \/ \E s \in Settings : SettingsUpdate(s)
    \/ Save
    \/ Tick
    \/ Restart

\* Tasks that can run are run; a provider answers or times out; a save goes on.
\* Nothing makes a client submit or cancel.
Fairness ==
    /\ \A r \in Requests : WF_vars(Chat(r)) /\ WF_vars(Answer(r)) /\ WF_vars(Receive(r))
    /\ WF_vars(Save)

Spec == Init /\ [][Next]_vars /\ Fairness

-----------------------------------------------------------------------------
(* Properties *)

TypeOK ==
    /\ ConsentTypeOK /\ BreakersTypeOK /\ SettingsTypeOK
    /\ pc \in [Requests -> Steps]
    /\ env \in Scenarios
    /\ chat \in [Requests -> env.chats]
    /\ token \in [Requests -> SUBSET DOMAIN shown]
    /\ route \in [Requests -> Seq(Remotes \cup {"local"})]
    /\ lastError \in [Requests -> BOOLEAN] /\ reason \in [Requests -> BOOLEAN]
    /\ cancelled \in [Requests -> BOOLEAN]
    /\ events \in [Requests -> Seq(Events)]
    /\ \A r \in Requests : Len(events[r]) <= EventCap /\ Len(chunks[r]) <= ChunkCap
    /\ task \in [Requests -> Answers]
    /\ chunks \in [Requests -> Seq({"progress", "delta"})]
    /\ streamed \in [Requests -> 0..MaxChunks]
    /\ round \in [Requests -> 0..MaxRounds]
    /\ calls \in [Requests -> Seq(CallIds \X CallKinds)]
    /\ seen \in [Requests -> SUBSET CallIds]
    /\ basis \in [Requests -> [eligible : SUBSET UNION {CategoriesOf[p] : p \in Payloads},
                              token : SUBSET DOMAIN spent]]

\* A request whose payload is with a provider, or about to be.
AtProvider(r) == pc[r] \in {"start", "round", "stream", "drain", "tools", "invoke", "used",
                            "propose"}

\* What reaches a remote provider was eligible under the settings its route was
\* built from and is not sensitive, or was let out by a consent for exactly this
\* provider and payload, which no more requests have used than previews gave it.
\* The settings, the breakers and the consents may have changed since.
RemoteJustified ==
    /\ \A r \in Requests : AtProvider(r) /\ IsRemote(Cand(r)) =>
          LET c == chat[r] IN
          \/ /\ c.policy \in {"local_preferred", "remote_preferred"}
             /\ ~c.sensitive /\ CategoriesOf[c.payload] \subseteq basis[r].eligible
          \/ \E t \in basis[r].token : t.provider = Cand(r) /\ t.payload = c.payload
    /\ \A t \in DOMAIN spent :
          Cardinality({r \in Requests : t \in basis[r].token}) <= Count(spent, t)
=============================================================================
