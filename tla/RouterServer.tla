---------------------------- MODULE RouterServer ----------------------------
(***************************************************************************)
(* The router's socket server (crates/sentia-router/src/server.rs) over    *)
(* Router, and the command line client at its other end                    *)
(* (crates/sentia-client/src/main.rs).                                     *)
(*                                                                         *)
(* A connection is a read loop, a writer task, and for each active request *)
(* a process_request task that turns the router's internal events into     *)
(* frames (StreamState) while the router's own task produces them.  The    *)
(* loop, the writer and the streams meet in the bounded frame channel.     *)
(***************************************************************************)
EXTENDS Router

CONSTANTS
    FrameCap,       \* 128 frames
    MaxInflight     \* max_inflight_per_connection

ASSUME ServerAssumption ==
    /\ FrameCap \in Nat \ {0}
    /\ MaxInflight \in Nat \ {0}
    /\ \A e \in Scenarios : e.kinds \subseteq {"chat", "status", "get", "preview", "update",
                                                "bad", "invalid"}

VARIABLES
    down,       \* the process's shutdown token
    peer,       \* the client: "up", "eof" (sends no more) or "gone"
    asked,      \* frames the client sent that the read loop has not read
    reader,     \* where the read loop is
    reply,      \* the frame the read loop is sending
    stop,       \* the connection's shutdown token
    frames,     \* the frame channel
    writer,     \* the writer: <<"recv">>, <<"done">> or the frame it is writing
    active,     \* the map of active requests
    kind,       \* what a request is: "chat", a control, "bad" (undecodable), or
                \* "invalid" (refused as it is: also one whose id is active)
    ctl,        \* where the task of a control request is
    proc,       \* where process_request is
    stream,     \* its StreamState
    outbox,     \* frames the current event still has to send
    got         \* what the client has seen of each stream

connVars == <<down, peer, asked, reader, reply, stop, frames, writer>>
streamVars == <<active, kind, ctl, proc, stream, outbox, got>>
serverVars == <<connVars, streamVars>>
allVars == <<vars, serverVars>>

NewStream == [seq |-> 0, status |-> "received", text |-> 0, completed |-> FALSE,
              error |-> FALSE, cancelled |-> FALSE]
Unseen == [seq |-> 0, text |-> 0, result |-> "none", payload |-> 0, sent |-> FALSE,
           interrupted |-> FALSE]

ServerInit ==
    /\ Init
    /\ down = FALSE
    /\ peer = "up"
    /\ asked = <<>>
    /\ reader = "read"
    /\ reply = <<>>
    /\ stop = FALSE
    /\ frames = <<>>
    /\ writer = <<"recv">>
    /\ active = {}
    /\ kind = [r \in Requests |-> "chat"]
    /\ ctl = [r \in Requests |-> "none"]
    /\ proc = [r \in Requests |-> "none"]
    /\ stream = [r \in Requests |-> NewStream]
    /\ outbox = [r \in Requests |-> <<>>]
    /\ got = [r \in Requests |-> Unseen]

\* The receiver is gone once the writer has left: a send then fails at once.
Open == writer # <<"done">>
SendFrame(f) ==
    IF Open THEN Len(frames) < FrameCap /\ frames' = Append(frames, f) ELSE UNCHANGED frames

\* Cancelling the connection's token cancels the requests' tokens under it.
StopAll ==
    /\ stop' = TRUE
    /\ cancelled' = [r \in Requests |-> cancelled[r] \/ r \in active]
    /\ UNCHANGED <<env, pc, chat, token, route, lastError, reason, basis, agentVars, events,
                   shared>>

-----------------------------------------------------------------------------
(* The client *)

\* exchange: connect and write the request.
ClientSend(r) ==
    /\ peer = "up"
    /\ r \in env.requests
    /\ ~got[r].sent
    /\ got' = [got EXCEPT ![r].sent = TRUE]
    /\ asked' = Append(asked, <<"request", r>>)
    /\ \E k \in env.kinds : kind' = [kind EXCEPT ![r] = k]
    /\ UNCHANGED <<vars, down, peer, reader, reply, stop, frames, writer, active, ctl, proc,
                   stream, outbox>>

\* Ctrl-C: the first one sends a Cancel, the rest change nothing.
Interrupt(r) ==
    /\ "cancel" \in env.inputs
    /\ peer = "up"
    /\ got[r].sent /\ got[r].result = "none" /\ ~got[r].interrupted
    /\ asked' = Append(asked, <<"cancel", r>>)
    /\ got' = [got EXCEPT ![r].interrupted = TRUE]
    /\ UNCHANGED <<vars, down, peer, reader, reply, stop, frames, writer, active, kind,
                   ctl, proc, stream, outbox>>

\* The client ends, or another client of the protocol half-closes.
ClientLeave ==
    /\ \/ "eof" \in env.inputs /\ peer = "up" /\ peer' = "eof"
       \/ "gone" \in env.inputs /\ peer \in {"up", "eof"} /\ peer' = "gone"
    /\ UNCHANGED <<vars, down, asked, reader, reply, stop, frames, writer, streamVars>>

Terminate ==
    /\ "sigterm" \in env.inputs
    /\ ~down
    /\ down' = TRUE
    /\ StopAll
    /\ UNCHANGED <<peer, asked, reader, reply, frames, writer, streamVars>>

-----------------------------------------------------------------------------
(* handle_connection *)

\* The read loop takes a frame: a request is refused, or becomes active and its
\* task is spawned; a Cancel reaches the token of an active request.
ReadRequest(r) ==
    /\ reader = "read"
    /\ asked # <<>> /\ Head(asked) = <<"request", r>>
    /\ asked' = Tail(asked)
    /\ \/ /\ kind[r] = "invalid" \/ Cardinality(active) >= MaxInflight
          /\ reply' = <<"refused", r>>
          /\ reader' = "reply"
          /\ UNCHANGED <<active, ctl, proc, vars>>
       \/ /\ kind[r] # "invalid" /\ Cardinality(active) < MaxInflight
          /\ active' = active \cup {r}
          /\ proc' = [proc EXCEPT ![r] = "stream"]
          /\ \/ kind[r] = "chat" /\ Submit(r, stop) /\ UNCHANGED ctl
             \/ kind[r] # "chat" /\ ctl' = [ctl EXCEPT ![r] = "run"] /\ UNCHANGED vars
          /\ UNCHANGED <<reply, reader>>
    /\ UNCHANGED <<down, peer, stop, frames, writer, kind, stream, outbox, got>>

ReadCancel(r) ==
    /\ reader = "read"
    /\ asked # <<>> /\ Head(asked) = <<"cancel", r>>
    /\ asked' = Tail(asked)
    /\ reply' = <<"ack", r, r \in active>>
    /\ reader' = "reply"
    /\ cancelled' = IF r \in active THEN [cancelled EXCEPT ![r] = TRUE] ELSE cancelled
    /\ UNCHANGED <<env, pc, chat, token, route, lastError, reason, basis, agentVars, events,
                   shared, down, peer, stop, frames, writer, streamVars>>

SendReply ==
    /\ reader = "reply"
    /\ SendFrame(reply)
    /\ reader' = "read"
    /\ UNCHANGED <<vars, down, peer, asked, reply, stop, writer, streamVars>>

\* End of input, an error, or shutdown: every request is cancelled, the tasks
\* are joined, and then the writer, which has stopped already, dropping what
\* is queued.
Leave ==
    /\ reader = "read"
    /\ stop \/ (asked = <<>> /\ peer # "up")
    /\ reader' = "join"
    /\ StopAll
    /\ UNCHANGED <<down, peer, asked, reply, frames, writer, streamVars>>

Join ==
    /\ \/ /\ reader = "join" /\ reader' = "flush"
          /\ \A r \in Requests : proc[r] \in {"none", "gone"}
       \/ reader = "flush" /\ ~Open /\ reader' = "closed"
    /\ UNCHANGED <<vars, down, peer, asked, reply, stop, frames, writer, streamVars>>

\* What a frame tells the client: an event's number and, for the start of an
\* answer and for text, what is on the screen; or the result.
Seen(g, f) ==
    CASE f[1] = "event" ->
            [g EXCEPT !.seq = f[3], !.text = IF f[5] = "start" THEN 0
                                             ELSE IF f[5] = "delta" THEN @ + 1 ELSE @]
      [] f[1] = "result" -> [g EXCEPT !.result = f[3], !.payload = f[4]]
      [] OTHER -> g

\* The writer: shutdown, or the next frame.
Write ==
    /\ \/ /\ writer = <<"recv">> /\ frames # <<>>
          /\ writer' = Head(frames)
          /\ frames' = Tail(frames)
          /\ UNCHANGED got
       \/ /\ writer = <<"recv">> /\ stop
          /\ writer' = <<"done">>
          /\ frames' = <<>>
          /\ UNCHANGED got
       \/ /\ writer \notin {<<"recv">>, <<"done">>} /\ peer = "gone"
          /\ writer' = <<"done">>
          /\ frames' = <<>>
          /\ UNCHANGED got
       \/ /\ writer \notin {<<"recv">>, <<"done">>} /\ peer # "gone"
          /\ writer' = <<"recv">>
          /\ got' = [got EXCEPT ![writer[2]] = Seen(@, writer)]
          /\ UNCHANGED frames
    /\ UNCHANGED <<vars, down, peer, asked, reader, reply, stop, active, kind, ctl,
                   proc, stream, outbox>>

-----------------------------------------------------------------------------
(* process_request: the router's task *)

ctlRest == <<env, pc, chat, token, route, lastError, reason, cancelled, basis, agentVars>>
Ctl(r, next) == ctl' = [ctl EXCEPT ![r] = next]

\* A control request, or one that cannot be decoded: one event.  An update that
\* got as far as its temporary file answers when the file is saved.  Status asks the
\* breakers of all remotes, with an await before each; here of one, whichever it is.
ControlRun(r) ==
    /\ ctl[r] = "run"
    /\ Len(events[r]) < EventCap
    /\ \/ /\ kind[r] = "bad"
          /\ Send(r, <<"error">>) /\ Ctl(r, "done")
          /\ UNCHANGED shared
       \/ /\ kind[r] = "status"
          /\ Send(r, <<"control">>) /\ Ctl(r, "done")
          /\ \E v \in Remotes : Allow(v)
          /\ UNCHANGED <<consentVars, settingsVars, now>>
       \/ /\ kind[r] = "get" /\ Unlocked
          /\ Send(r, <<"control">>) /\ Ctl(r, "done")
          /\ UNCHANGED shared
       \/ /\ kind[r] = "preview"
          /\ \E v \in Remotes, p \in Payloads :
                IF Sanitizes(p) THEN Preview(v, p) /\ Send(r, <<"control">>)
                                ELSE Send(r, <<"error">>) /\ UNCHANGED consentVars
          /\ Ctl(r, "done")
          /\ UNCHANGED <<breakerVars, settingsVars, now>>
       \/ /\ kind[r] = "update"
          /\ \E s \in Settings : UpdateBegin(s)
          /\ IF saving' = "none" THEN Send(r, <<"error">>) /\ Ctl(r, "done")
                                 ELSE Ctl(r, "saving") /\ UNCHANGED events
          /\ UNCHANGED <<consentVars, breakerVars, now>>
    /\ UNCHANGED <<ctlRest, connVars, active, kind, proc, stream, outbox, got>>

ControlSave(r) ==
    /\ ctl[r] = "saving"
    /\ UpdateWrite \/ UpdateRename \/ UpdateFinish
    /\ IF saving' = "none"
       THEN /\ Send(r, <<IF step = "chmod" /\ tried' = {} THEN "control" ELSE "error">>)
            /\ Ctl(r, "done")
       ELSE UNCHANGED <<events, ctl>>
    /\ UNCHANGED <<ctlRest, consentVars, breakerVars, now, connVars, active, kind, proc,
                   stream, outbox, got>>

ControlDone(r) ==
    /\ ctl[r] = "done"
    /\ Send(r, <<"done">>)
    /\ Ctl(r, "end")
    /\ UNCHANGED <<ctlRest, shared, connVars, active, kind, proc, stream, outbox, got>>

-----------------------------------------------------------------------------
(* process_request: the stream *)

Event(r, s, payload) == <<"event", r, s.seq + 1, s.status, payload>>

\* Mutant of Counted: events are not numbered.
Uncounted(s) == s

Counted(s) == [s EXCEPT !.seq = @ + 1]

\* Mutant of AnswerText: a fallback keeps the text of the answer before it.
AnswerTextKept(s, fallback) == s.text

\* current_answer when an answer starts.
AnswerText(s, fallback) == IF fallback THEN 0 ELSE s.text

\* StreamState::result: the answer's text, when there is an answer.  The cut at 256 KiB
\* is left out: the text is counted in chunks.
Result(r, s, final) == <<"result", r, final, IF final = "completed" THEN s.text ELSE 0>>

\* StreamState::handle: the state after an event, and the frames it sends.
Handled(r, s, e) ==
    CASE e[1] = "move" ->
            LET t == [s EXCEPT !.status = e[3]]
            IN  [state |-> Counted(t), frames |-> <<Event(r, t, "move")>>]
      [] e[1] = "start" ->
            LET t == [s EXCEPT !.text = AnswerText(s, e[3]),
                               !.status = IF e[2] = "local" THEN "running_local"
                                                            ELSE "running_remote"]
            IN  [state |-> Counted(t), frames |-> <<Event(r, t, "start")>>]
      [] e[1] = "delta" ->
            LET t == [s EXCEPT !.text = @ + 1]
            IN  [state |-> Counted(t), frames |-> <<Event(r, t, "delta")>>]
      [] e[1] \in {"progress", "tool", "proposal"} ->
            [state |-> Counted(s), frames |-> <<Event(r, s, "progress")>>]
      [] e[1] \in {"complete", "control"} ->
            [state |-> [s EXCEPT !.completed = TRUE], frames |-> <<>>]
      [] e[1] \in {"error", "cancelled"} ->
            [state |-> [s EXCEPT !.error = TRUE, !.cancelled = e[1] = "cancelled"],
             frames |-> <<<<"error", r>>>>]
      [] e[1] = "done" ->
            LET final == IF s.cancelled THEN "cancelled"
                         ELSE IF s.error \/ ~s.completed THEN "failed" ELSE "completed"
            IN  [state |-> Counted(s),
                 frames |-> <<Event(r, [s EXCEPT !.status = final], "terminal"),
                              Result(r, s, final)>>]
      [] OTHER -> [state |-> s, frames |-> <<>>]

HandleEvent(r) ==
    /\ proc[r] = "stream" /\ outbox[r] = <<>>
    /\ events[r] # <<>>
    /\ LET h == Handled(r, stream[r], Head(events[r]))
       IN  /\ stream' = [stream EXCEPT ![r] = h.state]
           /\ outbox' = [outbox EXCEPT ![r] = h.frames]
    /\ events' = [events EXCEPT ![r] = Tail(@)]
    /\ UNCHANGED <<chatVars, agentVars, shared, connVars, active, kind, ctl, proc, got>>

Emit(r) ==
    /\ outbox[r] # <<>>
    /\ SendFrame(Head(outbox[r]))
    /\ outbox' = [outbox EXCEPT ![r] = Tail(@)]
    /\ UNCHANGED <<vars, down, peer, asked, reader, reply, stop, writer, active, kind, ctl,
                   proc, stream, got>>

\* The internal channel is closed once the router's task has ended; the request
\* leaves the map and gives its permit back.
EndStream(r) ==
    /\ proc[r] = "stream" /\ outbox[r] = <<>> /\ events[r] = <<>>
    /\ pc[r] = "end" \/ ctl[r] = "end"
    /\ proc' = [proc EXCEPT ![r] = "gone"]
    /\ active' = active \ {r}
    /\ UNCHANGED <<vars, connVars, kind, ctl, stream, outbox, got>>

-----------------------------------------------------------------------------
Router_(r) == Chat(r) /\ UNCHANGED serverVars
Provider_(r) == Provider(r) /\ UNCHANGED serverVars
Answer_(r) == Answer(r) /\ UNCHANGED serverVars
Control(r) == ControlRun(r) \/ ControlSave(r) \/ ControlDone(r)
Stream(r) == HandleEvent(r) \/ Emit(r) \/ EndStream(r)
Read == (\E r \in Requests : ReadRequest(r) \/ ReadCancel(r)) \/ SendReply \/ Leave \/ Join

ServerNext ==
    \/ \E r \in Requests :
          \/ ClientSend(r) \/ Interrupt(r)
          \/ Router_(r) \/ Provider_(r) \/ Control(r) \/ Stream(r)
    \/ Read
    \/ Write
    \/ ClientLeave
    \/ Terminate

\* Tasks that can run are run, a provider answers or times out, and the client
\* reads what is written.  Nothing makes a client send, interrupt or leave.
ServerFairness ==
    /\ \A r \in Requests : /\ WF_allVars(Router_(r) \/ Control(r))
                           /\ WF_allVars(Answer_(r))
                           /\ WF_allVars(Stream(r))
    /\ WF_allVars(Read)
    /\ WF_allVars(Write)

ServerSpec == ServerInit /\ [][ServerNext]_allVars /\ ServerFairness

-----------------------------------------------------------------------------
(* Properties *)

IsEvent(f, r) == f[1] = "event" /\ f[2] = r
IsResult(f, r) == f[1] = "result" /\ f[2] = r

\* The frames on their way to the client, in the order it gets them.
Line(r) == <<writer>> \o frames \o outbox[r]

\* While the writer is there, the client gets the events of a stream numbered
\* one by one, across fallbacks, tools, cancellation and errors: the ones on
\* their way are in order and are exactly those it has not seen.  The result
\* comes once, after all of them, and nothing of the stream comes after it.
StreamOrdered ==
    Open => \A r \in Requests :
        LET q == Line(r)
            mine == {i \in 1..Len(q) : IsEvent(q[i], r)}
        IN  /\ \A i, j \in mine : i < j => q[i][3] < q[j][3]
            /\ {q[i][3] : i \in mine} = (got[r].seq + 1)..stream[r].seq
            /\ \A i \in 1..Len(q) : IsResult(q[i], r) =>
                  /\ proc[r] # "none" /\ got[r].result = "none"
                  /\ \A j \in 1..Len(q) : IsEvent(q[j], r) \/ IsResult(q[j], r) => j <= i
            /\ got[r].result # "none" => mine = {} /\ events[r] = <<>>

\* The text of a completed result is the text of the last answer the client saw
\* begin: nothing of an answer that was given up before a fallback, and nothing
\* lost.
ResultIsLastAnswer ==
    \A r \in Requests : got[r].result = "completed" /\ kind[r] = "chat" =>
        got[r].payload = got[r].text

\* A request that was read gets its result, interrupted or not, unless the
\* connection ends; and a connection that is told to stop, closes.
ExchangeEnds ==
    /\ \A r \in Requests : proc[r] = "stream" ~> got[r].result # "none" \/ stop \/ ~Open
    /\ stop ~> reader = "closed"
=============================================================================
