------------------------- MODULE RouterServerProofs -------------------------
(***************************************************************************)
(* Proofs about the router behind its socket server, for any requests,     *)
(* limits and inputs: what the router guarantees it also guarantees there, *)
(* a client gets the events of a stream one by one and then its result,    *)
(* and the result is the answer the client has seen.                       *)
(***************************************************************************)
EXTENDS RouterServer, RouterProofs

-----------------------------------------------------------------------------
(* The router behind the server *)

\* What the server does to the router's state besides the router's own steps: it
\* submits a request, cancels some, or runs a control request, which works on one of
\* the shared tables.
ServerSubmit == \E r \in Requests : Submit(r, stop)

ServerCancel ==
    /\ cancelled' \in [Requests -> BOOLEAN]
    /\ UNCHANGED <<env, pc, chat, token, route, lastError, reason, basis, agentVars, events,
                   shared>>

SharedStep ==
    \/ UNCHANGED shared
    \/ UNCHANGED <<consentVars, settingsVars, now>> /\ \E v \in Remotes : Allow(v)
    \/ UNCHANGED <<breakerVars, settingsVars, now>>
       /\ \E v \in Remotes, p \in Payloads : Preview(v, p)
    \/ /\ UNCHANGED <<consentVars, breakerVars, now>>
       /\ UpdateWrite \/ UpdateRename \/ UpdateFinish \/ \E s \in Settings : UpdateBegin(s)

ServerControl == UNCHANGED ctlRest /\ SharedStep

LEMMA ServerSteps ==
    ASSUME stop \in BOOLEAN, FlagsInv, [ServerNext]_allVars
    PROVE  [Next]_vars \/ ServerSubmit \/ ServerCancel \/ ServerControl
<1>1. ASSUME UNCHANGED vars PROVE [Next]_vars
  BY <1>1
<1>2. ASSUME NEW r \in Requests, Router_(r) \/ Provider_(r) PROVE [Next]_vars
  BY <1>2 DEF Router_, Provider_, Next
<1>3. ASSUME NEW r \in Requests, HandleEvent(r) PROVE [Next]_vars
  BY <1>3 DEF HandleEvent, Receive, Next
<1>4. ASSUME StopAll PROVE ServerCancel
  BY <1>4 DEF StopAll, ServerCancel, FlagsInv
<1>5. ASSUME NEW r \in Requests, ReadRequest(r) PROVE UNCHANGED vars \/ ServerSubmit
  BY <1>5 DEF ReadRequest, ServerSubmit
<1>6. ASSUME NEW r \in Requests, ReadCancel(r) PROVE ServerCancel
  BY <1>6 DEF ReadCancel, ServerCancel, FlagsInv
<1>7. ASSUME NEW r \in Requests, Control(r) PROVE ServerControl
  <2>1. CASE ControlRun(r)
    <3>1. UNCHANGED ctlRest
      BY <2>1 DEF ControlRun
    <3>2. SharedStep
      BY <2>1 DEF ControlRun, SharedStep, shared
    <3> QED
      BY <3>1, <3>2 DEF ServerControl
  <2>2. CASE ControlSave(r)
    BY <2>2 DEF ControlSave, ServerControl, SharedStep
  <2>3. CASE ControlDone(r)
    BY <2>3 DEF ControlDone, ServerControl, SharedStep
  <2> QED
    BY <1>7, <2>1, <2>2, <2>3 DEF Control
<1>8. ASSUME NEW r \in Requests, Emit(r) \/ EndStream(r) \/ ClientSend(r) \/ Interrupt(r)
      PROVE  UNCHANGED vars
  BY <1>8 DEF Emit, EndStream, ClientSend, Interrupt
<1>9. ASSUME SendReply \/ Join \/ Write \/ ClientLeave PROVE UNCHANGED vars
  BY <1>9 DEF SendReply, Join, Write, ClientLeave
<1>10. ASSUME Leave \/ Terminate PROVE ServerCancel
  BY <1>4, <1>10 DEF Leave, Terminate
<1>11. CASE UNCHANGED allVars
  BY <1>11 DEF allVars
<1> QED
  BY <1>1, <1>2, <1>3, <1>5, <1>6, <1>7, <1>8, <1>9, <1>10, <1>11
     DEF ServerNext, Read, Stream

LEMMA ServerOnlyParts ==
    ASSUME stop \in BOOLEAN, RouteInv, mem' \in Settings,
           ServerSubmit \/ ServerCancel \/ ServerControl
    PROVE  SettingsStep /\ ConsentStep /\ RouteStep
<1>1. CASE ServerSubmit
  BY <1>1 DEF ServerSubmit, Submit, SettingsStep, ConsentStep, RouteStep, shared, consentVars
<1>2. CASE ServerCancel
  <2>1. UNCHANGED <<env, pc, chat, basis, route, token, settingsVars, consentVars, now>>
    BY <1>2 DEF ServerCancel, shared
  <2> QED
    BY <2>1, StaysProceed DEF SettingsStep, ConsentStep, RouteStep, consentVars
<1>3. CASE ServerControl
  <2>1. UNCHANGED <<env, pc, chat, basis, route, token>>
    BY <1>3 DEF ServerControl, ctlRest
  <2>2. UNCHANGED now
    BY <1>3 DEF ServerControl, SharedStep, shared
  <2>3. SettingsStep
    BY <1>3 DEF ServerControl, SharedStep, shared, SettingsStep
  <2>4. ConsentStep /\ UNCHANGED spent
    BY <1>3, <2>1, <2>2 DEF ServerControl, SharedStep, shared, ConsentStep, consentVars, Preview
  <2> QED
    BY <2>1, <2>3, <2>4, StaysProceed DEF RouteStep
<1> QED
  BY <1>1, <1>2, <1>3

LEMMA ServerOnlyTypes ==
    ASSUME stop \in BOOLEAN, now \in Nat, RouteInv, FlagsInv, LoopInv, TableInv,
           ServerSubmit \/ ServerCancel \/ ServerControl
    PROVE  FlagsInv' /\ LoopInv' /\ TableInv'
<1>0. pc \in [Requests -> Steps]
  BY DEF RouteInv, RouteTypeOK
<1>1. CASE ServerSubmit
  <2> PICK r \in Requests : Submit(r, stop)
    BY <1>1 DEF ServerSubmit
  <2>1. FlagsInv'
    BY DEF Submit, FlagsInv
  <2>2. LoopInv'
    BY <1>0 DEF Submit, Go, LoopInv, LoopTypeOK, agentVars
  <2>3. TableInv'
    BY DEF Submit, shared, TableInv, BreakersTypeOK, consentVars, breakerVars
  <2> QED
    BY <2>1, <2>2, <2>3
<1>2. CASE ServerCancel
  BY <1>2 DEF ServerCancel, FlagsInv, LoopInv, LoopTypeOK, agentVars, shared, TableInv,
     BreakersTypeOK, consentVars, breakerVars
<1>3. CASE ServerControl
  <2>1. FlagsInv' /\ LoopInv'
    BY <1>3 DEF ServerControl, ctlRest, FlagsInv, LoopInv, LoopTypeOK, agentVars
  <2>2. ASSUME NEW v \in Remotes, Allow(v), UNCHANGED consentVars PROVE TableInv'
    BY <2>2, BreakerAssumption DEF Allow, TableInv, BreakersTypeOK, breakerVars, consentVars
  <2>3. ASSUME NEW v \in Remotes, NEW p \in Payloads, Preview(v, p), UNCHANGED breakerVars
        PROVE  TableInv'
    <3>1. now + Lifetime \in Nat
      BY ConsentAssumption
    <3> QED
      BY <2>3, <3>1 DEF Preview, PreviewToken, TableInv, ConsentEntry, BreakersTypeOK, breakerVars
  <2>4. ASSUME UNCHANGED <<consentVars, breakerVars>> PROVE TableInv'
    BY <2>4 DEF TableInv, BreakersTypeOK, consentVars, breakerVars
  <2> QED
    BY <1>3, <2>1, <2>2, <2>3, <2>4 DEF ServerControl, SharedStep, shared
<1> QED
  BY <1>1, <1>2, <1>3

\* Everything the router keeps to, but for the events of its channel.
RouterInv ==
    /\ SettingsInv /\ ConsentInv /\ RouteInv
    /\ FlagsInv /\ LoopInv /\ TableInv
    /\ stop \in BOOLEAN

LEMMA RouterInvInit == ServerInit => RouterInv
  BY SettingsInitInv, ConsentInitInv, RouteInitInv, TypesInit DEF ServerInit, RouterInv

LEMMA StopStep ==
    ASSUME stop \in BOOLEAN, [ServerNext]_allVars
    PROVE  stop' \in BOOLEAN
<1>1. ASSUME NEW r \in Requests, ClientSend(r) \/ Interrupt(r) \/ Router_(r) \/ Provider_(r)
                                 \/ Control(r) \/ Stream(r) \/ ReadRequest(r) \/ ReadCancel(r)
      PROVE  UNCHANGED stop
  BY <1>1 DEF ClientSend, Interrupt, Router_, Provider_, Control, Stream, ReadRequest, ReadCancel,
     ControlRun, ControlSave, ControlDone, HandleEvent, Emit, EndStream, serverVars, connVars
<1>2. ASSUME SendReply \/ Join \/ Write \/ ClientLeave PROVE UNCHANGED stop
  BY <1>2 DEF SendReply, Join, Write, ClientLeave
<1>3. ASSUME Leave \/ Terminate PROVE stop' = TRUE
  BY <1>3 DEF Leave, Terminate, StopAll
<1>4. CASE UNCHANGED allVars
  BY <1>4 DEF allVars, serverVars, connVars
<1> QED
  BY <1>1, <1>2, <1>3, <1>4 DEF ServerNext, Read

LEMMA RouterInvStep ==
    ASSUME RouterInv, [ServerNext]_allVars
    PROVE  RouterInv'
<1>0. stop' \in BOOLEAN
  BY StopStep DEF RouterInv
<1>1. CASE [Next]_vars
  <2>1. SettingsInv' /\ ConsentInv'
    BY <1>1, SettingsSteps, SettingsStepInv, ConsentSteps, ConsentStepInv DEF RouterInv
  <2>2. RouteInv'
    BY <1>1, <2>1, RouteSteps, RouteStepInv DEF RouterInv, SettingsInv, SettingsTypeOK
  <2>3. FlagsInv' /\ LoopInv' /\ TableInv'
    BY <1>1, FlagsStep, LoopStep, TableStep DEF RouterInv, ConsentInv
  <2> QED
    BY <1>0, <2>1, <2>2, <2>3 DEF RouterInv
<1>2. CASE ServerSubmit \/ ServerCancel \/ ServerControl
  <2>1. SettingsStep
    BY <1>2 DEF ServerSubmit, ServerCancel, ServerControl, SharedStep, Submit, shared, SettingsStep
  <2>2. SettingsInv' /\ mem' \in Settings
    BY <2>1, SettingsStepInv DEF RouterInv, SettingsInv, SettingsTypeOK
  <2>3. ConsentStep /\ RouteStep
    BY <1>2, <2>2, ServerOnlyParts DEF RouterInv
  <2>4. ConsentInv' /\ RouteInv'
    BY <2>3, ConsentStepInv, RouteStepInv DEF RouterInv
  <2>5. FlagsInv' /\ LoopInv' /\ TableInv'
    BY <1>2, ServerOnlyTypes DEF RouterInv, ConsentInv
  <2> QED
    BY <1>0, <2>2, <2>4, <2>5 DEF RouterInv
<1> QED
  BY <1>1, <1>2, ServerSteps DEF RouterInv

LEMMA RouterInvAlways == ServerSpec => []RouterInv
  BY RouterInvInit, RouterInvStep, PTL DEF ServerSpec

\* Behind the socket server too, with control requests, cancellations and shutdown
\* between its steps, the router spends no consent more often than it was shown,
\* sends a remote provider nothing that was not eligible or consented to, and leaves
\* the settings file whole and acknowledged (server.rs: handle_connection,
\* process_request; router.rs: chat, consent_preview, update_settings).
THEOREM ServerKeepsRouter == ServerSpec => [](ConsentSingleUse /\ RemoteJustified /\ SettingsDurable)
<1>1. RouterInv => ConsentSingleUse /\ RemoteJustified /\ SettingsDurable
  BY ConsentInvSingleUse, RouteInvJustifies DEF RouterInv, SettingsInv
<1> QED
  BY <1>1, RouterInvAlways, PTL
-----------------------------------------------------------------------------
(* Streams: the inductive invariant *)

Statuses == {"received"} \cup {m[2] : m \in ValidTransitions}
Finals == {"cancelled", "failed", "completed"}
Streams == [seq : Nat, status : Statuses, text : Nat, completed : BOOLEAN, error : BOOLEAN,
            cancelled : BOOLEAN]
Views == [seq : Nat, text : Nat, result : Finals \cup {"none"}, payload : Nat, sent : BOOLEAN,
          interrupted : BOOLEAN]
EventFrames(r) ==
    {"event"} \X {r} \X Nat \X Statuses \X {"move", "start", "delta", "progress", "terminal"}
ResultFrames(r) == {"result"} \X {r} \X Finals \X Nat
Notices(r) == {<<"error", r>>, <<"refused", r>>} \cup ({"ack"} \X {r} \X BOOLEAN)
Frames == UNION {EventFrames(r) \cup ResultFrames(r) \cup Notices(r) : r \in Requests}
Internal == Events \cup {<<"control">>}

ServerTypeOK ==
    /\ asked \in Seq({"request", "cancel"} \X Requests)
    /\ reader = "reply" => \E r \in Requests : reply \in Notices(r)
    /\ frames \in Seq(Frames)
    /\ writer \in Frames \cup {<<"recv">>, <<"done">>}
    /\ ctl \in [Requests -> {"none", "run", "saving", "done", "end"}]
    /\ proc \in [Requests -> {"none", "stream", "gone"}]
    /\ stream \in [Requests -> Streams]
    /\ DOMAIN outbox = Requests
    /\ got \in [Requests -> Views]
    /\ events \in [Requests -> Seq(Internal)]

\* A request is read once, and until then nothing of it exists; it is a chat or a
\* control, never both.
Finished(r) == pc[r] = "end" \/ ctl[r] = "end"

LifeOK(r) ==
    /\ \A i \in 1..Len(asked) : asked[i] = <<"request", r>> =>
          /\ got[r].sent /\ proc[r] = "none"
          /\ \A j \in 1..Len(asked) : asked[j] = <<"request", r>> => j = i
    /\ ~got[r].sent => proc[r] = "none"
    /\ proc[r] = "none" =>
          /\ pc[r] = "idle" /\ ctl[r] = "none" /\ events[r] = <<>> /\ outbox[r] = <<>>
          /\ stream[r] = NewStream /\ got[r].seq = 0 /\ got[r].text = 0
    /\ pc[r] # "idle" => ctl[r] = "none"

\* Before an answer that names no fallback reason there was no text.
Fresh(r) ==
    \/ pc[r] \in Early
    \/ pc[r] \in {"next", "probe", "announce", "fall", "start"} /\ reason[r] = FALSE
NoText(r, n) == stream[r].text = 0 /\ \A i \in 1..n : events[r][i] # <<"delta">>

\* The channel of internal events: Done is the last one.
FeedOK(r) ==
    /\ \A i \in 1..Len(events[r]) : events[r][i] = <<"done">> => i = Len(events[r]) /\ Finished(r)
    /\ \A i \in 1..Len(events[r]) :
          events[r][i][1] = "start" /\ events[r][i][3] = FALSE => NoText(r, i)
    /\ Fresh(r) => NoText(r, Len(events[r]))
    /\ pc[r] = "fallback" => reason[r] = TRUE

\* What one event leaves to be sent.
OutboxOK(r) ==
    \/ outbox[r] = <<>>
    \/ outbox[r] = <<<<"error", r>>>>
    \/ \E e \in EventFrames(r) : e[3] = stream[r].seq /\ outbox[r] = <<e>>
    \/ \E e \in EventFrames(r), p \in ResultFrames(r) :
          e[3] = stream[r].seq /\ outbox[r] = <<e, p>>
    \/ \E p \in ResultFrames(r) : outbox[r] = <<p>>

\* The number the client has when the writer has written what it holds, and the
\* last number that went into the channel.
Base(r) == IF IsEvent(writer, r) THEN writer[3] ELSE got[r].seq
Pending(r) == outbox[r] # <<>> /\ IsEvent(Head(outbox[r]), r)
Sent(r) == IF Pending(r) THEN stream[r].seq - 1 ELSE stream[r].seq

NumbersOK(r) ==
    /\ IsEvent(writer, r) => writer[3] = got[r].seq + 1
    /\ Base(r) <= Sent(r)
    /\ \A i \in 1..Len(frames) : IsEvent(frames[i], r) => frames[i][3] \in (Base(r) + 1)..Sent(r)
    /\ \A i, j \in 1..Len(frames) :
          i < j /\ IsEvent(frames[i], r) /\ IsEvent(frames[j], r) => frames[i][3] < frames[j][3]
    /\ \A n \in (Base(r) + 1)..Sent(r) :
          \E i \in 1..Len(frames) : IsEvent(frames[i], r) /\ frames[i][3] = n

\* Nothing of the stream is left but, perhaps, its result f.
Over(r) == events[r] = <<>> /\ Finished(r) /\ proc[r] # "none"
IsLast(r, f) ==
    /\ Over(r) /\ got[r].result = "none"
    /\ f[3] = "completed" => f[4] = stream[r].text
Idle(r) == \A i \in 1..Len(frames) : ~IsEvent(frames[i], r) /\ ~IsResult(frames[i], r)

ResultOK(r) ==
    /\ IsResult(writer, r) => IsLast(r, writer) /\ outbox[r] = <<>> /\ Idle(r)
    /\ \A i \in 1..Len(frames) : IsResult(frames[i], r) =>
          /\ IsLast(r, frames[i]) /\ outbox[r] = <<>>
          /\ \A j \in 1..Len(frames) : IsEvent(frames[j], r) \/ IsResult(frames[j], r) => j <= i
    /\ \A i \in 1..Len(outbox[r]) : IsResult(outbox[r][i], r) => IsLast(r, outbox[r][i])
    /\ got[r].result # "none" =>
          /\ Over(r) /\ outbox[r] = <<>> /\ Idle(r)
          /\ ~IsEvent(writer, r) /\ ~IsResult(writer, r)

\* A run of the client over what is on its way: T[n] is its text after event n.
Shows(T, f) ==
    T[f[3]] = IF f[5] = "start" THEN 0 ELSE IF f[5] = "delta" THEN T[f[3] - 1] + 1 ELSE T[f[3] - 1]

TextOK(r) ==
    \E T \in [Nat -> Nat] :
        /\ T[got[r].seq] = got[r].text
        /\ T[stream[r].seq] = stream[r].text
        /\ IsEvent(writer, r) => Shows(T, writer)
        /\ \A i \in 1..Len(frames) : IsEvent(frames[i], r) => Shows(T, frames[i])
        /\ Pending(r) => Shows(T, Head(outbox[r]))

StreamInv ==
    /\ ServerTypeOK
    /\ \A r \in Requests : LifeOK(r) /\ FeedOK(r) /\ OutboxOK(r)
    /\ Open => \A r \in Requests : NumbersOK(r) /\ ResultOK(r) /\ TextOK(r)
    /\ \A r \in Requests : got[r].result = "completed" => got[r].payload = got[r].text

-----------------------------------------------------------------------------
(* The channel of internal events *)

\* The router's task, or that of a control request, goes on: it sends nothing or one
\* event, Done as its last, an answer without a fallback reason before any text, and
\* text only after the start of an answer.
Speaks(r, e) ==
    /\ events' = [events EXCEPT ![r] = Append(@, e)]
    /\ e \in Internal
    /\ e = <<"done">> => Finished(r)'
    /\ e[1] = "start" /\ e[3] = FALSE => Fresh(r)
    /\ e = <<"delta">> => ~Fresh(r)'

Feeds(r) ==
    /\ ~Finished(r) /\ proc[r] # "none"
    /\ \A q \in Requests \ {r} : pc'[q] = pc[q] /\ ctl'[q] = ctl[q] /\ reason'[q] = reason[q]
    /\ Fresh(r)' => Fresh(r)
    /\ pc'[r] = "fallback" => reason'[r] = TRUE
    /\ pc'[r] # "idle" => ctl'[r] = "none"
    /\ UNCHANGED events \/ \E e \in Internal : Speaks(r, e)
    /\ UNCHANGED <<asked, reader, reply, frames, writer, proc, stream, outbox, got>>

LEMMA PlainEvents == \A e \in Plain : <<e>> \in Internal
  BY DEF Internal, Events

LEMMA MoveEvents ==
    /\ <<"move", "received", "queued">> \in Internal
    /\ <<"move", "running_remote", "fallback_to_local">> \in Internal
    /\ <<"move", "queued", "running_remote">> \in Internal
    /\ <<"move", "queued", "running_local">> \in Internal
    /\ <<"move", "fallback_to_local", "running_local">> \in Internal
<1>1. \A m \in ValidTransitions : <<"move", m[1], m[2]>> \in Internal
  BY DEF Internal, Events, Moves
<1>2. /\ <<"received", "queued">> \in ValidTransitions
      /\ <<"running_remote", "fallback_to_local">> \in ValidTransitions
      /\ <<"queued", "running_remote">> \in ValidTransitions
      /\ <<"queued", "running_local">> \in ValidTransitions
      /\ <<"fallback_to_local", "running_local">> \in ValidTransitions
  BY DEF ValidTransitions
<1> QED
  BY <1>1, <1>2

LEMMA ChatFeeds ==
    ASSUME RouterInv, StreamInv, NEW r \in Requests, Router_(r)
    PROVE  Feeds(r)
<1> USE DEF Go, Send, Fresh, Early, Finished
<1>1. Chat(r) /\ UNCHANGED serverVars
  BY DEF Router_
<1>2. /\ pc \in [Requests -> Steps] /\ reason \in [Requests -> BOOLEAN]
      /\ pc[r] = "fallback" => reason[r] = TRUE
      /\ pc[r] # "idle" => ctl[r] = "none" /\ proc[r] # "none"
  BY DEF RouterInv, RouteInv, RouteTypeOK, FlagsInv, StreamInv, LifeOK, FeedOK
<1>3. /\ pc[r] \notin {"idle", "end"} /\ pc'[r] # "idle"
      /\ \A q \in Requests \ {r} : pc'[q] = pc[q]
  BY <1>1, <1>2 DEF Chat, Validate, Queue, Route, NextCandidate,
     Probe, Announce, Fall, Start, BeginRound, Select, Drain, NextCall, Invoke, Report, Finish,
     Fail, FallBack, SendError, SendDone
<1>4. /\ \A q \in Requests \ {r} : reason'[q] = reason[q]
      /\ Fresh(r)' => Fresh(r)
      /\ pc'[r] = "fallback" => reason'[r] = TRUE
  <2>1. CASE NextCandidate(r) \/ Probe(r) \/ Fail(r)
    BY <1>2, <2>1 DEF NextCandidate, Probe, Fail, Skip
  <2>2. CASE Route(r)
    BY <1>2, <2>2 DEF Route
  <2>3. CASE ~(NextCandidate(r) \/ Probe(r) \/ Fail(r) \/ Route(r))
    BY <1>1, <1>2, <2>3 DEF Chat, Validate, Queue, Announce, Fall, Start, BeginRound, Select,
       Drain, NextCall, Invoke, Report, Finish, FallBack, SendError, SendDone
  <2> QED
    BY <2>1, <2>2, <2>3
<1>5. UNCHANGED events \/ \E e \in Internal : Speaks(r, e)
  <2>1. CASE Validate(r) \/ FallBack(r) \/ Finish(r) \/ Fail(r) \/ SendError(r) \/ SendDone(r) \/ Report(r)
    BY <1>2, <2>1, PlainEvents
       DEF Validate, FallBack, Finish, Fail, SendError, SendDone, Report, Plain, Speaks
  <2>2. CASE Queue(r) \/ Announce(r) \/ Fall(r)
    BY <2>2, MoveEvents DEF Queue, Announce, Fall, Speaks
  <2>3. CASE Start(r)
    <3>1. Cand(r) \in Remotes \cup {"local"} /\ reason[r] \in BOOLEAN
      BY <1>2, <2>3, HeldCandidate DEF Start, Held, RouterInv
    <3>2. <<"start", Cand(r), reason[r]>> \in Internal
      BY <3>1 DEF Internal, Events, Starts
    <3> QED
      BY <2>3, <3>2 DEF Start, Speaks
  <2>4. CASE Select(r)
    <3>1. chunks[r] # <<>> => Head(chunks[r]) \in {"progress", "delta"}
      BY HeadAndTail DEF RouterInv, LoopInv, LoopTypeOK
    <3>2. chunks[r] # <<>> => <<Head(chunks[r])>> \in Internal
      BY <3>1, PlainEvents DEF Plain
    <3> QED
      BY <1>2, <2>4, <3>1, <3>2 DEF Select, Speaks
  <2>5. CASE Drain(r)
    BY <1>2, <2>5, PlainEvents DEF Drain, Plain, Speaks
  <2>6. CASE Route(r) \/ NextCandidate(r) \/ Probe(r) \/ BeginRound(r) \/ NextCall(r) \/ Invoke(r)
    BY <2>6 DEF Route, NextCandidate, Probe, BeginRound, NextCall, Invoke
  <2> QED
    BY <1>1, <2>1, <2>2, <2>3, <2>4, <2>5, <2>6 DEF Chat
<1> QED
  BY <1>1, <1>2, <1>3, <1>4, <1>5 DEF Feeds, serverVars, connVars, streamVars

LEMMA ControlFeeds ==
    ASSUME RouterInv, StreamInv, NEW r \in Requests, Control(r)
    PROVE  Feeds(r) /\ ctl' \in [Requests -> {"none", "run", "saving", "done", "end"}]
<1> USE DEF Ctl, Send, Fresh, Early, Finished
<1>1. /\ ctl \in [Requests -> {"none", "run", "saving", "done", "end"}]
      /\ ctl[r] # "none" => pc[r] = "idle" /\ proc[r] # "none"
  BY DEF StreamInv, ServerTypeOK, LifeOK
<1>2. /\ ctl[r] \notin {"none", "end"} /\ UNCHANGED <<pc, reason>>
      /\ UNCHANGED <<asked, reader, reply, frames, writer, proc, stream, outbox, got>>
  BY DEF Control, ControlRun, ControlSave, ControlDone, ctlRest, connVars
<1>3. /\ ctl' \in [Requests -> {"none", "run", "saving", "done", "end"}]
      /\ \A q \in Requests \ {r} : ctl'[q] = ctl[q]
  BY <1>1 DEF Control, ControlRun, ControlSave, ControlDone
<1>4. UNCHANGED events \/ \E e \in Internal : Speaks(r, e)
  <2>1. <<"control">> \in Internal /\ <<"error">> \in Internal /\ <<"done">> \in Internal
    BY PlainEvents DEF Internal, Plain
  <2>2. CASE ControlRun(r)
    BY <1>1, <2>1, <2>2 DEF ControlRun, Speaks
  <2>3. CASE ControlSave(r)
    BY <1>1, <2>1, <2>3 DEF ControlSave, Speaks
  <2>4. CASE ControlDone(r)
    BY <1>1, <2>1, <2>4 DEF ControlDone, Speaks
  <2> QED
    BY <2>2, <2>3, <2>4 DEF Control
<1> QED
  BY <1>1, <1>2, <1>3, <1>4 DEF Feeds

\* What a step leaves alone of the frames of a stream.
Still(r) ==
    /\ outbox'[r] = outbox[r] /\ stream'[r] = stream[r]
    /\ got'[r].seq = got[r].seq /\ got'[r].text = got[r].text
    /\ got'[r].result = got[r].result /\ got'[r].payload = got[r].payload

Flying(r) == NumbersOK(r) /\ ResultOK(r) /\ TextOK(r)

LEMMA StillFlying ==
    ASSUME NEW r \in Requests, Flying(r), Still(r), UNCHANGED <<frames, writer>>,
           Over(r) => Over(r)'
    PROVE  Flying(r)'
<1>1. Pending(r)' = Pending(r) /\ Base(r)' = Base(r) /\ Sent(r)' = Sent(r) /\ Idle(r)' = Idle(r)
  BY DEF Still, Pending, Base, Sent, Idle
<1>2. NumbersOK(r)'
  BY <1>1 DEF Flying, NumbersOK, Still
<1>3. \A f : IsLast(r, f) => IsLast(r, f)'
  BY DEF IsLast, Still
<1>4. ResultOK(r)'
  BY <1>1, <1>3 DEF Flying, ResultOK, Still
<1>5. TextOK(r)'
  BY <1>1 DEF Flying, TextOK, Still
<1> QED
  BY <1>2, <1>4, <1>5 DEF Flying

LEMMA FeedStep ==
    ASSUME StreamInv, NEW r \in Requests, Feeds(r),
           ctl' \in [Requests -> {"none", "run", "saving", "done", "end"}]
    PROVE  StreamInv'
<1>0. events \in [Requests -> Seq(Internal)]
  BY DEF StreamInv, ServerTypeOK
<1>1. /\ \A q \in Requests \ {r} : events'[q] = events[q]
      /\ \/ events'[r] = events[r]
         \/ \E e \in Internal : Speaks(r, e) /\ events'[r] = Append(events[r], e)
  BY <1>0 DEF Feeds, Speaks
<1>2. ServerTypeOK'
  <2>1. events' \in [Requests -> Seq(Internal)]
    <3>1. \A e \in Internal : Append(events[r], e) \in Seq(Internal)
      BY <1>0
    <3> QED
      BY <1>0, <3>1 DEF Feeds, Speaks
  <2> QED
    BY <2>1 DEF Feeds, StreamInv, ServerTypeOK
<1>3. ASSUME NEW q \in Requests PROVE LifeOK(q)'
  BY <1>1 DEF Feeds, StreamInv, LifeOK
<1>4. ASSUME NEW q \in Requests PROVE FeedOK(q)'
  <2>1. CASE q # r
    <3>1. /\ FeedOK(q) /\ events'[q] = events[q] /\ stream'[q] = stream[q]
          /\ pc'[q] = pc[q] /\ ctl'[q] = ctl[q] /\ reason'[q] = reason[q]
      BY <1>1, <2>1 DEF Feeds, StreamInv
    <3>2. Fresh(q)' = Fresh(q) /\ Finished(q)' = Finished(q)
      BY <3>1 DEF Fresh, Finished
    <3> QED
      BY <3>1, <3>2 DEF FeedOK, NoText
  <2>2. CASE q = r /\ events'[r] = events[r]
    BY <2>2 DEF Feeds, StreamInv, FeedOK, NoText
  <2>3. ASSUME q = r, NEW e \in Internal, Speaks(r, e), events'[r] = Append(events[r], e)
        PROVE  FeedOK(r)'
    <3>1. /\ Len(events'[r]) = Len(events[r]) + 1 /\ Len(events[r]) \in Nat
          /\ events'[r][Len(events[r]) + 1] = e
          /\ \A i \in 1..Len(events[r]) : events'[r][i] = events[r][i]
      BY <1>0, <2>3
    <3>0. \A i \in 1..Len(events'[r]) : \/ i \in 1..Len(events[r]) /\ events'[r][i] = events[r][i]
                                        \/ i = Len(events'[r]) /\ events'[r][i] = e
      BY <3>1
    <3>2. \A i \in 1..Len(events[r]) : events[r][i] # <<"done">>
      BY DEF Feeds, StreamInv, FeedOK
    <3>3. \A i \in 1..Len(events'[r]) : events'[r][i] = <<"done">> =>
                                           i = Len(events'[r]) /\ Finished(r)'
      BY <2>3, <3>0, <3>2 DEF Speaks
    <3>4. \A n \in 1..Len(events[r]) : NoText(r, n) => NoText(r, n)'
      BY <3>1 DEF NoText, Feeds
    <3>5. NoText(r, Len(events[r])) /\ e # <<"delta">> => NoText(r, Len(events[r]))'
      BY <3>0 DEF NoText, Feeds
    <3>6. \A i \in 1..Len(events'[r]) : events'[r][i][1] = "start" /\ events'[r][i][3] = FALSE =>
                                           NoText(r, i)'
      <4> TAKE i \in 1..Len(events'[r])
      <4> HAVE events'[r][i][1] = "start" /\ events'[r][i][3] = FALSE
      <4>1. CASE i \in 1..Len(events[r])
        BY <3>1, <3>4, <4>1 DEF StreamInv, FeedOK
      <4>2. CASE i = Len(events[r]) + 1
        <5>1. Fresh(r) /\ e # <<"delta">>
          BY <2>3, <3>1, <4>2 DEF Speaks
        <5>2. NoText(r, Len(events[r]))'
          BY <3>5, <5>1 DEF StreamInv, FeedOK
        <5>3. i = Len(events'[r])
          BY <3>1, <4>2
        <5> QED
          BY <5>2, <5>3 DEF NoText
      <4> QED
        BY <3>1, <4>1, <4>2
    <3>7. Fresh(r)' => NoText(r, Len(events[r]))'
      <4> HAVE Fresh(r)'
      <4>1. Fresh(r) /\ e # <<"delta">>
        BY <2>3 DEF Feeds, Speaks
      <4> QED
        BY <3>5, <4>1 DEF StreamInv, FeedOK
    <3> QED
      BY <3>3, <3>6, <3>7 DEF FeedOK, Feeds
  <2> QED
    BY <1>1, <2>1, <2>2, <2>3
<1>5. ASSUME NEW q \in Requests PROVE OutboxOK(q)'
  BY DEF Feeds, StreamInv, OutboxOK
<1>6. ASSUME Open', NEW q \in Requests PROVE NumbersOK(q)' /\ ResultOK(q)' /\ TextOK(q)'
  <2>1. Still(q) /\ UNCHANGED <<frames, writer>> /\ Flying(q)
    BY <1>6 DEF Feeds, Still, StreamInv, Flying, Open
  <2>2. Over(q) => Over(q)'
    BY <1>1 DEF Over, Feeds, Finished
  <2> QED
    BY <2>1, <2>2, StillFlying DEF Flying
<1> QED
  BY <1>2, <1>3, <1>4, <1>5, <1>6 DEF StreamInv, Feeds

-----------------------------------------------------------------------------
(* The client and the read loop *)

LEMMA QuietStep ==
    ASSUME StreamInv, UNCHANGED <<frames, writer, stream, outbox, events>>,
           ServerTypeOK', \A q \in Requests : LifeOK(q)',
           \A q \in Requests :
              /\ Still(q)
              /\ Finished(q) => Finished(q)'
              /\ Fresh(q)' => Fresh(q)
              /\ pc'[q] = "fallback" => pc[q] = "fallback"
              /\ reason'[q] = reason[q]
              /\ proc[q] # "none" => proc'[q] # "none"
    PROVE  StreamInv'
<1>1. ASSUME NEW q \in Requests PROVE FeedOK(q)' /\ OutboxOK(q)'
  BY DEF StreamInv, FeedOK, NoText, OutboxOK
<1>2. ASSUME Open', NEW q \in Requests PROVE NumbersOK(q)' /\ ResultOK(q)' /\ TextOK(q)'
  <2>1. Flying(q)
    BY <1>2 DEF StreamInv, Flying, Open
  <2>2. Over(q) => Over(q)'
    BY DEF Over
  <2> QED
    BY <2>1, <2>2, StillFlying DEF Flying
<1> QED
  BY <1>1, <1>2 DEF StreamInv, Still

LEMMA AppendAsked ==
    ASSUME asked \in Seq({"request", "cancel"} \X Requests),
           NEW a \in {"request", "cancel"} \X Requests, asked' = Append(asked, a)
    PROVE  /\ asked' \in Seq({"request", "cancel"} \X Requests)
           /\ Len(asked) \in Nat /\ Len(asked') = Len(asked) + 1
           /\ \A i \in 1..Len(asked) : asked'[i] = asked[i]
           /\ \A i \in 1..Len(asked') : (i \in 1..Len(asked) /\ asked'[i] = asked[i])
                                        \/ (i = Len(asked) + 1 /\ asked'[i] = a)
  OBVIOUS

LEMMA TailAsked ==
    ASSUME asked \in Seq({"request", "cancel"} \X Requests), asked # <<>>, asked' = Tail(asked)
    PROVE  /\ asked' \in Seq({"request", "cancel"} \X Requests)
           /\ Len(asked) \in Nat /\ Len(asked') = Len(asked) - 1
           /\ 1 \in 1..Len(asked) /\ Head(asked) = asked[1]
           /\ \A i \in 1..Len(asked') : i + 1 \in 1..Len(asked) /\ asked'[i] = asked[i + 1]
  OBVIOUS

LEMMA ClientStep ==
    ASSUME StreamInv, NEW r \in Requests, ClientSend(r) \/ Interrupt(r)
    PROVE  StreamInv'
<1>0. got \in [Requests -> Views] /\ asked \in Seq({"request", "cancel"} \X Requests)
  BY DEF StreamInv, ServerTypeOK
<1>1. UNCHANGED <<pc, reason, ctl, proc, reader, reply, frames, writer, stream, outbox, events>>
  BY DEF ClientSend, Interrupt, vars, routerVars, chatVars
<1>2. CASE ClientSend(r)
  <2>1. /\ got' = [got EXCEPT ![r].sent = TRUE] /\ ~got[r].sent
        /\ asked' = Append(asked, <<"request", r>>)
    BY <1>2 DEF ClientSend
  <2>2. /\ \A q \in Requests : Still(q) /\ got'[q] \in Views /\ (got[q].sent => got'[q].sent)
        /\ got'[r].sent
        /\ got' \in [Requests -> Views]
    BY <1>0, <1>1, <2>1 DEF Still, Views
  <2>3. /\ asked' \in Seq({"request", "cancel"} \X Requests)
        /\ Len(asked) \in Nat /\ Len(asked') = Len(asked) + 1
        /\ \A i \in 1..Len(asked') : (i \in 1..Len(asked) /\ asked'[i] = asked[i])
                                     \/ (i = Len(asked) + 1 /\ asked'[i] = <<"request", r>>)
    <3>1. <<"request", r>> \in {"request", "cancel"} \X Requests
      OBVIOUS
    <3> QED
      BY <1>0, <2>1, <3>1, AppendAsked
  <2>4. ServerTypeOK'
    BY <1>1, <2>2, <2>3 DEF StreamInv, ServerTypeOK
  <2>5. ASSUME NEW q \in Requests PROVE LifeOK(q)'
    <3>1. LifeOK(q) /\ LifeOK(r)
      BY DEF StreamInv
    <3>2. \A i \in 1..Len(asked) : asked[i] # <<"request", r>>
      BY <2>1, <3>1 DEF LifeOK
    <3>3. \A i \in 1..Len(asked') : asked'[i] = <<"request", q>> =>
             /\ got'[q].sent /\ proc'[q] = "none"
             /\ \A j \in 1..Len(asked') : asked'[j] = <<"request", q>> => j = i
      <4>1. CASE q = r
        BY <1>1, <2>1, <2>2, <2>3, <3>1, <3>2, <4>1 DEF LifeOK
      <4>2. CASE q # r
        <5>1. <<"request", q>> # <<"request", r>>
          BY <4>2
        <5>2. \A i \in 1..Len(asked') : asked'[i] = <<"request", q>> =>
                 i \in 1..Len(asked) /\ asked[i] = <<"request", q>>
          BY <2>3, <5>1
        <5> QED
          BY <1>1, <2>2, <3>1, <5>2 DEF LifeOK
      <4> QED
        BY <4>1, <4>2
    <3> QED
      BY <1>1, <2>2, <3>1, <3>3 DEF LifeOK, Still
  <2> QED
    BY <1>1, <2>2, <2>4, <2>5, QuietStep DEF Finished, Fresh
<1>3. CASE Interrupt(r)
  <2>1. /\ got' = [got EXCEPT ![r].interrupted = TRUE]
        /\ asked' = Append(asked, <<"cancel", r>>)
    BY <1>3 DEF Interrupt
  <2>2. /\ \A q \in Requests : Still(q) /\ got'[q] \in Views /\ got'[q].sent = got[q].sent
        /\ got' \in [Requests -> Views]
    BY <1>0, <1>1, <2>1 DEF Still, Views
  <2>3. /\ asked' \in Seq({"request", "cancel"} \X Requests)
        /\ \A i \in 1..Len(asked') : (i \in 1..Len(asked) /\ asked'[i] = asked[i])
                                     \/ (i = Len(asked) + 1 /\ asked'[i] = <<"cancel", r>>)
    <3>1. <<"cancel", r>> \in {"request", "cancel"} \X Requests
      OBVIOUS
    <3> QED
      BY <1>0, <2>1, <3>1, AppendAsked
  <2>4. ServerTypeOK'
    BY <1>1, <2>2, <2>3 DEF StreamInv, ServerTypeOK
  <2>5. ASSUME NEW q \in Requests PROVE LifeOK(q)'
    <3>1. LifeOK(q)
      BY DEF StreamInv
    <3>2. \A i \in 1..Len(asked') : asked'[i] = <<"request", q>> =>
             i \in 1..Len(asked) /\ asked[i] = <<"request", q>>
      BY <2>3
    <3> QED
      BY <1>1, <2>2, <3>1, <3>2 DEF LifeOK, Still
  <2> QED
    BY <1>1, <2>2, <2>4, <2>5, QuietStep DEF Finished, Fresh
<1> QED
  BY <1>2, <1>3

LEMMA TailLife ==
    ASSUME StreamInv, asked # <<>>, asked' = Tail(asked), NEW q \in Requests
    PROVE  /\ asked' \in Seq({"request", "cancel"} \X Requests)
           /\ \A i \in 1..Len(asked') : asked'[i] = <<"request", q>> =>
                 /\ got[q].sent /\ proc[q] = "none" /\ Head(asked) # <<"request", q>>
                 /\ \A j \in 1..Len(asked') : asked'[j] = <<"request", q>> => j = i
<1>1. /\ asked' \in Seq({"request", "cancel"} \X Requests)
      /\ Len(asked) \in Nat /\ Len(asked') = Len(asked) - 1
      /\ 1 \in 1..Len(asked) /\ Head(asked) = asked[1]
      /\ \A i \in 1..Len(asked') : i + 1 \in 1..Len(asked) /\ asked'[i] = asked[i + 1]
  BY TailAsked DEF StreamInv, ServerTypeOK
<1>2. \A i \in 1..Len(asked) : asked[i] = <<"request", q>> =>
          /\ got[q].sent /\ proc[q] = "none"
          /\ \A j \in 1..Len(asked) : asked[j] = <<"request", q>> => j = i
  BY DEF StreamInv, LifeOK
<1>3. ASSUME NEW i \in 1..Len(asked'), asked'[i] = <<"request", q>>
      PROVE  /\ got[q].sent /\ proc[q] = "none" /\ Head(asked) # <<"request", q>>
             /\ \A j \in 1..Len(asked') : asked'[j] = <<"request", q>> => j = i
  <2>1. i + 1 \in 1..Len(asked) /\ asked[i + 1] = <<"request", q>> /\ i + 1 # 1
    BY <1>1, <1>3
  <2>2. \A j \in 1..Len(asked) : asked[j] = <<"request", q>> => j = i + 1
    BY <1>2, <2>1
  <2>3. ASSUME NEW j \in 1..Len(asked'), asked'[j] = <<"request", q>> PROVE j = i
    <3>1. j + 1 \in 1..Len(asked) /\ asked[j + 1] = <<"request", q>>
      BY <1>1, <2>3
    <3>2. j + 1 = i + 1
      BY <2>2, <3>1
    <3> QED
      BY <3>2
  <2> QED
    BY <1>1, <1>2, <2>1, <2>2, <2>3
<1> QED
  BY <1>1, <1>3

LEMMA ReadRequestStep ==
    ASSUME RouterInv, StreamInv, NEW r \in Requests, ReadRequest(r)
    PROVE  StreamInv'
<1>1. /\ asked # <<>> /\ Head(asked) = <<"request", r>> /\ asked' = Tail(asked)
      /\ UNCHANGED <<frames, writer, stream, outbox, got>>
  BY DEF ReadRequest
<1>2. /\ proc \in [Requests -> {"none", "stream", "gone"}]
      /\ ctl \in [Requests -> {"none", "run", "saving", "done", "end"}]
      /\ pc \in [Requests -> Steps]
  BY DEF StreamInv, ServerTypeOK, RouterInv, RouteInv, RouteTypeOK
<1>3. got[r].sent /\ proc[r] = "none" /\ pc[r] = "idle" /\ ctl[r] = "none"
  <2>1. 1 \in 1..Len(asked) /\ asked[1] = <<"request", r>>
    BY <1>1 DEF StreamInv, ServerTypeOK
  <2> QED
    BY <2>1 DEF StreamInv, LifeOK
<1>4. UNCHANGED <<events, reason>>
  BY DEF ReadRequest, Submit, vars, routerVars, chatVars
<1>5. \/ UNCHANGED <<pc, ctl, proc>> /\ reader' = "reply" /\ reply' = <<"refused", r>>
      \/ /\ proc' = [proc EXCEPT ![r] = "stream"] /\ UNCHANGED <<reply, reader>>
         /\ \/ pc' = [pc EXCEPT ![r] = "validate"] /\ UNCHANGED ctl
            \/ ctl' = [ctl EXCEPT ![r] = "run"] /\ UNCHANGED pc
  BY DEF ReadRequest, Submit, Go, vars, routerVars, chatVars
<1>6. ServerTypeOK'
  <2>1. asked' \in Seq({"request", "cancel"} \X Requests)
    BY <1>1, TailLife
  <2>2. <<"refused", r>> \in Notices(r)
    BY DEF Notices
  <2>3. reader' = "reply" => \E q \in Requests : reply' \in Notices(q)
    <3>1. reader = "reply" => \E q \in Requests : reply \in Notices(q)
      BY DEF StreamInv, ServerTypeOK
    <3>2. reply' = <<"refused", r>> \/ UNCHANGED <<reply, reader>>
      BY <1>5
    <3> QED
      BY <2>2, <3>1, <3>2
  <2>4. /\ ctl' \in [Requests -> {"none", "run", "saving", "done", "end"}]
        /\ proc' \in [Requests -> {"none", "stream", "gone"}]
    BY <1>2, <1>5
  <2>5. \A q \in Requests : Notices(q)' = Notices(q)
    BY DEF Notices
  <2> QED
    BY <1>1, <1>4, <2>1, <2>3, <2>4, <2>5 DEF StreamInv, ServerTypeOK
<1>7. ASSUME NEW q \in Requests PROVE LifeOK(q)'
  <2>1. LifeOK(q)
    BY DEF StreamInv
  <2>2. \A i \in 1..Len(asked') : asked'[i] = <<"request", q>> =>
                 /\ got[q].sent /\ proc[q] = "none" /\ q # r
                 /\ \A j \in 1..Len(asked') : asked'[j] = <<"request", q>> => j = i
    BY <1>1, TailLife
  <2>3. CASE q # r
    BY <1>1, <1>2, <1>4, <1>5, <2>1, <2>2, <2>3 DEF LifeOK
  <2>4. CASE q = r
    BY <1>1, <1>2, <1>3, <1>4, <1>5, <2>1, <2>2, <2>4 DEF LifeOK
  <2> QED
    BY <2>3, <2>4
<1>8. ASSUME NEW q \in Requests
      PROVE  /\ Still(q)
             /\ Finished(q) => Finished(q)'
             /\ Fresh(q)' => Fresh(q)
             /\ pc'[q] = "fallback" => pc[q] = "fallback"
             /\ proc[q] # "none" => proc'[q] # "none"
  BY <1>1, <1>2, <1>3, <1>4, <1>5 DEF Still, Finished, Fresh, Early
<1> QED
  BY <1>1, <1>4, <1>6, <1>7, <1>8, QuietStep

LEMMA OtherQuietSteps ==
    ASSUME RouterInv, StreamInv,
           \/ \E r \in Requests : ReadCancel(r) \/ EndStream(r) \/ Provider_(r)
           \/ ClientLeave \/ Terminate \/ Leave \/ Join \/ UNCHANGED allVars
    PROVE  StreamInv'
<1>1. /\ UNCHANGED <<frames, writer, stream, outbox, events, got, pc, reason, ctl>>
      /\ \A q \in Requests : proc'[q] = proc[q] \/ (proc'[q] = "gone" /\ proc[q] = "stream")
      /\ proc' \in [Requests -> {"none", "stream", "gone"}]
  <2>1. proc \in [Requests -> {"none", "stream", "gone"}]
    BY DEF StreamInv, ServerTypeOK
  <2>2. ASSUME NEW r \in Requests, ReadCancel(r) PROVE <1>1!1 /\ UNCHANGED proc
    BY <2>2 DEF ReadCancel, streamVars
  <2>3. ASSUME NEW r \in Requests, EndStream(r)
        PROVE  <1>1!1 /\ proc[r] = "stream" /\ proc' = [proc EXCEPT ![r] = "gone"]
    BY <2>3 DEF EndStream, vars, routerVars, chatVars, connVars
  <2>4. ASSUME NEW r \in Requests, Provider_(r) PROVE <1>1!1 /\ UNCHANGED proc
    BY <2>4 DEF Provider_, Provider, Chunk, Answer, chatVars, serverVars, connVars, streamVars
  <2>5. ASSUME ClientLeave \/ Terminate \/ Leave \/ Join \/ UNCHANGED allVars
        PROVE  <1>1!1 /\ UNCHANGED proc
    BY <2>5 DEF ClientLeave, Terminate, Leave, Join, StopAll, vars, routerVars, chatVars, streamVars,
       allVars, serverVars, connVars
  <2> QED
    BY <2>1, <2>2, <2>3, <2>4, <2>5
<1>2. \/ asked' = asked
      \/ asked # <<>> /\ asked' = Tail(asked)
  BY DEF ReadCancel, EndStream, Provider_, ClientLeave, Terminate, Leave, Join, allVars, serverVars,
     connVars
<1>3. reader' = "reply" => \E q \in Requests : reply' \in Notices(q)
  <2>1. ASSUME NEW r \in Requests, ReadCancel(r) PROVE reply' \in Notices(r)
    <3>1. (r \in active) \in BOOLEAN
      OBVIOUS
    <3>2. \A b \in BOOLEAN : <<"ack", r, b>> \in Notices(r)
      BY DEF Notices
    <3> QED
      BY <2>1, <3>1, <3>2 DEF ReadCancel
  <2>2. ASSUME ~\E r \in Requests : ReadCancel(r)
        PROVE  reader' # "reply" \/ UNCHANGED <<reader, reply>>
    BY <2>2 DEF EndStream, Provider_, ClientLeave, Terminate, Leave, Join, allVars, serverVars,
       connVars
  <2> QED
    BY <2>1, <2>2 DEF StreamInv, ServerTypeOK
<1>4. ServerTypeOK'
  <2>1. asked' \in Seq({"request", "cancel"} \X Requests)
    BY <1>2, TailAsked DEF StreamInv, ServerTypeOK
  <2> QED
    BY <1>1, <1>3, <2>1 DEF StreamInv, ServerTypeOK
<1>5. ASSUME NEW q \in Requests PROVE LifeOK(q)'
  <2>1. LifeOK(q)
    BY DEF StreamInv
  <2>2. \A i \in 1..Len(asked') : asked'[i] = <<"request", q>> =>
                 /\ got[q].sent /\ proc[q] = "none"
                 /\ \A j \in 1..Len(asked') : asked'[j] = <<"request", q>> => j = i
    <3>1. CASE asked' = asked
      BY <2>1, <3>1 DEF LifeOK
    <3>2. CASE asked # <<>> /\ asked' = Tail(asked)
      BY <3>2, TailLife
    <3> QED
      BY <1>2, <3>1, <3>2
  <2> QED
    BY <1>1, <2>1, <2>2 DEF LifeOK
<1> QED
  BY <1>1, <1>4, <1>5, QuietStep DEF Still, Finished, Fresh

-----------------------------------------------------------------------------
(* The frame channel *)

LEMMA AppendFrames ==
    ASSUME frames \in Seq(Frames), NEW f \in Frames, frames' = Append(frames, f)
    PROVE  /\ frames' \in Seq(Frames)
           /\ Len(frames) \in Nat /\ Len(frames') = Len(frames) + 1
           /\ \A i \in 1..Len(frames) : i \in 1..Len(frames') /\ frames'[i] = frames[i]
           /\ Len(frames') \in 1..Len(frames') /\ frames'[Len(frames')] = f
           /\ \A i \in 1..Len(frames') : (i \in 1..Len(frames) /\ frames'[i] = frames[i])
                                         \/ (i = Len(frames') /\ frames'[i] = f)
  OBVIOUS

\* A frame of another stream, or one that belongs to none, changes nothing.
LEMMA ForeignFrame ==
    ASSUME frames \in Seq(Frames), NEW f \in Frames, frames' = Append(frames, f),
           NEW q \in Requests, ~IsEvent(f, q), ~IsResult(f, q),
           UNCHANGED writer, Still(q), Flying(q), Over(q) => Over(q)'
    PROVE  Flying(q)'
<1>1. /\ Len(frames) \in Nat /\ Len(frames') = Len(frames) + 1
      /\ \A i \in 1..Len(frames) : i \in 1..Len(frames') /\ frames'[i] = frames[i]
      /\ \A i \in 1..Len(frames') : (i \in 1..Len(frames) /\ frames'[i] = frames[i])
                                    \/ (i = Len(frames') /\ frames'[i] = f)
  BY AppendFrames
<1>2. \A i \in 1..Len(frames') : IsEvent(frames'[i], q) \/ IsResult(frames'[i], q) =>
                                    i \in 1..Len(frames) /\ frames'[i] = frames[i]
  BY <1>1
<1>3. Pending(q)' = Pending(q) /\ Base(q)' = Base(q) /\ Sent(q)' = Sent(q)
  BY DEF Still, Pending, Base, Sent
<1>4. Idle(q) => Idle(q)'
  BY <1>2 DEF Idle
<1>5. NumbersOK(q)'
  <2>1. ASSUME NEW n \in (Base(q) + 1)..Sent(q)
        PROVE  \E i \in 1..Len(frames') : IsEvent(frames'[i], q) /\ frames'[i][3] = n
    <3>1. PICK i \in 1..Len(frames) : IsEvent(frames[i], q) /\ frames[i][3] = n
      BY DEF Flying, NumbersOK
    <3> QED
      BY <1>1, <3>1
  <2> QED
    BY <1>2, <1>3, <2>1 DEF Flying, NumbersOK, Still
<1>6. \A g : IsLast(q, g) => IsLast(q, g)'
  BY DEF IsLast, Still
<1>7. ResultOK(q)'
  BY <1>2, <1>4, <1>6 DEF Flying, ResultOK, Still
<1>8. TextOK(q)'
  BY <1>2, <1>3 DEF Flying, TextOK, Still
<1> QED
  BY <1>5, <1>7, <1>8 DEF Flying

LEMMA SendReplyStep ==
    ASSUME StreamInv, SendReply
    PROVE  StreamInv'
<1>1. /\ UNCHANGED <<writer, stream, outbox, got, events, pc, reason, ctl, proc, asked>>
      /\ reader' = "read"
      /\ IF Open THEN frames' = Append(frames, reply) ELSE UNCHANGED frames
  BY DEF SendReply, SendFrame, vars, routerVars, chatVars, streamVars
<1>2. PICK r \in Requests : reply \in Notices(r)
  BY DEF SendReply, StreamInv, ServerTypeOK
<1>3. reply \in Frames /\ \A q \in Requests : ~IsEvent(reply, q) /\ ~IsResult(reply, q)
  BY <1>2 DEF Frames, Notices, IsEvent, IsResult
<1>4. frames \in Seq(Frames)
  BY DEF StreamInv, ServerTypeOK
<1>5. ServerTypeOK'
  <2>1. frames' \in Seq(Frames)
    BY <1>1, <1>3, <1>4, AppendFrames
  <2> QED
    BY <1>1, <2>1 DEF StreamInv, ServerTypeOK
<1>6. ASSUME NEW q \in Requests PROVE LifeOK(q)' /\ FeedOK(q)' /\ OutboxOK(q)'
  BY <1>1 DEF StreamInv, LifeOK, FeedOK, NoText, Fresh, Finished, OutboxOK
<1>7. ASSUME Open', NEW q \in Requests PROVE NumbersOK(q)' /\ ResultOK(q)' /\ TextOK(q)'
  <2>1. Open /\ frames' = Append(frames, reply)
    BY <1>1, <1>7 DEF Open
  <2>2. Flying(q) /\ Still(q) /\ (Over(q) => Over(q)')
    BY <1>1, <2>1 DEF StreamInv, Flying, Still, Over, Finished
  <2> QED
    BY <1>1, <1>3, <1>4, <2>1, <2>2, ForeignFrame DEF Flying
<1> QED
  BY <1>1, <1>5, <1>6, <1>7 DEF StreamInv

LEMMA EventFrame ==
    ASSUME NEW r \in Requests, NEW f \in EventFrames(r)
    PROVE  /\ f \in Frames /\ IsEvent(f, r) /\ ~IsResult(f, r) /\ f[3] \in Nat
           /\ \A q \in Requests \ {r} : ~IsEvent(f, q) /\ ~IsResult(f, q)
  BY DEF Frames, EventFrames, IsEvent, IsResult

LEMMA ResultFrame ==
    ASSUME NEW r \in Requests, NEW f \in ResultFrames(r)
    PROVE  /\ f \in Frames /\ ~IsEvent(f, r) /\ IsResult(f, r) /\ f[3] \in Finals /\ f[4] \in Nat
           /\ \A q \in Requests \ {r} : ~IsEvent(f, q) /\ ~IsResult(f, q)
  BY DEF Frames, ResultFrames, IsEvent, IsResult

LEMMA ErrorFrame ==
    ASSUME NEW r \in Requests, NEW f, f = <<"error", r>>
    PROVE  /\ f \in Frames /\ ~IsEvent(f, r) /\ ~IsResult(f, r)
           /\ \A q \in Requests \ {r} : ~IsEvent(f, q) /\ ~IsResult(f, q)
  BY DEF Frames, Notices, IsEvent, IsResult

\* The shapes of what an event leaves to be sent, with their heads and tails.
LEMMA OutboxCases ==
    ASSUME NEW r \in Requests, OutboxOK(r), outbox[r] # <<>>, NEW f, f = Head(outbox[r])
    PROVE  \/ f = <<"error", r>> /\ Tail(outbox[r]) = <<>> /\ outbox[r] = <<f>>
           \/ /\ f \in EventFrames(r) /\ f[3] = stream[r].seq
              /\ Tail(outbox[r]) = <<>> /\ outbox[r] = <<f>>
           \/ /\ f \in EventFrames(r) /\ f[3] = stream[r].seq
              /\ \E p \in ResultFrames(r) : Tail(outbox[r]) = <<p>> /\ outbox[r] = <<f, p>>
           \/ f \in ResultFrames(r) /\ Tail(outbox[r]) = <<>> /\ outbox[r] = <<f>>
<1>1. \A g : Head(<<g>>) = g /\ Tail(<<g>>) = <<>>
  OBVIOUS
<1>2. \A g, p : Head(<<g, p>>) = g /\ Tail(<<g, p>>) = <<p>>
  OBVIOUS
<1> QED
  BY <1>1, <1>2, ZenonT(40) DEF OutboxOK

LEMMA EmitOwn ==
    ASSUME StreamInv, Open, NEW r \in Requests, outbox[r] # <<>>,
           frames' = Append(frames, Head(outbox[r])),
           outbox' = [outbox EXCEPT ![r] = Tail(@)],
           outbox'[r] = Tail(outbox[r]),
           UNCHANGED <<writer, stream, got, events, pc, ctl, proc>>
    PROVE  Flying(r)'
<1> PICK f : f = Head(outbox[r])
  OBVIOUS
<1>1. /\ frames \in Seq(Frames) /\ stream[r].seq \in Nat /\ got[r].seq \in Nat
      /\ OutboxOK(r) /\ Flying(r)
  BY DEF StreamInv, ServerTypeOK, Flying, Streams, Views
<1>2. /\ f \in Frames
      /\ \/ f = <<"error", r>> /\ outbox'[r] = <<>> /\ outbox[r] = <<f>>
         \/ f \in EventFrames(r) /\ f[3] = stream[r].seq /\ outbox'[r] = <<>> /\ outbox[r] = <<f>>
         \/ /\ f \in EventFrames(r) /\ f[3] = stream[r].seq
            /\ \E p \in ResultFrames(r) : outbox'[r] = <<p>> /\ outbox[r] = <<f, p>>
         \/ f \in ResultFrames(r) /\ outbox'[r] = <<>> /\ outbox[r] = <<f>>
  BY <1>1, OutboxCases, EventFrame, ResultFrame, ErrorFrame
<1>3. frames' = Append(frames, f)
  OBVIOUS
<1>4. /\ Len(frames) \in Nat /\ Len(frames') = Len(frames) + 1
      /\ \A i \in 1..Len(frames) : i \in 1..Len(frames') /\ frames'[i] = frames[i]
      /\ Len(frames') \in 1..Len(frames') /\ frames'[Len(frames')] = f
      /\ \A i \in 1..Len(frames') : (i \in 1..Len(frames) /\ frames'[i] = frames[i])
                                    \/ (i = Len(frames') /\ frames'[i] = f)
  BY <1>1, <1>2, <1>3, AppendFrames
<1>5. /\ ~IsResult(writer, r) /\ got[r].result = "none"
      /\ \A i \in 1..Len(frames) : ~IsResult(frames[i], r)
  BY <1>1 DEF Flying, ResultOK
<1>6. ~Pending(r)'
  <2>1. \A p \in ResultFrames(r) : ~IsEvent(p, r)
    BY ResultFrame
  <2>2. \A p : Head(<<p>>) = p
    OBVIOUS
  <2> QED
    BY <1>2, <2>1, <2>2 DEF Pending
<1>7. Base(r)' = Base(r) /\ Sent(r)' = stream[r].seq
  BY <1>6 DEF Base, Sent
<1>9. IsEvent(f, r) <=> f \in EventFrames(r)
  BY <1>2, EventFrame, ResultFrame, ErrorFrame
<1>8. Pending(r) <=> f \in EventFrames(r)
  BY <1>9 DEF Pending
<1>10. \A g : IsLast(r, g) => IsLast(r, g)'
  BY DEF IsLast, Over, Finished
<1>11. NumbersOK(r)'
  <2>1. CASE f \in EventFrames(r)
    <3>1. Sent(r) = stream[r].seq - 1 /\ f[3] = stream[r].seq
      <4>1. f # <<"error", r>> /\ f \notin ResultFrames(r)
        BY <1>9, <2>1, ResultFrame, ErrorFrame
      <4> QED
        BY <1>2, <1>8, <2>1, <4>1 DEF Sent
    <3>2. Base(r) \in Nat
      BY <1>1 DEF Flying, NumbersOK, Base
    <3>3. Base(r) <= Sent(r)
      BY <1>1 DEF Flying, NumbersOK
    <3>4. ASSUME NEW i \in 1..Len(frames'), IsEvent(frames'[i], r)
          PROVE  /\ frames'[i][3] \in (Base(r) + 1)..stream[r].seq
                 /\ i \in 1..Len(frames) => frames'[i][3] < stream[r].seq
      <4>1. CASE i \in 1..Len(frames) /\ frames'[i] = frames[i]
        <5>1. frames[i][3] \in (Base(r) + 1)..Sent(r)
          BY <1>1, <3>4, <4>1 DEF Flying, NumbersOK
        <5> QED
          BY <1>1, <3>1, <3>2, <4>1, <5>1
      <4>2. CASE i = Len(frames') /\ frames'[i] = f
        BY <1>1, <1>4, <3>1, <3>2, <3>3, <4>2
      <4> QED
        BY <1>4, <4>1, <4>2
    <3>5. ASSUME NEW i \in 1..Len(frames'), NEW j \in 1..Len(frames'), i < j,
                 IsEvent(frames'[i], r), IsEvent(frames'[j], r)
          PROVE  frames'[i][3] < frames'[j][3]
      <4>1. i \in 1..Len(frames) /\ frames'[i] = frames[i]
        BY <1>4, <3>5
      <4>2. CASE j \in 1..Len(frames) /\ frames'[j] = frames[j]
        BY <1>1, <3>5, <4>1, <4>2 DEF Flying, NumbersOK
      <4>3. CASE j = Len(frames') /\ frames'[j] = f
        BY <3>1, <3>4, <3>5, <4>1, <4>3
      <4> QED
        BY <1>4, <4>2, <4>3
    <3>6. ASSUME NEW n \in (Base(r) + 1)..stream[r].seq
          PROVE  \E i \in 1..Len(frames') : IsEvent(frames'[i], r) /\ frames'[i][3] = n
      <4>1. CASE n = stream[r].seq
        BY <1>4, <1>9, <2>1, <3>1, <4>1
      <4>2. CASE n # stream[r].seq
        <5>1. n \in (Base(r) + 1)..Sent(r)
          BY <1>1, <3>1, <3>2, <4>2
        <5>2. PICK i \in 1..Len(frames) : IsEvent(frames[i], r) /\ frames[i][3] = n
          BY <1>1, <5>1 DEF Flying, NumbersOK
        <5> QED
          BY <1>4, <5>2
      <4> QED
        BY <4>1, <4>2
    <3>7. Base(r) <= stream[r].seq
      BY <1>1, <3>1, <3>2, <3>3
    <3>8. IsEvent(writer, r) => writer[3] = got[r].seq + 1
      BY <1>1 DEF Flying, NumbersOK
    <3> QED
      BY <1>7, <3>4, <3>5, <3>6, <3>7, <3>8 DEF NumbersOK
  <2>2. CASE f \notin EventFrames(r)
    <3>1. Sent(r) = stream[r].seq
      BY <1>8, <2>2 DEF Sent
    <3>2. \A i \in 1..Len(frames') : IsEvent(frames'[i], r) =>
                                        i \in 1..Len(frames) /\ frames'[i] = frames[i]
      BY <1>4, <1>9, <2>2
    <3>3. ASSUME NEW n \in (Base(r) + 1)..Sent(r)
          PROVE  \E i \in 1..Len(frames') : IsEvent(frames'[i], r) /\ frames'[i][3] = n
      <4>1. PICK i \in 1..Len(frames) : IsEvent(frames[i], r) /\ frames[i][3] = n
        BY <1>1 DEF Flying, NumbersOK
      <4> QED
        BY <1>4, <4>1
    <3>4. \A i \in 1..Len(frames') : IsEvent(frames'[i], r) =>
             frames'[i][3] \in (Base(r) + 1)..Sent(r)
      BY <1>1, <3>2 DEF Flying, NumbersOK
    <3>5. ASSUME NEW i \in 1..Len(frames'), NEW j \in 1..Len(frames'), i < j,
                 IsEvent(frames'[i], r), IsEvent(frames'[j], r)
          PROVE  frames'[i][3] < frames'[j][3]
      BY <1>1, <3>2, <3>5 DEF Flying, NumbersOK
    <3>6. Base(r) <= Sent(r) /\ (IsEvent(writer, r) => writer[3] = got[r].seq + 1)
      BY <1>1 DEF Flying, NumbersOK
    <3>7. Base(r)' = Base(r) /\ Sent(r)' = Sent(r)
      BY <1>7, <3>1
    <3> QED
      BY <3>3, <3>4, <3>5, <3>6, <3>7 DEF NumbersOK
  <2> QED
    BY <2>1, <2>2
<1>12. ResultOK(r)'
  <2>0. IsResult(f, r) <=> f \in ResultFrames(r)
    BY <1>2, EventFrame, ResultFrame, ErrorFrame
  <2>1. \A i \in 1..Len(frames') : IsResult(frames'[i], r) =>
                                      i = Len(frames') /\ frames'[i] = f /\ f \in ResultFrames(r)
    BY <1>4, <1>5, <2>0
  <2>2. f \in ResultFrames(r) => IsLast(r, f)' /\ outbox'[r] = <<>>
    <3> HAVE f \in ResultFrames(r)
    <3>1. outbox'[r] = <<>> /\ outbox[r] = <<f>>
      <4>1. f # <<"error", r>> /\ f \notin EventFrames(r)
        BY <2>0, EventFrame, ErrorFrame
      <4> QED
        BY <1>2, <4>1
    <3>2. 1 \in 1..Len(outbox[r]) /\ outbox[r][1] = f
      BY <3>1
    <3>3. IsLast(r, f)
      BY <1>1, <2>0, <3>2 DEF Flying, ResultOK
    <3> QED
      BY <1>10, <3>1, <3>3
  <2>3. (\A i \in 1..Len(outbox[r]) : IsResult(outbox[r][i], r) => IsLast(r, outbox[r][i]))'
    <3>1. CASE outbox'[r] = <<>>
      BY <3>1
    <3>2. ASSUME NEW p \in ResultFrames(r), outbox'[r] = <<p>>, outbox[r] = <<f, p>>
          PROVE  <2>3
      <4>1. 2 \in 1..Len(outbox[r]) /\ outbox[r][2] = p
        BY <3>2
      <4>2. IsLast(r, p)'
        BY <1>1, <1>10, <4>1, ResultFrame DEF Flying, ResultOK
      <4>3. \A i \in 1..Len(<<p>>) : <<p>>[i] = p
        OBVIOUS
      <4> QED
        BY <3>2, <4>2, <4>3
    <3> QED
      BY <1>2, <3>1, <3>2
  <2>4. ASSUME NEW i \in 1..Len(frames'), IsResult(frames'[i], r)
        PROVE  /\ IsLast(r, frames[i])' /\ outbox'[r] = <<>>
               /\ \A j \in 1..Len(frames') : j <= i
    BY <1>4, <2>1, <2>2, <2>4
  <2> QED
    BY <1>5, <2>3, <2>4 DEF ResultOK
<1>13. TextOK(r)'
  <2> PICK T \in [Nat -> Nat] :
        /\ T[got[r].seq] = got[r].text
        /\ T[stream[r].seq] = stream[r].text
        /\ IsEvent(writer, r) => Shows(T, writer)
        /\ \A i \in 1..Len(frames) : IsEvent(frames[i], r) => Shows(T, frames[i])
        /\ Pending(r) => Shows(T, Head(outbox[r]))
    BY <1>1 DEF Flying, TextOK
  <2>1. \A i \in 1..Len(frames') : IsEvent(frames'[i], r) => Shows(T, frames'[i])
    BY <1>4, <1>8, <1>9
  <2> QED
    BY <1>6, <2>1 DEF TextOK
<1> QED
  BY <1>11, <1>12, <1>13 DEF Flying

LEMMA EmitStep ==
    ASSUME StreamInv, NEW r \in Requests, Emit(r)
    PROVE  StreamInv'
<1> PICK f : f = Head(outbox[r])
  OBVIOUS
<1>0. /\ DOMAIN outbox = Requests
      /\ frames \in Seq(Frames)
  BY DEF StreamInv, ServerTypeOK
<1>1. /\ outbox[r] # <<>>
      /\ outbox' = [outbox EXCEPT ![r] = Tail(@)]
      /\ UNCHANGED <<writer, stream, got, events, pc, reason, ctl, proc, asked, reader, reply>>
      /\ IF Open THEN frames' = Append(frames, f) ELSE UNCHANGED frames
  BY DEF Emit, SendFrame, vars, routerVars, chatVars
<1>2. outbox'[r] = Tail(outbox[r]) /\ \A q \in Requests \ {r} : outbox'[q] = outbox[q]
  BY <1>0, <1>1
<1>3. /\ f \in Frames /\ \A q \in Requests \ {r} : ~IsEvent(f, q) /\ ~IsResult(f, q)
      /\ outbox'[r] = <<>> \/ \E p \in ResultFrames(r) : outbox'[r] = <<p>>
  <2>1. OutboxOK(r)
    BY DEF StreamInv
  <2> QED
    BY <1>1, <1>2, <2>1, OutboxCases, EventFrame, ResultFrame, ErrorFrame
<1>4. ServerTypeOK'
  <2>1. frames' \in Seq(Frames)
    BY <1>0, <1>1, <1>3, AppendFrames
  <2>2. DOMAIN outbox' = Requests
    BY <1>0, <1>1
  <2> QED
    BY <1>1, <2>1, <2>2 DEF StreamInv, ServerTypeOK
<1>5. ASSUME NEW q \in Requests PROVE LifeOK(q)' /\ FeedOK(q)' /\ OutboxOK(q)'
  <2>1. FeedOK(q)'
    BY <1>1 DEF StreamInv, FeedOK, NoText, Fresh, Finished
  <2>2. LifeOK(q)'
    BY <1>1, <1>2 DEF StreamInv, LifeOK
  <2>3. OutboxOK(q)'
    <3>1. CASE q = r
      BY <1>1, <1>3, <3>1 DEF OutboxOK, ResultFrames
    <3>2. CASE q # r
      BY <1>1, <1>2, <3>2 DEF StreamInv, OutboxOK, ResultFrames, EventFrames
    <3> QED
      BY <3>1, <3>2
  <2> QED
    BY <2>1, <2>2, <2>3
<1>6. ASSUME Open', NEW q \in Requests PROVE NumbersOK(q)' /\ ResultOK(q)' /\ TextOK(q)'
  <2>1. Open /\ frames' = Append(frames, f)
    BY <1>1, <1>6 DEF Open
  <2>2. CASE q = r
    BY <1>1, <1>2, <2>1, <2>2, EmitOwn DEF Flying
  <2>3. CASE q # r
    <3>1. Flying(q) /\ Still(q) /\ (Over(q) => Over(q)')
      BY <1>1, <1>2, <2>1, <2>3 DEF StreamInv, Flying, Still, Over, Finished
    <3>2. ~IsEvent(f, q) /\ ~IsResult(f, q)
      BY <1>3, <2>3
    <3> QED
      BY <1>0, <1>1, <1>3, <2>1, <3>1, <3>2, ForeignFrame DEF Flying
  <2> QED
    BY <2>2, <2>3
<1> QED
  BY <1>1, <1>4, <1>5, <1>6 DEF StreamInv

-----------------------------------------------------------------------------
(* The writer *)

LEMMA TailFrames ==
    ASSUME frames \in Seq(Frames), frames # <<>>, frames' = Tail(frames)
    PROVE  /\ frames' \in Seq(Frames) /\ frames[1] \in Frames /\ Head(frames) = frames[1]
           /\ Len(frames) \in Nat /\ Len(frames') = Len(frames) - 1
           /\ 1 \in 1..Len(frames)
           /\ \A i \in 1..Len(frames') : i + 1 \in 1..Len(frames) /\ frames'[i] = frames[i + 1]
           /\ \A i \in 1..Len(frames) : i # 1 => i - 1 \in 1..Len(frames')
                                                /\ frames'[i - 1] = frames[i]
  OBVIOUS

\* The next frame moves from the channel to the writer.
LEMMA TakeOwn ==
    ASSUME NEW r \in Requests, Flying(r), frames \in Seq(Frames), frames # <<>>,
           stream[r].seq \in Nat, got[r].seq \in Nat,
           writer = <<"recv">>, writer' = Head(frames), frames' = Tail(frames),
           UNCHANGED <<stream, outbox, got, events, pc, ctl, proc>>
    PROVE  Flying(r)'
<1>1. /\ frames' \in Seq(Frames) /\ writer' = frames[1]
      /\ Len(frames) \in Nat /\ Len(frames') = Len(frames) - 1
      /\ 1 \in 1..Len(frames)
      /\ \A i \in 1..Len(frames') : i + 1 \in 1..Len(frames) /\ frames'[i] = frames[i + 1]
      /\ \A i \in 1..Len(frames) : i # 1 => i - 1 \in 1..Len(frames') /\ frames'[i - 1] = frames[i]
  BY TailFrames
<1>2. Base(r) = got[r].seq /\ Sent(r) \in Int /\ Sent(r)' = Sent(r) /\ Pending(r)' = Pending(r)
  BY DEF Base, Sent, Pending, IsEvent
<1>3. \A g : IsLast(r, g) => IsLast(r, g)'
  BY DEF IsLast, Over, Finished
<1>4. IsEvent(writer', r) => writer'[3] = got[r].seq + 1 /\ Base(r)' = got[r].seq + 1
  <2> HAVE IsEvent(writer', r)
  <2>1. frames[1][3] \in (got[r].seq + 1)..Sent(r)
    BY <1>1, <1>2 DEF Flying, NumbersOK
  <2>2. got[r].seq + 1 \in (got[r].seq + 1)..Sent(r)
    BY <1>2, <2>1
  <2>3. PICK i \in 1..Len(frames) : IsEvent(frames[i], r) /\ frames[i][3] = got[r].seq + 1
    BY <1>2, <2>2 DEF Flying, NumbersOK
  <2>4. ~(1 < i)
    <3> SUFFICES ASSUME 1 < i PROVE FALSE
      OBVIOUS
    <3>1. frames[1][3] < frames[i][3]
      BY <1>1, <2>3 DEF Flying, NumbersOK
    <3> QED
      BY <2>1, <2>3, <3>1
  <2>5. i = 1
    BY <1>1, <2>4
  <2> QED
    BY <1>1, <2>3, <2>5 DEF Base
<1>5. ~IsEvent(writer', r) => Base(r)' = got[r].seq
  BY DEF Base
<1>6. NumbersOK(r)'
  <2>1. Base(r)' <= Sent(r) /\ Base(r)' \in Nat /\ Base(r)' >= got[r].seq
    <3>1. CASE IsEvent(writer', r)
      <4>1. frames[1][3] \in (got[r].seq + 1)..Sent(r)
        BY <1>1, <1>2, <3>1 DEF Flying, NumbersOK
      <4> QED
        BY <1>1, <1>2, <1>4, <3>1, <4>1
    <3>2. CASE ~IsEvent(writer', r)
      BY <1>2, <1>5, <3>2 DEF Flying, NumbersOK
    <3> QED
      BY <3>1, <3>2
  <2>2. ASSUME NEW i \in 1..Len(frames'), IsEvent(frames'[i], r)
        PROVE  frames'[i][3] \in (Base(r)' + 1)..Sent(r)
    <3>1. i + 1 \in 1..Len(frames) /\ frames'[i] = frames[i + 1]
      BY <1>1
    <3>2. frames[i + 1][3] \in (got[r].seq + 1)..Sent(r)
      BY <1>2, <2>2, <3>1 DEF Flying, NumbersOK
    <3>3. CASE IsEvent(writer', r)
      <4>1. frames[1][3] < frames[i + 1][3]
        <5>1. 1 < i + 1
          BY <1>1
        <5> QED
          BY <1>1, <2>2, <3>1, <3>3, <5>1 DEF Flying, NumbersOK
      <4> QED
        BY <1>1, <1>2, <1>4, <3>1, <3>2, <3>3, <4>1
    <3>4. CASE ~IsEvent(writer', r)
      BY <1>5, <3>1, <3>2, <3>4
    <3> QED
      BY <3>3, <3>4
  <2>3. ASSUME NEW i \in 1..Len(frames'), NEW j \in 1..Len(frames'), i < j,
               IsEvent(frames'[i], r), IsEvent(frames'[j], r)
        PROVE  frames'[i][3] < frames'[j][3]
    <3>1. /\ i + 1 \in 1..Len(frames) /\ frames'[i] = frames[i + 1]
          /\ j + 1 \in 1..Len(frames) /\ frames'[j] = frames[j + 1] /\ i + 1 < j + 1
      BY <1>1, <2>3
    <3> QED
      BY <2>3, <3>1 DEF Flying, NumbersOK
  <2>4. ASSUME NEW n \in (Base(r)' + 1)..Sent(r)
        PROVE  \E i \in 1..Len(frames') : IsEvent(frames'[i], r) /\ frames'[i][3] = n
    <3>1. n \in (Base(r) + 1)..Sent(r)
      BY <1>2, <2>1
    <3>2. PICK i \in 1..Len(frames) : IsEvent(frames[i], r) /\ frames[i][3] = n
      BY <3>1 DEF Flying, NumbersOK
    <3>3. i # 1
      BY <1>1, <1>2, <1>4, <2>1, <3>2
    <3> QED
      BY <1>1, <3>2, <3>3
  <2> QED
    BY <1>2, <1>4, <2>1, <2>2, <2>3, <2>4 DEF NumbersOK
<1>7. ResultOK(r)'
  <2>1. IsResult(writer', r) => IsLast(r, writer)' /\ outbox'[r] = <<>> /\ Idle(r)'
    <3> HAVE IsResult(writer', r)
    <3>1. /\ IsLast(r, frames[1]) /\ outbox[r] = <<>>
          /\ \A j \in 1..Len(frames) : IsEvent(frames[j], r) \/ IsResult(frames[j], r) => j <= 1
      BY <1>1 DEF Flying, ResultOK
    <3>2. PICK g : g = frames[1]
      OBVIOUS
    <3>3. IsLast(r, g)'
      BY <1>3, <3>1, <3>2
    <3>4. ASSUME NEW i \in 1..Len(frames'), IsEvent(frames'[i], r) \/ IsResult(frames'[i], r)
          PROVE  FALSE
      <4>1. i + 1 \in 1..Len(frames) /\ frames'[i] = frames[i + 1]
        BY <1>1
      <4>2. i + 1 <= 1
        BY <3>1, <3>4, <4>1
      <4> QED
        BY <4>2
    <3> QED
      BY <1>1, <3>1, <3>2, <3>3, <3>4 DEF Idle
  <2>2. ASSUME NEW i \in 1..Len(frames'), IsResult(frames'[i], r)
        PROVE  /\ IsLast(r, frames[i])' /\ outbox'[r] = <<>>
               /\ \A j \in 1..Len(frames') : IsEvent(frames'[j], r) \/ IsResult(frames'[j], r) => j <= i
    <3>0. PICK g : g = frames'[i]
      OBVIOUS
    <3>1. i + 1 \in 1..Len(frames) /\ g = frames[i + 1]
      BY <1>1, <3>0
    <3>2. /\ IsLast(r, g) /\ outbox[r] = <<>>
          /\ \A j \in 1..Len(frames) : IsEvent(frames[j], r) \/ IsResult(frames[j], r) => j <= i + 1
      BY <2>2, <3>0, <3>1 DEF Flying, ResultOK
    <3>3. ASSUME NEW j \in 1..Len(frames'), IsEvent(frames'[j], r) \/ IsResult(frames'[j], r)
          PROVE  j <= i
      <4>1. j + 1 \in 1..Len(frames) /\ frames'[j] = frames[j + 1]
        BY <1>1
      <4>2. j + 1 <= i + 1
        BY <3>2, <3>3, <4>1
      <4> QED
        BY <4>2
    <3>4. IsLast(r, g)'
      BY <1>3, <3>2
    <3> QED
      BY <3>0, <3>2, <3>3, <3>4
  <2>3. (\A i \in 1..Len(outbox[r]) : IsResult(outbox[r][i], r) => IsLast(r, outbox[r][i]))'
    <3>1. \A i \in 1..Len(outbox[r]) : IsResult(outbox[r][i], r) => IsLast(r, outbox[r][i])
      BY DEF Flying, ResultOK
    <3> QED
      BY <3>1 DEF IsLast, Over, Finished
  <2>4. got'[r].result # "none" =>
          /\ Over(r)' /\ outbox'[r] = <<>> /\ Idle(r)'
          /\ ~IsEvent(writer', r) /\ ~IsResult(writer', r)
    <3> HAVE got'[r].result # "none"
    <3>1. Over(r) /\ outbox[r] = <<>> /\ Idle(r)
      BY DEF Flying, ResultOK
    <3> QED
      BY <1>1, <3>1 DEF Over, Finished, Idle
  <2> QED
    BY <2>1, <2>2, <2>3, <2>4 DEF ResultOK
<1>8. TextOK(r)'
  <2> PICK T \in [Nat -> Nat] :
        /\ T[got[r].seq] = got[r].text
        /\ T[stream[r].seq] = stream[r].text
        /\ IsEvent(writer, r) => Shows(T, writer)
        /\ \A i \in 1..Len(frames) : IsEvent(frames[i], r) => Shows(T, frames[i])
        /\ Pending(r) => Shows(T, Head(outbox[r]))
    BY DEF Flying, TextOK
  <2> QED
    BY <1>1, <1>2 DEF TextOK
<1> QED
  BY <1>6, <1>7, <1>8 DEF Flying

\* What the writer has written reaches the client.
Honest(r) == got[r].result = "completed" => got[r].payload = got[r].text

LEMMA DeliverOwn ==
    ASSUME NEW r \in Requests, Flying(r), Honest(r), got \in [Requests -> Views],
           stream[r].seq \in Nat, writer \in Frames,
           writer' = <<"recv">>, got' = [got EXCEPT ![writer[2]] = Seen(@, writer)],
           UNCHANGED <<frames, stream, outbox, events, pc, ctl, proc>>
    PROVE  /\ Flying(r)' /\ Honest(r)'
           /\ got'[r] \in Views /\ got'[r].sent = got[r].sent
           /\ proc[r] = "none" /\ stream[r].seq = 0 => got'[r] = got[r]
<1>1. /\ got[r] \in Views /\ got[r].seq \in Nat /\ got[r].text \in Nat
      /\ ~IsEvent(writer', r) /\ ~IsResult(writer', r)
      /\ Pending(r)' = Pending(r) /\ Sent(r)' = Sent(r) /\ Idle(r)' = Idle(r)
      /\ Base(r)' = got'[r].seq /\ Sent(r) \in Int /\ Sent(r) <= stream[r].seq
  BY DEF Views, IsEvent, IsResult, Pending, Sent, Idle, Base
<1>2. ASSUME Base(r)' = Base(r) PROVE NumbersOK(r)'
  BY <1>1, <1>2 DEF Flying, NumbersOK
<1>3. \A g : IsLast(r, g) /\ got'[r].result = got[r].result => IsLast(r, g)'
  BY DEF IsLast, Over, Finished
<1>4. ASSUME got'[r].result = got[r].result PROVE ResultOK(r)'
  <2>1. ~IsResult(writer', r) /\ ~IsEvent(writer', r)
    BY <1>1
  <2>2. ASSUME NEW i \in 1..Len(frames), IsResult(frames[i], r)
        PROVE  /\ IsLast(r, frames[i])' /\ outbox[r] = <<>>
               /\ \A j \in 1..Len(frames) : IsEvent(frames[j], r) \/ IsResult(frames[j], r) => j <= i
    BY <1>3, <1>4, <2>2 DEF Flying, ResultOK
  <2>3. \A i \in 1..Len(outbox[r]) : IsResult(outbox[r][i], r) => IsLast(r, outbox[r][i])'
    BY <1>3, <1>4 DEF Flying, ResultOK
  <2>4. got'[r].result # "none" => Over(r)' /\ outbox[r] = <<>> /\ Idle(r)'
    BY <1>1, <1>4 DEF Flying, ResultOK, Over, Finished
  <2> QED
    BY <2>1, <2>2, <2>3, <2>4 DEF ResultOK
<1>0. PICK T \in [Nat -> Nat] :
        /\ T[got[r].seq] = got[r].text
        /\ T[stream[r].seq] = stream[r].text
        /\ IsEvent(writer, r) => Shows(T, writer)
        /\ \A i \in 1..Len(frames) : IsEvent(frames[i], r) => Shows(T, frames[i])
        /\ Pending(r) => Shows(T, Head(outbox[r]))
  BY DEF Flying, TextOK
<1>5. ASSUME T[got'[r].seq] = got'[r].text PROVE TextOK(r)'
  BY <1>0, <1>1, <1>5 DEF TextOK
<1>6. CASE IsEvent(writer, r)
  <2>1. /\ got'[r] = [got[r] EXCEPT !.seq = writer[3],
                                    !.text = IF writer[5] = "start" THEN 0
                                             ELSE IF writer[5] = "delta" THEN @ + 1 ELSE @]
    BY <1>6 DEF Seen, IsEvent
  <2>2. /\ got'[r].seq = writer[3] /\ got'[r].result = got[r].result
        /\ got'[r].payload = got[r].payload /\ got'[r].sent = got[r].sent
        /\ got'[r].text = IF writer[5] = "start" THEN 0
                          ELSE IF writer[5] = "delta" THEN got[r].text + 1 ELSE got[r].text
    BY <1>1, <2>1 DEF Views
  <2>3. writer[3] = got[r].seq + 1 /\ Base(r) = writer[3] /\ Base(r) <= Sent(r)
    BY <1>6 DEF Flying, NumbersOK, Base
  <2>4. got[r].result = "none"
    BY <1>6 DEF Flying, ResultOK
  <2>5. T[got'[r].seq] = got'[r].text
    <3>1. writer[3] - 1 = got[r].seq
      BY <1>1, <2>3
    <3> QED
      BY <1>0, <1>6, <2>2, <3>1 DEF Shows
  <2>6. got'[r] \in Views
    <3>1. \E n \in Nat, m \in Nat : got'[r] = [got[r] EXCEPT !.seq = n, !.text = m]
      <4>1. writer[3] \in Nat
        BY <1>1, <2>3
      <4>2. got'[r].text \in Nat
        BY <1>1, <2>2
      <4>3. got'[r] = [got[r] EXCEPT !.seq = writer[3], !.text = got'[r].text]
        BY <1>1, <2>1, <2>2 DEF Views
      <4> QED
        BY <4>1, <4>2, <4>3
    <3> QED
      BY <1>1, <3>1 DEF Views
  <2>7. ~(proc[r] = "none" /\ stream[r].seq = 0)
    <3>1. got[r].seq + 1 <= Sent(r)
      BY <2>3
    <3>2. Sent(r) <= stream[r].seq /\ Sent(r) \in Int /\ got[r].seq \in Nat
      BY <1>1
    <3> QED
      BY <3>1, <3>2
  <2>8. Honest(r)'
    BY <2>2, <2>4 DEF Honest
  <2> QED
    BY <1>1, <1>2, <1>4, <1>5, <2>2, <2>3, <2>5, <2>6, <2>7, <2>8 DEF Flying
<1>7. CASE IsResult(writer, r)
  <2>1. got'[r] = [got[r] EXCEPT !.result = writer[3], !.payload = writer[4]]
    BY <1>7 DEF Seen, IsResult
  <2>2. writer[3] \in Finals /\ writer[4] \in Nat
    <3>1. PICK q \in Requests : writer \in EventFrames(q) \cup ResultFrames(q) \cup Notices(q)
      BY DEF Frames
    <3>2. writer[1] = "result"
      BY <1>7 DEF IsResult
    <3>3. writer \notin EventFrames(q) /\ writer \notin Notices(q)
      BY <3>2 DEF EventFrames, Notices
    <3> QED
      BY <3>1, <3>3, ResultFrame
  <2>3. /\ got'[r].seq = got[r].seq /\ got'[r].text = got[r].text /\ got'[r].sent = got[r].sent
        /\ got'[r].result = writer[3] /\ got'[r].payload = writer[4] /\ got'[r] \in Views
    BY <1>1, <2>1, <2>2 DEF Views
  <2>4. IsLast(r, writer) /\ outbox[r] = <<>> /\ Idle(r) /\ ~IsEvent(writer, r)
    BY <1>7 DEF Flying, ResultOK, IsEvent, IsResult
  <2>5. Base(r) = got[r].seq /\ ~Pending(r) /\ Sent(r) = stream[r].seq
    BY <2>4 DEF Base, Pending, Sent
  <2>6. got[r].seq = stream[r].seq
    <3>1. got[r].seq <= stream[r].seq
      BY <2>5 DEF Flying, NumbersOK
    <3>2. \A n \in (got[r].seq + 1)..stream[r].seq : FALSE
      BY <2>4, <2>5 DEF Flying, NumbersOK, Idle
    <3>3. got[r].seq \in Nat
      BY <1>1
    <3>4. ASSUME got[r].seq < stream[r].seq PROVE FALSE
      <4>1. stream[r].seq \in (got[r].seq + 1)..stream[r].seq
        BY <3>3, <3>4
      <4> QED
        BY <3>2, <4>1
    <3> QED
      BY <3>1, <3>3, <3>4
  <2>7. got[r].text = stream[r].text
    BY <1>0, <2>6
  <2>8. Honest(r)'
    BY <2>3, <2>4, <2>7 DEF Honest, IsLast
  <2>9. ResultOK(r)'
    <3>1. Over(r)' /\ outbox'[r] = <<>> /\ Idle(r)'
      BY <1>1, <2>4 DEF IsLast, Over, Finished
    <3>2. \A i \in 1..Len(frames') : ~IsResult(frames'[i], r)
      BY <3>1 DEF Idle
    <3>3. Len(outbox'[r]) = 0
      BY <3>1
    <3> QED
      BY <1>1, <3>1, <3>2, <3>3 DEF ResultOK
  <2>10. proc[r] # "none"
    BY <2>4 DEF IsLast, Over
  <2> QED
    BY <1>0, <1>1, <1>2, <1>5, <2>3, <2>5, <2>8, <2>9, <2>10 DEF Flying
<1>8. CASE ~IsEvent(writer, r) /\ ~IsResult(writer, r)
  <2>1. got'[r] = got[r]
    <3>1. CASE writer[2] # r
      BY <3>1
    <3>2. CASE writer[2] = r
      BY <1>8, <3>2 DEF Seen, IsEvent, IsResult
    <3> QED
      BY <3>1, <3>2
  <2>2. Base(r)' = Base(r)
    BY <1>1, <1>8, <2>1 DEF Base
  <2> QED
    BY <1>0, <1>1, <1>2, <1>4, <1>5, <2>1, <2>2 DEF Flying, Honest
<1> QED
  BY <1>6, <1>7, <1>8

LEMMA WriteStep ==
    ASSUME StreamInv, Write
    PROVE  StreamInv'
<1>1. UNCHANGED <<events, pc, reason, ctl, proc, asked, reader, reply, stream, outbox>>
  BY DEF Write, vars, routerVars, chatVars
<1>2. /\ frames \in Seq(Frames) /\ got \in [Requests -> Views] /\ stream \in [Requests -> Streams]
      /\ writer \in Frames \cup {<<"recv">>, <<"done">>}
      /\ DOMAIN got = Requests
  BY DEF StreamInv, ServerTypeOK
<1>3. ASSUME NEW q \in Requests PROVE FeedOK(q)' /\ OutboxOK(q)'
  BY <1>1 DEF StreamInv, FeedOK, NoText, Fresh, Finished, OutboxOK, EventFrames, ResultFrames
<1>4. ASSUME UNCHANGED got PROVE \A q \in Requests : LifeOK(q)' /\ Honest(q)'
  BY <1>1, <1>4 DEF StreamInv, LifeOK, Honest
<1>5. ASSUME UNCHANGED got, frames' \in Seq(Frames), writer' \in Frames \cup {<<"recv">>, <<"done">>}
      PROVE  ServerTypeOK'
  BY <1>1, <1>5 DEF StreamInv, ServerTypeOK
<1>6. CASE writer = <<"recv">> /\ frames # <<>> /\ writer' = Head(frames) /\ frames' = Tail(frames)
           /\ UNCHANGED got
  <2>1. frames' \in Seq(Frames) /\ writer' \in Frames
    BY <1>2, <1>6, TailFrames
  <2>2. Open
    BY <1>6 DEF Open
  <2>3. ASSUME NEW q \in Requests PROVE Flying(q)'
    <3>1. Flying(q) /\ stream[q].seq \in Nat /\ got[q].seq \in Nat
      BY <1>2, <2>2 DEF StreamInv, Flying, Streams, Views
    <3> QED
      BY <1>1, <1>2, <1>6, <3>1, TakeOwn
  <2> QED
    BY <1>3, <1>4, <1>5, <1>6, <2>1, <2>3 DEF StreamInv, Flying, Honest
<1>7. CASE writer' = <<"done">> /\ frames' = <<>> /\ UNCHANGED got
  <2>1. ~Open'
    BY <1>7 DEF Open
  <2>2. frames' \in Seq(Frames)
    BY <1>7
  <2> QED
    BY <1>3, <1>4, <1>5, <1>7, <2>1, <2>2 DEF StreamInv, Honest
<1>8. CASE /\ writer \notin {<<"recv">>, <<"done">>} /\ writer' = <<"recv">> /\ UNCHANGED frames
           /\ got' = [got EXCEPT ![writer[2]] = Seen(@, writer)]
  <2>1. Open /\ writer \in Frames
    BY <1>2, <1>8 DEF Open
  <2>2. ASSUME NEW q \in Requests
        PROVE  /\ Flying(q)' /\ Honest(q)'
               /\ got'[q] \in Views /\ got'[q].sent = got[q].sent
               /\ proc[q] = "none" /\ stream[q].seq = 0 => got'[q] = got[q]
    <3>1. Flying(q) /\ Honest(q) /\ stream[q].seq \in Nat
      BY <1>2, <2>1 DEF StreamInv, Flying, Streams, Honest
    <3> QED
      BY <1>1, <1>2, <1>8, <2>1, <3>1, DeliverOwn
  <2>3. got' \in [Requests -> Views]
    BY <1>2, <1>8, <2>2
  <2>4. ServerTypeOK'
    BY <1>1, <1>8, <2>3 DEF StreamInv, ServerTypeOK
  <2>5. ASSUME NEW q \in Requests PROVE LifeOK(q)'
    <3>1. proc[q] = "none" => stream[q].seq = 0
      BY DEF StreamInv, LifeOK, NewStream
    <3> QED
      BY <1>1, <2>2, <3>1 DEF StreamInv, LifeOK
  <2> QED
    BY <1>3, <2>2, <2>4, <2>5 DEF StreamInv, Flying, Honest
<1> QED
  BY <1>6, <1>7, <1>8 DEF Write

-----------------------------------------------------------------------------
(* StreamState::handle *)

LEMMA StatusNames ==
    /\ {"running_local", "running_remote"} \subseteq Statuses /\ Finals \subseteq Statuses
    /\ \A m \in ValidTransitions : m[2] \in Statuses
<1>1. \A m \in ValidTransitions : m[2] \in Statuses
  BY DEF Statuses
<1>2. /\ <<"queued", "running_local">> \in ValidTransitions
      /\ <<"queued", "running_remote">> \in ValidTransitions
      /\ <<"cancel_requested", "cancelled">> \in ValidTransitions
      /\ <<"running_local", "completed">> \in ValidTransitions
      /\ <<"running_local", "failed">> \in ValidTransitions
  BY DEF ValidTransitions
<1> QED
  BY <1>1, <1>2 DEF Finals

\* The text after frame f of an answer whose text before it is n.
After(f, n) == IF f[5] = "start" THEN 0 ELSE IF f[5] = "delta" THEN n + 1 ELSE n

\* An event is numbered and sent, or it is the last one and the result follows it,
\* or it has no number.
Numbered(r, s, h, f) ==
    /\ f \in EventFrames(r) /\ f[3] = s.seq + 1
    /\ h.state.seq = s.seq + 1 /\ h.state.text = After(f, s.text)
Shape(r, s, e, h) ==
    \/ /\ h.state.seq = s.seq /\ h.state.text = s.text /\ e # <<"done">>
       /\ h.frames \in {<<>>, <<<<"error", r>>>>}
    \/ \E f \in EventFrames(r) :
          /\ Numbered(r, s, h, f) /\ h.frames = <<f>> /\ e # <<"done">>
          /\ f[5] = "delta" => e = <<"delta">>
    \/ /\ e = <<"done">>
       /\ \E f \in EventFrames(r), p \in ResultFrames(r) :
             /\ Numbered(r, s, h, f) /\ h.frames = <<f, p>> /\ f[5] = "terminal"
             /\ p[3] = "completed" => p[4] = s.text

LEMMA HandledShape ==
    ASSUME NEW r \in Requests, NEW s \in Streams, NEW e \in Internal,
           e[1] = "start" /\ e[3] = FALSE => s.text = 0,
           NEW h, h = Handled(r, s, e)
    PROVE  h.state \in Streams /\ Shape(r, s, e, h)
<1>1. \/ \E m \in ValidTransitions : e = <<"move", m[1], m[2]>>
      \/ \E v \in Remotes \cup {"local"}, b \in BOOLEAN : e = <<"start", v, b>>
      \/ \E x \in Plain \cup {"control"} : e = <<x>>
  BY DEF Internal, Events, Moves, Starts
<1>2. /\ s.seq \in Nat /\ s.seq + 1 \in Nat /\ s.text \in Nat /\ s.text + 1 \in Nat
      /\ s.status \in Statuses
      /\ s.completed \in BOOLEAN /\ s.error \in BOOLEAN /\ s.cancelled \in BOOLEAN
  BY DEF Streams
<1>3. ASSUME NEW u \in Statuses, NEW x \in {"move", "start", "delta", "progress", "terminal"}
      PROVE  <<"event", r, s.seq + 1, u, x>> \in EventFrames(r)
  BY <1>2 DEF EventFrames
<1>4. ASSUME NEW m \in ValidTransitions, e = <<"move", m[1], m[2]>>
      PROVE  h.state \in Streams /\ Shape(r, s, e, h)
  <2> PICK t : t = [s EXCEPT !.status = m[2]]
    OBVIOUS
  <2> PICK f : f = <<"event", r, s.seq + 1, m[2], "move">>
    OBVIOUS
  <2>1. h = [state |-> Counted(t), frames |-> <<Event(r, t, "move")>>]
    BY <1>4 DEF Handled
  <2>2. m[2] \in Statuses
    BY StatusNames
  <2>3. t \in Streams /\ t.seq = s.seq /\ t.text = s.text /\ t.status = m[2]
    BY <2>2 DEF Streams
  <2>4. /\ Counted(t) \in Streams /\ Counted(t).seq = s.seq + 1 /\ Counted(t).text = s.text
        /\ Event(r, t, "move") = f
    BY <1>2, <2>3 DEF Streams, Counted, Event
  <2>5. f \in EventFrames(r) /\ f[3] = s.seq + 1 /\ f[5] = "move"
    BY <1>3, <2>2
  <2>6. Numbered(r, s, h, f) /\ h.frames = <<f>> /\ e # <<"done">>
    BY <1>4, <2>1, <2>4, <2>5 DEF Numbered, After
  <2> QED
    BY <2>1, <2>4, <2>5, <2>6 DEF Shape
<1>5. ASSUME NEW v \in Remotes \cup {"local"}, NEW b \in BOOLEAN, e = <<"start", v, b>>
      PROVE  h.state \in Streams /\ Shape(r, s, e, h)
  <2> PICK u : u = IF v = "local" THEN "running_local" ELSE "running_remote"
    OBVIOUS
  <2> PICK t : t = [s EXCEPT !.text = 0, !.status = u]
    OBVIOUS
  <2> PICK f : f = <<"event", r, s.seq + 1, u, "start">>
    OBVIOUS
  <2>3. AnswerText(s, b) = 0
    BY <1>5 DEF AnswerText
  <2>1. h = [state |-> Counted(t), frames |-> <<Event(r, t, "start")>>]
    BY <1>5, <2>3 DEF Handled
  <2>2. u \in Statuses
    BY StatusNames
  <2>4. t \in Streams /\ t.seq = s.seq /\ t.text = 0 /\ t.status = u
    BY <2>2 DEF Streams
  <2>5. /\ Counted(t) \in Streams /\ Counted(t).seq = s.seq + 1 /\ Counted(t).text = 0
        /\ Event(r, t, "start") = f
    BY <1>2, <2>4 DEF Streams, Counted, Event
  <2>6. f \in EventFrames(r) /\ f[3] = s.seq + 1 /\ f[5] = "start"
    BY <1>3, <2>2
  <2>7. Numbered(r, s, h, f) /\ h.frames = <<f>> /\ e # <<"done">>
    BY <1>5, <2>1, <2>5, <2>6 DEF Numbered, After
  <2> QED
    BY <2>1, <2>5, <2>6, <2>7 DEF Shape
<1>6. CASE e = <<"delta">>
  <2> PICK t : t = [s EXCEPT !.text = @ + 1]
    OBVIOUS
  <2> PICK f : f = <<"event", r, s.seq + 1, s.status, "delta">>
    OBVIOUS
  <2>1. h = [state |-> Counted(t), frames |-> <<Event(r, t, "delta")>>]
    BY <1>6 DEF Handled
  <2>2. t \in Streams /\ t.seq = s.seq /\ t.text = s.text + 1 /\ t.status = s.status
    BY <1>2 DEF Streams
  <2>3. /\ Counted(t) \in Streams /\ Counted(t).seq = s.seq + 1 /\ Counted(t).text = s.text + 1
        /\ Event(r, t, "delta") = f
    BY <1>2, <2>2 DEF Streams, Counted, Event
  <2>4. f \in EventFrames(r) /\ f[3] = s.seq + 1 /\ f[5] = "delta"
    BY <1>2, <1>3
  <2>5. Numbered(r, s, h, f) /\ h.frames = <<f>> /\ e # <<"done">>
    BY <1>6, <2>1, <2>3, <2>4 DEF Numbered, After
  <2>6. h.state \in Streams
    BY <2>1, <2>3
  <2>7. Shape(r, s, e, h)
    BY <1>6, <2>4, <2>5 DEF Shape
  <2> QED
    BY <2>6, <2>7
<1>7. CASE e \in {<<"progress">>, <<"tool">>, <<"proposal">>}
  <2> PICK f : f = <<"event", r, s.seq + 1, s.status, "progress">>
    OBVIOUS
  <2>1. h = [state |-> Counted(s), frames |-> <<Event(r, s, "progress")>>]
    BY <1>7 DEF Handled
  <2>2. /\ Counted(s) \in Streams /\ Counted(s).seq = s.seq + 1 /\ Counted(s).text = s.text
        /\ Event(r, s, "progress") = f
    BY <1>2 DEF Streams, Counted, Event
  <2>3. f \in EventFrames(r) /\ f[3] = s.seq + 1 /\ f[5] = "progress"
    BY <1>2, <1>3
  <2>4. Numbered(r, s, h, f) /\ h.frames = <<f>> /\ e # <<"done">>
    BY <1>7, <2>1, <2>2, <2>3 DEF Numbered, After
  <2> QED
    BY <2>1, <2>2, <2>3, <2>4 DEF Shape
<1>8. CASE e \in {<<"complete">>, <<"control">>}
  <2> PICK t : t = [s EXCEPT !.completed = TRUE]
    OBVIOUS
  <2>1. h = [state |-> t, frames |-> <<>>]
    BY <1>8 DEF Handled
  <2>3. t \in Streams /\ t.seq = s.seq /\ t.text = s.text
    BY DEF Streams
  <2>4. h.state = t
    BY <2>1
  <2>2. h.state \in Streams /\ h.state.seq = s.seq /\ h.state.text = s.text
    BY <2>3, <2>4
  <2> QED
    BY <1>8, <2>1, <2>2 DEF Shape
<1>9. CASE e \in {<<"error">>, <<"cancelled">>}
  <2> PICK b : b = (e[1] = "cancelled")
    OBVIOUS
  <2> PICK t : t = [s EXCEPT !.error = TRUE, !.cancelled = b]
    OBVIOUS
  <2>1. h = [state |-> t, frames |-> <<<<"error", r>>>>]
    BY <1>9 DEF Handled
  <2>2. b \in BOOLEAN
    OBVIOUS
  <2>4. t \in Streams /\ t.seq = s.seq /\ t.text = s.text
    BY <2>2 DEF Streams
  <2>5. h.state = t
    BY <2>1
  <2>3. h.state \in Streams /\ h.state.seq = s.seq /\ h.state.text = s.text
    BY <2>4, <2>5
  <2> QED
    BY <1>9, <2>1, <2>3 DEF Shape
<1>10. CASE e = <<"done">>
  <2> PICK u : u = IF s.cancelled THEN "cancelled"
                   ELSE IF s.error \/ ~s.completed THEN "failed" ELSE "completed"
    OBVIOUS
  <2> PICK f : f = <<"event", r, s.seq + 1, u, "terminal">>
    OBVIOUS
  <2> PICK p : p = <<"result", r, u, IF u = "completed" THEN s.text ELSE 0>>
    OBVIOUS
  <2>1. h = [state |-> Counted(s),
             frames |-> <<Event(r, [s EXCEPT !.status = u], "terminal"), Result(r, s, u)>>]
    BY <1>10 DEF Handled
  <2>2. u \in Finals /\ u \in Statuses
    BY StatusNames DEF Finals
  <2>3. /\ Counted(s) \in Streams /\ Counted(s).seq = s.seq + 1 /\ Counted(s).text = s.text
        /\ Event(r, [s EXCEPT !.status = u], "terminal") = f /\ Result(r, s, u) = p
    BY <1>2 DEF Streams, Counted, Event, Result
  <2>4. f \in EventFrames(r) /\ f[3] = s.seq + 1 /\ f[5] = "terminal"
    BY <1>3, <2>2
  <2>5. p \in ResultFrames(r) /\ (p[3] = "completed" => p[4] = s.text)
    BY <1>2, <2>2 DEF ResultFrames
  <2>6. Numbered(r, s, h, f) /\ h.frames = <<f, p>>
    BY <2>1, <2>3, <2>4 DEF Numbered, After
  <2> QED
    BY <1>10, <2>1, <2>3, <2>4, <2>5, <2>6 DEF Shape
<1>11. CASE e \in {<<"accepted">>, <<"incomplete">>}
  <2>1. h = [state |-> s, frames |-> <<>>]
    BY <1>11 DEF Handled
  <2> QED
    BY <1>11, <2>1 DEF Shape
<1>12. (\E x \in Plain \cup {"control"} : e = <<x>>) =>
          \/ e = <<"delta">> \/ e \in {<<"progress">>, <<"tool">>, <<"proposal">>}
          \/ e \in {<<"complete">>, <<"control">>} \/ e \in {<<"error">>, <<"cancelled">>}
          \/ e = <<"done">> \/ e \in {<<"accepted">>, <<"incomplete">>}
  BY DEF Plain
<1> QED
  BY <1>1, <1>4, <1>5, <1>6, <1>7, <1>8, <1>9, <1>10, <1>11, <1>12

LEMMA TailEvents ==
    ASSUME NEW r \in Requests, events \in [Requests -> Seq(Internal)], events[r] # <<>>,
           events' = [events EXCEPT ![r] = Tail(@)]
    PROVE  /\ events' \in [Requests -> Seq(Internal)]
           /\ \A q \in Requests \ {r} : events'[q] = events[q]
           /\ events[r][1] = Head(events[r]) /\ Head(events[r]) \in Internal
           /\ Len(events[r]) \in Nat /\ Len(events'[r]) = Len(events[r]) - 1
           /\ 1 \in 1..Len(events[r]) /\ events'[r] \in Seq(Internal)
           /\ \A i \in 1..Len(events'[r]) : i + 1 \in 1..Len(events[r])
                                            /\ events'[r][i] = events[r][i + 1]
<1>1. events[r] \in Seq(Internal)
  OBVIOUS
<1>2. events'[r] = Tail(events[r])
  OBVIOUS
<1>3. ASSUME NEW z \in Seq(Internal), z # <<>>
      PROVE  /\ Tail(z) \in Seq(Internal) /\ z[1] = Head(z) /\ Head(z) \in Internal
             /\ Len(z) \in Nat /\ Len(Tail(z)) = Len(z) - 1 /\ 1 \in 1..Len(z)
             /\ \A i \in 1..Len(Tail(z)) : i + 1 \in 1..Len(z) /\ Tail(z)[i] = z[i + 1]
  BY <1>3
<1>4. /\ Tail(events[r]) \in Seq(Internal) /\ events[r][1] = Head(events[r])
      /\ Head(events[r]) \in Internal
      /\ Len(events[r]) \in Nat /\ Len(Tail(events[r])) = Len(events[r]) - 1
      /\ 1 \in 1..Len(events[r])
      /\ \A i \in 1..Len(Tail(events[r])) : i + 1 \in 1..Len(events[r])
                                            /\ Tail(events[r])[i] = events[r][i + 1]
  BY <1>1, <1>3
<1>5. /\ events' \in [Requests -> Seq(Internal)] /\ \A q \in Requests \ {r} : events'[q] = events[q]
  BY <1>4
<1> QED
  BY <1>2, <1>4, <1>5

LEMMA ExtendText ==
    ASSUME NEW T \in [Nat -> Nat], NEW n \in Nat, NEW x \in Nat
    PROVE  \E U \in [Nat -> Nat] :
              /\ U[n + 1] = x
              /\ \A k \in 0..n : U[k] = T[k]
              /\ \A g : g[3] \in 1..n /\ Shows(T, g) => Shows(U, g)
<1> DEFINE U == [T EXCEPT ![n + 1] = x]
<1>1. n + 1 \in Nat /\ \A k \in 0..n : k \in Nat /\ k # n + 1
  OBVIOUS
<1>2. U \in [Nat -> Nat] /\ U[n + 1] = x /\ \A k \in 0..n : U[k] = T[k]
  BY <1>1
<1> HIDE DEF U
<1>3. ASSUME NEW g, g[3] \in 1..n, Shows(T, g) PROVE Shows(U, g)
  <2>1. g[3] \in 0..n /\ g[3] - 1 \in 0..n
    BY <1>3
  <2>2. U[g[3]] = T[g[3]] /\ U[g[3] - 1] = T[g[3] - 1]
    BY <1>2, <2>1
  <2> QED
    BY <1>3, <2>2 DEF Shows
<1> QED
  BY <1>2, <1>3

LEMMA AfterNat == \A f : \A n \in Nat : After(f, n) \in Nat
  BY DEF After

\* The client's run goes on by the event that is to be sent.
LEMMA NumberedText ==
    ASSUME NEW r \in Requests, Flying(r), ~Pending(r),
           got[r].seq \in Nat, stream[r].seq \in Nat, stream[r].text \in Nat,
           NEW f, f[3] = stream[r].seq + 1
    PROVE  \E U \in [Nat -> Nat] :
              /\ U[got[r].seq] = got[r].text
              /\ U[stream[r].seq + 1] = After(f, stream[r].text)
              /\ IsEvent(writer, r) => Shows(U, writer)
              /\ \A i \in 1..Len(frames) : IsEvent(frames[i], r) => Shows(U, frames[i])
              /\ Shows(U, f)
<1>1. PICK n \in Nat : n = stream[r].seq
  OBVIOUS
<1>2. PICK m \in Nat : m = got[r].seq
  OBVIOUS
<1>3. PICK x \in Nat : x = After(f, stream[r].text)
  BY AfterNat
<1>4. PICK T \in [Nat -> Nat] :
        /\ T[m] = got[r].text
        /\ T[n] = stream[r].text
        /\ IsEvent(writer, r) => Shows(T, writer)
        /\ \A i \in 1..Len(frames) : IsEvent(frames[i], r) => Shows(T, frames[i])
  BY <1>1, <1>2 DEF Flying, TextOK
<1>6. PICK U \in [Nat -> Nat] :
        /\ U[n + 1] = x
        /\ \A k \in 0..n : U[k] = T[k]
        /\ \A g : g[3] \in 1..n /\ Shows(T, g) => Shows(U, g)
  <2>1. T \in [Nat -> Nat] /\ n \in Nat /\ x \in Nat
    BY <1>1, <1>3, <1>4
  <2> QED
    BY ONLY <2>1, ExtendText, Zenon
<1>7. /\ IsEvent(writer, r) => writer[3] = m + 1 /\ writer[3] <= n
      /\ ~IsEvent(writer, r) => m <= n
      /\ \A i \in 1..Len(frames) : IsEvent(frames[i], r) =>
            frames[i][3] \in ((IF IsEvent(writer, r) THEN writer[3] ELSE m) + 1)..n
  BY <1>1, <1>2 DEF Flying, NumbersOK, Base, Sent
<1>8. m \in 0..n
  <2>1. ASSUME NEW a, a = m + 1, a <= n PROVE m \in 0..n
    BY <2>1
  <2>2. m <= n => m \in 0..n
    OBVIOUS
  <2> QED
    BY <1>7, <2>1, <2>2
<1>9. IsEvent(writer, r) => Shows(U, writer)
  <2>1. ASSUME NEW a, a = m + 1, a <= n PROVE a \in 1..n
    BY <2>1
  <2> QED
    BY <1>4, <1>6, <1>7, <2>1
<1>10. ASSUME NEW i \in 1..Len(frames), IsEvent(frames[i], r) PROVE Shows(U, frames[i])
  <2>1. ASSUME NEW a, a = m + 1, a <= n PROVE (a + 1)..n \subseteq 1..n
    BY <2>1
  <2>2. (m + 1)..n \subseteq 1..n
    OBVIOUS
  <2>3. frames[i][3] \in 1..n
    BY <1>7, <1>10, <2>1, <2>2
  <2> QED
    BY <1>4, <1>6, <1>10, <2>3
<1>11. Shows(U, f)
  <2>1. f[3] = n + 1
    BY <1>1
  <2>2. f[3] - 1 = n /\ n \in 0..n
    BY <2>1
  <2>3. U[f[3]] = After(f, stream[r].text) /\ U[f[3] - 1] = stream[r].text
    BY <1>3, <1>4, <1>6, <2>1, <2>2
  <2> QED
    BY <2>3 DEF Shows, After
<1> QED
  BY <1>1, <1>2, <1>3, <1>4, <1>6, <1>8, <1>9, <1>10, <1>11

\* The frames of a stream when the state has moved on by one event that is sent.
LEMMA NumberedFlying ==
    ASSUME NEW r \in Requests, Flying(r), outbox[r] = <<>>, events[r] # <<>>,
           got[r].seq \in Nat, stream[r].seq \in Nat, stream[r].text \in Nat,
           writer \in Frames \cup {<<"recv">>, <<"done">>}, frames \in Seq(Frames),
           UNCHANGED <<frames, writer, got, pc, ctl, proc>>,
           NEW f \in EventFrames(r), f[3] = stream[r].seq + 1,
           stream'[r].seq = stream[r].seq + 1, stream'[r].text = After(f, stream[r].text),
           \/ outbox'[r] = <<f>>
           \/ \E p \in ResultFrames(r) : outbox'[r] = <<f, p>> /\ IsLast(r, p)'
    PROVE  Flying(r)'
<1>1. IsEvent(f, r) /\ ~IsResult(f, r)
  BY EventFrame
<1>2. /\ ~IsResult(writer, r) /\ got[r].result = "none"
      /\ \A i \in 1..Len(frames) : ~IsResult(frames[i], r)
  BY DEF Flying, ResultOK, IsLast, Over
<1>3. outbox'[r] # <<>> /\ Head(outbox'[r]) = f
  <2>1. \A p : Head(<<f>>) = f /\ Head(<<f, p>>) = f /\ <<f>> # <<>> /\ <<f, p>> # <<>>
    OBVIOUS
  <2> QED
    BY <2>1
<1>4. ~Pending(r) /\ Pending(r)' /\ Base(r)' = Base(r) /\ Sent(r) = stream[r].seq
  BY <1>1, <1>3 DEF Pending, Base, Sent
<1>5. Sent(r)' = Sent(r)
  <2>1. Sent(r)' = stream'[r].seq - 1
    BY <1>4 DEF Sent
  <2> QED
    BY <1>4, <2>1
<1>6. NumbersOK(r)'
  BY <1>4, <1>5 DEF Flying, NumbersOK
<1>7. ResultOK(r)'
  <2>1. (\A i \in 1..Len(outbox[r]) : IsResult(outbox[r][i], r) => IsLast(r, outbox[r][i]))'
    <3>1. CASE outbox'[r] = <<f>>
      <4>1. \A i \in 1..Len(outbox'[r]) : outbox'[r][i] = f
        BY <3>1
      <4> QED
        BY <1>1, <4>1
    <3>2. ASSUME NEW p \in ResultFrames(r), outbox'[r] = <<f, p>>, IsLast(r, p)'
          PROVE  (\A i \in 1..Len(outbox[r]) :
                    IsResult(outbox[r][i], r) => IsLast(r, outbox[r][i]))'
      <4>1. \A i \in 1..Len(outbox'[r]) : outbox'[r][i] \in {f, p}
        BY <3>2
      <4> QED
        BY <1>1, <3>2, <4>1 DEF IsLast
    <3> QED
      BY <3>1, <3>2
  <2>2. ~IsResult(writer', r) /\ got'[r].result = "none"
        /\ \A i \in 1..Len(frames') : ~IsResult(frames'[i], r)
    BY <1>2
  <2> QED
    BY <2>1, <2>2 DEF ResultOK
<1>8. TextOK(r)'
  BY <1>3, <1>4, NumberedText DEF TextOK
<1> QED
  BY <1>6, <1>7, <1>8 DEF Flying

LEMMA UnnumberedFlying ==
    ASSUME NEW r \in Requests, Flying(r), outbox[r] = <<>>, events[r] # <<>>,
           UNCHANGED <<frames, writer, got, pc, ctl, proc>>,
           stream'[r].seq = stream[r].seq, stream'[r].text = stream[r].text,
           outbox'[r] \in {<<>>, <<<<"error", r>>>>}
    PROVE  Flying(r)'
<1>1. /\ ~IsResult(writer, r) /\ got[r].result = "none"
      /\ \A i \in 1..Len(frames) : ~IsResult(frames[i], r)
  BY DEF Flying, ResultOK, IsLast, Over
<1>2. \A i \in 1..Len(outbox'[r]) : ~IsResult(outbox'[r][i], r)
  <2>1. \A i \in 1..Len(outbox'[r]) : outbox'[r][i] = <<"error", r>>
    OBVIOUS
  <2> QED
    BY <2>1 DEF IsResult
<1>3. ~Pending(r) /\ ~Pending(r)'
  <2>1. Head(<<<<"error", r>>>>) = <<"error", r>>
    OBVIOUS
  <2> QED
    BY <2>1 DEF Pending, IsEvent
<1>4. Base(r)' = Base(r) /\ Sent(r)' = Sent(r)
  BY <1>3 DEF Base, Sent
<1>5. NumbersOK(r)'
  BY <1>4 DEF Flying, NumbersOK
<1>6. ResultOK(r)'
  BY <1>1, <1>2 DEF ResultOK
<1>7. TextOK(r)'
  BY <1>3 DEF Flying, TextOK
<1> QED
  BY <1>5, <1>6, <1>7 DEF Flying

LEMMA HandleStep ==
    ASSUME StreamInv, NEW r \in Requests, HandleEvent(r)
    PROVE  StreamInv'
<1> PICK s : s = stream[r]
  OBVIOUS
<1> PICK e : e = Head(events[r])
  OBVIOUS
<1> PICK h : h = Handled(r, s, e)
  OBVIOUS
<1>1. /\ proc[r] = "stream" /\ outbox[r] = <<>> /\ events[r] # <<>>
      /\ stream' = [stream EXCEPT ![r] = h.state]
      /\ outbox' = [outbox EXCEPT ![r] = h.frames]
      /\ events' = [events EXCEPT ![r] = Tail(@)]
      /\ UNCHANGED <<frames, writer, got, pc, reason, ctl, proc, asked, reader, reply>>
  BY DEF HandleEvent, connVars, chatVars
<1>2. /\ stream \in [Requests -> Streams] /\ got \in [Requests -> Views]
      /\ DOMAIN outbox = Requests /\ events \in [Requests -> Seq(Internal)]
      /\ frames \in Seq(Frames) /\ writer \in Frames \cup {<<"recv">>, <<"done">>}
  BY DEF StreamInv, ServerTypeOK
<1>3. /\ events' \in [Requests -> Seq(Internal)]
      /\ \A q \in Requests \ {r} : events'[q] = events[q]
      /\ events[r][1] = e /\ e \in Internal
      /\ Len(events[r]) \in Nat /\ Len(events'[r]) = Len(events[r]) - 1
      /\ 1 \in 1..Len(events[r]) /\ events'[r] \in Seq(Internal)
      /\ \A i \in 1..Len(events'[r]) : i + 1 \in 1..Len(events[r])
                                       /\ events'[r][i] = events[r][i + 1]
  BY <1>1, <1>2, TailEvents
<1>4. /\ FeedOK(r) /\ s \in Streams
  BY <1>2 DEF StreamInv
<1>5. e[1] = "start" /\ e[3] = FALSE => s.text = 0
  BY <1>3, <1>4 DEF FeedOK, NoText
<1>6. h.state \in Streams /\ Shape(r, s, e, h)
  BY <1>3, <1>4, <1>5, HandledShape
<1>7. /\ stream'[r] = h.state /\ outbox'[r] = h.frames
      /\ \A q \in Requests \ {r} : stream'[q] = stream[q] /\ outbox'[q] = outbox[q]
      /\ stream' \in [Requests -> Streams] /\ DOMAIN outbox' = Requests
  BY <1>1, <1>2, <1>6
<1>8. ServerTypeOK'
  BY <1>1, <1>3, <1>7 DEF StreamInv, ServerTypeOK
<1>9. e = <<"done">> => events'[r] = <<>> /\ Finished(r)
  <2> HAVE e = <<"done">>
  <2>1. 1 = Len(events[r]) /\ Finished(r)
    BY <1>3, <1>4 DEF FeedOK
  <2> QED
    BY <1>3, <2>1
<1>10. s.text = 0 /\ e # <<"delta">> => stream'[r].text = 0
  BY <1>6, <1>7 DEF Shape, Numbered, After
<1>11. ASSUME NEW q \in Requests PROVE LifeOK(q)'
  BY <1>1, <1>3, <1>7 DEF StreamInv, LifeOK
<1>12. ASSUME NEW q \in Requests PROVE FeedOK(q)'
  <2>1. CASE q # r
    <3>1. /\ FeedOK(q) /\ events'[q] = events[q] /\ stream'[q] = stream[q]
          /\ UNCHANGED <<pc, reason, ctl>>
      BY <1>1, <1>3, <1>7, <2>1 DEF StreamInv
    <3>2. Fresh(q)' = Fresh(q) /\ Finished(q)' = Finished(q)
      BY <3>1 DEF Fresh, Finished
    <3> QED
      BY <3>1, <3>2 DEF FeedOK, NoText
  <2>2. CASE q = r
    <3>1. ASSUME NEW n \in Nat, n <= Len(events'[r]), NoText(r, n + 1) PROVE NoText(r, n)'
      <4>1. /\ s.text = 0
            /\ \A i \in 1..(n + 1) : events[r][i] # <<"delta">>
        BY <3>1 DEF NoText
      <4>2. e # <<"delta">>
        BY <1>3, <3>1, <4>1
      <4>3. \A i \in 1..n : events'[r][i] # <<"delta">>
        <5> TAKE i \in 1..n
        <5>1. i + 1 \in 1..(n + 1) /\ i \in 1..Len(events'[r])
          BY <1>3, <3>1
        <5> QED
          BY <1>3, <4>1, <5>1
      <4> QED
        BY <1>10, <4>1, <4>2, <4>3 DEF NoText
    <3>2. ASSUME NEW i \in 1..Len(events'[r]), events'[r][i] = <<"done">>
          PROVE  i = Len(events'[r]) /\ Finished(r)'
      <4>1. i + 1 \in 1..Len(events[r]) /\ events[r][i + 1] = <<"done">>
        BY <1>3, <3>2
      <4>2. i + 1 = Len(events[r]) /\ Finished(r)
        BY <1>4, <4>1 DEF FeedOK
      <4> QED
        <5>1. i \in Int /\ Len(events[r]) \in Int /\ Len(events'[r]) = Len(events[r]) - 1
          BY <1>3
        <5>2. i = Len(events'[r])
          BY <4>2, <5>1
        <5> QED
          BY <1>1, <4>2, <5>2 DEF Finished
    <3>3. ASSUME NEW i \in 1..Len(events'[r]), events'[r][i][1] = "start", events'[r][i][3] = FALSE
          PROVE  NoText(r, i)'
      <4>1. i + 1 \in 1..Len(events[r]) /\ events[r][i + 1] = events'[r][i]
        BY <1>3
      <4>2. NoText(r, i + 1)
        BY <1>4, <3>3, <4>1 DEF FeedOK
      <4>3. i \in Nat /\ i <= Len(events'[r])
        BY <1>3
      <4> QED
        BY <3>1, <4>2, <4>3 DEF NoText
    <3>5. (Fresh(r) => NoText(r, Len(events[r])))'
      <4> SUFFICES ASSUME Fresh(r)' PROVE NoText(r, Len(events[r]))'
        OBVIOUS
      <4>1. NoText(r, Len(events[r]))
        BY <1>1, <1>4 DEF FeedOK, Fresh
      <4>2. PICK n \in Nat : n = Len(events'[r])
        BY <1>3
      <4>3. n + 1 = Len(events[r])
        BY <1>3, <4>2
      <4>4. NoText(r, n)'
        BY <3>1, <4>1, <4>2, <4>3
      <4> QED
        BY <4>2, <4>4 DEF NoText
    <3>6. (pc[r] = "fallback" => reason[r] = TRUE)'
      BY <1>1, <1>4 DEF FeedOK
    <3> QED
      BY <2>2, <3>2, <3>3, <3>5, <3>6 DEF FeedOK
  <2> QED
    BY <2>1, <2>2
<1>13. ASSUME NEW q \in Requests PROVE OutboxOK(q)'
  <2>1. CASE q # r
    BY <1>1, <1>7, <2>1 DEF StreamInv, OutboxOK, EventFrames, ResultFrames
  <2>2. CASE q = r
    BY <1>6, <1>7, <2>2, ZenonT(60) DEF Shape, Numbered, OutboxOK, EventFrames, ResultFrames
  <2> QED
    BY <2>1, <2>2
<1>14. ASSUME Open', NEW q \in Requests PROVE NumbersOK(q)' /\ ResultOK(q)' /\ TextOK(q)'
  <2>1. Open /\ Flying(q)
    BY <1>1, <1>14 DEF Open, StreamInv, Flying
  <2>2. CASE q # r
    <3>1. Still(q) /\ (Over(q) => Over(q)')
      BY <1>1, <1>3, <1>7, <2>2 DEF Still, Over, Finished
    <3> QED
      BY <1>1, <2>1, <3>1, StillFlying DEF Flying
  <2>3. CASE q = r
    <3>1. got[r].seq \in Nat /\ stream[r].seq \in Nat /\ stream[r].text \in Nat
      BY <1>2 DEF Streams, Views
    <3>2. CASE /\ h.state.seq = s.seq /\ h.state.text = s.text
               /\ h.frames \in {<<>>, <<<<"error", r>>>>}
      BY <1>1, <1>7, <2>1, <2>3, <3>2, UnnumberedFlying DEF Flying
    <3>3. ASSUME NEW f \in EventFrames(r), Numbered(r, s, h, f), h.frames = <<f>>
          PROVE  Flying(r)'
      BY <1>1, <1>2, <1>7, <2>1, <2>3, <3>1, <3>3, NumberedFlying DEF Numbered
    <3>4. ASSUME e = <<"done">>, NEW f \in EventFrames(r), NEW p \in ResultFrames(r),
                 Numbered(r, s, h, f), h.frames = <<f, p>>, f[5] = "terminal",
                 p[3] = "completed" => p[4] = s.text
          PROVE  Flying(r)'
      <4>1. got[r].result = "none"
        BY <1>1, <2>1, <2>3 DEF Flying, ResultOK, Over
      <4>2. stream'[r].text = s.text
        BY <1>7, <3>4 DEF Numbered, After
      <4>3. IsLast(r, p)'
        BY <1>1, <1>9, <3>4, <4>1, <4>2 DEF IsLast, Over, Finished
      <4> QED
        BY <1>1, <1>2, <1>7, <2>1, <2>3, <3>1, <3>4, <4>3, NumberedFlying DEF Numbered
    <3> QED
      BY <1>6, <2>3, <3>2, <3>3, <3>4 DEF Shape, Flying
  <2> QED
    BY <2>2, <2>3
<1> QED
  BY <1>1, <1>8, <1>11, <1>12, <1>13, <1>14 DEF StreamInv

-----------------------------------------------------------------------------
(* The invariant holds, and what the client may rely on *)

LEMMA StreamInvInit == ServerInit => StreamInv
<1> SUFFICES ASSUME ServerInit PROVE StreamInv
  OBVIOUS
<1>1. /\ asked = <<>> /\ reader = "read" /\ frames = <<>> /\ writer = <<"recv">>
      /\ ctl = [r \in Requests |-> "none"] /\ proc = [r \in Requests |-> "none"]
      /\ stream = [r \in Requests |-> NewStream] /\ outbox = [r \in Requests |-> <<>>]
      /\ got = [r \in Requests |-> Unseen] /\ pc = [r \in Requests |-> "idle"]
      /\ events = [r \in Requests |-> <<>>]
  BY DEF ServerInit, Init
<1>2. NewStream \in Streams /\ Unseen \in Views
  BY DEF NewStream, Unseen, Streams, Views, Statuses
<1>3. ServerTypeOK
  BY <1>1, <1>2 DEF ServerTypeOK
<1>4. ASSUME NEW r \in Requests PROVE LifeOK(r) /\ FeedOK(r) /\ OutboxOK(r)
  BY <1>1 DEF LifeOK, FeedOK, OutboxOK, NoText, Unseen, NewStream
<1>5. ASSUME NEW r \in Requests PROVE NumbersOK(r) /\ ResultOK(r) /\ TextOK(r)
  <2>1. /\ ~IsEvent(writer, r) /\ ~IsResult(writer, r) /\ ~Pending(r) /\ Len(frames) = 0
        /\ outbox[r] = <<>> /\ Len(outbox[r]) = 0 /\ got[r].seq = 0 /\ got[r].text = 0
        /\ stream[r].seq = 0 /\ stream[r].text = 0 /\ got[r].result = "none"
    BY <1>1 DEF IsEvent, IsResult, Pending, Unseen, NewStream
  <2>2. NumbersOK(r)
    BY <2>1 DEF NumbersOK, Base, Sent
  <2>3. ResultOK(r)
    BY <2>1 DEF ResultOK
  <2>4. TextOK(r)
    <3>1. PICK T \in [Nat -> Nat] : T[0] = 0
      <4>1. [n \in Nat |-> 0] \in [Nat -> Nat] /\ [n \in Nat |-> 0][0] = 0
        OBVIOUS
      <4> QED
        BY <4>1
    <3>2. /\ T[got[r].seq] = got[r].text /\ T[stream[r].seq] = stream[r].text
          /\ \A i \in 1..Len(frames) : FALSE
      BY <2>1, <3>1
    <3> QED
      BY <2>1, <3>1, <3>2 DEF TextOK
  <2> QED
    BY <2>2, <2>3, <2>4
<1>6. \A r \in Requests : got[r].result # "completed"
  BY <1>1 DEF Unseen
<1> QED
  BY <1>3, <1>4, <1>5, <1>6 DEF StreamInv

LEMMA StreamInvStep ==
    ASSUME RouterInv, StreamInv, [ServerNext]_allVars
    PROVE  StreamInv'
<1>1. ASSUME NEW r \in Requests, Router_(r) PROVE StreamInv'
  <2>1. Feeds(r)
    BY <1>1, ChatFeeds
  <2>2. ctl' \in [Requests -> {"none", "run", "saving", "done", "end"}]
    BY <1>1 DEF Router_, serverVars, streamVars, StreamInv, ServerTypeOK
  <2> QED
    BY <2>1, <2>2, FeedStep
<1>2. ASSUME NEW r \in Requests, Control(r) PROVE StreamInv'
  BY <1>2, ControlFeeds, FeedStep
<1>3. ASSUME NEW r \in Requests, Stream(r) PROVE StreamInv'
  BY <1>3, HandleStep, EmitStep, OtherQuietSteps DEF Stream
<1>4. CASE Read
  BY <1>4, ReadRequestStep, OtherQuietSteps, SendReplyStep DEF Read
<1> QED
  BY <1>1, <1>2, <1>3, <1>4, ClientStep, OtherQuietSteps, WriteStep DEF ServerNext

LEMMA StreamInvAlways == ServerSpec => []StreamInv
  BY StreamInvInit, StreamInvStep, RouterInvAlways, PTL DEF ServerSpec

LEMMA OutboxFrames ==
    ASSUME NEW r \in Requests, OutboxOK(r)
    PROVE  /\ outbox[r] \in Seq(Frames)
           /\ \A i \in 1..Len(outbox[r]) :
                 /\ IsEvent(outbox[r][i], r) =>
                       i = 1 /\ outbox[r][i][3] = stream[r].seq /\ Pending(r)
                 /\ IsResult(outbox[r][i], r) => i = Len(outbox[r])
           /\ Pending(r) => /\ 1 \in 1..Len(outbox[r])
                            /\ IsEvent(outbox[r][1], r) /\ outbox[r][1][3] = stream[r].seq
<1>1. CASE outbox[r] = <<>>
  BY <1>1 DEF Pending
<1>2. ASSUME NEW f \in Frames, ~IsEvent(f, r), outbox[r] = <<f>>
      PROVE  /\ outbox[r] \in Seq(Frames) /\ ~Pending(r) /\ Len(outbox[r]) = 1
             /\ \A i \in 1..Len(outbox[r]) : i = 1 /\ outbox[r][i] = f
  BY <1>2 DEF Pending
<1>3. ASSUME NEW f \in EventFrames(r), f[3] = stream[r].seq, outbox[r] = <<f>>
      PROVE  /\ outbox[r] \in Seq(Frames) /\ Pending(r) /\ Len(outbox[r]) = 1
             /\ \A i \in 1..Len(outbox[r]) : i = 1 /\ outbox[r][i] = f
             /\ outbox[r][1] = f
  BY <1>3, EventFrame DEF Pending
<1>4. ASSUME NEW f \in EventFrames(r), NEW p \in ResultFrames(r), f[3] = stream[r].seq,
             outbox[r] = <<f, p>>
      PROVE  /\ outbox[r] \in Seq(Frames) /\ Pending(r) /\ Len(outbox[r]) = 2
             /\ \A i \in 1..Len(outbox[r]) : (i = 1 /\ outbox[r][i] = f) \/ (i = 2 /\ outbox[r][i] = p)
             /\ outbox[r][1] = f
  BY <1>4, EventFrame, ResultFrame DEF Pending
<1>5. CASE outbox[r] = <<<<"error", r>>>>
  <2>1. <<"error", r>> \in Frames /\ ~IsEvent(<<"error", r>>, r) /\ ~IsResult(<<"error", r>>, r)
    BY ErrorFrame
  <2> QED
    BY <1>2, <1>5, <2>1
<1>6. CASE \E f \in EventFrames(r) : f[3] = stream[r].seq /\ outbox[r] = <<f>>
  BY <1>3, <1>6, EventFrame
<1>7. CASE \E f \in EventFrames(r), p \in ResultFrames(r) :
               f[3] = stream[r].seq /\ outbox[r] = <<f, p>>
  BY <1>4, <1>7, EventFrame, ResultFrame
<1>8. CASE \E p \in ResultFrames(r) : outbox[r] = <<p>>
  BY <1>2, <1>8, ResultFrame
<1> QED
  BY <1>1, <1>5, <1>6, <1>7, <1>8 DEF OutboxOK

LEMMA Concat ==
    ASSUME NEW S, NEW c \in Seq(S), NEW b \in Seq(S), NEW z, z = c \o b
    PROVE  /\ Len(z) = Len(c) + Len(b)
           /\ \A i \in 1..Len(c) : z[i] = c[i]
           /\ \A i \in 1..Len(b) : z[i + Len(c)] = b[i]
  OBVIOUS

\* The places of a frame on its way, on line q: what the writer holds, the channel,
\* and what the current event still has to send.
Placed(r, q) ==
    /\ Len(frames) \in Nat /\ Len(outbox[r]) \in Nat
    /\ Len(q) = 1 + Len(frames) + Len(outbox[r])
    /\ 1 \in 1..Len(q) /\ q[1] = writer
    /\ \A k \in 1..Len(frames) : k + 1 \in 1..Len(q) /\ q[k + 1] = frames[k]
    /\ \A k \in 1..Len(outbox[r]) :
          k + 1 + Len(frames) \in 1..Len(q) /\ q[k + 1 + Len(frames)] = outbox[r][k]
    /\ \A i \in 1..Len(q) :
          \/ i = 1
          \/ \E k \in 1..Len(frames) : i = k + 1
          \/ \E k \in 1..Len(outbox[r]) : i = k + 1 + Len(frames)

LEMMA Places ==
    ASSUME NEW r \in Requests, frames \in Seq(Frames), outbox[r] \in Seq(Frames),
           NEW q, q = Line(r)
    PROVE  Placed(r, q)
<1>1. /\ Len(q) = 1 + Len(frames) + Len(outbox[r])
      /\ Len(frames) \in Nat /\ Len(outbox[r]) \in Nat
      /\ q[1] = writer
      /\ \A i \in 1..Len(frames) : q[i + 1] = frames[i]
      /\ \A i \in 1..Len(outbox[r]) : q[i + 1 + Len(frames)] = outbox[r][i]
  <2> DEFINE S == Frames \cup {writer}
  <2>1. /\ <<writer>> \in Seq(S) /\ frames \in Seq(S) /\ outbox[r] \in Seq(S)
        /\ Len(<<writer>>) = 1 /\ <<writer>>[1] = writer
    OBVIOUS
  <2>2. PICK c : c = <<writer>> \o frames
    OBVIOUS
  <2> HIDE DEF S
  <2>3. /\ c \in Seq(S) /\ Len(c) = 1 + Len(frames) /\ c[1] = writer
        /\ \A i \in 1..Len(frames) : c[i + 1] = frames[i]
    BY <2>1, <2>2
  <2>4. q = c \o outbox[r]
    BY <2>2 DEF Line
  <2>5. PICK b \in Seq(S) : b = outbox[r]
    BY <2>1
  <2>6. /\ Len(c) \in Nat /\ Len(b) \in Nat /\ Len(frames) \in Nat
    BY <2>3, <2>5
  <2>8. /\ Len(q) = Len(c) + Len(b)
        /\ \A i \in 1..Len(c) : q[i] = c[i]
        /\ \A i \in 1..Len(b) : q[i + Len(c)] = b[i]
    <3>1. q = c \o b /\ c \in Seq(S) /\ b \in Seq(S)
      BY <2>3, <2>4, <2>5
    <3> QED
      BY <3>1, Concat
  <2>9. /\ Len(q) = 1 + Len(frames) + Len(b) /\ q[1] = writer
        /\ \A i \in 1..Len(frames) : q[i + 1] = frames[i]
    BY <2>3, <2>6, <2>8
  <2>10. \A i \in 1..Len(b) : q[i + 1 + Len(frames)] = b[i]
    <3> TAKE i \in 1..Len(b)
    <3>1. i + 1 + Len(frames) = i + Len(c)
      BY <2>3, <2>6
    <3> QED
      BY <2>8, <3>1
  <2> QED
    BY <2>5, <2>6, <2>9, <2>10
<1>2. ASSUME NEW n \in Nat, NEW m \in Nat
      PROVE  /\ 1 \in 1..(1 + n + m)
             /\ \A k \in 1..n : k + 1 \in 1..(1 + n + m)
             /\ \A k \in 1..m : k + 1 + n \in 1..(1 + n + m)
             /\ \A i \in 1..(1 + n + m) : \/ i = 1
                                          \/ i - 1 \in 1..n /\ i = (i - 1) + 1
                                          \/ i - 1 - n \in 1..m /\ i = (i - 1 - n) + 1 + n
  OBVIOUS
<1>3. /\ 1 \in 1..Len(q)
      /\ \A k \in 1..Len(frames) : k + 1 \in 1..Len(q)
      /\ \A k \in 1..Len(outbox[r]) : k + 1 + Len(frames) \in 1..Len(q)
      /\ \A i \in 1..Len(q) :
            \/ i = 1
            \/ i - 1 \in 1..Len(frames) /\ i = (i - 1) + 1
            \/ i - 1 - Len(frames) \in 1..Len(outbox[r]) /\ i = (i - 1 - Len(frames)) + 1 + Len(frames)
  BY <1>1, <1>2, ZenonT(40)
<1>4. \A i \in 1..Len(q) : \/ i = 1
                           \/ \E k \in 1..Len(frames) : i = k + 1
                           \/ \E k \in 1..Len(outbox[r]) : i = k + 1 + Len(frames)
  BY <1>3
<1> QED
  BY <1>1, <1>3, <1>4 DEF Placed

\* What the invariant says of the numbers, without the channel's bookkeeping.
LEMMA NumberFacts ==
    ASSUME NEW r \in Requests, Flying(r), got[r].seq \in Nat, stream[r].seq \in Nat
    PROVE  /\ IsEvent(writer, r) => writer[3] = got[r].seq + 1
           /\ Base(r) \in Int /\ Sent(r) \in Int
           /\ got[r].seq <= Base(r) /\ Base(r) <= Sent(r) /\ Sent(r) <= stream[r].seq
           /\ IsEvent(writer, r) => writer[3] = Base(r)
           /\ ~IsEvent(writer, r) => Base(r) = got[r].seq
           /\ Base(r) <= got[r].seq + 1
           /\ Pending(r) => Sent(r) + 1 = stream[r].seq
           /\ ~Pending(r) => Sent(r) = stream[r].seq
<1>1. /\ IsEvent(writer, r) => writer[3] = got[r].seq + 1
      /\ Base(r) <= Sent(r)
  BY DEF Flying, NumbersOK
<1>2. /\ IsEvent(writer, r) => Base(r) = got[r].seq + 1 /\ writer[3] = Base(r)
      /\ ~IsEvent(writer, r) => Base(r) = got[r].seq
  BY <1>1 DEF Base
<1>3. /\ Pending(r) => Sent(r) = stream[r].seq - 1
      /\ ~Pending(r) => Sent(r) = stream[r].seq
  BY DEF Sent
<1>4. Base(r) \in Int /\ got[r].seq <= Base(r) /\ Base(r) <= got[r].seq + 1
  BY <1>2
<1>5. Sent(r) \in Int /\ Sent(r) <= stream[r].seq /\ (Pending(r) => Sent(r) + 1 = stream[r].seq)
  BY <1>3
<1> QED
  BY <1>1, <1>2, <1>3, <1>4, <1>5

\* An event on its way: where it is and which number it has.
LEMMA EventPlaces ==
    ASSUME NEW r \in Requests, Flying(r), OutboxOK(r), frames \in Seq(Frames),
           got[r].seq \in Nat, stream[r].seq \in Nat,
           NEW q, q = Line(r), NEW i \in 1..Len(q), IsEvent(q[i], r)
    PROVE  \/ i = 1 /\ IsEvent(writer, r) /\ q[i][3] = Base(r) /\ q[i][3] = got[r].seq + 1
           \/ \E k \in 1..Len(frames) :
                 /\ i = k + 1 /\ q[i] = frames[k] /\ IsEvent(frames[k], r)
                 /\ q[i][3] \in (Base(r) + 1)..Sent(r)
           \/ i = 2 + Len(frames) /\ Pending(r) /\ q[i][3] = stream[r].seq
<1>0. outbox[r] \in Seq(Frames)
  BY OutboxFrames
<1>1. /\ Len(frames) \in Nat
      /\ q[1] = writer
      /\ \A k \in 1..Len(frames) : q[k + 1] = frames[k]
      /\ \A k \in 1..Len(outbox[r]) : q[k + 1 + Len(frames)] = outbox[r][k]
      /\ \/ i = 1
         \/ \E k \in 1..Len(frames) : i = k + 1
         \/ \E k \in 1..Len(outbox[r]) : i = k + 1 + Len(frames)
  <2>1. Placed(r, q)
    BY <1>0, Places
  <2> QED
    BY <2>1 DEF Placed
<1>2. CASE i = 1
  BY <1>1, <1>2, NumberFacts
<1>3. ASSUME NEW k \in 1..Len(frames), i = k + 1
      PROVE  /\ q[i] = frames[k] /\ IsEvent(frames[k], r)
             /\ q[i][3] \in (Base(r) + 1)..Sent(r)
  BY <1>1, <1>3 DEF Flying, NumbersOK
<1>4. ASSUME NEW k \in 1..Len(outbox[r]), i = k + 1 + Len(frames)
      PROVE  i = 2 + Len(frames) /\ Pending(r) /\ q[i][3] = stream[r].seq
  <2>1. q[i] = outbox[r][k]
    BY <1>1, <1>4
  <2>2. k = 1 /\ outbox[r][k][3] = stream[r].seq /\ Pending(r)
    BY <2>1, OutboxFrames
  <2> QED
    BY <1>1, <1>4, <2>1, <2>2
<1> QED
  BY <1>1, <1>2, <1>3, <1>4

\* A result on its way is the last frame of its stream.
LEMMA ResultPlaces ==
    ASSUME NEW r \in Requests, Flying(r), OutboxOK(r), frames \in Seq(Frames),
           NEW q, q = Line(r), NEW i \in 1..Len(q), IsResult(q[i], r)
    PROVE  /\ IsLast(r, q[i])
           /\ \A j \in 1..Len(q) : IsEvent(q[j], r) \/ IsResult(q[j], r) => j <= i
<1>0. outbox[r] \in Seq(Frames)
  BY OutboxFrames
<1>1. /\ Len(frames) \in Nat /\ Len(outbox[r]) \in Nat
      /\ q[1] = writer
      /\ \A k \in 1..Len(frames) : q[k + 1] = frames[k]
      /\ \A k \in 1..Len(outbox[r]) : q[k + 1 + Len(frames)] = outbox[r][k]
      /\ \A j \in 1..Len(q) :
            \/ j = 1
            \/ \E k \in 1..Len(frames) : j = k + 1
            \/ \E k \in 1..Len(outbox[r]) : j = k + 1 + Len(frames)
  <2>1. Placed(r, q)
    BY <1>0, Places
  <2> QED
    BY <2>1 DEF Placed
<1>2. CASE i = 1
  <2>1. IsLast(r, writer) /\ outbox[r] = <<>> /\ Idle(r)
    BY <1>1, <1>2 DEF Flying, ResultOK
  <2>2. ASSUME NEW j \in 1..Len(q), IsEvent(q[j], r) \/ IsResult(q[j], r) PROVE j = 1
    <3>1. ~ \E k \in 1..Len(outbox[r]) : j = k + 1 + Len(frames)
      BY <2>1
    <3>2. ~ \E k \in 1..Len(frames) : j = k + 1
      BY <1>1, <2>1, <2>2 DEF Idle
    <3> QED
      BY <1>1, <3>1, <3>2
  <2> QED
    BY <1>1, <1>2, <2>1, <2>2
<1>3. ASSUME NEW k \in 1..Len(frames), i = k + 1
      PROVE  /\ IsLast(r, q[i])
             /\ \A j \in 1..Len(q) : IsEvent(q[j], r) \/ IsResult(q[j], r) => j <= i
  <2>1. q[i] = frames[k] /\ IsResult(frames[k], r)
    BY <1>1, <1>3
  <2>2. /\ IsLast(r, frames[k]) /\ outbox[r] = <<>>
        /\ \A l \in 1..Len(frames) : IsEvent(frames[l], r) \/ IsResult(frames[l], r) => l <= k
    BY <2>1 DEF Flying, ResultOK
  <2>3. ASSUME NEW j \in 1..Len(q), IsEvent(q[j], r) \/ IsResult(q[j], r) PROVE j <= i
    <3>1. ~ \E l \in 1..Len(outbox[r]) : j = l + 1 + Len(frames)
      BY <2>2
    <3>2. ASSUME NEW l \in 1..Len(frames), j = l + 1 PROVE j <= i
      <4>1. l <= k
        BY <1>1, <2>2, <2>3, <3>2
      <4> QED
        BY <1>3, <3>2, <4>1
    <3>3. CASE j = 1
      BY <3>3
    <3> QED
      BY <1>1, <3>1, <3>2, <3>3
  <2> QED
    BY <2>1, <2>2, <2>3
<1>4. ASSUME NEW k \in 1..Len(outbox[r]), i = k + 1 + Len(frames)
      PROVE  /\ IsLast(r, q[i])
             /\ \A j \in 1..Len(q) : IsEvent(q[j], r) \/ IsResult(q[j], r) => j <= i
  <2>1. q[i] = outbox[r][k] /\ IsResult(outbox[r][k], r)
    BY <1>1, <1>4
  <2>2. IsLast(r, outbox[r][k]) /\ k = Len(outbox[r])
    BY <2>1, OutboxFrames DEF Flying, ResultOK
  <2>3. Len(q) = i
    <3>1. Placed(r, q)
      BY <1>0, Places
    <3>2. Len(q) = 1 + Len(frames) + Len(outbox[r])
      BY <3>1 DEF Placed
    <3>3. ASSUME NEW a \in Nat, NEW b \in Nat PROVE b + 1 + a = 1 + a + b
      OBVIOUS
    <3>4. i = Len(outbox[r]) + 1 + Len(frames)
      BY <1>4, <2>2
    <3> QED
      BY <1>1, <3>2, <3>3, <3>4
  <2> QED
    BY <2>1, <2>2, <2>3
<1> QED
  BY <1>1, <1>2, <1>3, <1>4

LEMMA InvStreamOrdered == StreamInv => StreamOrdered
<1> SUFFICES ASSUME StreamInv, Open, NEW r \in Requests, NEW q, q = Line(r),
                    NEW mine, mine = {i \in 1..Len(q) : IsEvent(q[i], r)}
             PROVE  /\ \A i, j \in mine : i < j => q[i][3] < q[j][3]
                    /\ {q[i][3] : i \in mine} = (got[r].seq + 1)..stream[r].seq
                    /\ \A i \in 1..Len(q) : IsResult(q[i], r) =>
                          /\ proc[r] # "none" /\ got[r].result = "none"
                          /\ \A j \in 1..Len(q) : IsEvent(q[j], r) \/ IsResult(q[j], r) => j <= i
                    /\ got[r].result # "none" => mine = {} /\ events[r] = <<>>
  BY DEF StreamOrdered
<1>1. /\ Flying(r) /\ OutboxOK(r) /\ frames \in Seq(Frames)
      /\ got[r].seq \in Nat /\ stream[r].seq \in Nat
  BY DEF StreamInv, ServerTypeOK, Flying, Streams, Views
<1>2. outbox[r] \in Seq(Frames)
  BY <1>1, OutboxFrames
<1>3. /\ Len(frames) \in Nat /\ Len(outbox[r]) \in Nat
      /\ Len(q) = 1 + Len(frames) + Len(outbox[r])
      /\ 1 \in 1..Len(q) /\ q[1] = writer
      /\ \A k \in 1..Len(frames) : k + 1 \in 1..Len(q) /\ q[k + 1] = frames[k]
      /\ \A k \in 1..Len(outbox[r]) :
            k + 1 + Len(frames) \in 1..Len(q) /\ q[k + 1 + Len(frames)] = outbox[r][k]
  <2>1. Placed(r, q)
    BY <1>1, <1>2, Places
  <2> QED
    BY <2>1 DEF Placed
<1>4. PICK b, s \in Int : b = Base(r) /\ s = Sent(r)
  BY <1>1, NumberFacts
<1>5. PICK g \in Nat : g = got[r].seq
  BY <1>1
<1>6. PICK n \in Nat : n = stream[r].seq
  BY <1>1
<1>7. /\ g <= b /\ b <= s /\ s <= n /\ b <= g + 1
      /\ IsEvent(writer, r) => writer[3] = b /\ b = g + 1
      /\ ~IsEvent(writer, r) => b = g
      /\ Pending(r) => s + 1 = n
      /\ ~Pending(r) => s = n
  BY <1>1, <1>4, <1>5, <1>6, NumberFacts
<1>8. \A i \in mine :
         \/ i = 1 /\ IsEvent(writer, r) /\ q[i][3] = b /\ b = g + 1
         \/ \E k \in 1..Len(frames) :
               /\ i = k + 1 /\ q[i] = frames[k] /\ IsEvent(frames[k], r)
               /\ q[i][3] \in (b + 1)..s
         \/ i = 2 + Len(frames) /\ Pending(r) /\ q[i][3] = n
  BY <1>1, <1>4, <1>5, <1>6, <1>7, EventPlaces, ZenonT(60)
<1>9. ASSUME NEW i \in mine, NEW j \in mine, i < j PROVE q[i][3] < q[j][3]
  <2>1. CASE j = 1
    BY <1>9, <2>1
  <2>2. ASSUME NEW k \in 1..Len(frames), j = k + 1, q[j] = frames[k], IsEvent(frames[k], r),
               q[j][3] \in (b + 1)..s
        PROVE  q[i][3] < q[j][3]
    <3>1. CASE i = 1 /\ q[i][3] = b
      BY <2>2, <3>1
    <3>2. ASSUME NEW l \in 1..Len(frames), i = l + 1, q[i] = frames[l], IsEvent(frames[l], r)
          PROVE  q[i][3] < q[j][3]
      <4>1. l < k
        BY <1>9, <2>2, <3>2
      <4> QED
        BY <1>1, <2>2, <3>2, <4>1 DEF Flying, NumbersOK
    <3>3. i # 2 + Len(frames)
      BY <1>3, <1>9, <2>2
    <3> QED
      BY <1>8, <3>1, <3>2, <3>3
  <2>3. CASE j = 2 + Len(frames) /\ Pending(r) /\ q[j][3] = n
    <3>1. i # 2 + Len(frames)
      BY <1>3, <1>9, <2>3
    <3>2. CASE q[i][3] = b
      BY <1>7, <2>3, <3>2
    <3>3. CASE q[i][3] \in (b + 1)..s
      BY <1>7, <2>3, <3>3
    <3> QED
      BY <1>8, <3>1, <3>2, <3>3
  <2> QED
    BY <1>8, <2>1, <2>2, <2>3
<1>10. {q[i][3] : i \in mine} = (g + 1)..n
  <2>1. ASSUME NEW i \in mine PROVE q[i][3] \in (g + 1)..n
    <3>1. CASE q[i][3] = b /\ b = g + 1
      BY <1>7, <3>1
    <3>2. CASE q[i][3] \in (b + 1)..s
      BY <1>7, <3>2
    <3>3. CASE Pending(r) /\ q[i][3] = n
      BY <1>7, <3>3
    <3> QED
      BY <1>8, <3>1, <3>2, <3>3
  <2>2. ASSUME NEW x \in (g + 1)..n PROVE \E i \in mine : q[i][3] = x
    <3>1. CASE x <= b
      <4>1. IsEvent(writer, r) /\ writer[3] = x
        BY <1>7, <3>1
      <4>2. 1 \in mine /\ q[1][3] = x
        BY <1>3, <4>1
      <4> QED
        BY <4>2
    <3>2. CASE b < x /\ x <= s
      <4>1. x \in (b + 1)..s
        BY <3>2
      <4>2. PICK k \in 1..Len(frames) : IsEvent(frames[k], r) /\ frames[k][3] = x
        BY <1>1, <1>4, <4>1 DEF Flying, NumbersOK
      <4>3. k + 1 \in mine /\ q[k + 1][3] = x
        BY <1>3, <4>2
      <4> QED
        BY <4>3
    <3>3. CASE s < x
      <4>1. Pending(r) /\ x = n
        BY <1>7, <3>3
      <4>2. /\ 1 \in 1..Len(outbox[r]) /\ IsEvent(outbox[r][1], r) /\ outbox[r][1][3] = x
        BY <1>1, <1>6, <4>1, OutboxFrames
      <4>3. 1 + 1 + Len(frames) \in 1..Len(q) /\ q[1 + 1 + Len(frames)] = outbox[r][1]
        BY <1>3, <4>2
      <4>4. 1 + 1 + Len(frames) \in mine /\ q[1 + 1 + Len(frames)][3] = x
        BY <4>2, <4>3
      <4> QED
        BY <4>4
    <3> QED
      BY <1>7, <3>1, <3>2, <3>3
  <2> QED
    BY <2>1, <2>2
<1>11. ASSUME NEW i \in 1..Len(q), IsResult(q[i], r)
       PROVE  /\ proc[r] # "none" /\ got[r].result = "none"
              /\ \A j \in 1..Len(q) : IsEvent(q[j], r) \/ IsResult(q[j], r) => j <= i
  BY <1>1, <1>11, ResultPlaces DEF IsLast, Over
<1>12. got[r].result # "none" => mine = {} /\ events[r] = <<>>
  <2> HAVE got[r].result # "none"
  <2>1. Over(r) /\ outbox[r] = <<>> /\ Idle(r) /\ ~IsEvent(writer, r)
    BY <1>1 DEF Flying, ResultOK
  <2>2. ~Pending(r)
    BY <2>1 DEF Pending
  <2> QED
    BY <1>8, <2>1, <2>2 DEF Idle, Over
<1> QED
  BY <1>5, <1>6, <1>9, <1>10, <1>11, <1>12

\* A client that reads its connection gets the events of each of its streams one by
\* one, none lost, repeated or overtaken, and then the result, once and last: across
\* fallbacks, tools, cancellation, errors, other requests of the connection and the
\* bounded frame channel (server.rs: StreamState, process_request, the writer task).
THEOREM StreamsAreOrdered == ServerSpec => []StreamOrdered
  BY StreamInvAlways, InvStreamOrdered, PTL

\* The text of a completed result is the text of the last answer the client saw begin
\* (server.rs: StreamState::handle and result; client main.rs: exchange).
THEOREM ResultsAreLastAnswers == ServerSpec => []ResultIsLastAnswer
<1>1. StreamInv => ResultIsLastAnswer
  BY DEF StreamInv, ResultIsLastAnswer
<1> QED
  BY <1>1, StreamInvAlways, PTL
=============================================================================
