--------------------------- MODULE ProviderWorker ---------------------------
(***************************************************************************)
(* The provider worker (crates/sentia-providers/src/worker.rs, with the    *)
(* checks of protocol.rs and the request of transport.rs): one process per *)
(* provider that reads commands, one per line, and writes events.  It has  *)
(* at most one request under way, whose task runs beside the loop; select! *)
(* takes the task's result or the next command, whichever is ready.  A     *)
(* command is abstracted to what decode_command and validate tell apart.   *)
(***************************************************************************)
EXTENDS Integers, Sequences

CONSTANTS RequestIds,    \* request ids a client uses
          MaxCommands    \* bound on the commands a client sends
ASSUME WorkerAssumption == MaxCommands \in Nat

VARIABLES input,    \* commands sent and not yet read, oldest first
          client,   \* "open", "closed" (its end of stdin) or "gone"
          worker,   \* "running" or "ended"
          broken,   \* the reader met an oversized line: it ends the input after it
          active,   \* ActiveRequest: the request id, or NoRequest
          task,     \* its task: "running", or how it ended
          output,   \* events written, oldest first
          sent      \* commands the client sent
workerVars == <<input, client, worker, broken, active, task, output, sent>>

NoRequest == 0
ASSUME RequestIdsAssumption == RequestIds \subseteq Nat \ {NoRequest}

Infer(id, kind) == [op |-> "infer", id |-> id, kind |-> kind]
CancelOf(id) == [op |-> "cancel", id |-> id, kind |-> "valid"]
\* What decode_command refuses, and what InferenceRequest::validate or the comparison of
\* the provider does.
Undecodable == {[op |-> op, id |-> NoRequest, kind |-> "undecodable"] :
                    op \in {"oversized", "garbage", "other_version"}}
Kinds == {"valid", "invalid", "other_provider"}
Commands == {Infer(id, kind) : id \in RequestIds, kind \in Kinds}
            \cup {CancelOf(id) : id \in RequestIds} \cup Undecodable

Event(event, id, code) == [event |-> event, id |-> id, code |-> code]

WorkerInit ==
    /\ input = <<>> /\ client = "open" /\ worker = "running" /\ broken = FALSE
    /\ active = NoRequest /\ task = "none"
    /\ output = <<Event("ready", NoRequest, "")>> /\ sent = 0
-----------------------------------------------------------------------------
\* write_event: fails when nobody reads any more, and the error leaves run_stdio.
Write(event) ==
    IF client = "gone" THEN worker' = "ended" /\ UNCHANGED output
    ELSE output' = Append(output, event) /\ UNCHANGED worker

\* ProviderTransport::infer: every way in which the exchange can go wrong, the deadline
\* included, is an error of the task; a bug in it is a panic.
Exchanges == {"answer", "timeout", "network", "redirect", "not_json", "refused", "panic"}
TaskEnds ==
    /\ worker = "running" /\ task = "running"
    /\ \E exchange \in Exchanges :
        task' = CASE exchange = "answer" -> "completed"
                  [] exchange = "panic" -> "worker_task_failed"
                  [] OTHER -> "error"
    /\ UNCHANGED <<input, client, worker, broken, active, output, sent>>

\* Mutant: a task that panicked is waited for.
ReportNoPanic ==
    /\ worker = "running" /\ active # NoRequest /\ task \in {"completed", "error"}
    /\ Write(IF task = "completed" THEN Event("completed", active, "")
             ELSE Event("error", active, task))
    /\ active' = NoRequest /\ task' = "none"
    /\ UNCHANGED <<input, client, broken, sent>>

\* select! takes the result of the task.
Report ==
    /\ worker = "running" /\ active # NoRequest /\ task \notin {"none", "running"}
    /\ Write(IF task = "completed" THEN Event("completed", active, "")
             ELSE Event("error", active, task))
    /\ active' = NoRequest /\ task' = "none"
    /\ UNCHANGED <<input, client, broken, sent>>

\* The next command, when the input still has one.
Reads(op) ==
    /\ worker = "running" /\ ~broken /\ input # <<>> /\ Head(input).op \in op
    /\ input' = Tail(input)
    /\ broken' = (Head(input).op = "oversized")

\* decode_command refuses the line; a request under way goes on.
ReadUndecodable ==
    /\ Reads({"oversized", "garbage", "other_version"})
    /\ Write(Event("error", NoRequest, Head(input).op))
    /\ UNCHANGED <<client, active, task, sent>>

\* Mutant: the request under way is put back although it was cancelled.
ReadCancelKeeps ==
    /\ Reads({"cancel"})
    /\ Write(Event("error", Head(input).id,
                   IF Head(input).id = active THEN "cancelled" ELSE "request_not_active"))
    /\ UNCHANGED <<client, active, task, sent>>

\* Only the request under way can be cancelled; its task is aborted and never reported.
ReadCancel ==
    /\ Reads({"cancel"})
    /\ LET id == Head(input).id
       IN IF id = active
          THEN /\ Write(Event("error", id, "cancelled"))
               /\ active' = NoRequest /\ task' = "none"
          ELSE /\ Write(Event("error", id, "request_not_active"))
               /\ UNCHANGED <<active, task>>
    /\ UNCHANGED <<client, sent>>

\* A request while another one is under way is refused under its own id.
ReadInferBusy ==
    /\ Reads({"infer"}) /\ active # NoRequest
    /\ Write(Event("error", Head(input).id, "worker_busy"))
    /\ UNCHANGED <<client, active, task, sent>>

ReadInferRefused ==
    /\ Reads({"infer"}) /\ active = NoRequest /\ Head(input).kind # "valid"
    /\ Write(Event("error", Head(input).id, Head(input).kind))
    /\ UNCHANGED <<client, active, task, sent>>

ReadInfer ==
    /\ Reads({"infer"}) /\ active = NoRequest /\ Head(input).kind = "valid"
    /\ Write(Event("started", Head(input).id, ""))
    /\ IF client = "gone" THEN UNCHANGED <<active, task>>
       ELSE active' = Head(input).id /\ task' = "running"
    /\ UNCHANGED <<client, sent>>

\* The end of the input aborts the request under way and ends the process.
EndOfInput ==
    /\ worker = "running"
    /\ broken \/ (input = <<>> /\ client # "open")
    /\ worker' = "ended" /\ active' = NoRequest /\ task' = "none"
    /\ UNCHANGED <<input, client, broken, output, sent>>

\* The client sends a command, closes its end of the input, or dies.
ClientSends ==
    /\ client = "open" /\ sent < MaxCommands /\ sent' = sent + 1
    /\ \E command \in Commands : input' = Append(input, command)
    /\ UNCHANGED <<client, worker, broken, active, task, output>>

ClientCloses ==
    /\ client = "open" /\ client' \in {"closed", "gone"}
    /\ UNCHANGED <<input, worker, broken, active, task, output, sent>>

Worker == \/ Report \/ ReadUndecodable \/ ReadCancel \/ ReadInferBusy \/ ReadInferRefused
          \/ ReadInfer \/ EndOfInput
WorkerNext == Worker \/ TaskEnds \/ ClientSends \/ ClientCloses

WorkerSpec == WorkerInit /\ [][WorkerNext]_workerVars
-----------------------------------------------------------------------------
\* The events that start a request and the ones that end it.
Finals == {"completed", "error", "worker_task_failed", "cancelled"}
Ends(event) == event.event = "completed" \/ event.code \in Finals
Starts(event) == event.event = "started"

\* Positions m < n of the output between which no request starts or ends.
Quiet(m, n) == \A k \in (m + 1)..(n - 1) : ~Starts(output[k]) /\ ~Ends(output[k])

\* Started requests and their outcomes alternate: a request that was started gets at most
\* one outcome, under its id, before the next one starts, although its result, its
\* cancellation and refusals of other commands race (run_stdio).
OneOutcome ==
    \A n \in DOMAIN output :
        /\ Ends(output[n]) => \E m \in 1..(n - 1) :
               Starts(output[m]) /\ output[m].id = output[n].id /\ Quiet(m, n)
        /\ Starts(output[n]) => \A m \in 1..(n - 1) : Starts(output[m]) => ~Quiet(m, n)

\* A started request gets its outcome, unless the worker ends first.
Underway == \E m \in DOMAIN output : Starts(output[m]) /\ Quiet(m, Len(output) + 1)
OutcomeArrives == Underway ~> (~Underway \/ worker = "ended")
=============================================================================
