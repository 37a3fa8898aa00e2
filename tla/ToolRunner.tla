----------------------------- MODULE ToolRunner -----------------------------
(***************************************************************************)
(* run_command of the read-only tools (crates/sentia-tools/src/runner.rs): *)
(* a child with its output in two pipes, a thread per pipe that keeps the  *)
(* first Limit bytes and throws the rest away, and a caller that polls the *)
(* child until it exits or the deadline passes.  Only the child is killed; *)
(* a process it started may hold the pipes longer than it.                 *)
(***************************************************************************)
EXTENDS Integers

CONSTANTS Limit,       \* output_limit
          ReadSize,    \* bytes one read returns at most (4096 in the code)
          PipeSize,    \* bytes a pipe holds
          MaxWritten   \* bound on what is written to one pipe
ASSUME RunnerAssumption ==
    /\ Limit \in Nat /\ ReadSize \in Nat \ {0} /\ PipeSize \in Nat \ {0}
    /\ MaxWritten \in Nat

VARIABLES call,      \* where run_command is
          child,     \* "none", "running", "exited" or "reaped"
          heir,      \* a process the child started still has the pipes
          written,   \* stream |-> bytes written so far
          taken,     \* stream |-> bytes the reader has taken
          kept,      \* stream |-> Vec::len of the reader's output
          truncated, \* stream |-> the reader's flag
          reader     \* stream |-> "none", "reading", "ended" or "failed"
runnerVars == <<call, child, heir, written, taken, kept, truncated, reader>>

Streams == {"stdout", "stderr"}
Of(value) == [s \in Streams |-> value]

RunnerInit ==
    /\ call = "check" /\ child = "none" /\ heir = FALSE
    /\ written = Of(0) /\ taken = Of(0) /\ kept = Of(0) /\ truncated = Of(FALSE)
    /\ reader = Of("none")
-----------------------------------------------------------------------------
\* The executable must be an absolute path to a runnable file.
Refuse ==
    /\ call = "check" /\ call' = "refused"
    /\ UNCHANGED <<child, heir, written, taken, kept, truncated, reader>>

Spawn ==
    /\ call = "check" /\ call' = "poll"
    /\ child' = "running" /\ reader' = Of("reading")
    /\ UNCHANGED <<heir, written, taken, kept, truncated>>

\* The child and its heir write when somebody reads and there is room; the child may leave an heir and exit.
Alive == child = "running" \/ heir
Produce(s) ==
    /\ Alive /\ reader[s] # "failed"
    /\ written[s] < MaxWritten /\ written[s] - taken[s] < PipeSize
    /\ written' = [written EXCEPT ![s] = @ + 1]
    /\ UNCHANGED <<call, child, heir, taken, kept, truncated, reader>>

ChildExits ==
    /\ child = "running" /\ child' = "exited"
    /\ heir' \in BOOLEAN
    /\ UNCHANGED <<call, written, taken, kept, truncated, reader>>

HeirExits ==
    /\ heir /\ heir' = FALSE
    /\ UNCHANGED <<call, child, written, taken, kept, truncated, reader>>

\* Mutant: reading stops when the limit is reached.
ReadStopping(s) ==
    /\ reader[s] = "reading"
    /\ \E n \in 1..ReadSize :
        /\ n <= written[s] - taken[s]
        /\ taken' = [taken EXCEPT ![s] = @ + n]
        /\ kept' = [kept EXCEPT ![s] = IF @ + n <= Limit THEN @ + n ELSE Limit]
        /\ truncated' = [truncated EXCEPT ![s] = @ \/ kept[s] + n > Limit]
        /\ reader' = [reader EXCEPT ![s] = IF kept[s] + n >= Limit THEN "ended" ELSE @]
    /\ UNCHANGED <<call, child, heir, written>>

\* One round of read_stream_with_limit: what is over the limit is read all the same, so
\* that the child is not blocked.
ReadSome(s) ==
    /\ reader[s] = "reading"
    /\ \E n \in 1..ReadSize :
        /\ n <= written[s] - taken[s]
        /\ taken' = [taken EXCEPT ![s] = @ + n]
        /\ kept' = [kept EXCEPT ![s] = IF @ + n <= Limit THEN @ + n ELSE Limit]
        /\ truncated' = [truncated EXCEPT ![s] = @ \/ kept[s] + n > Limit]
    /\ UNCHANGED <<call, child, heir, written, reader>>

\* The pipe is empty and nobody can write to it any more.
ReadEnd(s) ==
    /\ reader[s] = "reading" /\ ~Alive /\ written[s] = taken[s]
    /\ reader' = [reader EXCEPT ![s] = "ended"]
    /\ UNCHANGED <<call, child, heir, written, taken, kept, truncated>>

\* The error of a read ends the reader's thread and closes its end of the pipe.
ReadFails(s) ==
    /\ reader[s] = "reading"
    /\ reader' = [reader EXCEPT ![s] = "failed"]
    /\ UNCHANGED <<call, child, heir, written, taken, kept, truncated>>

\* The error of try_wait leaves the call at once: child and readers stay behind.
WaitFails ==
    /\ call = "poll" /\ call' = "failed"
    /\ UNCHANGED <<child, heir, written, taken, kept, truncated, reader>>

\* try_wait finds the child's exit status.
PollExited ==
    /\ call = "poll" /\ child = "exited"
    /\ child' = "reaped" /\ call' = "join"
    /\ UNCHANGED <<heir, written, taken, kept, truncated, reader>>

\* The deadline: the child is killed and waited for, which may leave an heir.
PollTimeout ==
    /\ call = "poll" /\ call' = "join_timeout"
    /\ child' = "reaped"
    /\ heir' \in IF child = "running" THEN BOOLEAN ELSE {heir}
    /\ UNCHANGED <<written, taken, kept, truncated, reader>>

\* Both readers are joined before the call returns: with the output, with a reader's
\* error, or as a timeout, which ignores what the readers say.
Join ==
    /\ call \in {"join", "join_timeout"}
    /\ \A s \in Streams : reader[s] # "reading"
    /\ call' = CASE call = "join_timeout" -> "timed_out"
                 [] call = "join" /\ reader = Of("ended") -> "returned"
                 [] OTHER -> "failed"
    /\ UNCHANGED <<child, heir, written, taken, kept, truncated, reader>>

RunnerNext ==
    \/ Refuse \/ Spawn \/ ChildExits \/ HeirExits
    \/ WaitFails \/ PollExited \/ PollTimeout \/ Join
    \/ \E s \in Streams : Produce(s) \/ ReadSome(s) \/ ReadEnd(s) \/ ReadFails(s)

RunnerSpec == RunnerInit /\ [][RunnerNext]_runnerVars
-----------------------------------------------------------------------------
\* A call that returns output returns exactly the first Limit bytes of everything that
\* was written to the pipe, by the child or what it left behind, and says whether there
\* was more: an error of a reader never passes for a short output.  Neither it nor a call
\* that times out leaves the child unreaped or a reader behind (run_command,
\* read_stream_with_limit); only an error of try_wait does.
CaptureExact ==
    /\ call = "returned" =>
        /\ ~heir
        /\ \A s \in Streams :
            /\ kept[s] = IF written[s] <= Limit THEN written[s] ELSE Limit
            /\ truncated[s] <=> written[s] > Limit
    /\ call \in {"returned", "timed_out"} =>
        child = "reaped" /\ \A s \in Streams : reader[s] \in {"ended", "failed"}
=============================================================================
