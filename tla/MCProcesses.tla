---------------------------- MODULE MCProcesses ----------------------------
(***************************************************************************)
(* Three programs that share no state and never run for one another:       *)
(* sentia-retrieval, a provider worker and a tool's run_command.  part     *)
(* names the one that a behaviour is about; the others keep their initial  *)
(* state.                                                                  *)
(***************************************************************************)
EXTENDS Retrieval, ProviderWorker, ToolRunner

CONSTANTS i1, i2

VARIABLE part
vars == <<part, retrievalVars, workerVars, runnerVars>>

Item(path, body, size, listed, inside) ==
    [path |-> path, body |-> body, size |-> size, listed |-> listed, inside |-> inside]
Holds(readable, size, items) == [readable |-> readable, size |-> size, items |-> items]
\* In the first world two sources hold "p", a page is outside its root's directory, and
\* two architectures of one package share a path; in the second a source is unreadable,
\* a page has grown too large, and so has the status file.
MCWorlds ==
    {[man |-> Holds(TRUE, 0, <<Item("p", "a", 2, TRUE, TRUE), Item("q", "b", 1, TRUE, TRUE),
                               Item("r", "b", 1, TRUE, FALSE)>>),
      docs |-> Holds(TRUE, 0, <<Item("p", "a", 1, TRUE, TRUE), Item("q", "a", 1, FALSE, TRUE)>>),
      dpkg |-> Holds(TRUE, 2, <<Item("s", "a", 1, TRUE, TRUE), Item("s", "b", 1, TRUE, TRUE)>>)],
     [man |-> Holds(TRUE, 0, <<Item("p", "b", 1, TRUE, TRUE), Item("q", "b", 3, TRUE, TRUE)>>),
      docs |-> Holds(FALSE, 0, <<>>),
      dpkg |-> Holds(TRUE, 3, <<Item("s", "a", 1, TRUE, TRUE)>>)]}
Entry(name, kind, label) == [name |-> name, kind |-> kind, label |-> label]
MCConfigs ==
    {<<Entry("man", "man_directory", "l"), Entry("docs", "filesystem", "l")>>,
     <<Entry("docs", "filesystem", "m"), Entry("man", "man_directory", "l")>>,
     <<Entry("docs", "filesystem", "l"), Entry("dpkg", "dpkg_status", "l")>>,
     <<Entry("docs", "filesystem", "l"), Entry("docs", "filesystem", "m")>>}

Init ==
    /\ part \in {"retrieval", "worker", "runner"}
    /\ RetrievalInit /\ WorkerInit /\ RunnerInit
    /\ part # "retrieval" =>
        /\ world = CHOOSE w \in Worlds : TRUE
        /\ config = CHOOSE c \in Configs : TRUE

RetrievalStep == part = "retrieval" /\ RetrievalNext /\ UNCHANGED <<part, workerVars, runnerVars>>
WorkerStep == part = "worker" /\ WorkerNext /\ UNCHANGED <<part, retrievalVars, runnerVars>>
RunnerStep == part = "runner" /\ RunnerNext /\ UNCHANGED <<part, retrievalVars, workerVars>>
Next == RetrievalStep \/ WorkerStep \/ RunnerStep

\* The worker's loop runs on, and the deadlines of the transport end every task.
Fairness == WF_vars(WorkerStep /\ Worker) /\ WF_vars(WorkerStep /\ TaskEnds)

Spec == Init /\ [][Next]_vars /\ Fairness
=============================================================================
