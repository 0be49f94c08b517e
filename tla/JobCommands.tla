----------------------------- MODULE JobCommands -----------------------------
(***************************************************************************)
(* Who asks the run registry: the jobs commands of src/src/bin/zenbench.rs *)
(* and the tools of the MCP server, src/src/mcp.rs.                        *)
(*                                                                         *)
(* A command line runs one command and exits; the server answers one       *)
(* request after another on its standard input, each to its end before it  *)
(* reads the next.  A command is one or two registry calls; between two    *)
(* calls the others go on.                                                 *)
(***************************************************************************)
EXTENDS RunRegistry

CONSTANTS
  Cli           \* the clients that are command lines; the others are servers

ASSUME JobCommandsAssumption == Cli \subseteq Client

VARIABLES
  front,        \* each client's command: cmd, the run it is about, its answer
  saved         \* history: the children that have saved results

frontVars == <<front, saved>>

Nothing == "none"
NoFront == [cmd |-> Nothing, id |-> NoId, out |-> Nothing]

JobsInit ==
  /\ RegistryInit
  /\ front = [c \in Client |-> NoFront]
  /\ saved = {}

\* The registry call that a command starts with; `run` is the command line's.
Call ==
  [list_runs |-> "list", run_status |-> "load", kill_run |-> "kill",
   kill_stale |-> "stale", spawn_bench |-> "spawn", run |-> "spawn",
   get_results |-> "load", get_latest |-> "list", wait_for_results |-> "wait",
   clean_runs |-> "cleanup"]

OnCommandLine == DOMAIN Call \ {"spawn_bench", "wait_for_results"}
OnServer == DOMAIN Call \ {"run"}

\* The answers that say something of a run: of one that ended well, or of one
\* whose results were waited for, or are just shown.
Telling == {"success", "awaited", "shown"}

\* A command line is over with its answer; a server waits for a request.  Which
\* run it was about is remembered with what says something of that run.
Answer(c, out) ==
  front' = [front EXCEPT ![c] =
    [cmd |-> IF c \in Cli THEN "gone" ELSE Nothing, out |-> out,
     id  |-> IF out \in Telling THEN @.id ELSE NoId]]

Ask(c) ==
  /\ front[c].cmd = Nothing
  /\ \E tool \in IF c \in Cli THEN OnCommandLine ELSE OnServer :
       /\ Begin(c) /\ op'[c] = Call[tool]
       /\ front' = [front EXCEPT ![c] = [NoFront EXCEPT !.cmd = tool,
             !.id = IF op'[c] \in ListOps THEN NoId ELSE CHOOSE i \in todo'[c] : TRUE]]
  /\ UNCHANGED saved

\* Steps of a call that may also end it with an error.
Fallible(c) ==
  ReadFails(c) \/ SaveFails(c) \/ WaitTimeout(c) \/ LaunchFails(c)
    \/ \E i \in Id : Read(c, i)

\* Most steps of a call are its own affair; a launch gives the run its id.
Proceed(c) ==
  /\ \/ Fallible(c) \/ Agrees(c) \/ Reconcile(c) \/ Truncate(c) \/ Fill(c)
     \/ PollAgain(c) \/ Select(c) \/ RemoveResult(c) \/ ActDone(c)
     \/ \E i \in Id : Signal(c, i) \/ NotSignalled(c, i) \/ RemoveRecord(c, i)
     \/ \E k \in Child : Launch(c, k)
  /\ doing'[c] # "idle"
  /\ front' = IF doing[c] = "launch" THEN [front EXCEPT ![c].id = cur'[c].id] ELSE front
  /\ UNCHANGED saved

Fails(c) ==
  /\ Fallible(c) /\ doing'[c] = "idle"
  /\ Answer(c, "error")
  /\ UNCHANGED saved

\* Killing and cleaning answer with how many.
Killed(c) ==
  /\ op[c] \in KillOps
  /\ ActDone(c) /\ doing'[c] = "idle"
  /\ Answer(c, "done")
  /\ UNCHANGED saved

Cleaned(c) ==
  /\ op[c] = "cleanup"
  /\ ActDone(c) /\ doing'[c] = "idle"
  /\ Answer(c, "done")
  /\ UNCHANGED saved

\* The server drops the child's handle; `run` keeps it, to wait for the child.
SpawnedDetached(c) ==
  /\ front[c].cmd = "spawn_bench"
  /\ Fill(c) /\ doing'[c] = "idle"
  /\ Answer(c, "done")
  /\ UNCHANGED saved

SpawnedToWait(c) ==
  /\ front[c].cmd = "run"
  /\ Fill(c) /\ doing'[c] = "idle"
  /\ front' = [front EXCEPT ![c].cmd = "reap"]
  /\ UNCHANGED saved

\* The newest of the completed runs, results or not.
Latest(runs) ==
  LET completed == {i \in Id : runs[i].status = "completed"}
  IN {i \in completed : \A j \in completed : j[1] <= i[1]}

Listed(c) ==
  /\ front[c].cmd = "list_runs"
  /\ ListDone(c)
  /\ Answer(c, "done")
  /\ UNCHANGED saved

FoundLatest(c) ==
  /\ front[c].cmd = "get_latest"
  /\ ListDone(c)
  /\ \/ Latest(view[c]) = {} /\ Answer(c, "error")
     \/ \E i \in Latest(view[c]) :
             front' = [front EXCEPT ![c].cmd = "latest", ![c].id = i]
  /\ UNCHANGED saved

\* child.wait(), without a time limit.
Reap(c) ==
  /\ front[c].cmd = "reap"
  /\ \E k \in Child : owner[k] = front[c].id /\ process[k] \in {"exited", "recycled"}
  /\ front' = [front EXCEPT ![c].cmd = "finish"]
  /\ UNCHANGED <<registryVars, saved>>

\* The second call of a command, about the run of the first.
Again(c) ==
  /\ doing[c] = "idle" /\ front[c].cmd \in {"finish", "latest"}
  /\ LET i == front[c].id IN
     IF record[i] = Absent
     THEN Answer(c, "error") /\ UNCHANGED registryVars
     ELSE /\ Begin(c) /\ todo'[c] = {i}
          /\ op'[c] = IF front[c].cmd = "finish" THEN "wait" ELSE "load"
          /\ UNCHANGED front
  /\ UNCHANGED saved

RunExitOptimistic(status) == IF status # "killed" THEN "success" ELSE "error"

\* `run` exits with zero for a completed run, whether its results load or not.
RunExit(status) == IF status = "completed" THEN "success" ELSE "error"

\* Waiting answers with the results of a completed run.
Waited(status, there) == IF status = "completed" /\ there THEN "awaited" ELSE "error"

\* Results are asked for with no look at the status.
Shown(there) == IF there THEN "shown" ELSE "error"

Reported(c) ==
  /\ Report(c)
  /\ LET i == front[c].id
         status == view[c][i].status
         there  == i \in results
     IN Answer(c, CASE front[c].cmd = "finish" -> RunExit(status)
                    [] front[c].cmd = "wait_for_results" -> Waited(status, there)
                    [] front[c].cmd \in {"get_results", "latest"} -> Shown(there)
                    [] front[c].cmd = "run_status" -> "done")
  /\ UNCHANGED saved

Dies(c) ==
  /\ ClientDies(c)
  /\ front' = [front EXCEPT ![c] = [NoFront EXCEPT !.cmd = "gone"]]
  /\ UNCHANGED saved

Saves(k) == SaveResult(k) /\ saved' = saved \cup {k} /\ UNCHANGED front

Surroundings ==
  /\ Commit \/ \E k \in Child : Exit(k) \/ Recycle(k) \/ Recycled(k)
  /\ UNCHANGED frontVars

JobsNext ==
  \/ \E c \in Client :
       \/ Ask(c) \/ Proceed(c) \/ Fails(c) \/ Killed(c) \/ Cleaned(c)
       \/ SpawnedDetached(c) \/ SpawnedToWait(c) \/ Listed(c) \/ FoundLatest(c)
       \/ Reap(c) \/ Again(c) \/ Reported(c) \/ Dies(c)
  \/ \E k \in Child : Saves(k)
  \/ Surroundings

JobsSpec == JobsInit /\ [][JobsNext]_<<registryVars, frontVars>>

\* The processes of a run: two that one client launches within a second are
\* runs of one id.
OfRun(i) == {k \in Child : owner[k] = i}
Stopped == {k \in Child : process[k] \in {"exited", "recycled"}}

\* What a user is told is true, though killers, cleaners and other readers
\* write the same record.  `run` reports success only of a process that is over
\* and has saved results; wait_for_results returns results only when a process
\* of the run is over and one of them, the same unless two share the id, has
\* saved; and what get_results and get_latest show with no wait has been saved
\* by a process of the run that was asked for.
AnswerIsTrue ==
  \A c \in Client : front[c].out \in Telling =>
    LET run == OfRun(front[c].id) IN
    /\ run \cap saved # {}
    /\ front[c].out = "awaited" => run \cap Stopped # {}
    /\ front[c].out = "success" => run \cap Stopped \cap saved # {}
=============================================================================
