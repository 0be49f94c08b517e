---------------------------- MODULE RunRegistry ----------------------------
(***************************************************************************)
(* Fire-and-forget runs: src/src/daemon.rs.                                *)
(*                                                                         *)
(* Clients (CLI commands, the MCP server) share a directory of run records *)
(* with no lock at all.  Each loads a record, decides from the process     *)
(* table and the results file what it should say, and writes it back:      *)
(* truncate, then fill.  A run's id is the second it was spawned in and    *)
(* the spawning process.                                                   *)
(***************************************************************************)
EXTENDS Naturals

CONSTANTS
  Client,       \* processes that use the registry
  Child,        \* benchmark processes, standing for their pids
  MaxSecond,    \* bound on the clock, in seconds
  MaxCommit,    \* bound on the commits made meanwhile
  NoChild       \* no process

ASSUME RunRegistryAssumption ==
  /\ MaxSecond \in Nat /\ MaxCommit \in Nat
  /\ NoChild \notin Child

Id == (0 .. MaxSecond) \X Client
NoId == <<>>

Status   == {"running", "completed", "failed", "killed"}
Terminal == Status \ {"running"}

Run == [status : Status, child : Child, commit : 0 .. MaxCommit]

\* Files that do not hold a record.
Absent == [status |-> "absent", child |-> NoChild, commit |-> 0]
Torn   == [status |-> "torn", child |-> NoChild, commit |-> 0]

VARIABLES
  second, commit, \* the clock and the checked-out commit
  record,           \* the record file of each id
  results,          \* the ids whose results file is there
  process, owner,   \* each child's process, and the id it runs under
  doing, op, phase, \* what each client is doing, for which call, in which part
  todo, view,       \* the ids still to visit, the records a list has returned
  cur,              \* the id and the record in hand
  hash,             \* the commit a spawn has read
  written           \* history: the statuses recorded of each child

children == <<process, owner>>
client   == <<doing, op, phase, todo, view, cur, hash>>
registryVars == <<second, commit, record, results, children, client, written>>

ListOps == {"list", "stale", "spawn", "cleanup"}
KillOps == {"kill", "stale", "spawn"}

NoView == [i \in Id |-> Absent]
NoCur(c) == [id |-> <<0, c>>, run |-> Absent]

RegistryInit ==
  /\ second = 0 /\ commit = 0
  /\ record = [i \in Id |-> Absent]
  /\ results = {}
  /\ process = [k \in Child |-> "none"]
  /\ owner = [k \in Child |-> NoId]
  /\ doing = [c \in Client |-> "idle"]
  /\ op = [c \in Client |-> "none"]
  /\ phase = [c \in Client |-> "scan"]
  /\ todo = [c \in Client |-> {}]
  /\ view = [c \in Client |-> NoView]
  /\ cur = [c \in Client |-> NoCur(c)]
  /\ hash = [c \in Client |-> 0]
  /\ written = {}

-----------------------------------------------------------------------------
Goto(c, from, to) == doing[c] = from /\ doing' = [doing EXCEPT ![c] = to]

\* The call is over and the client forgets what it had read.
Leave(c, to) ==
  /\ doing' = [doing EXCEPT ![c] = to]
  /\ op' = [op EXCEPT ![c] = "none"]
  /\ phase' = [phase EXCEPT ![c] = "scan"]
  /\ todo' = [todo EXCEPT ![c] = {}]
  /\ view' = [view EXCEPT ![c] = NoView]
  /\ cur' = [cur EXCEPT ![c] = NoCur(c)]
  /\ hash' = [hash EXCEPT ![c] = 0]

\* It returns, with or without an error.
Finish(c) == Leave(c, "idle")

\* A pid is alive while its process runs, or once another process has it.
Alive(k) == process[k] \in {"running", "signalled", "recycled"}

Discard(c) == cur' = [cur EXCEPT ![c] = NoCur(c)]

\* The record in hand joins what the scan returns.
Keep(c) ==
  /\ view' = [view EXCEPT ![c][cur[c].id] = cur[c].run]
  /\ todo' = [todo EXCEPT ![c] = @ \ {cur[c].id}]
  /\ doing' = [doing EXCEPT ![c] = "read"]
  /\ Discard(c)
  /\ UNCHANGED <<op, phase, hash>>

-----------------------------------------------------------------------------
(* Faulty variants of some steps, which the invariants must tell apart.    *)

\* Every record is saved back, changed or not.
AgreesSaving(c) ==
  /\ Goto(c, "check", "truncate")
  /\ cur[c].run.status \in Terminal \/ Alive(cur[c].run.child)
  /\ UNCHANGED <<second, commit, record, results, children, op, phase, todo, view, cur, hash, written>>

\* A process that has been signalled is taken for dead.
ReconcileHasty(c) ==
  /\ Goto(c, "check", "truncate")
  /\ cur[c].run.status = "running" /\ process[cur[c].run.child] # "running"
  /\ cur' = [cur EXCEPT ![c].run.status =
               IF cur[c].id \in results THEN "completed" ELSE "failed"]
  /\ UNCHANGED <<second, commit, record, results, children, op, phase, todo, view, hash, written>>

-----------------------------------------------------------------------------
(* Reading and reconciling: list_runs, load_run_state.                     *)

\* spawn_detached asks git for the commit before anything else.
Begin(c) ==
  /\ doing[c] = "idle"
  /\ doing' = [doing EXCEPT ![c] = "read"]
  /\ \/ \E o \in ListOps :
          /\ op' = [op EXCEPT ![c] = o]
          /\ todo' = [todo EXCEPT ![c] = {i \in Id : record[i] # Absent}]
          /\ hash' = [hash EXCEPT ![c] = IF o \in KillOps THEN commit ELSE 0]
     \/ \E o \in {"load", "wait", "kill"}, i \in Id :
          /\ record[i] # Absent
          /\ op' = [op EXCEPT ![c] = o]
          /\ todo' = [todo EXCEPT ![c] = {i}]
          /\ UNCHANGED hash
  /\ UNCHANGED <<second, commit, record, results, children, phase, view, cur, written>>

\* A record that is gone or does not parse is skipped by list_runs and fails
\* load_run_state.
Read(c, i) ==
  /\ doing[c] = "read" /\ i \in todo[c]
  /\ IF record[i] \in Run
       THEN /\ Goto(c, "read", "check")
            /\ cur' = [cur EXCEPT ![c] = [id |-> i, run |-> record[i]]]
            /\ UNCHANGED <<op, phase, todo, view, hash>>
       ELSE IF op[c] \in ListOps
         THEN todo' = [todo EXCEPT ![c] = @ \ {i}] /\ UNCHANGED <<doing, op, phase, view, cur, hash>>
         ELSE Finish(c)
  /\ UNCHANGED <<second, commit, record, results, children, written>>

\* The directory or the record cannot be read.
ReadFails(c) ==
  /\ doing[c] = "read" /\ (todo[c] # {} \/ op[c] \in ListOps)
  /\ Finish(c)
  /\ UNCHANGED <<second, commit, record, results, children, written>>

\* reconcile_state leaves finished and live runs alone ...
Agrees(c) ==
  /\ doing[c] = "check"
  /\ cur[c].run.status \in Terminal \/ Alive(cur[c].run.child)
  /\ Keep(c)
  /\ UNCHANGED <<second, commit, record, results, children, written>>

\* ... and finishes a dead one by whether its results are there.
Reconcile(c) ==
  /\ Goto(c, "check", "truncate")
  /\ cur[c].run.status = "running" /\ ~Alive(cur[c].run.child)
  /\ cur' = [cur EXCEPT ![c].run.status =
               IF cur[c].id \in results THEN "completed" ELSE "failed"]
  /\ UNCHANGED <<second, commit, record, results, children, op, phase, todo, view, hash, written>>

-----------------------------------------------------------------------------
(* save_run_state.                                                         *)

Truncate(c) ==
  /\ Goto(c, "truncate", "fill")
  /\ record' = [record EXCEPT ![cur[c].id] = Torn]
  /\ UNCHANGED <<second, commit, results, children, op, phase, todo, view, cur, hash, written>>

Fill(c) ==
  /\ doing[c] = "fill"
  /\ record' = [record EXCEPT ![cur[c].id] = cur[c].run]
  /\ written' = written \cup {<<cur[c].run.child, cur[c].run.status>>}
  /\ CASE phase[c] = "scan" -> Keep(c)
       [] phase[c] = "act"  -> /\ Goto(c, "fill", "act") /\ Discard(c)
                               /\ UNCHANGED <<op, phase, todo, view, hash>>
       [] phase[c] = "launch" -> Finish(c)
  /\ UNCHANGED <<second, commit, results, children>>

\* Reconciliation ignores a failed save; the other callers return the error.
SaveFails(c) ==
  /\ doing[c] \in {"truncate", "fill"}
  /\ IF phase[c] = "scan" THEN Keep(c) ELSE Finish(c)
  /\ UNCHANGED <<second, commit, record, results, children, written>>

-----------------------------------------------------------------------------
(* What the callers do with it.                                            *)

ListDone(c) ==
  /\ doing[c] = "read" /\ todo[c] = {} /\ op[c] = "list"
  /\ Finish(c)
  /\ UNCHANGED <<second, commit, record, results, children, written>>

\* The status of the one run that load_run_state has read.
Loaded(c, statuses) == \E i \in Id : view[c][i].status \in statuses

\* load_run_state returns what it read, wait_for_run a finished run.
Report(c) ==
  /\ doing[c] = "read" /\ todo[c] = {}
  /\ \/ op[c] = "load"
     \/ op[c] = "wait" /\ Loaded(c, Terminal)
  /\ Finish(c)
  /\ UNCHANGED <<second, commit, record, results, children, written>>

\* A running one is read again after the interval.
PollAgain(c) ==
  /\ doing[c] = "read" /\ todo[c] = {}
  /\ op[c] = "wait" /\ Loaded(c, {"running"})
  /\ todo' = [todo EXCEPT ![c] = {i \in Id : view[c][i] # Absent}]
  /\ view' = [view EXCEPT ![c] = NoView]
  /\ UNCHANGED <<second, commit, record, results, children, doing, op, phase, cur, hash, written>>

\* The clock is only looked at when the record says running.
WaitTimeout(c) ==
  /\ doing[c] = "read" /\ todo[c] = {}
  /\ op[c] = "wait" /\ Loaded(c, {"running"})
  /\ Finish(c)
  /\ UNCHANGED <<second, commit, record, results, children, written>>

\* kill_run takes the run it loaded, kill_stale_runs every run of another
\* commit, cleanup_old_runs some of the finished ones.
Select(c) ==
  /\ Goto(c, "read", "act")
  /\ todo[c] = {} /\ op[c] \in KillOps \cup {"cleanup"}
  /\ phase' = [phase EXCEPT ![c] = "act"]
  /\ LET running == {i \in Id : view[c][i].status = "running"}
         stale   == {i \in running : view[c][i].commit # hash[c]}
         ended   == {i \in Id : view[c][i].status \in Terminal}
     IN CASE op[c] = "kill"    -> todo' = [todo EXCEPT ![c] = running]
          [] op[c] \in {"stale", "spawn"} -> todo' = [todo EXCEPT ![c] = stale]
          [] op[c] = "cleanup" -> \E old \in SUBSET ended : todo' = [todo EXCEPT ![c] = old]
  /\ view' = [view EXCEPT ![c] = [i \in Id |-> IF i \in todo'[c] THEN @[i] ELSE Absent]]
  /\ hash' = [hash EXCEPT ![c] = IF op[c] = "spawn" THEN @ ELSE 0]
  /\ UNCHANGED <<second, commit, record, results, children, op, cur, written>>

\* kill -TERM reaches whatever has the pid, a zombie included ...
Signal(c, i) ==
  /\ Goto(c, "act", "truncate")
  /\ i \in todo[c] /\ op[c] \in KillOps
  /\ LET k == view[c][i].child IN
       process' = [process EXCEPT ![k] = IF @ = "running" THEN "signalled" ELSE @]
  /\ cur' = [cur EXCEPT ![c] = [id |-> i, run |-> [view[c][i] EXCEPT !.status = "killed"]]]
  /\ todo' = [todo EXCEPT ![c] = @ \ {i}]
  /\ UNCHANGED <<second, commit, record, results, owner, op, phase, view, hash, written>>

\* ... or nothing has it, or it may not be signalled.
NotSignalled(c, i) ==
  /\ doing[c] = "act" /\ i \in todo[c] /\ op[c] \in KillOps
  /\ todo' = [todo EXCEPT ![c] = @ \ {i}]
  /\ UNCHANGED <<second, commit, record, results, children, doing, op, phase, view, cur, hash, written>>

\* cleanup_old_runs removes the record, then the results, and goes on when
\* either fails.
RemoveRecord(c, i) ==
  /\ Goto(c, "act", "unlink")
  /\ i \in todo[c] /\ op[c] = "cleanup"
  /\ record' \in {record, [record EXCEPT ![i] = Absent]}
  /\ cur' = [cur EXCEPT ![c] = [id |-> i, run |-> Absent]]
  /\ todo' = [todo EXCEPT ![c] = @ \ {i}]
  /\ UNCHANGED <<second, commit, results, children, op, phase, view, hash, written>>

RemoveResult(c) ==
  /\ Goto(c, "unlink", "act")
  /\ results' \in {results, results \ {cur[c].id}}
  /\ Discard(c)
  /\ UNCHANGED <<second, commit, record, children, op, phase, todo, view, hash, written>>

ActDone(c) ==
  /\ doing[c] = "act" /\ todo[c] = {}
  /\ IF op[c] = "spawn"
       THEN /\ Goto(c, "act", "launch")
            /\ view' = [view EXCEPT ![c] = NoView]
            /\ UNCHANGED <<op, phase, todo, cur, hash>>
       ELSE Finish(c)
  /\ UNCHANGED <<second, commit, record, results, children, written>>

\* The child runs before there is a record of it.  The clock is only read here.
Launch(c, k) ==
  /\ Goto(c, "launch", "truncate")
  /\ process[k] = "none"
  /\ second' \in second .. MaxSecond
  /\ process' = [process EXCEPT ![k] = "running"]
  /\ owner' = [owner EXCEPT ![k] = <<second', c>>]
  /\ phase' = [phase EXCEPT ![c] = "launch"]
  /\ cur' = [cur EXCEPT ![c] =
       [id |-> <<second', c>>, run |-> [status |-> "running", child |-> k, commit |-> hash[c]]]]
  /\ hash' = [hash EXCEPT ![c] = 0]
  /\ UNCHANGED <<commit, record, results, op, todo, view, written>>

LaunchFails(c) ==
  /\ doing[c] = "launch"
  /\ Finish(c)
  /\ UNCHANGED <<second, commit, record, results, children, written>>

ClientDies(c) ==
  /\ doing[c] \notin {"idle", "dead"}
  /\ Leave(c, "dead")
  /\ UNCHANGED <<second, commit, record, results, children, written>>

-----------------------------------------------------------------------------
(* The benchmark processes and their surroundings.                         *)

\* The results file is written to a temp file and renamed, by a process of the
\* run that need not be the recorded one and may outlive it.
SaveResult(k) ==
  /\ process[k] # "none"
  /\ results' = results \cup {owner[k]}
  /\ UNCHANGED <<second, commit, record, children, client, written>>

Exit(k) ==
  /\ process[k] \in {"running", "signalled"}
  /\ process' = [process EXCEPT ![k] = "exited"]
  /\ UNCHANGED <<second, commit, record, results, owner, client, written>>

\* Another process takes the pid, and ends.
Recycle(k) ==
  /\ process[k] = "exited"
  /\ process' = [process EXCEPT ![k] = "recycled"]
  /\ UNCHANGED <<second, commit, record, results, owner, client, written>>

Recycled(k) ==
  /\ process[k] = "recycled"
  /\ process' = [process EXCEPT ![k] = "exited"]
  /\ UNCHANGED <<second, commit, record, results, owner, client, written>>

Commit ==
  /\ commit < MaxCommit
  /\ commit' = commit + 1
  /\ UNCHANGED <<second, record, results, children, client, written>>

-----------------------------------------------------------------------------
RegistryNext ==
  \/ \E c \in Client :
       \/ Begin(c) \/ ReadFails(c) \/ Agrees(c) \/ Reconcile(c) \/ Truncate(c) \/ Fill(c) \/ SaveFails(c)
       \/ ListDone(c) \/ Report(c) \/ PollAgain(c) \/ WaitTimeout(c)
       \/ Select(c) \/ RemoveResult(c) \/ ActDone(c) \/ LaunchFails(c) \/ ClientDies(c)
       \/ \E i \in Id : Read(c, i) \/ Signal(c, i) \/ NotSignalled(c, i) \/ RemoveRecord(c, i)
       \/ \E k \in Child : Launch(c, k)
  \/ \E k \in Child : SaveResult(k) \/ Exit(k) \/ Recycle(k) \/ Recycled(k)
  \/ Commit

RegistrySpec == RegistryInit /\ [][RegistryNext]_registryVars

-----------------------------------------------------------------------------
\* "Dead processes ... are marked": a record only says completed or failed of a
\* process that is no longer running, however old the reader's view was.
FinishedIsDead ==
  \A i \in Id : record[i].status \in {"completed", "failed"} =>
    process[record[i].child] \in {"exited", "recycled"}

\* A run once recorded as over is never recorded as running again, though
\* readers and killers write records back from old views.
NeverRevived ==
  \A i \in Id : record[i].status = "running" =>
    \A s \in Terminal : <<record[i].child, s>> \notin written

=============================================================================
