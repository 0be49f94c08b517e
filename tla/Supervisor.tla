----------------------------- MODULE Supervisor -----------------------------
(***************************************************************************)
(* Foreground supervision of one child: src/src/bin/support/supervisor.rs, *)
(* the Unix paths (a Windows Job plays the part of the process group).     *)
(* The child is a group leader whose descendants are workers of its group  *)
(* or, under a systemd scope, strays that left the group.  They fork, exit *)
(* and die of a kill at any time between the supervisor's steps.           *)
(***************************************************************************)
EXTENDS Naturals

CONSTANTS
  Worker,       \* possible other members of the process group
  Scoped,       \* the command runs in a systemd scope (Linux `nice`)
  Budget,       \* the runtime budget
  MaxTime       \* bound on the clock

ASSUME SupervisorAssumption ==
  /\ Scoped \in BOOLEAN
  /\ Budget \in Nat /\ MaxTime \in Nat /\ Budget <= MaxTime

VARIABLES
  step,         \* where run_with_observer is
  result,       \* what it returns
  retain,       \* reservation.retain
  leader, workers, strays, doomed,   \* the child's processes; doomed: killed
  now, exitTime,                    \* the clock; when the leader really exited
  beforeProbe, lastAlive, exitObserved      \* Lifecycle

procs == <<leader, workers, strays, doomed>>
times == <<beforeProbe, lastAlive, exitObserved>>
vars  == <<step, result, retain, procs, now, exitTime, times>>

Never == MaxTime + 1        \* an Option<Instant> that is None

Steps   == {"ready", "spawn", "poll", "probe", "kill", "wait", "residual",
            "group", "scope", "done"}
Results == {"none", "ok", "deadline", "interrupted", "error"}

TypeOK ==
  /\ step \in Steps /\ result \in Results /\ retain \in BOOLEAN
  /\ leader \in {"none", "running", "zombie", "reaped"}
  /\ workers \subseteq Worker /\ strays \subseteq Worker /\ doomed \in BOOLEAN
  /\ now \in 0 .. MaxTime
  /\ exitTime \in 0 .. Never /\ beforeProbe \in 0 .. Never
  /\ lastAlive \in 0 .. Never /\ exitObserved \in 0 .. Never

Init ==
  /\ step = "ready" /\ result = "none" /\ retain = FALSE
  /\ leader = "none" /\ workers = {} /\ strays = {} /\ doomed = FALSE
  /\ now = 0
  /\ exitTime = Never /\ beforeProbe = Never /\ lastAlive = Never /\ exitObserved = Never

\* Zombies do not execute.
GroupActive == leader = "running" \/ workers # {}
Executing   == GroupActive \/ strays # {}

Return(r) == step' = "done" /\ result' = r

-----------------------------------------------------------------------------
(* Faulty variants of actions below, which Next does not use.              *)

\* LifecycleBounds: the exit is stamped with the time taken before the probe.
ExitSeenStampedEarly ==
  /\ step = "probe"
  /\ leader = "zombie"
  /\ step' = "residual"
  /\ leader' = "reaped"
  /\ exitObserved' = beforeProbe
  /\ result' = "ok"
  /\ UNCHANGED <<retain, workers, strays, doomed, now, exitTime, beforeProbe, lastAlive>>

\* ImplementsContract: the scope is not asked whether it is gone.
ScopeNotAsked ==
  /\ step = "scope"
  /\ step' = "done"
  /\ retain' = FALSE
  /\ UNCHANGED <<result, procs, now, exitTime, times>>

\* NiceEnds: the leader is awaited without having been killed.
KillForgotten ==
  /\ step = "kill"
  /\ step' = "wait"
  /\ UNCHANGED <<result, retain, procs, now, exitTime, times>>

-----------------------------------------------------------------------------
(* run_with_observer.                                                      *)

Start ==
  /\ step = "ready"
  /\ step' = "spawn"
  /\ retain' = TRUE
  /\ UNCHANGED <<result, procs, now, exitTime, times>>

Spawn ==
  /\ step = "spawn"
  /\ step' = "poll"
  /\ leader' = "running"
  /\ UNCHANGED <<result, retain, workers, strays, doomed, now, exitTime, times>>

\* A wrapper can fail before or after the child exists.
SpawnFails ==
  /\ step = "spawn"
  /\ Return("error")
  /\ leader' \in {"none", "running"}
  /\ UNCHANGED <<retain, workers, strays, doomed, now, exitTime, times>>

\* The caller interrupts, a log is oversized, or the budget is spent.
Stop ==
  /\ step = "poll"
  /\ step' = "kill"
  /\ \/ result' = "interrupted"
     \/ result' = "deadline"
  /\ UNCHANGED <<retain, procs, now, exitTime, times>>

Continue ==
  /\ step = "poll"
  /\ now < Budget
  /\ step' = "probe"
  /\ beforeProbe' = now
  /\ UNCHANGED <<result, retain, procs, now, exitTime, lastAlive, exitObserved>>

\* try_wait: the leader is still running ...
StillAlive ==
  /\ step = "probe"
  /\ leader = "running"
  /\ step' = "poll"
  /\ lastAlive' = beforeProbe
  /\ UNCHANGED <<result, retain, procs, now, exitTime, beforeProbe, exitObserved>>

\* ... or it has exited, and this probe reaps it.
ExitSeen ==
  /\ step = "probe"
  /\ leader = "zombie"
  /\ step' = "residual"
  /\ leader' = "reaped"
  /\ exitObserved' = now
  /\ result' = "ok"
  /\ UNCHANGED <<retain, workers, strays, doomed, now, exitTime, beforeProbe, lastAlive>>

\* A foreground program must join its workers: what is left is killed, and
\* the error of killing an empty group is ignored.
KillResidual ==
  /\ step = "residual"
  /\ step' = "group"
  /\ doomed' = TRUE
  /\ UNCHANGED <<result, retain, leader, workers, strays, now, exitTime, times>>

KillGroup ==
  /\ step = "kill"
  /\ step' = "wait"
  /\ doomed' = TRUE
  /\ UNCHANGED <<result, retain, leader, workers, strays, now, exitTime, times>>

\* wait() blocks until the killed leader can be reaped.
ReapLeader ==
  /\ step = "wait"
  /\ leader = "zombie"
  /\ step' = "group"
  /\ leader' = "reaped"
  /\ UNCHANGED <<result, retain, workers, strays, doomed, now, exitTime, times>>

GroupEmpty ==
  /\ step = "group"
  /\ ~GroupActive
  /\ step' = "scope"
  /\ UNCHANGED <<result, retain, procs, now, exitTime, times>>

\* systemctl reports the scope gone; only then is the reservation reaped.
ScopeDone ==
  /\ step = "scope"
  /\ Scoped => ~Executing
  /\ step' = "done"
  /\ retain' = FALSE
  /\ UNCHANGED <<result, procs, now, exitTime, times>>

\* ps or systemctl fails, or five seconds pass before the group or the scope
\* is gone: an early return, and the reservation stays retained.
CannotVerify ==
  /\ step = "group" \/ (step = "scope" /\ Scoped)
  /\ Return("error")
  /\ UNCHANGED <<retain, procs, now, exitTime, times>>

\* try_wait, kill or wait itself returns an error.
ChildError ==
  /\ step \in {"probe", "kill", "wait"}
  /\ Return("error")
  /\ UNCHANGED <<retain, procs, now, exitTime, times>>

-----------------------------------------------------------------------------
(* The child's processes and the clock.                                    *)

LeaderExits ==
  /\ leader = "running"
  /\ leader' = "zombie"
  /\ exitTime' = now
  /\ UNCHANGED <<step, result, retain, workers, strays, doomed, now, times>>

\* A killed group forks no more.
Fork(w) ==
  /\ GroupActive /\ ~doomed
  /\ w \notin workers \cup strays
  /\ workers' = workers \cup {w}
  /\ UNCHANGED <<step, result, retain, leader, strays, doomed, now, exitTime, times>>

WorkerExits(w) ==
  /\ w \in workers
  /\ workers' = workers \ {w}
  /\ UNCHANGED <<step, result, retain, leader, strays, doomed, now, exitTime, times>>

\* A descendant starts its own session; its scope still tracks it.
Detach(w) ==
  /\ Scoped /\ w \in workers
  /\ workers' = workers \ {w}
  /\ strays' = strays \cup {w}
  /\ UNCHANGED <<step, result, retain, leader, doomed, now, exitTime, times>>

StrayExits(w) ==
  /\ w \in strays
  /\ strays' = strays \ {w}
  /\ UNCHANGED <<step, result, retain, leader, workers, doomed, now, exitTime, times>>

Tick ==
  /\ now < MaxTime
  /\ now' = now + 1
  /\ UNCHANGED <<step, result, retain, procs, exitTime, times>>

-----------------------------------------------------------------------------
Launcher ==
  \/ Start \/ Spawn \/ SpawnFails \/ Stop \/ Continue \/ StillAlive \/ ExitSeen
  \/ KillResidual \/ KillGroup \/ ReapLeader \/ GroupEmpty \/ ScopeDone \/ CannotVerify

Processes ==
  \/ LeaderExits
  \/ \E w \in Worker : Fork(w) \/ WorkerExits(w) \/ Detach(w) \/ StrayExits(w)

Finished == step = "done" /\ UNCHANGED vars

Next == Launcher \/ ChildError \/ Processes \/ Tick \/ Finished

Spec == Init /\ [][Next]_vars

-----------------------------------------------------------------------------
\* "Owned leader lifecycle bounds from the supervisor's own exit probes": the
\* leader really exited after last_alive and before exit_observed, and only a
\* probe that saw it exit by itself, never a kill, leaves an exit_observed.
LifecycleBounds ==
  /\ lastAlive # Never /\ exitTime # Never => lastAlive <= exitTime
  /\ exitObserved # Never =>
       exitTime <= exitObserved /\ result \notin {"deadline", "interrupted"}

\* The inductive invariant behind both: the launcher retains while anything may
\* run, an empty group stays empty, and no stamp lies in the future.
LaunchInv ==
  /\ step \in {"ready", "spawn"} => leader = "none" /\ ~Executing
  /\ step = "ready" => ~retain
  /\ step \notin {"ready", "done"} => retain
  /\ step = "scope" => ~GroupActive
  /\ step = "done" /\ ~retain => ~Executing
  /\ strays # {} => Scoped

ClockInv ==
  /\ leader \in {"none", "running"} <=> exitTime = Never
  /\ exitTime # Never => exitTime <= now
  /\ lastAlive # Never => lastAlive <= now
  /\ step = "probe" => beforeProbe <= now
  /\ exitObserved # Never => leader = "reaped"
  /\ step \in {"spawn", "poll", "probe", "kill", "wait"} => exitObserved = Never

IInv == TypeOK /\ LaunchInv /\ ClockInv /\ LifecycleBounds

\* The launcher as admission sees it.
Phase ==
  CASE step = "ready"                -> "held"
    [] step = "spawn"                -> "spawn"
    [] step = "done" /\ retain       -> "drop"
    [] step = "done" /\ ~retain      -> "held"
    [] step \notin {"ready", "spawn", "done"} -> "supervise"

Contract == INSTANCE LaunchContract WITH phase <- Phase, alive <- Executing

\* The reservation is retained from before the launch until every process it
\* started is gone, on success, deadline, interruption and error alike.
ImplementsContract == Contract!Spec
=============================================================================
