------------------------------- MODULE NiceTask -------------------------------
(***************************************************************************)
(* `zenbench nice`: src/src/bin/support/nice.rs.  A background task waits  *)
(* for the machine under a reservation, then runs in a systemd scope under *)
(* the supervisor, and the command exits with the task's code.  The queue  *)
(* that grants the reservation is Admission's; here it is one step.        *)
(***************************************************************************)
EXTENDS Supervisor

VARIABLES
  stage,        \* where the command is
  ticket,       \* its reservation: none, held, or left behind
  expired,      \* the waiting budget is spent
  niceCode      \* what it exits with

niceVars == <<stage, ticket, expired, niceCode>>
allVars  == <<vars, niceVars>>

None == "none"

NiceInit ==
  /\ Init
  /\ stage = "check" /\ ticket = None /\ expired = FALSE /\ niceCode = None

\* A faulty variant, for NiceIsReserved: what is retained is dropped too.
DropAnyway == ticket' = None

\* The reservation is dropped; one that is retained stays on record.
Drop == ticket' = IF retain THEN "left" ELSE None

ExitNice(outcome) == stage' = "exit" /\ niceCode' = outcome

\* Zero as a limit is refused.
CheckArguments ==
  /\ stage = "check"
  /\ \/ stage' = "admit" /\ UNCHANGED niceCode
     \/ ExitNice("refused")
  /\ UNCHANGED <<vars, ticket, expired>>

\* Admission has a deadline of its own, of the same length.
Reserve ==
  /\ stage = "admit"
  /\ \/ stage' = "resources" /\ ticket' = "held" /\ UNCHANGED niceCode
     \/ ExitNice("refused") /\ UNCHANGED ticket
  /\ UNCHANGED <<vars, expired>>

\* Memory and load are sampled once a second until they are low; nobody knows
\* whether they ever are, and the last sample counts when the budget is spent.
FindsQuiet ==
  /\ stage = "resources" /\ stage' = "ceiling"
  /\ UNCHANGED <<vars, ticket, expired, niceCode>>

GivesUp ==
  /\ stage = "resources" /\ expired /\ ExitNice("refused") /\ Drop
  /\ UNCHANGED <<vars, expired>>

\* A memory ceiling above what is available now, or no queue directory.
CheckCeiling ==
  /\ stage = "ceiling"
  /\ \/ stage' = "run" /\ UNCHANGED <<niceCode, ticket>>
     \/ ExitNice("refused") /\ Drop
  /\ UNCHANGED <<vars, expired>>

Supervise ==
  /\ stage = "run" /\ step # "done"
  /\ Launcher
  /\ UNCHANGED niceVars

SupervisionFails == stage = "run" /\ ChildError /\ UNCHANGED niceVars

\* The task's own code, one when it died of a signal; two for every error.
TaskEnds ==
  /\ stage = "run" /\ step = "done"
  /\ \E outcome \in IF result = "ok" THEN {"its own", "signalled"} ELSE {"failed"} :
       ExitNice(outcome)
  /\ Drop
  /\ UNCHANGED <<vars, expired>>

\* The command is killed: nothing is dropped.
KillNice ==
  /\ stage # "exit" /\ ExitNice("killed")
  /\ ticket' = IF ticket = "held" THEN "left" ELSE ticket
  /\ UNCHANGED <<vars, expired>>

WaitingEnds ==
  /\ stage = "resources" /\ ~expired /\ expired' = TRUE
  /\ UNCHANGED <<vars, stage, ticket, niceCode>>

Others == (Processes \/ Tick) /\ UNCHANGED niceVars

Over == stage = "exit" /\ UNCHANGED allVars

NiceCommand ==
  CheckArguments \/ Reserve \/ GivesUp \/ CheckCeiling \/ Supervise \/ TaskEnds

NiceNext ==
  \/ NiceCommand \/ FindsQuiet \/ SupervisionFails \/ KillNice \/ WaitingEnds
  \/ Others \/ Over

\* As for the supervisor alone, and the waiting budget is spent some time.  The
\* machine need not become quiet.
NiceSpec ==
  /\ NiceInit /\ [][NiceNext]_allVars
  /\ WF_allVars(NiceCommand) /\ WF_allVars(WaitingEnds)
  /\ WF_allVars(Tick /\ UNCHANGED niceVars)
  /\ WF_allVars(LeaderExits /\ doomed /\ UNCHANGED niceVars)

\* While anything runs that a nice task has started, its reservation is on
\* record: on every early return, when the command is killed, and for a
\* descendant that has left its group.  And what was refused has not run.
NiceIsReserved ==
  /\ Executing => ticket # None
  /\ niceCode = "refused" => leader = "none"

\* A nice command comes to an end: each of its waits has a budget.
NiceEnds == <>(stage = "exit")
=============================================================================
