----------------------------- MODULE SelfCompare -----------------------------
(***************************************************************************)
(* Comparing two revisions of one program: cmd_self_compare of             *)
(* src/src/bin/zenbench.rs.                                                *)
(*                                                                         *)
(* Each command checks its reference out in a worktree at one fixed path   *)
(* of the target directory, builds and runs the benchmark there, then in   *)
(* the current directory, and compares what the two runs have saved in an  *)
(* evidence directory of its own.  A command may be killed; the build that *)
(* it started goes on.                                                     *)
(***************************************************************************)
EXTENDS Naturals, FiniteSets

CONSTANTS
  Command,      \* the self-compare commands of one project
  Ref,          \* the revisions that they may ask for
  Working       \* the current working tree

ASSUME SelfCompareAssumption == Working \notin Ref

VARIABLES
  tree,         \* the revisions found at the worktree's path, none or one
  at, want,     \* where each command is, and its reference
  evidence,     \* its evidence directory: side -> the results there
  build,        \* its build: side, what it has read so far; or no build
  code,         \* what it exits with
  disturbed     \* history: another command touched the worktree meanwhile

compareVars == <<tree, at, want, evidence, build, code, disturbed>>

Verdicts == {"promotable", "regression", "unconfirmed"}
Side == {"baseline", "candidate"}
NoBuild == [side |-> "none", read |-> {}]

CompareInit ==
  /\ tree = {} \/ \E r \in Ref : tree = {r}    \* left over
  /\ at = [c \in Command |-> "resolve"]
  /\ want \in [Command -> Ref]
  /\ evidence = [c \in Command |-> [s \in Side |-> {}]]
  /\ build = [c \in Command |-> NoBuild]
  /\ code = [c \in Command |-> "running"]
  /\ disturbed = {}

To(c, from, to) == at[c] = from /\ at' = [at EXCEPT ![c] = to]

ExitWith(c, outcome) ==
  /\ at' = [at EXCEPT ![c] = "end"]
  /\ code' = [code EXCEPT ![c] = outcome]

\* No version is tagged, git does not know the --ref, or the evidence directory
\* cannot be made.
Unknown(c) == ExitWith(c, "error")

\* The evidence directory carries a fresh run id.
ResolveReference(c) ==
  /\ at[c] = "resolve"
  /\ \/ To(c, "resolve", "prune") /\ UNCHANGED code
     \/ Unknown(c)
  /\ UNCHANGED <<tree, want, evidence, build, disturbed>>

\* Every other command whose baseline is under way has its worktree changed.
Touch(c) == disturbed' = disturbed \cup
  {d \in Command \ {c} : at[d] \in {"baseline", "built"} \/ build[d].side = "baseline"}

\* What is there is removed; git's failure is ignored here.
PruneWorktree(c) ==
  /\ To(c, "prune", "add")
  /\ \/ tree' = {} /\ (IF tree = {} THEN UNCHANGED disturbed ELSE Touch(c))
     \/ UNCHANGED <<tree, disturbed>>
  /\ UNCHANGED <<want, evidence, build, code>>

AddWorktreeAnyway(c) ==
  /\ at[c] = "add" /\ To(c, "add", "baseline")
  /\ tree' = IF tree = {} THEN {want[c]} ELSE tree
  /\ (IF tree = {} THEN Touch(c) ELSE UNCHANGED disturbed)
  /\ UNCHANGED <<want, evidence, build, code>>

\* git refuses a path that is there.
AddWorktree(c) ==
  /\ at[c] = "add"
  /\ \/ /\ tree = {} /\ tree' = {want[c]} /\ Touch(c)
        /\ To(c, "add", "baseline") /\ UNCHANGED code
     \/ ExitWith(c, "error") /\ UNCHANGED <<tree, disturbed>>
  /\ UNCHANGED <<want, evidence, build>>

\* cargo bench, with the result path in the environment, or no cargo at all.
RunBench(c, side) ==
  /\ at[c] = side
  /\ at' = [at EXCEPT ![c] = IF side = "baseline" THEN "built" ELSE "measured"]
  /\ build' \in {build, [build EXCEPT ![c] = [side |-> side, read |-> {}]]}
  /\ UNCHANGED <<tree, want, evidence, code, disturbed>>

\* The compiler reads what is there when it comes to it.
Compile(c) ==
  /\ build[c] # NoBuild
  /\ LET source == IF build[c].side = "candidate" THEN {Working} ELSE tree IN
     /\ ~(source \subseteq build[c].read)
     /\ build' = [build EXCEPT ![c].read = @ \cup source]
  /\ UNCHANGED <<tree, at, want, evidence, code, disturbed>>

\* The benchmark saves its results, if it is built and gets that far.
Measure(c) ==
  /\ build[c].read # {} /\ evidence[c][build[c].side] = {}
  /\ evidence' = [evidence EXCEPT ![c][build[c].side] =
                    {[by |-> c, source |-> build[c].read]}]
  /\ UNCHANGED <<tree, at, want, build, code, disturbed>>

BuildEnds(c) ==
  /\ build[c] # NoBuild
  /\ build' = [build EXCEPT ![c] = NoBuild]
  /\ UNCHANGED <<tree, at, want, evidence, code, disturbed>>

\* The command waits for cargo, whose exit code does not matter.
Built(c) ==
  /\ build[c] = NoBuild
  /\ \/ To(c, "built", "candidate") \/ To(c, "measured", "cleanup")
  /\ UNCHANGED <<tree, want, evidence, build, code, disturbed>>

\* The worktree is removed before the results are looked at, and by force:
\* whoever's it is.
RemoveWorktree(c) ==
  /\ To(c, "cleanup", "compare")
  /\ \/ tree' = {} /\ (IF tree = {} THEN UNCHANGED disturbed ELSE Touch(c))
     \/ UNCHANGED <<tree, disturbed>>
  /\ UNCHANGED <<want, evidence, build, code>>

\* Either result missing or unreadable is an error; the comparison is that of
\* two saved results.
CompareResults(c) ==
  /\ at[c] = "compare"
  /\ \/ ExitWith(c, "error")
     \/ /\ \A s \in Side : evidence[c][s] # {}
        /\ \E verdict \in Verdicts : ExitWith(c, verdict)
  /\ UNCHANGED <<tree, want, evidence, build, disturbed>>

\* The command is killed; its build is not.
KillCommand(c) ==
  /\ at[c] # "end" /\ ExitWith(c, "killed")
  /\ UNCHANGED <<tree, want, evidence, build, disturbed>>

CompareNext ==
  \E c \in Command :
    \/ ResolveReference(c) \/ PruneWorktree(c) \/ AddWorktree(c)
    \/ (\E s \in Side : RunBench(c, s)) \/ Compile(c) \/ Measure(c) \/ BuildEnds(c)
    \/ Built(c) \/ RemoveWorktree(c) \/ CompareResults(c) \/ KillCommand(c)

\* What a self-compare compares are results of its own two runs, the candidate
\* of the working tree, and the baseline of the revision it was asked for and
\* of nothing else: whatever a killed command has left at the worktree's path
\* and though its build may still be running there.  Only another command that
\* removes or replaces the worktree during the baseline can spoil it.
ComparesAsAsked ==
  \A c \in Command : code[c] \in Verdicts =>
    \A s \in Side : \E r \in evidence[c][s] :
      /\ r.by = c
      /\ s = "candidate" => r.source = {Working}
      /\ s = "baseline" /\ c \notin disturbed => r.source = {want[c]}
=============================================================================
