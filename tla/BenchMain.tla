------------------------------- MODULE BenchMain -------------------------------
(***************************************************************************)
(* A benchmark program's command line: the main! macro, parse_pass_args,   *)
(* parse_process_args and run_passes of src/src/lib.rs, the plan and the   *)
(* options of plan.rs, and the beginning of Engine::run.                   *)
(*                                                                         *)
(* A program that is to measure in independent processes starts itself     *)
(* again, with a part of its command line and an environment that is to    *)
(* lead the children to the same plan.  What it then does with their       *)
(* results is ProcessExperiment's, what a child measures is Engine's.      *)
(* The confidence is treated as the margin is, and the timeout left out.   *)
(***************************************************************************)
EXTENDS Integers, FiniteSets

CONSTANTS
  CommandLine,  \* sets of options, which are pairs of name and value
  Environment,  \* sets of variables, likewise
  Declared,     \* the plans that suites declare in code
  Absent        \* no value

ASSUME BenchMainAssumption == Absent \notin Int

VARIABLES
  suite,             \* the plan of the suite
  parent, offspring, \* the program, and the child that it has started
  left               \* how many children are still to come back

mainVars == <<suite, parent, offspring, left>>

Passes   == {"best-of-passes", "mean-of-passes"}
Repeats  == {"best-of-processes", "mean-of-processes"}
Review   == {"format", "save-baseline", "baseline", "max-regression"}
Valued   == {"mode", "processes", "rounds", "margin", "workload-id", "scope"}
              \cup Passes \cup Repeats \cup Review
Flags    == {"no-busy-gate", "update-on-pass", "dry-run"}
Formats  == {"llm", "json"}

Default == [mode |-> "iterate", processes |-> 5, rounds |-> Absent, margin |-> 1,
            workload |-> Absent, scope |-> Absent]

Process(args, env) ==
  [at |-> "parse", args |-> args, env |-> env, plan |-> Absent, passes |-> 1,
   exit |-> Absent]

Names(options) == {o[1] : o \in options}
Values(options, name) == {o[2] : o \in {p \in options : p[1] = name}}

MainInit ==
  /\ suite \in Declared
  /\ \E args \in CommandLine, env \in Environment : parent = Process(args, env)
  /\ offspring = Absent /\ left = 0

(***************************************************************************)
(* The command line and the plan.                                          *)
(***************************************************************************)

\* What `validate_harness_args` lets through.
Acceptable(args) ==
  LET names == Names(args) IN
  /\ names \subseteq Valued \cup Flags
  /\ \A o, p \in args : o[1] = p[1] => o = p
  /\ \A n \in Passes \cup Repeats : 0 \notin Values(args, n)
  /\ Values(args, "format") \subseteq Formats
  /\ Values(args, "max-regression") \subseteq 0 .. 99
  /\ ~({"save-baseline", "baseline"} \subseteq names)
  /\ names \cap {"update-on-pass", "max-regression"} # {} => "baseline" \in names
  /\ ~("processes" \in names /\ names \cap Repeats # {})

\* The command line, the environment, the suite.
Value(p, name, default) ==
  LET cli == Values(p.args, name)
      env == Values(p.env, name)
  IN CHOOSE v \in IF cli # {} THEN cli ELSE IF env # {} THEN env ELSE {default} : TRUE

IsChild(p) == "subprocess" \in Names(p.env)

ValidPlan(plan) ==
  /\ plan.margin \in 0 .. 99
  /\ plan.rounds # 0 /\ plan.processes > 0
  /\ plan.mode # "iterate" =>
       /\ plan.rounds # 1 /\ plan.processes >= 3 /\ plan.workload # Absent
       /\ plan.mode = "evidence" => plan.scope # Absent

Resolved(p, base) ==
  LET mode == Value(p, "mode", base.mode) IN
  [mode      |-> mode,
   processes |-> IF mode = "iterate" THEN 1 ELSE Value(p, "processes", base.processes),
   rounds    |-> Value(p, "rounds", base.rounds),
   margin    |-> Value(p, "margin", base.margin),
   workload  |-> Value(p, "workload-id", base.workload),
   scope     |-> Value(p, "scope", base.scope)]

Resolvable(p, base) ==
  LET plan  == Resolved(p, base)
      names == Names(p.args)
  IN /\ plan.mode = "iterate" /\ "processes" \in names \cup Names(p.env) =>
          IsChild(p) \/ names \cap Repeats # {}
     /\ plan.mode # "iterate" => names \cap (Repeats \cup Passes) = {}
     /\ "format" \in names \/ Values(p.env, "format") \subseteq Formats
     /\ ValidPlan(plan)

(***************************************************************************)
(* What a program does, and a child as well.                               *)
(***************************************************************************)

Refuse(p) == [p EXCEPT !.at = "exit", !.exit = 2]

\* parse_process_args
ParseProcesses(p) ==
  LET repeats == Names(p.args) \cap Repeats IN
  IF ~Acceptable(p.args) THEN Refuse(p)
  ELSE IF IsChild(p) \/ repeats = {} THEN [p EXCEPT !.at = "passes"]
  ELSE IF Cardinality(repeats) > 1 THEN Refuse(p)
  ELSE [p EXCEPT !.at = "repeat"]

\* run_processes: the suite is not registered, its plan is the default one.
Repeat(p) ==
  LET n == CHOOSE v \in UNION {Values(p.args, r) : r \in Repeats} : TRUE IN
  IF ~Resolvable(p, Default) THEN Refuse(p)
  ELSE [p EXCEPT !.at = "planned",
                 !.plan = [Resolved(p, Default) EXCEPT !.processes = n]]

\* parse_pass_args
ParsePasses(p) ==
  LET passes == Names(p.args) \cap Passes IN
  IF Cardinality(passes) > 1 THEN Refuse(p)
  ELSE [p EXCEPT !.at = "engine",
                 !.passes = CHOOSE n \in IF passes = {} THEN {1}
                              ELSE UNION {Values(p.args, f) : f \in passes} : TRUE]

\* Engine::run until it measures.  Confirmation needs its gate, and says so in
\* a panic; a dry run prints the plan.
RunEngine(p) ==
  LET plan == Resolved(p, suite)
      dry  == "dry-run" \in Names(p.args)
  IN IF ~Resolvable(p, suite) THEN Refuse(p)
     ELSE IF plan.mode # "iterate" /\ ~dry /\ ~IsChild(p)
     THEN [p EXCEPT !.at = "planned", !.plan = plan]
     ELSE IF plan.mode # "iterate" /\ "no-busy-gate" \in Names(p.args)
     THEN [p EXCEPT !.at = "exit", !.exit = 101, !.plan = plan]
     ELSE IF dry THEN [p EXCEPT !.at = "exit", !.exit = 0, !.plan = plan]
     ELSE [p EXCEPT !.at = "measure", !.plan = plan]

\* One pass; after the last one the results are post-processed.  A child's are
\* saved where the parent will look.
MeasureOnce(p) ==
  IF p.passes > 1 THEN [p EXCEPT !.at = "engine", !.passes = @ - 1]
  ELSE [p EXCEPT !.at = IF IsChild(p) THEN "saved" ELSE "review"]

\* A program's own next step, from p to q.
Moves(p, q) ==
  \/ p.at = "parse"   /\ q = ParseProcesses(p)
  \/ p.at = "repeat"  /\ q = Repeat(p)
  \/ p.at = "passes"  /\ q = ParsePasses(p)
  \/ p.at = "engine"  /\ q = RunEngine(p)
  \/ p.at = "measure" /\ q = MeasureOnce(p)

ParentMoves == Moves(parent, parent') /\ UNCHANGED <<suite, offspring, left>>

ChildMoves ==
  /\ offspring # Absent /\ Moves(offspring, offspring')
  /\ UNCHANGED <<suite, parent, left>>

(***************************************************************************)
(* Starting children: run_processes_planned.                               *)
(***************************************************************************)

ChildArgsWithLimit(args) ==
  {o \in args : o[1] \notin Repeats \cup (Review \ {"max-regression"})
                                \cup {"update-on-pass"}}

\* Repetition and what reviews the aggregate are the parent's.
ChildArgs(args) ==
  {o \in args : o[1] \notin Repeats \cup Review \cup {"update-on-pass"}}

Exported(plan) ==
  {<<"subprocess", 1>>, <<"mode", plan.mode>>,
   <<"processes", plan.processes>>,
   <<"margin", plan.margin>>} \cup
  {o \in {<<"rounds", plan.rounds>>,
          <<"workload-id", plan.workload>>,
          <<"scope", plan.scope>>} : o[2] # Absent}

\* The rest of the environment is inherited.
ChildEnv(env, plan) ==
  {o \in env : o[1] \notin Names(Exported(plan))} \cup Exported(plan)

BeginExperiment ==
  /\ parent.at = "planned"
  /\ IF ValidPlan(parent.plan)
     THEN /\ parent' = [parent EXCEPT !.at = "supervise"]
          /\ left' = parent.plan.processes
     ELSE parent' = Refuse(parent) /\ UNCHANGED left
  /\ UNCHANGED <<suite, offspring>>

StartChild ==
  /\ parent.at = "supervise" /\ offspring = Absent /\ left > 0
  /\ offspring' = Process(ChildArgs(parent.args), ChildEnv(parent.env, parent.plan))
  /\ UNCHANGED <<suite, parent, left>>

\* A child that fails, or leaves no result, ends the experiment.
ReapChild ==
  /\ offspring # Absent /\ offspring.at \in {"exit", "saved"}
  /\ parent.at = "supervise"
  /\ IF offspring.at = "saved"
     THEN /\ left' = left - 1 /\ offspring' = Absent
          /\ parent' = [parent EXCEPT !.at = IF left = 1 THEN "review" ELSE @]
     ELSE parent' = Refuse(parent) /\ UNCHANGED <<offspring, left>>
  /\ UNCHANGED suite

MainNext == ParentMoves \/ ChildMoves \/ BeginExperiment \/ StartChild \/ ReapChild

MainSpec == MainInit /\ [][MainNext]_mainVars

(***************************************************************************)
(* Properties.                                                             *)
(***************************************************************************)

\* Whatever was given where, a child that the program starts comes to the plan
\* that the program records: an explorer explores, a confirmer confirms the
\* same; it starts no children of its own; and it refuses nothing that the
\* program had accepted, but for a bad ZENBENCH_FORMAT that --format overrode,
\* passes of two kinds, which the program does not parse, and a suite whose own
\* plan has no rounds, which a program that repeats itself does not look at
\* (lib.rs:866-883 and 943-966, plan.rs:81-145).
ChildrenRunThePlan ==
  offspring # Absent =>
    /\ offspring.plan # Absent =>
         /\ offspring.plan.mode = parent.plan.mode
         /\ offspring.plan.margin = parent.plan.margin
         /\ parent.plan.mode # "iterate" => offspring.plan = parent.plan
    /\ offspring.at # "planned"
    /\ offspring.exit = 2 =>
         \/ /\ "format" \in Names(parent.args)
            /\ ~(Values(parent.env, "format") \subseteq Formats)
         \/ Passes \subseteq Names(parent.args) \/ suite.rounds = 0

\* "exploratory and cannot combine with Confirm": a suite that declares
\* confirmation, and that nobody asks for another mode, is not explored
\* (bench-help.txt:39).
ConfirmStays ==
  /\ suite.mode = "confirm" /\ "mode" \notin Names(parent.args \cup parent.env)
  /\ offspring # Absent
  => parent.plan.mode # "iterate"
=============================================================================
