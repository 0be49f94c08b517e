-------------------------------- MODULE PairPlan --------------------------------
(***************************************************************************)
(* The plan of a pair experiment and what is made of it before the first   *)
(* launch, and again at each: src/src/bin/support/pair/plan.rs, and the    *)
(* beginning of `run`, `environment`, `executable` and `fields` of pair.rs *)
(*                                                                         *)
(* A text is <<"text", it>>, one that holds a placeholder is <<"$", key>>; *)
(* one placeholder stands for all of a text.  The attempt itself is        *)
(* PairExperiment's.                                                       *)
(***************************************************************************)
EXTENDS Naturals, Sequences, FiniteSets, SequencesExt, FiniteSetsExt

CONSTANTS
  Plans,        \* what a plan file may say
  Inherited,    \* environments of the supervisor: functions from keys
  Files,        \* the programs and inputs that exist
  Searched,     \* directories of a PATH, with the program found there
  MaxLaunches, MaxValues,  \* 10000 and 1000000 in the code
  NoText        \* a variable to remove, no confirmation, no choice

\* What a plan file that was parsed is sure to hold.
IsPlan(p) ==
  /\ {"arms", "cases", "blocks", "aa", "env"} \subseteq DOMAIN p
  /\ p.blocks \in Nat /\ p.aa \in BOOLEAN
  /\ p.cases \in Seq(ToSet(p.cases)) /\ p.arms \in Seq(ToSet(p.arms))
  /\ \A a \in ToSet(p.arms) : {"id", "program", "bare", "args", "env"} \subseteq DOMAIN a

ASSUME PlanAssumption == \A p \in Plans : IsPlan(p)

VARIABLES
  plan, inherited,      \* what was read
  intent,               \* --mode, --dry-run and --case
  progress,             \* read, selected, resolved, launching, ended, refused, late
  places,               \* the arms with the program of each resolved
  launches              \* what was launched

planVars == <<plan, inherited, intent, progress, places, launches>>

PlanInit ==
  /\ plan \in Plans /\ inherited \in Inherited
  /\ intent \in [mode : {"iterate", "confirm"}, dry : BOOLEAN,
                 only : {NoText, "other"} \cup {c.id : c \in ToSet(plan.cases)}]
  /\ progress = "read" /\ places = <<>> /\ launches = <<>>

(***************************************************************************)
(* Validation.                                                             *)
(***************************************************************************)

Unique(seq, Id(_)) == \A i, j \in DOMAIN seq : Id(seq[i]) = Id(seq[j]) => i = j

\* The arms of a block: those of the plan and the A/A control.
ArmCount(p) == Len(p.arms) + (IF p.aa THEN 1 ELSE 0)
Invocations(p) == p.blocks * Len(p.cases) * ArmCount(p)

ValidEnv(env) == \A k \in DOMAIN env : k \notin {"", "ZENBENCH_COORDINATION_LEASE"}

\* Keys of a case never hide one another, nor the output directory.
ValidCase(c) ==
  /\ c.fields \cap DOMAIN c.inputs = {}
  /\ "output" \notin c.fields \cup DOMAIN c.inputs

ValidMetric(m) ==
  /\ m.unit \in {"ns", "us", "ms", "s"} /\ m.expected \in 1 .. MaxValues
  /\ m.resolution = NoText \/ m.resolution # 0
  /\ m.wall => m.expected = 1 /\ m.unit = "ns"

ValidConfirmation(p) ==
  p.confirmation # NoText =>
    /\ p.confirmation.accept \in {"improvement", "non_inferiority", "equivalence"}
    /\ p.blocks >= 5 /\ p.aa /\ p.check # "unchecked"
    /\ p.metric.resolution # NoText /\ p.confirmation.scope # ""
    /\ p.confirmation.margin \in 0 .. 99 /\ p.confirmation.control \in 1 .. 99

Expandable(text, fields) == text[1] = "$" => text[2] \in DOMAIN fields
Expand(text, fields) == IF text[1] = "$" THEN fields[text[2]] ELSE text

\* The checker is given two outputs and nothing of the case.
Outputs(of, control) == [baseline |-> <<"dir", of>>, candidate |-> <<"dir", control>>]

ValidPairPlan(p) ==
  /\ p.blocks > 0 /\ p.cases # <<>> /\ Len(p.arms) >= 2 /\ p.deadline > 0
  /\ Invocations(p) <= MaxLaunches
  /\ Invocations(p) * p.metric.expected <= MaxValues
  /\ Unique(p.arms, LAMBDA a : a.id) /\ Unique(p.cases, LAMBDA c : c.id)
  /\ \A i \in DOMAIN p.arms : /\ p.arms[i].id \notin {"", "__aa"}
                              /\ p.arms[i].timeout > 0 /\ ValidEnv(p.arms[i].env)
  /\ ValidEnv(p.env)
  /\ \A i \in DOMAIN p.cases : ValidCase(p.cases[i])
  /\ ValidMetric(p.metric) /\ ValidConfirmation(p)
  /\ p.check = "command" =>
       \A t \in ToSet(p.checker) : Expandable(t, Outputs(1, 2))

(***************************************************************************)
(* What a launch is made of.                                               *)
(***************************************************************************)

\* Declared fields, inputs, and the directory of the invocation.
FieldsOf(c, dir) ==
  [k \in c.fields \cup DOMAIN c.inputs \cup {"output"} |->
     IF k = "output" THEN <<"dir", dir>>
     ELSE IF k \in c.fields THEN <<"text", <<c.id, k>>>> ELSE <<"text", c.inputs[k]>>]

\* An arm's variables go before the plan's, and these before the inherited ones;
\* a variable without a value is removed.
Merged(arm) ==
  [k \in DOMAIN inherited \cup DOMAIN plan.env \cup DOMAIN arm.env |->
     IF k \in DOMAIN arm.env THEN arm.env[k]
     ELSE IF k \in DOMAIN plan.env THEN plan.env[k] ELSE inherited[k]]
Environ(arm) ==
  LET env == Merged(arm) IN [k \in {v \in DOMAIN env : env[v] # NoText} |-> env[k]]

\* Values that the arm overrides are expanded too.
Texts(arm) ==
  ToSet(arm.args) \cup ({plan.env[k] : k \in DOMAIN plan.env} \ {NoText})
                  \cup ({arm.env[k] : k \in DOMAIN arm.env} \ {NoText})

LaunchOf(arm, c, dir) ==
  LET f == FieldsOf(c, dir) IN
  [cell |-> dir, case |-> c.id, arm |-> arm.id, program |-> arm.program,
   args |-> [i \in DOMAIN arm.args |-> Expand(arm.args[i], f)],
   env |-> [k \in DOMAIN Environ(arm) |->
              IF k \in DOMAIN plan.env \cup DOMAIN arm.env
              THEN Expand(Environ(arm)[k], f) ELSE inherited[k]]]

\* A bare name is searched for in the PATH that the arm will have.
Found(arm) ==
  IF ~arm.bare THEN arm.program
  ELSE IF "PATH" \notin DOMAIN Environ(arm) THEN NoText
  ELSE IF Environ(arm)["PATH"] \notin DOMAIN Searched THEN NoText
  ELSE Searched[Environ(arm)["PATH"]]

\* The control is the baseline by another name, made before any is resolved.
WithControl(arms) ==
  IF plan.aa THEN Append(arms, [arms[1] EXCEPT !.id = "__aa"]) ELSE arms

(***************************************************************************)
(* Before admission.                                                       *)
(***************************************************************************)

Refused == progress' = "refused" /\ UNCHANGED <<plan, places>>

\* What --case leaves of a valid plan, whose cases differ in their names.
Selection ==
  IF intent.only = NoText THEN {plan.cases}
  ELSE {<<c>> : c \in {d \in ToSet(plan.cases) : d.id = intent.only}}

\* Confirmation needs its contract in the plan; --case selects.
SelectCases ==
  /\ progress = "read"
  /\ LET selectable == /\ ValidPairPlan(plan) /\ Selection # {}
                       /\ intent.mode = "confirm" => plan.confirmation # NoText
     IN \/ ~selectable /\ Refused
        \/ selectable /\ \E cases \in Selection :
             /\ plan' = [plan EXCEPT !.cases = cases]
             /\ progress' = "selected" /\ UNCHANGED places
  /\ UNCHANGED <<inherited, intent, launches>>

\* Every program and every input is looked up, and its digest taken.
ResolveFiles ==
  /\ progress = "selected"
  /\ LET arms   == WithControl(plan.arms)
         inputs == UNION {{c.inputs[k] : k \in DOMAIN c.inputs} : c \in ToSet(plan.cases)}
     IN IF inputs \cup {Found(a) : a \in ToSet(arms)} \subseteq Files
        THEN /\ places' = [i \in DOMAIN arms |-> [arms[i] EXCEPT !.program = Found(arms[i])]]
             /\ progress' = "resolved" /\ UNCHANGED plan
        ELSE Refused
  /\ UNCHANGED <<inherited, intent, launches>>

\* The launches of the experiment, one invocation of each arm in every block.
Cells == (DOMAIN plan.cases) \X (1 .. plan.blocks) \X (DOMAIN places)

ExpandsAt(i) ==
  \A t \in Texts(places[i[3]]) : Expandable(t, FieldsOf(plan.cases[i[1]], i))

ExpandsFirstCase == \A i \in Cells : i[1] = 1 => ExpandsAt(i)

\* "Validate every expansion before admission."
Expands == \A i \in Cells : ExpandsAt(i)

\* A dry run ends here; others may hold the machine.
ExpandAll ==
  /\ progress = "resolved"
  /\ \/ ~Expands /\ Refused
     \/ Expands /\ intent.dry /\ progress' = "ended" /\ UNCHANGED <<plan, places>>
     \/ Expands /\ ~intent.dry /\ Refused
     \/ Expands /\ ~intent.dry /\ progress' = "launching" /\ UNCHANGED <<plan, places>>
  /\ UNCHANGED <<inherited, intent, launches>>

(***************************************************************************)
(* At each launch.                                                         *)
(***************************************************************************)

\* The cell of the n-th launch, from 0; the order in a block, which is drawn,
\* matters to no text.
CellAt(n) ==
  <<(n \div (Len(places) * plan.blocks)) + 1, ((n \div Len(places)) % plan.blocks) + 1,
    (n % Len(places)) + 1>>
LaunchAt(n) == LaunchOf(places[CellAt(n)[3]], plan.cases[CellAt(n)[1]], CellAt(n))

\* One invocation, expanded again; a text that does not expand now comes too
\* late.
LaunchNext ==
  /\ progress = "launching" /\ Len(launches) < Cardinality(Cells)
  /\ IF ExpandsAt(CellAt(Len(launches)))
     THEN launches' = Append(launches, LaunchAt(Len(launches))) /\ UNCHANGED progress
     ELSE progress' = "late" /\ UNCHANGED launches
  /\ UNCHANGED <<plan, inherited, intent, places>>

\* After the last one, or when the attempt is given up.
EndLaunches ==
  /\ progress = "launching" /\ progress' = "ended"
  /\ UNCHANGED <<plan, inherited, intent, places, launches>>

PlanNext == SelectCases \/ ResolveFiles \/ ExpandAll \/ LaunchNext \/ EndLaunches

PlanSpec == PlanInit /\ [][PlanNext]_planVars

(***************************************************************************)
(* Properties.                                                             *)
(***************************************************************************)

\* A plan that was admitted is never refused by a text of it, hours into the
\* experiment: whatever the cases and the arms define and override.
\* Its control is launched as its baseline is, from the same file and with the
\* same arguments and variables, but for the directory, which no two share; and
\* what is launched are the cases that were asked for, by programs that exist
\* (pair.rs:95-223).
AdmittedPlanRuns ==
  LET Same(f, g) ==
        /\ DOMAIN f = DOMAIN g
        /\ \A k \in DOMAIN f : f[k] = g[k] \/ (f[k][1] = "dir" /\ g[k][1] = "dir")
  IN /\ progress # "late"
     /\ \A i, j \in DOMAIN launches :
          LET a == launches[i] b == launches[j] IN
          /\ a.case = b.case /\ a.arm = plan.arms[1].id /\ b.arm = "__aa"
               => a.program = b.program /\ Same(a.args, b.args) /\ Same(a.env, b.env)
          /\ i # j => a.cell # b.cell
     /\ \A i \in DOMAIN launches :
          /\ launches[i].program \in Files
          /\ intent.only \in {NoText, launches[i].case}
=============================================================================
