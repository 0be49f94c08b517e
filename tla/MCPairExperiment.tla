-------------------------- MODULE MCPairExperiment --------------------------
(* The life of an attempt on disk, that of one invocation of a confirmation,  *)
(* and that of a plan: explored beside each other, not interleaved.           *)
EXTENDS PairExperiment, PairConfirmation, PairPlan, TLC
CONSTANTS base, new

VARIABLE scene

\* The baseline comes first in every other block.
MCSchedule == [p \in Case \X Block |-> IF p[2] % 2 = 1 THEN <<base, new>> ELSE <<new, base>>]

\* An interval of each kind of verdict.
MCInterval == {<<2, 2>>, <<-2, -2>>, <<-1, 1>>, <<-2, 1>>, <<-1, 2>>, <<1, 1>>}

Symmetry == Permutations(Attempt) \cup Permutations(Identity)

NoVariables == [k \in {} |-> NoText]

\* A plan that is good for confirmation; only the first of two cases has a size.
GoodPlan ==
  LET arm == [id |-> "old", program |-> "/bin/old", bare |-> FALSE, timeout |-> 1,
              args |-> <<<<"$", "file">>, <<"$", "output">>>>, env |-> NoVariables]
  IN [blocks |-> 5, deadline |-> 1, aa |-> TRUE, env |-> NoVariables,
      cases |-> <<[id |-> "c", fields |-> {"size"}, inputs |-> [file |-> "/in"]],
                  [id |-> "d", fields |-> {}, inputs |-> [file |-> "/in"]]>>,
      arms |-> <<arm, [arm EXCEPT !.id = "new", !.program = "new", !.bare = TRUE]>>,
      metric |-> [unit |-> "ns", expected |-> 1, resolution |-> 1, wall |-> TRUE],
      check |-> "command", checker |-> <<<<"$", "baseline">>>>,
      confirmation |-> [accept |-> "improvement", scope |-> "s", margin |-> 0,
                        control |-> 1]]

\* Texts and variables that expand everywhere, in one case, or nowhere.
MCText == {<<"text", "-q">>, <<"$", "output">>, <<"$", "size">>, <<"$", "nested">>}
MCVariables ==
  {NoVariables, [X |-> NoText]} \cup {[X |-> t] : t \in MCText} \cup
  {[PATH |-> t] : t \in {NoText, <<"text", "opt">>, <<"$", "output">>}}

Smaller == [GoodPlan EXCEPT !.blocks = 2, !.confirmation = NoText]

\* One thing wrong, or at a limit, in each.
MCPlans ==
  {[Smaller EXCEPT !.env = e, !.arms[1].env = f, !.arms[k].args = <<t>>] :
     e \in MCVariables, f \in MCVariables, k \in 1 .. 2, t \in MCText}
  \cup {GoodPlan, [GoodPlan EXCEPT !.blocks = 4], [GoodPlan EXCEPT !.aa = FALSE],
        [GoodPlan EXCEPT !.check = "unchecked"], [Smaller EXCEPT !.aa = FALSE],
        [GoodPlan EXCEPT !.metric.resolution = NoText],
        [GoodPlan EXCEPT !.confirmation.control = 0],
        [Smaller EXCEPT !.blocks = 0], [Smaller EXCEPT !.blocks = 9],
        [Smaller EXCEPT !.arms[2].id = "old"], [Smaller EXCEPT !.arms[2].id = "__aa"],
        [Smaller EXCEPT !.cases[2].id = "c"], [Smaller EXCEPT !.cases[2].fields = {"output"}],
        [Smaller EXCEPT !.cases[2].fields = {"file"}], [Smaller EXCEPT !.cases = <<>>],
        [Smaller EXCEPT !.cases[2].inputs.file = "/gone"],
        [Smaller EXCEPT !.metric.expected = 2], [Smaller EXCEPT !.metric.unit = "fs"],
        [Smaller EXCEPT !.checker = <<<<"$", "file">>>>]}

MCInherited == {NoVariables, [PATH |-> <<"text", "usr">>, X |-> <<"text", "x">>]}
MCSearched == (<<"text", "usr">> :> "/usr/new") @@ (<<"text", "opt">> :> "/opt/new")

\* Where nothing happens in a scene, nothing is chosen.
MCInit ==
  /\ scene \in {"attempts", "confirmation", "plan"}
  /\ Init
  /\ ConfirmInit
  /\ scene # "confirmation" => purpose = "iterate" /\ ~foreign /\ ~burden
  /\ IF scene = "plan" THEN PlanInit
     ELSE /\ plan = NoText /\ inherited = NoText /\ intent = NoText
          /\ progress = "read" /\ places = <<>> /\ launches = <<>>

MCNext ==
  \/ scene = "attempts" /\ Next /\ UNCHANGED <<confirmVars, planVars, scene>>
  \/ scene = "confirmation" /\ ConfirmNext /\ UNCHANGED <<vars, planVars, scene>>
  \/ scene = "plan" /\ PlanNext /\ UNCHANGED <<vars, confirmVars, scene>>

MCSpec == MCInit /\ [][MCNext]_<<vars, confirmVars, planVars, scene>>
=============================================================================
