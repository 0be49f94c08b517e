-------------------------- MODULE MCProcessExperiment --------------------------
(* An experiment, and what command lines make of one, share no state: they    *)
(* are explored beside each other, not interleaved.                           *)
EXTENDS ProcessExperiment, MCBenchMain, TLC

VARIABLE scene

mcVars == <<vars, mainVars, scene>>

Confirmation ==
  [mode |-> "confirm", processes |-> 3, policy |-> "mean", workload |-> TRUE,
   arms |-> <<"a">>, save |-> FALSE, compare |-> FALSE, update |-> FALSE,
   critical |-> {36}]
Iteration == [Confirmation EXCEPT !.mode = "iterate", !.processes = 1]

\* Squares of t quantiles, in tenths: of a confidence of 95% and two degrees of
\* freedom, and of 80% and four or two of them.
MCRequest ==
  {[Confirmation EXCEPT !.arms = <<"a", "b">>, !.save = TRUE, !.critical = {185}],
   [Confirmation EXCEPT !.compare = TRUE, !.update = TRUE, !.critical = {24, 36}],
   [Confirmation EXCEPT !.processes = 2],
   [Confirmation EXCEPT !.policy = "best"],
   [Iteration EXCEPT !.processes = 2, !.policy = "best"],
   [Iteration EXCEPT !.processes = 2, !.policy = "median", !.compare = TRUE],
   [Iteration EXCEPT !.save = TRUE],
   [Iteration EXCEPT !.processes = 0]}

\* A baseline of one arm, saved by three processes of an earlier experiment.
Old(k, m) ==
  [run |-> <<"old", k>>, arms |-> <<"a">>, mode |-> "confirm", planned |-> 3,
   binary |-> 0, independent |-> FALSE, place |-> "fast", flaw |-> "none",
   replicates |-> <<>>, mean |-> ("a" :> m)]
Baseline(m) ==
  [Old(1, m) EXCEPT !.run = <<"old">>, !.independent = TRUE,
                    !.replicates = <<Old(1, m), Old(2, m), Old(3, m)>>]
MCSaved == {Baseline(0), Baseline(97), Baseline(-94)}
MCCondition ==
  {<<"fast", "none">>, <<"fast", "unreliable">>, <<"mixed", "none">>}
MCLatency == [a |-> {0, 97}, b |-> {98}]

Experimenting == UNCHANGED <<mainVars, scene>>
Launching     == UNCHANGED <<vars, scene>>

\* Where nothing happens in a scene, nothing is chosen.
MCInit ==
  /\ scene \in {"experiment", "main"}
  /\ IF scene = "main" THEN MainInit
     ELSE suite = Default /\ parent = Absent /\ offspring = Absent /\ left = 0
  /\ Init
  /\ request.compare \/ baseline \in {None, Baseline(0)}
  /\ scene # "experiment" =>
       baseline = None /\ request = [Iteration EXCEPT !.save = TRUE]

MCNext ==
  \/ scene = "experiment" /\ Next /\ Experimenting
  \/ scene = "main" /\ MainNext /\ Launching

MCSpec ==
  /\ MCInit /\ [][MCNext]_mcVars
  /\ WF_mcVars(scene = "experiment" /\ Supervisor /\ Experimenting)
  /\ WF_mcVars(scene = "experiment" /\ Elapse /\ Experimenting)

\* An experiment ends, in its scene.
EveryExperimentEnds == scene = "experiment" => ExperimentEnds
=============================================================================
