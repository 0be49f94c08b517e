----------------------------- MODULE MCMeasurement -----------------------------
(* A sample and the analysis of a group's rounds share no state: they are     *)
(* explored beside each other, not interleaved.                               *)
EXTENDS Measurement, Analysis, TLC

VARIABLE scene

mcVars == <<vars, analysisVars, scene>>

\* The defaults, a short target, a cold start, and no fewest iterations.
MCSettings ==
  {[target |-> 1000000, shortest |-> 5000000, fewest |-> 1, most |-> 10000000],
   [target |-> 1000, shortest |-> 0, fewest |-> 1, most |-> 10000000],
   [target |-> 1000000, shortest |-> 5000000, fewest |-> 1, most |-> 1],
   [target |-> 2000, shortest |-> 0, fewest |-> 0, most |-> 10000000]}

\* Faster, slower, equal, and an outlier on each side.
MCObservation ==
  {[iterations |-> i, base |-> 600 * i, candidate |-> (600 + d) * i] :
     i \in {1, 2}, d \in {-60, 120}} \cup
  {[iterations |-> 1, base |-> 600, candidate |-> 600]} \cup
  {[iterations |-> 1, base |-> 1200, candidate |-> c] : c \in {600, 1800}}

Sampling  == UNCHANGED <<analysisVars, scene>>
Analysing == UNCHANGED <<vars, scene>>

\* Where nothing happens in a scene, nothing is chosen.
MCInit ==
  /\ scene \in {"sample", "analysis"}
  /\ Init /\ AnalysisInit
  /\ scene # "sample" =>
       form = "iter" /\ profiler = "heap" /\ clock = 0
  /\ scene # "analysis" =>
       steady = 1 /\ settings.target = 1000

MCNext ==
  \/ scene = "sample" /\ Next /\ Sampling
  \/ scene = "analysis" /\ AnalysisNext /\ Analysing

MCSpec ==
  /\ MCInit /\ [][MCNext]_mcVars
  /\ \A t \in Thread : WF_mcVars(scene = "sample" /\ Thr(t) /\ Sampling)

\* A sample ends, in its scene.
EverySampleEnds == scene = "sample" => SampleEnds
=============================================================================
