----------------------------- MODULE MCCommands -----------------------------
(* The commands on runs, a self-compare and a nice task share no file: they  *)
(* are explored beside each other, not interleaved.                          *)
EXTENDS JobCommands, SelfCompare, NiceTask

VARIABLE scene

jobVars == <<registryVars, frontVars>>
mcVars  == <<jobVars, compareVars, allVars, scene>>

NicelyAlone == UNCHANGED <<jobVars, compareVars, scene>>

MCInit ==
  /\ scene \in {"jobs", "compare", "nice"}
  /\ JobsInit /\ CompareInit /\ NiceInit
  /\ scene # "compare" => tree = {} /\ want = [c \in Command |-> CHOOSE r \in Ref : TRUE]

MCNext ==
  \/ scene = "jobs" /\ JobsNext /\ UNCHANGED <<compareVars, allVars, scene>>
  \/ scene = "compare" /\ CompareNext /\ UNCHANGED <<jobVars, allVars, scene>>
  \/ scene = "nice" /\ NiceNext /\ NicelyAlone

\* The fairness of NiceSpec.
MCSpec ==
  /\ MCInit /\ [][MCNext]_mcVars
  /\ WF_mcVars(scene = "nice" /\ NiceCommand /\ NicelyAlone)
  /\ WF_mcVars(scene = "nice" /\ WaitingEnds /\ NicelyAlone)
  /\ WF_mcVars(scene = "nice" /\ Tick /\ UNCHANGED niceVars /\ NicelyAlone)
  /\ WF_mcVars(scene = "nice" /\ LeaderExits /\ doomed /\ UNCHANGED niceVars /\ NicelyAlone)

\* A nice command comes to an end, in its scene.
EveryNiceEnds == scene = "nice" => NiceEnds
=============================================================================
