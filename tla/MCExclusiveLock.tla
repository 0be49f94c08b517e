-------------------------- MODULE MCExclusiveLock --------------------------
(* The benchmark lock and a fleet's runs share no state: they are explored  *)
(* beside each other, not interleaved.                                      *)
EXTENDS ExclusiveLock, FleetRun, TLC

VARIABLE scene

mcVars == <<vars, fleetVars, scene>>

Locking == UNCHANGED <<fleetVars, scene>>
Observing == UNCHANGED <<vars, scene>>

\* Where nothing happens in a scene, nothing is chosen.
MCInit ==
  /\ scene \in {"lock", "fleet"}
  /\ Init /\ FleetInit
  /\ scene # "fleet" => bundle.plan = "wall"

MCNext ==
  \/ scene = "lock" /\ Next /\ Locking
  \/ scene = "fleet" /\ FleetNext /\ Observing

MCSpec ==
  /\ MCInit /\ [][MCNext]_mcVars
  /\ \A p \in Proc :
       /\ WF_mcVars(scene = "lock" /\ Write(p) /\ Locking)
       /\ WF_mcVars(scene = "lock" /\ Heartbeat(p) /\ Locking)
       /\ WF_mcVars(scene = "lock" /\ Release(p) /\ Locking)
  /\ WF_mcVars(scene = "fleet" /\ Runner /\ Observing)
=============================================================================
