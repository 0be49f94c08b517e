--------------------------- MODULE LaunchContract ---------------------------
(***************************************************************************)
(* What admission relies on when its owner launches a child: between the   *)
(* launch and the proof that the child and all its descendants are gone,   *)
(* the reservation is retained, so that it can only fail closed.           *)
(***************************************************************************)
VARIABLES
  phase,    \* the launcher: holding, launching, supervising or giving up
  retain,   \* Reservation.retain
  alive     \* something the launcher started is still executing

TypeOK ==
  /\ phase \in {"held", "spawn", "supervise", "drop"}
  /\ retain \in BOOLEAN /\ alive \in BOOLEAN

Init == phase = "held" /\ retain = FALSE /\ alive = FALSE

Launch == phase = "held" /\ phase' = "spawn" /\ retain' = TRUE /\ UNCHANGED alive

Spawn == phase = "spawn" /\ phase' = "supervise" /\ alive' = TRUE /\ UNCHANGED retain

SpawnFails ==
  phase = "spawn" /\ phase' = "drop" /\ alive' \in BOOLEAN /\ UNCHANGED retain

Reaped ==
  /\ phase = "supervise" /\ phase' = "held"
  /\ ~alive /\ retain' = FALSE /\ UNCHANGED alive

SuperviseFails ==
  phase = "supervise" /\ phase' = "drop" /\ UNCHANGED <<retain, alive>>

ChildrenExit == alive /\ alive' = FALSE /\ UNCHANGED <<phase, retain>>

Next == Launch \/ Spawn \/ SpawnFails \/ Reaped \/ SuperviseFails \/ ChildrenExit

Spec == Init /\ [][Next]_<<phase, retain, alive>>
=============================================================================
