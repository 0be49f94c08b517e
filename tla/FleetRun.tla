------------------------------- MODULE FleetRun -------------------------------
(***************************************************************************)
(* Planned observations on a fleet machine: src/src/bin/support/fleet.rs   *)
(* (the bundle), fleet_run.rs (one observation of it) and fleet_report.rs  *)
(* (the comparison of two).  Files are versions that count their changes:  *)
(* nothing changes back.  The supervision of a child is Supervisor's, the  *)
(* admission is Admission's; here they are a few steps each.               *)
(***************************************************************************)
EXTENDS Naturals, FiniteSets

CONSTANTS
  Backend,      \* what plans ask for: wall, driver, os_peak, heaptrack
  Attempt,      \* the names of output directories
  MaxRuns,      \* bound on the runs that the fleet starts
  MaxChanges,   \* bound on the changes of files and placement
  Nil

ASSUME FleetRunAssumption ==
  /\ MaxRuns \in Nat /\ MaxChanges \in Nat
  /\ Backend \subseteq {"wall", "driver", "os_peak", "heaptrack"}
  /\ Nil \notin Nat /\ Nil \notin {"ok", "failed", "cancelled", "timeout", "incomplete"}

VARIABLES
  source, bundle,           \* the source file, and the directory made of it
  cancel,                   \* the cancel file
  placement, ticket,        \* of the machine; its reservation's record
  output, packet,           \* what the attempt directories hold
  step, name, receipt, retain,\* the runner
  child, outcome,           \* its supervised process, and how that returned
  runs, changes             \* bounds

machine == <<source, bundle, placement, changes>>
runner  == <<step, name, receipt, retain, outcome>>
files   == <<output, packet>>
fleetVars == <<machine, cancel, ticket, files, runner, child, runs>>

Outcomes == {"ok", "failed", "cancelled", "timeout", "incomplete"}

FleetInit ==
  /\ source = 0 /\ cancel = FALSE
  /\ bundle \in [file : {Nil}, hash : {Nil}, manifest : {FALSE}, plan : Backend]
  /\ placement = 0 /\ ticket = "none"
  /\ output = [n \in Attempt |-> Nil] /\ packet = [n \in Attempt |-> Nil]
  /\ step = "hash" /\ name = Nil /\ receipt = Nil /\ retain = FALSE
  /\ child = Nil /\ outcome = Nil /\ runs = 0 /\ changes = 0

(***************************************************************************)
(* Making the bundle.  The copy may be of a file that has changed since it *)
(* was hashed.                                                             *)
(***************************************************************************)

HashSource ==
  /\ step = "hash" /\ step' = "copy"
  /\ bundle' = [bundle EXCEPT !.hash = source]
  /\ UNCHANGED <<source, placement, changes, cancel, ticket, files, name,
                 receipt, retain, outcome, child, runs>>

Copy ==
  /\ step = "copy" /\ step' = "recheck"
  /\ bundle' = [bundle EXCEPT !.file = source]
  /\ UNCHANGED <<source, placement, changes, cancel, ticket, files, name,
                 receipt, retain, outcome, child, runs>>

\* The manifest comes last; a partial directory has none.
Recheck ==
  /\ step = "recheck"
  /\ IF bundle.file = bundle.hash /\ source = bundle.hash
     THEN step' = "idle" /\ bundle' = [bundle EXCEPT !.manifest = TRUE]
     ELSE step' = "end" /\ UNCHANGED bundle
  /\ UNCHANGED <<source, placement, changes, cancel, ticket, files, name,
                 receipt, retain, outcome, child, runs>>

\* What `verify` accepts.
Whole == bundle.manifest /\ bundle.file = bundle.hash

(***************************************************************************)
(* One observation.  Two members of the receipt are history: what ran, and *)
(* whether the bundle was replaced between the first look at it and the    *)
(* last one.                                                               *)
(***************************************************************************)

NewReceipt ==
  [status |-> "incomplete", backend |-> Nil, bundle |-> Nil, placement |-> Nil,
   ran |-> Nil, correct |-> FALSE, memory |-> {}, artifacts |-> Nil, replaced |-> FALSE]

CreateDirectory(n) == output[n] = Nil

\* An output directory that exists refuses the run before anything is done.
OpenRun ==
  /\ step = "idle" /\ runs < MaxRuns /\ runs' = runs + 1
  /\ \E n \in Attempt :
       IF CreateDirectory(n)
       THEN /\ output' = [output EXCEPT ![n] = 0] /\ name' = n
            /\ receipt' = NewReceipt /\ step' = "verify"
       ELSE UNCHANGED <<output, name, receipt, step>>
  /\ UNCHANGED <<machine, cancel, ticket, packet, retain, outcome, child>>

\* `execute` returns: the reservation is dropped, the record of a retained one
\* stays.  A receipt names the failure; here they are not told apart.
Leave(status) ==
  /\ receipt' = [receipt EXCEPT !.status = IF status = "complete" THEN status ELSE "incomplete"]
  /\ step' = "packet"
  /\ ticket' = IF step \in {"verify", "identify", "admit"} THEN ticket
               ELSE IF retain THEN "orphan" ELSE "none"

\* A plan may be for another system, name no program of the bundle, or touch
\* the variables that the runner sets.
PlanRefused == Leave("invalid_plan")

VerifyBundle ==
  /\ step = "verify"
  /\ \/ cancel /\ Leave("cancelled")
     \/ ~cancel /\ ~Whole /\ Leave("identity_mismatch")
     \/ ~cancel /\ Whole /\ PlanRefused
     \/ /\ ~cancel /\ Whole
        /\ receipt' = [receipt EXCEPT !.backend = bundle.plan]
        /\ step' = "identify" /\ UNCHANGED ticket
  /\ UNCHANGED <<machine, cancel, files, name, retain, outcome, child, runs>>

\* The manifest is read once more for its digest; then the placement.
Identify ==
  /\ step = "identify"
  /\ \/ Leave("unsupported_placement")
     \/ /\ receipt' = [receipt EXCEPT !.bundle = bundle.hash, !.placement = placement]
        /\ step' = "admit" /\ UNCHANGED ticket
  /\ UNCHANGED <<machine, cancel, files, name, retain, outcome, child, runs>>

\* Others may hold the machine, and an orphan refuses until it is removed.
Admit ==
  /\ step = "admit"
  /\ \/ cancel /\ Leave("cancelled")
     \/ ~cancel /\ Leave("busy")
     \/ /\ ~cancel /\ ticket = "none" /\ ticket' = "held"
        /\ step' = "resources" /\ UNCHANGED receipt
  /\ UNCHANGED <<machine, cancel, files, name, retain, outcome, child, runs>>

\* Memory and load, polled until the wait expires; then the tools.
AwaitResources ==
  /\ step = "resources"
  /\ \/ cancel /\ Leave("cancelled")
     \/ ~cancel /\ Leave("busy")
     \/ ~cancel /\ receipt.backend \in {"os_peak", "heaptrack"} /\ Leave("unsupported")
     \/ ~cancel /\ step' = "launch" /\ UNCHANGED <<receipt, ticket>>
  /\ UNCHANGED <<machine, cancel, files, name, retain, outcome, child, runs>>

\* What a spawn runs: the file then there, of a bundle with the plan then there.
Running == [file |-> bundle.file, plan |-> bundle.plan, placement |-> placement]

\* The reservation is retained before the spawn and until the group is reaped.
Launch ==
  /\ step \in {"launch", "parser"} /\ retain' = TRUE
  /\ step' = IF step = "launch" THEN "running" ELSE "parsing"
  /\ \/ /\ child' = [st |-> "running", dir |-> name]
        /\ receipt' = IF step = "launch"
                      THEN [receipt EXCEPT !.ran = Running]
                      ELSE receipt
        /\ UNCHANGED outcome
     \/ outcome' = "incomplete" /\ UNCHANGED <<child, receipt>>
  /\ UNCHANGED <<machine, cancel, ticket, files, name, runs>>

SuperviseForever ==
  /\ step \in {"running", "parsing"} /\ outcome = Nil
  /\ child.st \in {"ok", "failed"} /\ outcome' = child.st
  /\ child' = Nil /\ retain' = FALSE
  /\ UNCHANGED <<machine, cancel, ticket, files, name, step, receipt, runs>>

\* run_controlled returns when the group is empty, its leader having exited or
\* been killed for the cancel file, the deadline or too long a log, or a poll
\* that failed; or with an error, and then the reservation stays retained.
Supervise ==
  /\ step \in {"running", "parsing"} /\ outcome = Nil
  /\ \/ /\ child.st \in {"ok", "failed"} /\ outcome' = child.st
        /\ child' = Nil /\ retain' = FALSE
     \/ /\ child.st = "running"
        /\ \/ cancel /\ outcome' = "cancelled"
           \/ ~cancel /\ outcome' \in {"timeout", "incomplete"}
        /\ child' = Nil /\ retain' = FALSE
     \/ outcome' \in {"timeout", "incomplete"} /\ UNCHANGED <<child, retain>>
  /\ UNCHANGED <<machine, cancel, ticket, files, name, step, receipt, runs>>

CheckPlacementOnly ==
  /\ step = "running" /\ outcome # Nil /\ outcome' = Nil
  /\ \/ outcome # "ok" /\ Leave("incomplete")
     \/ outcome = "ok" /\ placement # receipt.placement /\ Leave("placement_changed")
     \/ /\ outcome = "ok" /\ placement = receipt.placement
        /\ step' = "driver" /\ UNCHANGED <<receipt, ticket>>
  /\ UNCHANGED <<machine, cancel, files, name, retain, child, runs>>

\* The checks after the run: the child's status, the placement, and that the
\* bundle is whole, whichever it is by now.
CheckRun ==
  /\ step = "running" /\ outcome # Nil /\ outcome' = Nil
  /\ \/ outcome \notin {"ok", "failed"} /\ Leave(outcome)
     \/ outcome = "failed" /\ Leave("child_failed")
     \/ outcome = "ok" /\ placement # receipt.placement /\ Leave("placement_changed")
     \/ /\ outcome = "ok" /\ placement = receipt.placement
        /\ ~Whole /\ Leave("identity_mismatch")
     \/ /\ outcome = "ok" /\ placement = receipt.placement /\ Whole
        /\ step' = "driver" /\ UNCHANGED <<receipt, ticket>>
  /\ UNCHANGED <<machine, cancel, files, name, retain, child, runs>>

\* The memory records of a complete observation: none in a wall run, the
\* driver's own, or those of an instrument beside the driver.
Evidence ==
  [wall |-> {}, driver |-> {"driver"}, os_peak |-> {"resident_high_water"},
   heaptrack |-> {"requested_live_heap_peak"}]

\* A record without a quantity, or with neither bytes nor a reason, is invalid.
NotEvidence(memory) == memory # Evidence[receipt.backend]

EvidenceOfBundle(b) == Evidence[bundle.plan]
EvidenceOf(b) == Evidence[b]

\* driver.json: whether it matches what the plan expects, and what memory
\* records it holds, good or bad.
ReadDriver ==
  /\ step = "driver"
  /\ LET backend == receipt.backend IN
     \/ Leave("wrong_output")
     \/ \E memory \in SUBSET {"driver", "invalid"} :
          \/ backend \in {"wall", "driver"} /\ NotEvidence(memory)
             /\ Leave("invalid_measurement")
          \/ /\ ~(backend \in {"wall", "driver"} /\ NotEvidence(memory))
             /\ receipt' = [receipt EXCEPT !.correct = TRUE,
                   !.memory = IF backend = "heaptrack" THEN {} ELSE EvidenceOf(backend)]
             /\ step' = IF backend = "heaptrack" THEN "parser" ELSE "done"
             /\ UNCHANGED ticket
     \/ backend \in {"os_peak", "heaptrack"} /\ Leave("incomplete")
  /\ UNCHANGED <<machine, cancel, files, name, retain, outcome, child, runs>>

\* heaptrack's trace is analysed by a second child under the same reservation.
ReadStacks ==
  /\ step = "parsing" /\ outcome # Nil /\ outcome' = Nil
  /\ \/ outcome \notin {"ok", "failed"} /\ Leave(outcome)
     \/ Leave("incomplete")
     \/ /\ outcome = "ok" /\ step' = "done"
        /\ receipt' = [receipt EXCEPT !.memory = EvidenceOf(receipt.backend)]
        /\ UNCHANGED ticket
  /\ UNCHANGED <<machine, cancel, files, name, retain, child, runs>>

Complete ==
  /\ step = "done" /\ Leave("complete")
  /\ UNCHANGED <<machine, cancel, files, name, retain, outcome, child, runs>>

\* Every file of the directory is hashed into the packet, which comes last.
WritePacket ==
  /\ step = "packet" /\ step' = "idle" /\ retain' = FALSE
  /\ packet' = [packet EXCEPT ![name] =
                  [receipt EXCEPT !.artifacts = output[name]]]
  /\ receipt' = Nil /\ name' = Nil
  /\ UNCHANGED <<machine, cancel, ticket, output, outcome, child, runs>>

(***************************************************************************)
(* Reading and comparing.                                                  *)
(***************************************************************************)

ReadUnverified(n) == packet[n] # Nil
Read(n) == packet[n] # Nil /\ packet[n].artifacts = output[n]

\* fleet-diff: two complete observations with one contract.
Comparable(m, n) ==
  /\ Read(m) /\ Read(n)
  /\ \A k \in {m, n} : packet[k].status = "complete"
  /\ packet[m].backend = packet[n].backend
  /\ packet[m].placement = packet[n].placement
  /\ packet[m].memory = packet[n].memory

(***************************************************************************)
(* The rest of the world.                                                  *)
(***************************************************************************)

ChildExits ==
  /\ child # Nil /\ child.st = "running"
  /\ \E st \in {"ok", "failed"} : child' = [child EXCEPT !.st = st]
  /\ UNCHANGED <<machine, cancel, ticket, files, runner, runs>>

\* The child and the recorder write into the attempt's directory.
ChildWrites ==
  /\ child # Nil /\ child.st = "running" /\ output[child.dir] = 0
  /\ output' = [output EXCEPT ![child.dir] = 1]
  /\ UNCHANGED <<machine, cancel, ticket, packet, runner, child, runs>>

\* A file of the bundle is edited, or another bundle is put in its place, with
\* a manifest and a plan of its own.
Edit == bundle' = [bundle EXCEPT !.file = @ + 1] /\ UNCHANGED receipt

Relied == step \in {"identify", "admit", "resources", "launch", "running"}
Redeploy ==
  /\ \E b \in Backend :
       bundle' = [bundle EXCEPT !.file = @ + 1, !.hash = bundle.file + 1, !.plan = b]
  /\ receipt' = IF Relied THEN [receipt EXCEPT !.replaced = TRUE] ELSE receipt

Change ==
  /\ changes < MaxChanges /\ changes' = changes + 1
  /\ \/ /\ ~bundle.manifest /\ source' = source + 1
        /\ UNCHANGED <<bundle, receipt, placement, output>>
     \/ /\ bundle.manifest /\ (Edit \/ Redeploy)
        /\ UNCHANGED <<source, placement, output>>
     \/ placement' = placement + 1 /\ UNCHANGED <<source, bundle, receipt, output>>
     \/ /\ \E n \in Attempt : /\ packet[n] # Nil
                              /\ output' = [output EXCEPT ![n] = @ + 10]
        /\ UNCHANGED <<source, bundle, receipt, placement>>
  /\ UNCHANGED <<cancel, ticket, packet, step, name, retain, outcome, child, runs>>

Cancel ==
  /\ cancel' = ~cancel /\ (cancel => step = "idle")
  /\ UNCHANGED <<machine, ticket, files, runner, child, runs>>

\* The runner is killed: its child and the record of its reservation are not.
Kill ==
  /\ step \notin {"hash", "copy", "recheck", "idle", "end"} /\ step' = "idle"
  /\ ticket' = IF ticket = "held" THEN "orphan" ELSE ticket
  /\ name' = Nil /\ receipt' = Nil /\ retain' = FALSE /\ outcome' = Nil
  /\ UNCHANGED <<machine, cancel, files, child, runs>>

\* An operator removes an orphan after seeing to its child.
RemoveOrphan ==
  /\ ticket = "orphan" /\ ticket' = "none" /\ child' = Nil
  /\ UNCHANGED <<machine, cancel, files, runner, runs>>

Bundling == HashSource \/ Copy \/ Recheck
Runner ==
  \/ VerifyBundle \/ Identify \/ Admit \/ AwaitResources \/ Launch \/ Supervise \/ CheckRun
  \/ ReadDriver \/ ReadStacks \/ Complete \/ WritePacket
FleetNext ==
  \/ Bundling \/ OpenRun \/ Runner \/ ChildExits \/ ChildWrites \/ Change \/ Cancel
  \/ Kill \/ RemoveOrphan

\* A runner that runs comes to its polls and deadlines.
FleetSpec == FleetInit /\ [][FleetNext]_fleetVars /\ WF_fleetVars(Runner)

(***************************************************************************)
(* Properties.                                                             *)
(***************************************************************************)

\* A packet that says "complete" tells the truth of its run, while files, the
\* placement and the whole bundle may change at any time.  It ran where the
\* packet says; its output was correct; and its memory records are those of the
\* recorded plan's backend, whatever is deployed by now.  What ran is the file
\* of the recorded manifest, and the recorded plan is that manifest's: of this
\* the second verification (fleet_run.rs:325) assures only when nobody replaced
\* the bundle, manifest and all, between the first one and itself.
PacketIsHonest ==
  \A n \in Attempt : packet[n] # Nil /\ packet[n].status = "complete" =>
    LET p == packet[n] IN
    /\ p.ran.placement = p.placement
    /\ p.correct /\ p.memory = Evidence[p.backend]
    /\ ~p.replaced => p.ran.file = p.bundle /\ p.ran.plan = p.backend

\* Two attempts that compare are observations of one contract that nobody has
\* touched since, neither the operator nor a process that survived its run.
DiffIsLikeWithLike ==
  \A m, n \in Attempt : m # n /\ Comparable(m, n) =>
    /\ packet[m].ran.placement = packet[n].ran.placement
    /\ \A k \in {m, n} : output[k] < 10 /\ ~(child # Nil /\ child.dir = k)

\* A run ends, by itself, by the cancel file or by its deadlines, whatever its
\* child does.
RunsEnd == step = "verify" ~> step = "idle"

=============================================================================
