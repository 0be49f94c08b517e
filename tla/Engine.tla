------------------------------- MODULE Engine -------------------------------
(***************************************************************************)
(* One benchmark process: src/src/engine.rs with its resource gate         *)
(* (gate.rs), its sampling thread (monitor.rs) and its placement.          *)
(*                                                                         *)
(* Two threads run here.  The coordinator takes the reservation and the    *)
(* lock, retains a pending attempt, and for each group waits for rival     *)
(* benchmarks, starts the sampler, pins itself, measures round after       *)
(* round, lets both go and checkpoints; the sampler publishes what it sees *)
(* of the machine.  Meanwhile the machine changes: it becomes noisy, its   *)
(* boundary moves, rivals come and go, budgets run out.  A panic unwinds   *)
(* through the guards; a kill leaves only the files.                       *)
(***************************************************************************)
EXTENDS Placement, Sequences

CONSTANTS
  Conf,         \* the configurations that the process may be started with
  Boundaries,   \* the boundaries that the system may impose
  Launches,     \* the thread masks that the process may be launched with
  Core,         \* the hardware, [Cpu -> Kind \cup {None}]
  Published,    \* the CPUs whose kind the kernel publishes
  Proc, Self,   \* the processes of the machine, and this one among them
  Visitor,      \* the one that comes and goes
  Parent,       \* the parent of each, None at the top
  Harness,      \* the processes that are named like a benchmark harness
  Bench,        \* the benchmarks of a group
  MaxPolls,     \* bound on the scans for rivals: 30 one-second waits in the code
  MaxChanges    \* bound on what happens to the machine

ASSUME EngineAssumption ==
  /\ Boundaries \subseteq Mask /\ Boundaries # {}
  /\ Launches \subseteq Mask
  /\ Core \in [Cpu -> Kind \cup {None}]
  /\ {Self, Visitor} \subseteq Proc /\ Parent \in [Proc -> Proc \cup {None}]
  /\ MaxPolls \in Nat /\ MaxChanges \in Nat
  /\ \A c \in Conf :
       /\ c.mode \in {"iterate", "confirm"} /\ c.pin \in (SUBSET Cpu) \cup {None}
       /\ c.launchers \subseteq Proc /\ c.min <= c.max /\ c.groups \in Nat
  /\ None \notin [groups : Seq([rounds : Seq([clean : {TRUE, FALSE, None}, inside : BOOLEAN]),
                                late : {"no", "time", "wall"}]),
                  unreliable : BOOLEAN, place : Place]

VARIABLES
  conf,                     \* what the process was started with
  boundary, noisy, rivals,  \* the machine
  late, changes,            \* budgets that the group has used, bound counter
  pc,                       \* where the coordinator is
  asked, found,             \* its thread mask, and the one its scope restores
  place,                    \* the certified placement, of the group when in one
  gate,                     \* the gate of the group: waits, missing
  rounds, round, left,      \* rounds retained, the one being measured
  sampler, stop,            \* the sampling thread and its stop flag
  held,                     \* what other processes are kept out with
  unreliable, group, done,  \* flag, groups begun, results of the groups
  attempt, packet, child,   \* the files: checkpoint, evidence, child result
  launch, moved             \* history: first mask; whether the boundary moved

machine == <<boundary, noisy, rivals, changes>>
mask    == <<asked, found>>
measure == <<rounds, round, left>>
thread  == <<sampler, stop>>
files   == <<attempt, packet, child>>
suite   == <<unreliable, group, done>>
vars == <<conf, machine, late, pc, mask, place, gate, measure, thread, held,
          suite, files, launch, moved>>

Terminal == {"refused", "printed", "delegated", "done", "panicked", "killed"}

Confirming == conf.mode # "iterate"
MyMask == CurrentAffinity(asked, boundary)
NoSampler == [st |-> "none", asked |-> {}, pin |-> None, seen |-> None]
NewGate == [waits |-> 0, missing |-> FALSE]

\* A confirmation overrides the gate it was given, and measures all its rounds.
Strict    == Confirming \/ conf.strict
MaxWaits  == IF Confirming THEN 0 ELSE conf.maxWaits
MinRounds == IF Confirming THEN conf.max ELSE conf.min
AutoRounds == ~Confirming /\ conf.auto

Init ==
  /\ conf \in Conf
  /\ boundary \in Boundaries /\ noisy = FALSE /\ rivals \in BOOLEAN
  /\ late = "no" /\ changes = 0 /\ pc = "boot"
  /\ asked \in Launches /\ found = {} /\ launch = asked
  /\ place = None /\ gate = NewGate
  /\ rounds = <<>> /\ round = None /\ left = {}
  /\ sampler = NoSampler /\ stop = FALSE /\ held = {}
  /\ unreliable = FALSE /\ group = 0 /\ done = <<>>
  /\ attempt = "none" /\ packet = None /\ child = FALSE /\ moved = FALSE

(***************************************************************************)
(* Set-up.                                                                 *)
(***************************************************************************)

\* What a confirmation asserts of its configuration.
Admissible == Confirming => conf.gate /\ conf.saving /\ conf.max >= 2

Boot ==
  LET certified == Start(Core, Published, conf.policy, conf.suitePolicy,
                         conf.cpuSet, boundary)
  IN /\ pc = "boot"
     /\ pc' = IF Confirming /\ ~conf.dry /\ ~conf.subprocess THEN "delegated"
              ELSE IF ~Admissible \/ certified = {} THEN "refused"
              ELSE IF conf.dry THEN "printed"
              ELSE "admit"
     /\ place' \in IF certified = {} THEN {None} ELSE certified
     /\ UNCHANGED <<conf, machine, late, mask, gate, measure, thread, held,
                    suite, files, launch, moved>>

\* Reservation::acquire returns once, or the run panics.
Admit ==
  /\ pc = "admit"
  /\ \/ /\ held' = held \cup {"admission"} /\ pc' = "lock"
     \/ /\ pc' = "refused" /\ UNCHANGED held
  /\ UNCHANGED <<conf, machine, late, mask, place, gate, measure, thread, suite,
                 files, launch, moved>>

\* Without the lock the run goes on, and its results are not reliable.
TakeLock ==
  /\ pc = "lock"
  /\ pc' = "pending"
  /\ \/ /\ conf.lockDir /\ held' = held \cup {"lock"} /\ UNCHANGED unreliable
     \/ /\ conf.lockDir /\ unreliable' = TRUE /\ UNCHANGED held
     \/ /\ ~conf.lockDir /\ UNCHANGED <<held, unreliable>>
  /\ UNCHANGED <<conf, machine, late, mask, place, gate, measure, thread, group,
                 done, files, launch, moved>>

\* A save that fails panics: nothing is measured that is not retained.
Saved(next, state) ==
  \/ /\ conf.saving /\ attempt' = state /\ pc' = next
  \/ /\ conf.saving /\ pc' = "unwind" /\ UNCHANGED attempt
  \/ /\ ~conf.saving /\ pc' = next /\ UNCHANGED attempt

RetainPendingLater ==
  /\ pc = "pending" /\ pc' = "next"
  /\ UNCHANGED <<conf, machine, late, mask, place, gate, measure, thread, held,
                 suite, files, launch, moved>>

RetainPending ==
  /\ pc = "pending"
  /\ Saved("next", "pending")
  /\ UNCHANGED <<conf, machine, late, mask, place, gate, measure, thread, held,
                 suite, packet, child, launch, moved>>

(***************************************************************************)
(* Rivals.                                                                 *)
(***************************************************************************)

\* The chain of parents, which ends where it closes or where it reaches a
\* process that is excluded already.
Ancestors(start, known) ==
  LET chain[n \in 0 .. Cardinality(Proc)] ==
        IF n = 0 THEN start
        ELSE IF chain[n-1] = None THEN None
        ELSE LET p == Parent[chain[n-1]] IN
             IF p = start \/ p \in known \cup {chain[i] : i \in 1 .. n-1}
               THEN None ELSE p
  IN {chain[n] : n \in 1 .. Cardinality(Proc)} \ {None}

Alive == {p \in Proc : p = Visitor => rivals}

Excluded ==
  LET named == {Self} \cup conf.launchers
      known == named \cup (conf.queued \cap Alive)
  IN known \cup Ancestors(Self, known)

Rivals == (Harness \cap Alive) \ Excluded

(***************************************************************************)
(* A group begins.                                                         *)
(***************************************************************************)

PinInside == conf.pin # None /\ place.status = "enforced_uniform"
             => conf.pin \subseteq place.effective

BeginGroup ==
  /\ pc = "next" /\ group < conf.groups
  /\ group' = group + 1
  /\ gate' = NewGate /\ rounds' = <<>> /\ late' = "no"
  /\ pc' = IF PinInside /\ Verify(place, boundary) THEN "scan" ELSE "unwind"
  /\ UNCHANGED <<conf, machine, mask, place, round, left, thread, held,
                 unreliable, done, files, launch, moved>>

Scan ==
  /\ pc = "scan"
  /\ \/ /\ ~conf.gate \/ Rivals = {}
        /\ pc' = "spawn" /\ UNCHANGED gate
     \/ /\ conf.gate /\ Rivals # {} /\ gate.waits < MaxPolls
        /\ gate' = [gate EXCEPT !.waits = @ + 1]
        /\ UNCHANGED pc
     \/ /\ conf.gate /\ Rivals # {} /\ gate.waits = MaxPolls
        /\ gate' = [gate EXCEPT !.missing = TRUE]
        /\ pc' = "spawn"
  /\ UNCHANGED <<conf, machine, late, mask, place, measure, thread, held, suite,
                 files, launch, moved>>

\* The sampler starts while the coordinator still has its launch mask, which
\* it inherits, or with the observer CPUs to pin itself to.
Observer == SelectObserver(place, MyMask, conf.pin)

Spawn ==
  /\ pc = "spawn"
  /\ IF conf.gate
       THEN /\ sampler' = [st |-> "starting", asked |-> asked,
                           pin |-> Observer, seen |-> None]
            /\ stop' = FALSE /\ pc' = "ready"
       ELSE /\ pc' = "pin" /\ UNCHANGED thread
  /\ UNCHANGED <<conf, machine, late, mask, place, gate, measure, held, suite,
                 files, launch, moved>>

\* The first observation lets the coordinator go; a refused pin stops the run.
Ready ==
  /\ pc = "ready"
  /\ sampler.st \in {"running", "refused"}
  /\ pc' = IF sampler.st = "running" THEN "pin" ELSE "unwind"
  /\ UNCHANGED <<conf, machine, late, mask, place, gate, measure, thread, held,
                 suite, files, launch, moved>>

(***************************************************************************)
(* The sampler.                                                            *)
(***************************************************************************)
Observation == [noisy |-> noisy, fresh |-> TRUE]

PinSampler ==
  /\ sampler.st = "starting"
  /\ \/ /\ sampler.pin = None
        /\ sampler' = [sampler EXCEPT !.st = "sampling"]
     \/ /\ sampler.pin # None /\ PinApplies(sampler.pin, boundary)
        /\ sampler' = [sampler EXCEPT !.st = "sampling", !.asked = sampler.pin]
     \/ /\ sampler.pin # None /\ ~PinApplies(sampler.pin, boundary)
        /\ sampler' = [sampler EXCEPT !.st = "refused"]
  /\ UNCHANGED <<conf, machine, late, pc, mask, place, gate, measure, stop, held,
                 suite, files, launch, moved>>

Sample ==
  /\ sampler.st \in {"sampling", "running"} /\ ~stop
  /\ sampler' = [sampler EXCEPT !.st = "running", !.seen = Observation]
  /\ UNCHANGED <<conf, machine, late, pc, mask, place, gate, measure, stop, held,
                 suite, files, launch, moved>>

SamplerEnds ==
  /\ sampler.st \in {"sampling", "running"} /\ stop
  /\ sampler' = [sampler EXCEPT !.st = "ended"]
  /\ UNCHANGED <<conf, machine, late, pc, mask, place, gate, measure, stop, held,
                 suite, files, launch, moved>>

(***************************************************************************)
(* The rounds of a group.                                                  *)
(***************************************************************************)
EnterAffinity ==
  /\ pc = "pin"
  /\ \/ /\ conf.pin = None
        /\ pc' = "warm" /\ UNCHANGED mask
        /\ place' = [place EXCEPT !.threadAsked = None, !.threadEffective = MyMask]
     \/ /\ conf.pin # None /\ PinApplies(conf.pin, boundary)
        /\ found' = MyMask /\ asked' = conf.pin
        /\ pc' = "warm"
        /\ place' = [place EXCEPT !.threadAsked = conf.pin,
                                  !.threadEffective = conf.pin]
     \/ /\ conf.pin # None /\ ~PinApplies(conf.pin, boundary)
        /\ pc' = "unwind" /\ UNCHANGED <<mask, place>>
  /\ UNCHANGED <<conf, machine, late, gate, measure, thread, held, suite, files,
                 launch, moved>>

\* Warm-up and estimation run every benchmark; any of them may panic.
WarmUp ==
  /\ pc = "warm"
  /\ pc' \in {"round", "unwind"}
  /\ UNCHANGED <<conf, machine, late, mask, place, gate, measure, thread, held,
                 suite, files, launch, moved>>

RoundsOver ==
  \/ Len(rounds) = conf.max
  \/ late = "wall"
  \/ late = "time" /\ Len(rounds) >= MinRounds

UnmovedThread == VerifyThread(place, MyMask)

Unmoved == Verify(place, boundary) /\ VerifyThread(place, MyMask)

\* What check_and_record_status answers: None when there is nothing fresh.
Clean ==
  IF ~conf.gate \/ sampler.seen = None THEN None
  ELSE IF ~sampler.seen.fresh THEN None ELSE ~sampler.seen.noisy

CheckGateStale == gate' = IF Clean = FALSE THEN [gate EXCEPT !.waits = @ + 1] ELSE gate

CheckGate ==
  gate' = IF ~conf.gate THEN gate
          ELSE IF Clean = None THEN [gate EXCEPT !.missing = TRUE]
          ELSE IF Clean THEN gate
          ELSE [gate EXCEPT !.waits = @ + 1]

BeginRound ==
  /\ pc = "round" /\ ~RoundsOver
  /\ IF Unmoved
       THEN /\ pc' = "sample" /\ CheckGate
            /\ round' = [clean |-> Clean, inside |-> boundary = place.effective]
            /\ left' = Bench
       ELSE /\ pc' = "unwind" /\ UNCHANGED <<gate, round, left>>
  /\ UNCHANGED <<conf, machine, late, mask, place, rounds, thread, held, suite,
                 files, launch, moved>>

\* The benchmarks of a round run in a random order.
RunBenchmark(b) ==
  /\ pc = "sample" /\ b \in left
  /\ left' = left \ {b}
  /\ pc' \in {"sample", "unwind"}
  /\ UNCHANGED <<conf, machine, late, mask, place, gate, rounds, round, thread,
                 held, suite, files, launch, moved>>

\* Auto-rounds may find that every pair has converged.
EndRound ==
  /\ pc = "sample" /\ left = {}
  /\ round' = None
  /\ IF Unmoved
       THEN /\ rounds' = Append(rounds, [round EXCEPT
                          !.inside = @ /\ boundary = place.effective])
            /\ pc' \in {"round"} \cup
                (IF AutoRounds /\ Len(rounds) + 1 >= MinRounds THEN {"end"} ELSE {})
       ELSE pc' = "unwind" /\ UNCHANGED rounds
  /\ UNCHANGED <<conf, machine, late, mask, place, gate, left, thread, held,
                 suite, files, launch, moved>>

EndRounds ==
  /\ pc = "round" /\ RoundsOver
  /\ pc' = "end"
  /\ UNCHANGED <<conf, machine, late, mask, place, gate, measure, thread, held,
                 suite, files, launch, moved>>

(***************************************************************************)
(* A group ends.                                                           *)
(***************************************************************************)

UnpinNothing == UNCHANGED mask

\* The group's scope is left, and with it the pin.
Unpin ==
  /\ asked' = IF found = {} THEN asked ELSE Restored(asked, found, boundary)
  /\ found' = {}

Unscoped == IF place = None THEN None
            ELSE [place EXCEPT !.threadAsked = None, !.threadEffective = None]

GateUnreliable == gate.missing \/ (Strict /\ gate.waits > MaxWaits)

EndGroup ==
  /\ pc = "end"
  /\ Unpin
  /\ place' = Unscoped
  /\ done' = Append(done, [rounds |-> rounds, late |-> late])
  /\ unreliable' = (unreliable \/ GateUnreliable)
  /\ pc' = "checkpoint"
  /\ UNCHANGED <<conf, machine, late, gate, measure, thread, held, group, files,
                 launch, moved>>

CheckpointOnly ==
  /\ pc = "checkpoint"
  /\ Saved("join", "partial")
  /\ UNCHANGED <<conf, machine, late, mask, place, gate, measure, thread, held,
                 suite, packet, child, launch, moved>>

\* The gate goes out of scope after the checkpoint, and joins its sampler.
Checkpoint ==
  /\ pc = "checkpoint"
  /\ Saved("join", "partial")
  /\ stop' = TRUE
  /\ UNCHANGED <<conf, machine, late, mask, place, gate, measure, sampler, held,
                 suite, packet, child, launch, moved>>

Join ==
  /\ pc = "join" /\ sampler.st \in {"none", "ended", "refused"}
  /\ sampler' = NoSampler
  /\ pc' = "next"
  /\ UNCHANGED <<conf, machine, late, mask, place, gate, measure, stop, held,
                 suite, files, launch, moved>>

(***************************************************************************)
(* The run ends.                                                           *)
(***************************************************************************)
Result == [groups |-> done, unreliable |-> unreliable, place |-> place]

Persist ==
  /\ pc = "next" /\ group = conf.groups
  /\ \/ /\ Verify(place, boundary)
        /\ packet' = (IF conf.saving THEN Result ELSE packet)
        /\ pc' = "retire"
     \/ /\ conf.saving \/ ~Verify(place, boundary)
        /\ pc' = "unwind" /\ UNCHANGED packet
  /\ UNCHANGED <<conf, machine, late, mask, place, gate, measure, thread, held,
                 suite, attempt, child, launch, moved>>

Retire ==
  /\ pc = "retire"
  /\ IF conf.saving
       THEN \/ attempt' = "none" /\ pc' = "return"
            \/ pc' = "unwind" /\ UNCHANGED attempt
       ELSE pc' = "return" /\ UNCHANGED attempt
  /\ UNCHANGED <<conf, machine, late, mask, place, gate, measure, thread, held,
                 suite, packet, child, launch, moved>>

Return ==
  /\ pc = "return"
  /\ \/ /\ child' = conf.subprocess /\ held' = {} /\ pc' = "done"
     \/ /\ conf.subprocess /\ pc' = "unwind" /\ UNCHANGED <<child, held>>
  /\ UNCHANGED <<conf, machine, late, mask, place, gate, measure, thread, suite,
                 attempt, packet, launch, moved>>

(***************************************************************************)
(* A panic unwinds: the pin first, then the gate with its sampler, then    *)
(* the lock and the reservation.                                           *)
(***************************************************************************)
Unwind ==
  /\ pc = "unwind"
  /\ Unpin /\ place' = Unscoped /\ stop' = TRUE
  /\ pc' = "unwinding"
  /\ UNCHANGED <<conf, machine, late, gate, measure, sampler, held, suite, files,
                 launch, moved>>

Unwound ==
  /\ pc = "unwinding" /\ sampler.st \in {"none", "ended", "refused"}
  /\ sampler' = NoSampler
  /\ held' = {} /\ pc' = "panicked"
  /\ UNCHANGED <<conf, machine, late, mask, place, gate, measure, stop, suite,
                 files, launch, moved>>

\* The supervisor's deadline, or a user: only the files remain.
Kill ==
  /\ pc \notin Terminal
  /\ pc' = "killed" /\ held' = {} /\ sampler' = NoSampler
  /\ late' = "no" /\ place' = None /\ gate' = NewGate /\ stop' = FALSE
  /\ rounds' = <<>> /\ round' = None /\ left' = {}
  /\ asked' = launch /\ found' = {}
  /\ UNCHANGED <<conf, machine, suite, files, launch, moved>>

(***************************************************************************)
(* The machine.                                                            *)
(***************************************************************************)
Change ==
  /\ pc \notin Terminal /\ changes < MaxChanges
  /\ changes' = changes + 1
  /\ \/ noisy' = ~noisy /\ UNCHANGED <<boundary, rivals, moved>>
     \/ rivals' = ~rivals /\ UNCHANGED <<boundary, noisy, moved>>
     \/ /\ boundary' \in Boundaries \ {boundary} /\ moved' = TRUE
        /\ UNCHANGED <<noisy, rivals>>
  /\ UNCHANGED <<conf, late, pc, mask, place, gate, measure, thread, held, suite,
                 files, launch>>

\* More than a second passes without an observation.
Age ==
  /\ sampler.st = "running" /\ sampler.seen # None
  /\ sampler' = [sampler EXCEPT !.seen.fresh = FALSE]
  /\ UNCHANGED <<conf, machine, late, pc, mask, place, gate, measure, stop, held,
                 suite, files, launch, moved>>

\* The measurement budget of a group runs out, or its wall time does.
RunLate ==
  /\ pc \in {"warm", "round", "sample"}
  /\ \/ late = "no" /\ late' = "time"
     \/ late # "wall" /\ late' = "wall"
  /\ UNCHANGED <<conf, machine, pc, mask, place, gate, measure, thread, held,
                 suite, files, launch, moved>>

Coordinator ==
  \/ Boot \/ Admit \/ TakeLock \/ RetainPending
  \/ BeginGroup \/ Scan \/ Spawn \/ Ready \/ EnterAffinity \/ WarmUp
  \/ BeginRound \/ (\E b \in Bench : RunBenchmark(b)) \/ EndRound \/ EndRounds
  \/ EndGroup \/ Checkpoint \/ Join
  \/ Persist \/ Retire \/ Return \/ Unwind \/ Unwound

Sampler == PinSampler \/ Sample \/ SamplerEnds
Machine == Kill \/ Change \/ Age \/ RunLate

Next == Coordinator \/ Sampler \/ Machine

\* Both threads are scheduled; nothing is assumed of the machine.
Spec == Init /\ [][Next]_vars /\ WF_vars(Coordinator) /\ WF_vars(Sampler)

(***************************************************************************)
(* Properties.                                                             *)
(***************************************************************************)

\* A confirmation that is published without the unreliable mark was quiet:
\* each retained round had a fresh observation of a clean machine, and the
\* lock, where one is configured, kept the other processes out.
ReliableIsQuiet ==
  packet # None /\ Confirming /\ ~packet.unreliable =>
    /\ \A g \in DOMAIN packet.groups :
         \A i \in DOMAIN packet.groups[g].rounds :
            packet.groups[g].rounds[i].clean = TRUE
    /\ pc \in {"retire", "return"} /\ conf.lockDir => "lock" \in held

\* Evidence that certifies one class of cores holds no round that began or
\* ended outside the certified boundary.
RoundsInsideBoundary ==
  packet # None /\ packet.place.status = "enforced_uniform" =>
    \A g \in DOMAIN packet.groups :
      \A i \in DOMAIN packet.groups[g].rounds : packet.groups[g].rounds[i].inside

\* The observer keeps to the mask that the process was launched with, and
\* off the pinned CPUs where the placement leaves it others.
ObserverKeepsOut ==
  sampler.st \in {"sampling", "running"} /\ ~moved =>
    LET cpus == CurrentAffinity(sampler.asked, boundary) IN
    /\ cpus \subseteq CurrentAffinity(launch, boundary)
    /\ sampler.pin # None => cpus \cap conf.pin = {}
    /\ sampler.pin = None => cpus = CurrentAffinity(launch, boundary)

\* However a run ends, no sampler is left and nobody is kept waiting; and its
\* thread mask is what it was, unless an administrator has moved the process:
\* the mask is restored from the one saved before the group
\* (platform/affinity.rs:190), and what the kernel makes of that one then is not
\* the run's doing.
NothingLeaks ==
  pc \in Terminal =>
    /\ sampler.st = "none" /\ held = {}
    /\ pc # "killed" /\ ~moved => MyMask = CurrentAffinity(launch, boundary)

\* From the first save on there is a file that tells of the attempt, whenever
\* the process is killed; and a child result only beside its evidence.
AttemptIsKept ==
  /\ conf.saving /\ (group > 0 \/ pc = "next") => attempt # "none" \/ packet # None
  /\ child /\ conf.saving => packet # None

\* A run ends, whatever the machine does.
RunEnds == <>(pc \in Terminal)

=============================================================================
