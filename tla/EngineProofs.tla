---------------------------- MODULE EngineProofs ----------------------------
(***************************************************************************)
(* What is proved of one benchmark process (Engine), for every set of      *)
(* configurations, boundaries, launch masks and benchmarks, every hardware *)
(* and every bound.                                                        *)
(*                                                                         *)
(* EngineInv says, of each place that the coordinator can be at, who holds *)
(* the thread mask (MaskInv), what the sampler is or will be kept to       *)
(* (SamplerInv), who is kept out (HeldInv), that the rounds of a certified *)
(* placement were inside its boundary (InsideInv), that those of a         *)
(* confirmation were quiet unless its gate tells (QuietInv), and which     *)
(* files there are (FilesInv).  The lemmas *Effects summarise what a step  *)
(* may do to a part of the state; each part of the invariant follows from  *)
(* the summaries that concern it.                                          *)
(***************************************************************************)
EXTENDS Engine, SequenceTheorems, TLAPS

\* The steps of the coordinator: what comes before the first save, the groups,
\* what comes after them, and the way out of a panic.
Early   == {"boot", "admit", "lock", "pending"}
Pinned  == {"warm", "round", "sample", "end"}
Groups  == Pinned \cup {"next", "scan", "spawn", "ready", "pin", "checkpoint", "join"}
Late    == {"retire", "return"}
Leaving == {"unwind", "unwinding"}
Placing == (Early \ {"boot"}) \cup Groups \cup Late

Round  == [clean : {TRUE, FALSE, None}, inside : BOOLEAN]
Group  == [rounds : Seq(Round), late : {"no", "time", "wall"}]
Packet == [groups : Seq(Group), unreliable : BOOLEAN, place : Place]
Thread ==
  [st : {"none", "starting", "sampling", "running", "refused", "ended"}, asked : SUBSET Cpu,
   pin : (SUBSET Cpu) \cup {None}, seen : [noisy : BOOLEAN, fresh : BOOLEAN] \cup {None}]

EngineTypeOK ==
  /\ conf \in Conf /\ boundary \in Boundaries
  /\ pc \in Early \cup Groups \cup Late \cup Leaving \cup Terminal
  /\ group \in Nat /\ late \in {"no", "time", "wall"}
MaskTypeOK    == asked \in SUBSET Cpu /\ found \in SUBSET Cpu /\ launch \in SUBSET Cpu
FlagTypeOK    == unreliable \in BOOLEAN /\ noisy \in BOOLEAN
SamplerTypeOK == sampler \in Thread
GateTypeOK    == gate \in [waits : Nat, missing : BOOLEAN]
PlaceTypeOK   == place \in Place \cup {None} /\ (pc \in Placing => place \in Place)
RoundTypeOK ==
  /\ rounds \in Seq(Round) /\ done \in Seq(Group)
  /\ pc = "sample" => round \in Round

\* While the boundary stays, the mask of the coordinator is the one it was
\* launched with, or a scope remembers it.
Kept == CurrentAffinity(launch, boundary)
MaskInv ==
  /\ found # {} => pc \in Pinned \cup {"unwind"}
  /\ ~moved => IF found = {} THEN MyMask = Kept ELSE found = Kept

\* Where no sampler is.
Alone == Early \cup {"next", "scan", "spawn"} \cup Late \cup Terminal

\* What a sampler is about to be, and is, kept to.
SamplerInv ==
  /\ pc \in Alone => sampler.st = "none"
  /\ sampler.st \in {"starting", "sampling", "running"} /\ ~moved =>
       LET cpus == CurrentAffinity(sampler.asked, boundary) IN
       /\ sampler.st = "starting" => cpus = Kept
       /\ sampler.pin = None => cpus = Kept
       /\ sampler.pin # None => sampler.pin \subseteq Kept /\ sampler.pin \cap conf.pin = {}
       /\ sampler.pin # None /\ sampler.st # "starting" =>
            sampler.asked = sampler.pin /\ cpus \subseteq sampler.pin

\* Who is kept out, and what a run without the lock has lost.
HeldInv ==
  /\ pc \in {"boot", "admit"} \cup Terminal => held = {}
  /\ pc \in {"pending"} \cup Groups \cup Late /\ conf.lockDir => "lock" \in held \/ unreliable

\* No round of a certified placement was outside.
Inside(rs) == \A i \in DOMAIN rs : rs[i].inside
InsideInv ==
  /\ pc \in Placing /\ place.status = "enforced_uniform" =>
       /\ Inside(rounds)
       /\ pc = "sample" => round.inside
       /\ \A g \in DOMAIN done : Inside(done[g].rounds)
  /\ pc \in Early => rounds = <<>> /\ done = <<>>
  /\ RoundsInsideBoundary

\* Either every round was quiet, or the gate of its group has told.
Quiet(rs) == \A i \in DOMAIN rs : rs[i].clean = TRUE
Told == gate.missing \/ gate.waits > 0
QuietInv ==
  /\ Confirming /\ pc \in Placing => conf.gate /\ conf.saving
  /\ Confirming /\ pc \in Groups =>
       /\ Quiet(rounds) \/ Told
       /\ pc = "sample" => round.clean = TRUE \/ Told
  /\ Confirming /\ pc \in Placing => (\A g \in DOMAIN done : Quiet(done[g].rounds)) \/ unreliable
  /\ packet # None => packet \in Packet
  /\ packet # None /\ Confirming /\ ~packet.unreliable =>
       \A g \in DOMAIN packet.groups : Quiet(packet.groups[g].rounds)
  /\ packet # None /\ pc \in Late => packet.unreliable = unreliable

\* The first save comes before the first group, and the checkpoint goes only
\* when the evidence is there.
FilesInv ==
  /\ pc \in Early => group = 0
  /\ pc \in Early \cup Groups => packet = None
  /\ conf.saving /\ (group > 0 \/ pc \in Groups \cup Late) => attempt # "none" \/ packet # None
  /\ conf.saving /\ pc \in Late \cup {"done"} => packet # None
  /\ child /\ conf.saving => packet # None

EngineInv ==
  /\ EngineTypeOK /\ MaskTypeOK /\ FlagTypeOK /\ SamplerTypeOK /\ GateTypeOK
  /\ PlaceTypeOK /\ RoundTypeOK
  /\ MaskInv /\ SamplerInv /\ HeldInv /\ InsideInv /\ QuietInv /\ FilesInv

(***************************************************************************)
(* Types.                                                                  *)
(***************************************************************************)

(* What becomes of the machine: the boundary moves or it does not.         *)
LEMMA MachineEffects ==
  ASSUME [Next]_vars
  PROVE  /\ UNCHANGED <<conf, launch>>
         /\ UNCHANGED <<boundary, moved>>
            \/ /\ boundary' \in Boundaries /\ moved' = TRUE
               /\ UNCHANGED <<pc, late, mask, place, gate, measure, thread, held, suite, files>>
<1> USE DEF machine, mask, measure, thread, files, suite
<1>1. CASE Boot \/ Admit \/ TakeLock \/ RetainPending \/ BeginGroup \/ Scan \/ Spawn \/ Ready
  BY <1>1, Zenon DEF Boot, Admit, TakeLock, RetainPending, BeginGroup, Scan, Spawn, Ready
<1>2. CASE EnterAffinity \/ WarmUp \/ BeginRound \/ EndRound \/ EndRounds \/ EndGroup
  BY <1>2, Zenon DEF EnterAffinity, WarmUp, BeginRound, EndRound, EndRounds, EndGroup
<1>3. ASSUME NEW b \in Bench, RunBenchmark(b) PROVE UNCHANGED <<conf, launch, boundary, moved>>
  BY <1>3, Zenon DEF RunBenchmark
<1>4. CASE Checkpoint \/ Join \/ Persist \/ Retire \/ Return \/ Unwind \/ Unwound
  BY <1>4, Zenon DEF Checkpoint, Join, Persist, Retire, Return, Unwind, Unwound
<1>5. CASE Sampler \/ Kill \/ Age \/ RunLate
  BY <1>5, Zenon DEF Sampler, PinSampler, Sample, SamplerEnds, Kill, Age, RunLate
<1>6. CASE Change  BY <1>6, Zenon DEF Change
<1>7. CASE UNCHANGED vars  BY <1>7, Zenon DEF vars
<1> QED
  BY <1>1, <1>2, <1>3, <1>4, <1>5, <1>6, <1>7, Zenon DEF Next, Coordinator, Machine

(* Where the coordinator goes from where it is.                            *)
LEMMA PcEffects ==
  ASSUME EngineTypeOK, [Next]_vars
  PROVE  /\ EngineTypeOK'
         /\ pc' \in Early => pc \in Early
         /\ pc' \in Groups /\ pc \notin Groups => pc = "pending" /\ pc' = "next"
         /\ pc' \in Late /\ pc \notin Late => pc = "next" /\ pc' = "retire"
         /\ pc' \in Placing /\ pc \notin Placing => pc = "boot" /\ pc' = "admit"
         /\ group' # group => pc = "next" /\ pc' \in {"scan", "unwind"}
         /\ pc' = "sample" => pc \in {"sample", "round"}
<1> USE EngineAssumption DEF EngineTypeOK, machine, mask, measure, thread, files, suite, Early, Groups,
                             Pinned, Late, Leaving, Terminal, Placing
<1>0. boundary' \in Boundaries /\ conf' \in Conf
  BY MachineEffects, Zenon
<1>1. CASE Boot  BY <1>0, <1>1, SMT DEF Boot
<1>2. CASE Admit  BY <1>0, <1>2, SMT DEF Admit
<1>3. CASE TakeLock  BY <1>0, <1>3, SMT DEF TakeLock
<1>4. CASE RetainPending  BY <1>0, <1>4, SMT DEF RetainPending, Saved
<1>5. CASE BeginGroup  BY <1>0, <1>5, SMT DEF BeginGroup
<1>6. CASE Scan  BY <1>0, <1>6, SMT DEF Scan
<1>7. CASE Spawn  BY <1>0, <1>7, SMT DEF Spawn
<1>8. CASE Ready  BY <1>0, <1>8, SMT DEF Ready
<1>9. CASE EnterAffinity  BY <1>0, <1>9, SMT DEF EnterAffinity
<1>10. CASE WarmUp  BY <1>0, <1>10, SMT DEF WarmUp
<1>11. CASE BeginRound  BY <1>0, <1>11, SMT DEF BeginRound
<1>12. CASE \E b \in Bench : RunBenchmark(b)  BY <1>0, <1>12, SMT DEF RunBenchmark
<1>13. CASE EndRound  BY <1>0, <1>13, SMT DEF EndRound
<1>14. CASE EndRounds  BY <1>0, <1>14, SMT DEF EndRounds
<1>15. CASE EndGroup  BY <1>0, <1>15, SMT DEF EndGroup
<1>16. CASE Checkpoint  BY <1>0, <1>16, SMT DEF Checkpoint, Saved
<1>17. CASE Join  BY <1>0, <1>17, SMT DEF Join
<1>18. CASE Persist  BY <1>0, <1>18, SMT DEF Persist
<1>19. CASE Retire  BY <1>0, <1>19, SMT DEF Retire
<1>20. CASE Return  BY <1>0, <1>20, SMT DEF Return
<1>21. CASE Unwind  BY <1>0, <1>21, SMT DEF Unwind
<1>22. CASE Unwound  BY <1>0, <1>22, SMT DEF Unwound
<1>23. CASE Sampler  BY <1>0, <1>23, SMT DEF Sampler, PinSampler, Sample, SamplerEnds
<1>24. CASE Kill  BY <1>0, <1>24, SMT DEF Kill
<1>25. CASE Change \/ Age  BY <1>0, <1>25, SMT DEF Change, Age
<1>26. CASE RunLate  BY <1>0, <1>26, SMT DEF RunLate
<1>27. CASE UNCHANGED vars  BY <1>0, <1>27, SMT DEF vars
<1> QED
  BY <1>1, <1>2, <1>3, <1>4, <1>5, <1>6, <1>7, <1>8, <1>9, <1>10, <1>11, <1>12, <1>13, <1>14, <1>15,
     <1>16, <1>17, <1>18, <1>19, <1>20, <1>21, <1>22, <1>23, <1>24, <1>25, <1>26, <1>27, Zenon
     DEF Next, Coordinator, Machine

(* Who changes the mask: a scope that is entered, one that is left, and    *)
(* the end of the process.                                                 *)
LEMMA MaskEffects ==
  ASSUME EngineTypeOK, [Next]_vars
  PROVE  \/ UNCHANGED mask /\ (pc \in Pinned \cup {"unwind"} /\ pc' \notin Pinned \cup {"unwind"}
                               => pc' = "killed" /\ found' = {})
         \/ /\ pc = "pin" /\ pc' = "warm" /\ conf.pin \in SUBSET Cpu
            /\ found' = MyMask /\ asked' = conf.pin
         \/ Unpin /\ UNCHANGED <<boundary, moved>>
         \/ asked' = launch /\ found' = {} /\ UNCHANGED <<boundary, moved>>
<1> USE DEF machine, mask, measure, thread, files, suite
<1> DEFINE In == pc \in Pinned \cup {"unwind"}
<1>1. CASE Boot \/ Admit \/ TakeLock \/ BeginGroup \/ Scan \/ Spawn \/ Ready
  <2>1. UNCHANGED mask
    BY <1>1, Zenon DEF Boot, Admit, TakeLock, BeginGroup, Scan, Spawn, Ready
  <2>2. ~In
    BY <1>1, SMT DEF Boot, Admit, TakeLock, BeginGroup, Scan, Spawn, Ready, Pinned
  <2> QED  BY <2>1, <2>2
<1>2. CASE RetainPending \/ Checkpoint \/ Join \/ Persist \/ Retire \/ Return \/ Unwound
  <2>1. UNCHANGED mask
    BY <1>2, Zenon DEF RetainPending, Checkpoint, Join, Persist, Retire, Return, Unwound
  <2>2. ~In
    BY <1>2, SMT DEF RetainPending, Checkpoint, Join, Persist, Retire, Return, Unwound, Pinned
  <2> QED  BY <2>1, <2>2
<1>3. CASE EnterAffinity
  <2>1. pc = "pin"  BY <1>3 DEF EnterAffinity
  <2>2. ~In  BY <2>1, SMT DEF Pinned
  <2>3. conf.pin # None => conf.pin \in SUBSET Cpu
    <3>1. conf.pin \in (SUBSET Cpu) \cup {None}  BY EngineAssumption, Zenon DEF EngineTypeOK
    <3> QED  BY <3>1
  <2> QED  BY <1>3, <2>1, <2>2, <2>3, Zenon DEF EnterAffinity
<1>4. CASE WarmUp \/ BeginRound \/ EndRound \/ EndRounds \/ \E b \in Bench : RunBenchmark(b)
  <2>1. UNCHANGED mask
    BY <1>4, Zenon DEF WarmUp, BeginRound, EndRound, EndRounds, RunBenchmark
  <2>2. pc' \in Pinned \cup {"unwind"}
    BY <1>4, SMT DEF WarmUp, BeginRound, EndRound, EndRounds, RunBenchmark, Pinned
  <2> QED  BY <2>1, <2>2
<1>5. CASE EndGroup \/ Unwind  BY <1>5, Zenon DEF EndGroup, Unwind
<1>6. CASE Sampler \/ Change \/ Age \/ RunLate
  <2>1. UNCHANGED <<mask, pc>>
    BY <1>6, Zenon DEF Sampler, PinSampler, Sample, SamplerEnds, Change, Age, RunLate
  <2> QED  BY <2>1
<1>7. CASE Kill  BY <1>7, Zenon DEF Kill
<1>8. CASE UNCHANGED vars  BY <1>8, Zenon DEF vars
<1> QED
  BY <1>1, <1>2, <1>3, <1>4, <1>5, <1>6, <1>7, <1>8, Zenon DEF Next, Coordinator, Machine

\* A thread always has a CPU, and has those of its mask that it may have.
LEMMA Affinity ==
  ASSUME NEW a \in SUBSET Cpu, NEW b \in Mask
  PROVE  /\ CurrentAffinity(a, b) \subseteq b /\ CurrentAffinity(a, b) # {}
         /\ CurrentAffinity(a, b) \in SUBSET Cpu
         /\ CurrentAffinity(CurrentAffinity(a, b), b) = CurrentAffinity(a, b)
         /\ CurrentAffinity(a, b) \cap b = CurrentAffinity(a, b)
<1>0. b \in SUBSET Cpu /\ b # {} /\ b \cap b = b
  <2>1. b \cap b = b  OBVIOUS
  <2> QED  BY <2>1, SMT DEF Mask
<1>1. CASE a \cap b = {}
  <2>1. CurrentAffinity(a, b) = b /\ CurrentAffinity(b, b) = b
    BY <1>0, <1>1, Zenon DEF CurrentAffinity
  <2> QED  BY <1>0, <2>1, Zenon
<1>2. CASE a \cap b # {}
  <2>1. (a \cap b) \cap b = a \cap b /\ a \cap b \in SUBSET Cpu /\ a \cap b \subseteq b
    BY <1>0, SMT
  <2>2. CurrentAffinity(a, b) = a \cap b /\ CurrentAffinity(a \cap b, b) = a \cap b
    BY <1>2, <2>1, Zenon DEF CurrentAffinity
  <2> QED  BY <1>2, <2>1, <2>2, Zenon
<1> QED  BY <1>1, <1>2

(* Leaving a scope gives back what entering it found.                      *)
LEMMA MaskStep ==
  ASSUME EngineTypeOK, MaskTypeOK, MaskInv, [Next]_vars
  PROVE  MaskTypeOK' /\ MaskInv'
<1>0. boundary \in Mask /\ boundary' \in Mask
  BY PcEffects, EngineAssumption, SMT DEF EngineTypeOK
<1>1. MyMask \in SUBSET Cpu /\ MyMask # {} /\ Kept \in SUBSET Cpu /\ Kept # {}
      /\ Kept \cap boundary = Kept /\ CurrentAffinity(Kept, boundary) = Kept
  BY <1>0, Affinity, Zenon DEF MyMask, Kept, MaskTypeOK
<1>2. launch' = launch  BY MachineEffects, Zenon
<1>3. MaskTypeOK'
  <2>1. CASE Unpin
    BY <1>2, <2>1, SMT DEF Unpin, Restored, MaskTypeOK
  <2> QED  BY <1>1, <1>2, <2>1, MaskEffects, SMT DEF MaskTypeOK, mask
<1>4. found' # {} => pc' \in Pinned \cup {"unwind"}
  <2>1. CASE UNCHANGED mask /\ (pc \in Pinned \cup {"unwind"} /\ pc' \notin Pinned \cup {"unwind"}
                               => pc' = "killed" /\ found' = {})
    BY <2>1, Zenon DEF MaskInv, mask
  <2>2. CASE pc' = "warm"  BY <2>2, SMT DEF Pinned
  <2>3. CASE Unpin  BY <2>3 DEF Unpin
  <2> QED  BY <2>1, <2>2, <2>3, MaskEffects, Zenon
<1>5. ASSUME ~moved'
      PROVE  IF found' = {} THEN MyMask' = Kept' ELSE found' = Kept'
  <2>1. UNCHANGED <<boundary, moved>> /\ ~moved
    <3>1. CASE UNCHANGED <<boundary, moved>>  BY <1>5, <3>1
    <3>2. CASE moved' = TRUE  BY <1>5, <3>2
    <3> QED  BY <3>1, <3>2, MachineEffects, Zenon
  <2>2. Kept' = Kept  BY <1>2, <2>1 DEF Kept
  <2>3. IF found = {} THEN MyMask = Kept ELSE found = Kept
    BY <2>1, Zenon DEF MaskInv
  <2>4. CASE UNCHANGED mask
    BY <2>1, <2>2, <2>3, <2>4, Zenon DEF mask, MyMask
  <2>5. CASE pc = "pin" /\ found' = MyMask
    <3>1. found = {}  BY <2>5, SMT DEF MaskInv, Pinned
    <3> QED  BY <1>1, <2>2, <2>3, <2>5, <3>1, Zenon
  <2>6. CASE Unpin
    <3>1. CASE found = {}
      BY <2>1, <2>2, <2>3, <2>6, <3>1, Zenon DEF Unpin, MyMask
    <3>2. CASE found # {}
      <4>1. found = Kept  BY <2>3, <3>2
      <4>2. asked' = Kept  BY <1>1, <2>6, <3>2, <4>1, Zenon DEF Unpin, Restored
      <4>3. MyMask' = Kept  BY <1>1, <2>1, <4>2, Zenon DEF MyMask
      <4> QED  BY <2>2, <2>6, <4>3, Zenon DEF Unpin
    <3> QED  BY <3>1, <3>2
  <2>7. CASE asked' = launch /\ found' = {}
    BY <1>2, <2>1, <2>2, <2>7, Zenon DEF MyMask, Kept
  <2> QED  BY <2>4, <2>5, <2>6, <2>7, MaskEffects, Zenon
<1> QED  BY <1>3, <1>4, <1>5, Zenon DEF MaskInv

(* Who changes the sampler: the coordinator that starts and joins it, and  *)
(* the thread itself.                                                      *)
Started == /\ pc = "spawn" /\ pc' = "ready"
           /\ sampler' = [st |-> "starting", asked |-> asked, pin |-> Observer, seen |-> None]
ThreadPins ==
  /\ sampler.st = "starting"
  /\ \/ sampler.pin = None /\ sampler' = [sampler EXCEPT !.st = "sampling"]
     \/ /\ sampler.pin # None /\ PinApplies(sampler.pin, boundary)
        /\ sampler' = [sampler EXCEPT !.st = "sampling", !.asked = sampler.pin]
     \/ sampler' = [sampler EXCEPT !.st = "refused"]
ThreadSees ==
  /\ sampler.st \in {"sampling", "running"}
  /\ \/ \E seen \in [noisy : BOOLEAN, fresh : BOOLEAN] :
          sampler' = [sampler EXCEPT !.st = "running", !.seen = seen]
     \/ sampler' = [sampler EXCEPT !.st = "ended"]
ThreadAges ==
  /\ sampler.st = "running" /\ sampler.seen # None
  /\ sampler' = [sampler EXCEPT !.seen.fresh = FALSE]
Joined == sampler' = NoSampler

(* These are all.                                                          *)
LEMMA SamplerEffects ==
  ASSUME EngineTypeOK, FlagTypeOK, [Next]_vars
  PROVE  \/ UNCHANGED sampler /\ (pc' \in Alone => pc \in Alone)
         \/ /\ UNCHANGED <<boundary, moved>>
            /\ Started \/ Joined \/ (UNCHANGED pc /\ (ThreadPins \/ ThreadSees \/ ThreadAges))
<1> USE DEF machine, mask, measure, thread, files, suite
<1> DEFINE Idle == UNCHANGED sampler /\ (pc' \in Alone => pc \in Alone)
<1>1. CASE Boot \/ Admit \/ TakeLock \/ BeginGroup \/ Scan
  <2>1. UNCHANGED sampler  BY <1>1, Zenon DEF Boot, Admit, TakeLock, BeginGroup, Scan
  <2>2. pc \in Alone
    BY <1>1, SMT DEF Boot, Admit, TakeLock, BeginGroup, Scan, Alone, Early
  <2> QED  BY <2>1, <2>2
<1>2. CASE RetainPending \/ Persist \/ Retire \/ Return
  <2>1. UNCHANGED sampler  BY <1>2, Zenon DEF RetainPending, Persist, Retire, Return
  <2>2. pc \in Alone
    BY <1>2, SMT DEF RetainPending, Persist, Retire, Return, Alone, Early, Late
  <2> QED  BY <2>1, <2>2
<1>3. CASE Spawn
  <2>1. pc \in Alone  BY <1>3, SMT DEF Spawn, Alone
  <2> QED  BY <1>3, <2>1, Zenon DEF Spawn, Started
<1>4. CASE Ready \/ EnterAffinity \/ WarmUp \/ BeginRound \/ EndRound \/ EndRounds \/ EndGroup
  <2>1. UNCHANGED sampler
    BY <1>4, Zenon DEF Ready, EnterAffinity, WarmUp, BeginRound, EndRound, EndRounds, EndGroup
  <2>2. pc' \notin Alone
    BY <1>4, SMT DEF Ready, EnterAffinity, WarmUp, BeginRound, EndRound, EndRounds, EndGroup,
       Alone, Early, Late, Terminal
  <2> QED  BY <2>1, <2>2
<1>5. CASE Checkpoint \/ Unwind \/ \E b \in Bench : RunBenchmark(b)
  <2>1. UNCHANGED sampler  BY <1>5, Zenon DEF Checkpoint, Unwind, RunBenchmark
  <2>2. pc' \notin Alone
    BY <1>5, SMT DEF Checkpoint, Saved, Unwind, RunBenchmark, Alone, Early, Late, Terminal
  <2> QED  BY <2>1, <2>2
<1>6. CASE Join \/ Unwound \/ Kill  BY <1>6, Zenon DEF Join, Unwound, Kill, Joined
<1>7. CASE PinSampler  BY <1>7, Zenon DEF PinSampler, ThreadPins
<1>8. CASE Sample
  <2>1. Observation \in [noisy : BOOLEAN, fresh : BOOLEAN]
    BY Zenon DEF Observation, FlagTypeOK
  <2> QED  BY <1>8, <2>1, Zenon DEF Sample, ThreadSees
<1>9. CASE SamplerEnds  BY <1>9, Zenon DEF SamplerEnds, ThreadSees
<1>10. CASE Age  BY <1>10, Zenon DEF Age, ThreadAges
<1>11. CASE Change \/ RunLate
  <2>1. UNCHANGED <<sampler, pc>>  BY <1>11, Zenon DEF Change, RunLate
  <2> QED  BY <2>1
<1>12. CASE UNCHANGED vars  BY <1>12, Zenon DEF vars
<1> QED
  BY <1>1, <1>2, <1>3, <1>4, <1>5, <1>6, <1>7, <1>8, <1>9, <1>10, <1>11, <1>12, Zenon
     DEF Next, Coordinator, Sampler, Machine

(* The sampler's record is one, and it stays within what it was given.     *)
LEMMA SamplerStep ==
  ASSUME EngineTypeOK, MaskTypeOK, FlagTypeOK, SamplerTypeOK, MaskInv, SamplerInv, [Next]_vars
  PROVE  SamplerTypeOK' /\ SamplerInv'
<1>0. boundary \in Mask /\ boundary' \in Mask
  BY PcEffects, EngineAssumption, SMT DEF EngineTypeOK
<1>1. /\ MyMask \in SUBSET Cpu /\ Kept \in SUBSET Cpu
      /\ CurrentAffinity(Kept, boundary) = Kept
  BY <1>0, Affinity, Zenon DEF MyMask, Kept, MaskTypeOK
<1>2. Observer = None \/ (Observer \in SUBSET MyMask /\ Observer \cap conf.pin = {})
  BY SMT DEF Observer, SelectObserver
<1>3. SamplerTypeOK'
  <2> USE DEF SamplerTypeOK
  <2>1. CASE Started
    <3>1. asked \in SUBSET Cpu /\ Observer \in (SUBSET Cpu) \cup {None}
      BY <1>1, <1>2, SMT DEF MaskTypeOK
    <3> HIDE DEF Observer
    <3> QED  BY <2>1, <3>1, SMT DEF Started, Thread
  <2>2. CASE ThreadPins
    <3>1. CASE sampler' = [sampler EXCEPT !.st = "sampling"]  BY <3>1, SMT DEF Thread
    <3>2. CASE sampler' = [sampler EXCEPT !.st = "refused"]  BY <3>2, SMT DEF Thread
    <3>3. CASE sampler.pin # None /\ sampler' = [sampler EXCEPT !.st = "sampling", !.asked = sampler.pin]
      <4>1. sampler.pin \in SUBSET Cpu  BY <3>3, SMT DEF Thread
      <4> DEFINE q == [sampler EXCEPT !.st = "sampling"]
      <4>2. q \in Thread  BY SMT DEF Thread
      <4>3. sampler' = [q EXCEPT !.asked = sampler.pin]  BY <3>3, SMT DEF Thread
      <4> HIDE DEF q
      <4> QED  BY <4>1, <4>2, <4>3, SMT DEF Thread
    <3> QED  BY <2>2, <3>1, <3>2, <3>3, Zenon DEF ThreadPins
  <2>3. CASE ThreadSees
    <3>1. ASSUME NEW seen \in [noisy : BOOLEAN, fresh : BOOLEAN],
                 sampler' = [sampler EXCEPT !.st = "running", !.seen = seen]
          PROVE  sampler' \in Thread
      <4>1. \A x : x \in [noisy : BOOLEAN, fresh : BOOLEAN] =>
                   x \in [noisy : BOOLEAN, fresh : BOOLEAN] \cup {None}
        OBVIOUS
      <4> DEFINE q == [sampler EXCEPT !.st = "running"]
      <4>2. q \in Thread  BY SMT DEF Thread
      <4>3. sampler' = [q EXCEPT !.seen = seen]  BY <3>1, SMT DEF Thread
      <4> HIDE DEF q
      <4> QED  BY <4>1, <4>2, <4>3, Zenon DEF Thread
    <3>2. CASE sampler' = [sampler EXCEPT !.st = "ended"]  BY <3>2, SMT DEF Thread
    <3> QED  BY <2>3, <3>1, <3>2, Zenon DEF ThreadSees
  <2>4. CASE ThreadAges
    <3>1. sampler.seen \in [noisy : BOOLEAN, fresh : BOOLEAN]
      BY <2>4, Zenon DEF ThreadAges, Thread
    <3> DEFINE seen == [sampler.seen EXCEPT !.fresh = FALSE]
    <3>2. seen \in [noisy : BOOLEAN, fresh : BOOLEAN]  BY <3>1, Zenon
    <3>3. sampler' = [sampler EXCEPT !.seen = seen]  BY <2>4, Zenon DEF ThreadAges
    <3> HIDE DEF seen
    <3>4. seen \in [noisy : BOOLEAN, fresh : BOOLEAN] \cup {None}  BY <3>2, Zenon
    <3> QED  BY <3>3, <3>4, Zenon DEF Thread
  <2>5. CASE Joined  BY <2>5, SMT DEF Joined, NoSampler, Thread
  <2>6. CASE UNCHANGED sampler  BY <2>6
  <2> QED  BY <2>1, <2>2, <2>3, <2>4, <2>5, <2>6, SamplerEffects, Zenon
<1>4. pc' \in Alone => sampler'.st = "none"
  <2>0. pc \in Alone => sampler.st = "none"  BY Zenon DEF SamplerInv
  <2>1. CASE Started  BY <2>1, SMT DEF Started, Alone, Early, Late, Terminal
  <2>2. CASE UNCHANGED pc /\ (ThreadPins \/ ThreadSees \/ ThreadAges)
    <3>1. sampler.st = "starting" \/ sampler.st \in {"sampling", "running"} \/ sampler.st = "running"
      BY <2>2, Zenon DEF ThreadPins, ThreadSees, ThreadAges
    <3>2. sampler.st # "none"  BY <3>1, SMT
    <3> QED  BY <2>0, <2>2, <3>2
  <2>3. CASE Joined  BY <2>3, SMT DEF Joined, NoSampler
  <2> QED  BY <2>0, <2>1, <2>2, <2>3, SamplerEffects, Zenon
<1> DEFINE Fits ==
      LET cpus == CurrentAffinity(sampler.asked, boundary) IN
       /\ sampler.st = "starting" => cpus = Kept
       /\ sampler.pin = None => cpus = Kept
       /\ sampler.pin # None => sampler.pin \subseteq Kept /\ sampler.pin \cap conf.pin = {}
       /\ sampler.pin # None /\ sampler.st # "starting" =>
            sampler.asked = sampler.pin /\ cpus \subseteq sampler.pin
<1>5. ASSUME sampler'.st \in {"starting", "sampling", "running"}, ~moved'
      PROVE  Fits'
  <2>1. UNCHANGED <<boundary, moved>> /\ ~moved
    <3>1. CASE UNCHANGED <<boundary, moved>>  BY <1>5, <3>1
    <3>2. CASE moved' = TRUE  BY <1>5, <3>2
    <3> QED  BY <3>1, <3>2, MachineEffects, Zenon
  <2>2. UNCHANGED <<conf, launch>>  BY MachineEffects, Zenon
  <2>3. Kept' = Kept  BY <2>1, <2>2 DEF Kept
  <2>4. sampler.st \in {"starting", "sampling", "running"} => Fits
    BY <2>1, Zenon DEF SamplerInv
  <2>5. CASE UNCHANGED sampler
    BY <1>5, <2>1, <2>2, <2>3, <2>4, <2>5, Zenon
  <2>6. CASE Started
    <3>1. found = {}  BY <2>6, SMT DEF Started, MaskInv, Pinned
    <3>2. MyMask = Kept  BY <2>1, <3>1, Zenon DEF MaskInv
    <3>3. /\ sampler'.st = "starting" /\ sampler'.asked = asked /\ sampler'.pin = Observer
      BY <2>6, Zenon DEF Started
    <3>4. CurrentAffinity(sampler'.asked, boundary') = Kept'
      BY <2>1, <2>3, <3>2, <3>3, Zenon DEF MyMask
    <3>5. Observer # None => Observer \subseteq Kept /\ Observer \cap conf.pin = {}
      BY <1>2, <3>2, SMT
    <3> QED  BY <2>2, <2>3, <3>3, <3>4, <3>5, Zenon
  <2>7. CASE ThreadPins
    <3>0. Fits /\ CurrentAffinity(sampler.asked, boundary) = Kept
      BY <2>4, <2>7, Zenon DEF ThreadPins
    <3>1. CASE sampler.pin = None /\ sampler' = [sampler EXCEPT !.st = "sampling"]
      <4>1. sampler'.asked = sampler.asked /\ sampler'.pin = None /\ sampler'.st = "sampling"
        BY <3>1, SMT DEF SamplerTypeOK, Thread
      <4> QED  BY <2>1, <2>3, <3>0, <4>1, Zenon
    <3>2. CASE /\ sampler.pin # None /\ PinApplies(sampler.pin, boundary)
               /\ sampler' = [sampler EXCEPT !.st = "sampling", !.asked = sampler.pin]
      <4>1. /\ sampler'.asked = sampler.pin /\ sampler'.pin = sampler.pin
            /\ sampler'.st = "sampling"
        BY <3>2, SMT DEF SamplerTypeOK, Thread
      <4>2. sampler.pin \cap boundary = sampler.pin /\ sampler.pin # {}
        BY <3>2, SMT DEF PinApplies
      <4>3. CurrentAffinity(sampler.pin, boundary) = sampler.pin
        BY <4>2, Zenon DEF CurrentAffinity
      <4>4. CurrentAffinity(sampler'.asked, boundary') \subseteq sampler'.pin
        BY <2>1, <4>1, <4>3
      <4>5. sampler'.pin \subseteq Kept' /\ sampler'.pin \cap conf'.pin = {}
        BY <2>2, <2>3, <3>0, <3>2, <4>1, Zenon
      <4>6. sampler'.st # "starting" /\ sampler'.pin # None  BY <3>2, <4>1
      <4> QED  BY <4>1, <4>4, <4>5, <4>6, Zenon
    <3>3. sampler' # [sampler EXCEPT !.st = "refused"]
      BY <1>5, SMT DEF SamplerTypeOK, Thread
    <3> QED  BY <2>7, <3>1, <3>2, <3>3, Zenon DEF ThreadPins
  <2>8. CASE ThreadSees \/ ThreadAges
    <3>1. sampler'.asked = sampler.asked /\ sampler'.pin = sampler.pin
          /\ sampler.st \in {"sampling", "running"} /\ sampler'.st # "starting"
      <4>1. CASE ThreadAges
        <5>1. /\ sampler'.asked = sampler.asked /\ sampler'.pin = sampler.pin
              /\ sampler'.st = sampler.st /\ sampler.st = "running"
          BY <4>1, Zenon DEF ThreadAges, SamplerTypeOK, Thread
        <5> QED  BY <5>1
      <4>2. CASE ThreadSees
        <5>1. ASSUME NEW seen, sampler' = [sampler EXCEPT !.st = "running", !.seen = seen]
              PROVE  /\ sampler'.asked = sampler.asked /\ sampler'.pin = sampler.pin
                     /\ sampler'.st = "running"
          BY <5>1, Zenon DEF SamplerTypeOK, Thread
        <5>2. sampler' # [sampler EXCEPT !.st = "ended"]
          BY <1>5, SMT DEF SamplerTypeOK, Thread
        <5>3. sampler.st \in {"sampling", "running"}  BY <4>2 DEF ThreadSees
        <5>4. PICK seen : sampler' = [sampler EXCEPT !.st = "running", !.seen = seen]
          BY <4>2, <5>2, Zenon DEF ThreadSees
        <5>5. /\ sampler'.asked = sampler.asked /\ sampler'.pin = sampler.pin
              /\ sampler'.st = "running"
          BY <5>1, <5>4
        <5> QED  BY <5>3, <5>5
      <4> QED  BY <2>8, <4>1, <4>2
    <3>2. Fits /\ sampler.st # "starting"  BY <2>4, <3>1, SMT
    <3> QED  BY <2>1, <2>2, <2>3, <3>1, <3>2, Zenon
  <2>9. CASE Joined  BY <1>5, <2>9, SMT DEF Joined, NoSampler
  <2> QED  BY <2>5, <2>6, <2>7, <2>8, <2>9, SamplerEffects, Zenon
<1> QED  BY <1>3, <1>4, <1>5, Zenon DEF SamplerInv

\* From where on the run has the lock, or has gone on without it.
Locked == {"pending"} \cup Groups \cup Late

(* Nobody is kept out before the reservation nor after the end; a run that *)
(* went on without the lock it is configured with is not reliable.         *)
LEMMA HeldStep ==
  ASSUME EngineTypeOK, FlagTypeOK, HeldInv, [Next]_vars
  PROVE  HeldInv' /\ FlagTypeOK' /\ (unreliable => unreliable')
<1> USE DEF machine, mask, measure, thread, files, suite
<1> DEFINE Open == {"boot", "admit"} \cup Terminal
           Same == /\ UNCHANGED held /\ unreliable' = unreliable /\ (pc' \in Open => pc \in Open)
                   /\ (pc' \in Locked => pc \in Locked)
           More == /\ UNCHANGED held /\ pc' \notin Open /\ (pc' \in Locked => pc \in Locked)
                   /\ unreliable' = (unreliable \/ GateUnreliable)
           Reserved == held' = held \cup {"admission"} /\ pc' = "lock" /\ unreliable' = unreliable
           Locks == /\ pc' = "pending"
                    /\ (unreliable' = TRUE \/ unreliable' = unreliable)
                    /\ conf.lockDir => held' = held \cup {"lock"} \/ unreliable' = TRUE
           Freed == held' = {} /\ pc' \in Terminal /\ unreliable' = unreliable
<1>1. Same \/ More \/ Reserved \/ Locks \/ Freed
  <2>1. CASE Boot
    <3>1. UNCHANGED <<held, unreliable>>  BY <2>1, Zenon DEF Boot
    <3>2. pc \in Open /\ pc' \notin Locked
      BY <2>1, SMT DEF Boot, Locked, Groups, Pinned, Late
    <3> QED  BY <3>1, <3>2
  <2>2. CASE Admit
    <3>1. pc \in Open  BY <2>2, SMT DEF Admit
    <3>2. pc' = "refused" => pc' \notin Locked  BY SMT DEF Locked, Groups, Pinned, Late
    <3> QED  BY <2>2, <3>1, <3>2, Zenon DEF Admit
  <2>3. CASE TakeLock  BY <2>3, Zenon DEF TakeLock
  <2>4. CASE RetainPending \/ BeginGroup \/ Scan \/ Spawn \/ Ready \/ EnterAffinity \/ WarmUp
    <3>1. UNCHANGED <<held, unreliable>>
      BY <2>4, Zenon DEF RetainPending, BeginGroup, Scan, Spawn, Ready, EnterAffinity, WarmUp
    <3>2. pc \in Locked /\ pc' \notin Open
      BY <2>4, SMT DEF RetainPending, Saved, BeginGroup, Scan, Spawn, Ready, EnterAffinity, WarmUp,
         Locked, Groups, Pinned, Terminal
    <3> QED  BY <3>1, <3>2
  <2>5. CASE BeginRound \/ EndRound \/ EndRounds \/ Checkpoint \/ \E b \in Bench : RunBenchmark(b)
    <3>1. UNCHANGED <<held, unreliable>>
      BY <2>5, Zenon DEF BeginRound, EndRound, EndRounds, Checkpoint, RunBenchmark
    <3>2. pc \in Locked /\ pc' \notin Open
      BY <2>5, SMT DEF BeginRound, EndRound, EndRounds, Checkpoint, Saved, RunBenchmark,
         Locked, Groups, Pinned, Terminal
    <3> QED  BY <3>1, <3>2
  <2>6. CASE Join \/ Persist \/ Retire
    <3>1. UNCHANGED <<held, unreliable>>  BY <2>6, Zenon DEF Join, Persist, Retire
    <3>2. pc \in Locked /\ pc' \notin Open
      BY <2>6, SMT DEF Join, Persist, Retire, Locked, Groups, Late, Terminal
    <3> QED  BY <3>1, <3>2
  <2>7. CASE EndGroup
    <3>1. UNCHANGED held /\ unreliable' = (unreliable \/ GateUnreliable)
      BY <2>7, Zenon DEF EndGroup
    <3>2. pc \in Locked /\ pc' \notin Open
      BY <2>7, SMT DEF EndGroup, Locked, Groups, Pinned, Terminal
    <3> QED  BY <3>1, <3>2
  <2>8. CASE Return
    <3>1. pc \in Locked  BY <2>8, SMT DEF Return, Locked, Late
    <3>2. "done" \in Terminal /\ "unwind" \notin Open  BY SMT DEF Terminal
    <3> QED  BY <2>8, <3>1, <3>2, Zenon DEF Return
  <2>9. CASE Unwind
    <3>1. UNCHANGED <<held, unreliable>>  BY <2>9, Zenon DEF Unwind
    <3>2. pc' \notin Open /\ pc' \notin Locked
      BY <2>9, SMT DEF Unwind, Locked, Groups, Pinned, Late, Terminal
    <3> QED  BY <3>1, <3>2
  <2>10. CASE Unwound \/ Kill
    <3>1. held' = {} /\ unreliable' = unreliable  BY <2>10, Zenon DEF Unwound, Kill
    <3>2. pc' \in Terminal  BY <2>10, SMT DEF Unwound, Kill, Terminal
    <3> QED  BY <3>1, <3>2
  <2>11. CASE Sampler \/ Change \/ Age \/ RunLate
    <3>1. UNCHANGED <<held, unreliable, pc>>
      BY <2>11, Zenon DEF Sampler, PinSampler, Sample, SamplerEnds, Change, Age, RunLate
    <3> QED  BY <3>1
  <2>12. CASE UNCHANGED vars  BY <2>12, Zenon DEF vars
  <2> QED
    BY <2>1, <2>2, <2>3, <2>4, <2>5, <2>6, <2>7, <2>8, <2>9, <2>10, <2>11, <2>12, Zenon
       DEF Next, Coordinator, Machine
<1>2. noisy' \in BOOLEAN
  <2>1. noisy' = noisy \/ noisy' = ~noisy
    <3>1. CASE Boot \/ Admit \/ TakeLock \/ RetainPending \/ BeginGroup \/ Scan \/ Spawn \/ Ready
      BY <3>1, Zenon DEF Boot, Admit, TakeLock, RetainPending, BeginGroup, Scan, Spawn, Ready
    <3>2. CASE EnterAffinity \/ WarmUp \/ BeginRound \/ EndRound \/ EndRounds \/ EndGroup
      BY <3>2, Zenon DEF EnterAffinity, WarmUp, BeginRound, EndRound, EndRounds, EndGroup
    <3>3. CASE \E b \in Bench : RunBenchmark(b)  BY <3>3, Zenon DEF RunBenchmark
    <3>4. CASE Checkpoint \/ Join \/ Persist \/ Retire \/ Return \/ Unwind \/ Unwound
      BY <3>4, Zenon DEF Checkpoint, Join, Persist, Retire, Return, Unwind, Unwound
    <3>5. CASE Sampler \/ Kill \/ Age \/ RunLate
      BY <3>5, Zenon DEF Sampler, PinSampler, Sample, SamplerEnds, Kill, Age, RunLate
    <3>6. CASE Change  BY <3>6, Zenon DEF Change
    <3>7. CASE UNCHANGED vars  BY <3>7, Zenon DEF vars
    <3> QED
      BY <3>1, <3>2, <3>3, <3>4, <3>5, <3>6, <3>7, Zenon DEF Next, Coordinator, Machine
  <2> QED  BY <2>1, Zenon DEF FlagTypeOK
<1>3. unreliable => unreliable'
  BY <1>1, Zenon
<1>4. unreliable' \in BOOLEAN
  BY <1>1, Zenon DEF FlagTypeOK
<1>5. pc' \in Open => held' = {}
  <2>1. "lock" \notin Open /\ "pending" \notin Open  BY SMT DEF Terminal
  <2> QED  BY <1>1, <2>1, Zenon DEF HeldInv
<1>6. pc' \in Locked /\ conf'.lockDir => "lock" \in held' \/ unreliable'
  <2> SUFFICES ASSUME pc' \in Locked, conf'.lockDir PROVE "lock" \in held' \/ unreliable'
    OBVIOUS
  <2>1. conf' = conf  BY MachineEffects, Zenon
  <2>2. pc' # "lock" /\ pc' \notin Terminal
    BY SMT DEF Locked, Groups, Pinned, Late, Terminal
  <2>3. pc \in Locked => "lock" \in held \/ unreliable
    BY <2>1, Zenon DEF HeldInv, Locked
  <2>4. CASE Locks
    <3>1. held' = held \cup {"lock"} \/ unreliable' = TRUE  BY <2>1, <2>4
    <3>2. held' = held \cup {"lock"} => "lock" \in held'  BY SMT
    <3> QED  BY <3>1, <3>2, Zenon
  <2>5. CASE Same \/ More
    <3>1. pc \in Locked /\ held' = held  BY <2>5
    <3> QED  BY <1>3, <2>3, <3>1, Zenon
  <2> QED  BY <1>1, <2>2, <2>4, <2>5, Zenon
<1> QED  BY <1>2, <1>3, <1>4, <1>5, <1>6, Zenon DEF HeldInv, FlagTypeOK, Locked

(***************************************************************************)
(* Placement.                                                              *)
(***************************************************************************)

(* What the hardware tells has the shape of a topology.                    *)
LEMMA TopologyShape ==
  ASSUME NEW published, NEW b
  PROVE  LET t == LinuxTopology(Core, published, b) IN
         /\ t.kind \in {"unknown", "asymmetric", "homogeneous"}
         /\ \A c \in t.classes : c.name \in Kind
<1> DEFINE seen == {c \in Cpu : Core[c] # None /\ (c \in published \/ c \in b)}
           entry == [c \in seen |-> Core[c]]
           t == LinuxTopology(Core, published, b)
<1>1. \A c \in seen : Core[c] \in Kind
  BY EngineAssumption, Zenon
<1>2. t = GroupClasses(entry, seen # Cpu)  BY Zenon DEF LinuxTopology
<1>3. \A n \in {entry[c] : c \in DOMAIN entry} : n \in Kind
  BY <1>1
<1> HIDE DEF seen, entry
<1>4. t.classes = {[name |-> n, cpus |-> {c \in DOMAIN entry : entry[c] = n}] :
                     n \in {entry[c] : c \in DOMAIN entry}}
  <2>1. GroupClasses(entry, seen # Cpu).classes =
          {[name |-> n, cpus |-> {c \in DOMAIN entry : entry[c] = n}] :
             n \in {entry[c] : c \in DOMAIN entry}}
    BY DEF GroupClasses
  <2> QED  BY <1>2, <2>1, Zenon
<1>5. \A c \in t.classes : c.name \in Kind
  <2> SUFFICES ASSUME NEW c \in t.classes PROVE c.name \in Kind
    OBVIOUS
  <2>1. PICK n \in {entry[k] : k \in DOMAIN entry} :
               c = [name |-> n, cpus |-> {k \in DOMAIN entry : entry[k] = n}]
    BY <1>4, Zenon
  <2> QED  BY <1>3, <2>1, Zenon
<1>6. t.kind = "unknown" \/ t.kind = "asymmetric" \/ t.kind = "homogeneous"
  <2> DEFINE k == GroupClasses(entry, seen # Cpu).kind
  <2>1. k = "unknown" \/ k = "asymmetric" \/ k = "homogeneous"
    BY DEF GroupClasses
  <2> QED  BY <1>2, <2>1, Zenon
<1> QED  BY <1>5, <1>6

(* What is certified is a placement.                                       *)
LEMMA Certified ==
  ASSUME NEW given, NEW suite_, NEW requested, NEW b \in Mask,
         NEW p \in Start(Core, Published, given, suite_, requested, b)
  PROVE  p \in Place
<1> DEFINE t == LinuxTopology(Core, Published, b)
<1>1. t.kind \in {"unknown", "asymmetric", "homogeneous"} /\ \A c \in t.classes : c.name \in Kind
  BY TopologyShape, Zenon
<1>2. ASSUME NEW s \in {"unrestricted", "uniform_hardware", "enforced_uniform"},
             NEW n \in Kind \cup {None}, NEW k \in {"unknown", "asymmetric", "homogeneous"}
      PROVE  Placed(s, n, k, b) \in Place
  <2>1. (IF b = {} THEN "none" ELSE "cpuset") \in {"none", "cpuset"}  BY Zenon
  <2>2. b \in SUBSET Cpu  BY DEF Mask
  <2>3. None \in (SUBSET Cpu) \cup {None}  OBVIOUS
  <2> QED  BY <2>1, <2>2, <2>3, Zenon DEF Placed, Place
<1>3. p \in Resolve(t, Configured(given, Configured(suite_, "auto")), requested, b)
  BY Zenon DEF Start
<1> HIDE DEF t
<1>4. \/ p = Placed("unrestricted", None, t.kind, b)
      \/ \E c \in t.classes : p = Placed("uniform_hardware", c.name, t.kind, b)
      \/ \E c \in ClassFor(t, b) : p = Placed("enforced_uniform", c.name, t.kind, b)
  BY <1>3, Zenon DEF Resolve
<1>5. \A c \in ClassFor(t, b) : c \in t.classes  BY Zenon DEF ClassFor
<1>6. \A c \in t.classes : c.name \in Kind \cup {None}  BY <1>1
<1>7. None \in Kind \cup {None}  OBVIOUS
<1> QED  BY <1>1, <1>2, <1>4, <1>5, <1>6, <1>7, Zenon

(* A certified placement keeps its status and its boundary until the end;  *)
(* only what the thread was pinned to comes and goes.                      *)
LEMMA PlaceStep ==
  ASSUME EngineTypeOK, PlaceTypeOK, [Next]_vars
  PROVE  /\ PlaceTypeOK'
         /\ pc \in Placing /\ pc' \in Placing =>
              place'.status = place.status /\ place'.effective = place.effective
<1> USE DEF machine, mask, measure, thread, files, suite
<1>0. boundary \in Mask  BY EngineAssumption, SMT DEF EngineTypeOK
<1> DEFINE With(a, e) == [place EXCEPT !.threadAsked = a, !.threadEffective = e]
<1> DEFINE Same == UNCHANGED place /\ (pc' \in Placing => pc \in Placing)
           Certifies == /\ pc = "boot" /\ (pc' \in Placing => place' \in Place)
                        /\ place' \in Place \cup {None}
           Unscopes == place' = Unscoped /\ (pc' \in Placing => pc \in Placing)
           Scopes == /\ pc = "pin" /\ \E a, e \in (SUBSET Cpu) \cup {None} :
                          place' = With(a, e)
           Ends == place' = None /\ pc' \notin Placing
<1>1. Same \/ Certifies \/ Unscopes \/ Scopes \/ Ends
  <2>1. CASE Boot
    <3> DEFINE S == Start(Core, Published, conf.policy, conf.suitePolicy, conf.cpuSet, boundary)
    <3>1. \A p \in S : p \in Place  BY <1>0, Certified, Zenon
    <3>2. place' \in IF S = {} THEN {None} ELSE S  BY <2>1, Zenon DEF Boot
    <3>3. S = {} => pc' \in {"refused", "delegated"}  BY <2>1, Zenon DEF Boot
    <3> HIDE DEF S
    <3>4. pc' \in Placing => S # {}
      BY <3>3, SMT DEF Placing, Early, Groups, Pinned, Late
    <3> QED  BY <2>1, <3>1, <3>2, <3>4, Zenon DEF Boot
  <2>2. CASE Admit \/ TakeLock \/ RetainPending \/ BeginGroup \/ Scan \/ Spawn \/ Ready \/ WarmUp
    <3>1. UNCHANGED place
      BY <2>2, Zenon DEF Admit, TakeLock, RetainPending, BeginGroup, Scan, Spawn, Ready, WarmUp
    <3>2. pc \in Placing
      BY <2>2, SMT DEF Admit, TakeLock, RetainPending, BeginGroup, Scan, Spawn, Ready, WarmUp,
         Placing, Early, Groups, Pinned
    <3> QED  BY <3>1, <3>2
  <2>3. CASE EnterAffinity
    <3>1. pc = "pin"  BY <2>3 DEF EnterAffinity
    <3>2. pc \in Placing  BY <3>1, SMT DEF Placing, Groups
    <3>3. MyMask \in (SUBSET Cpu) \cup {None}
      BY <1>0, SMT DEF MyMask, CurrentAffinity, Mask
    <3>4. conf.pin \in (SUBSET Cpu) \cup {None}  BY EngineAssumption, Zenon DEF EngineTypeOK
    <3>5. None \in (SUBSET Cpu) \cup {None}  OBVIOUS
    <3>6. UNCHANGED place \/ Scopes
      BY <2>3, <3>3, <3>4, <3>5, Zenon DEF EnterAffinity
    <3> QED  BY <3>2, <3>6
  <2>4. CASE BeginRound \/ EndRound \/ EndRounds \/ \E b \in Bench : RunBenchmark(b)
    <3>1. UNCHANGED place  BY <2>4, Zenon DEF BeginRound, EndRound, EndRounds, RunBenchmark
    <3>2. pc \in Placing
      BY <2>4, SMT DEF BeginRound, EndRound, EndRounds, RunBenchmark, Placing, Groups, Pinned
    <3> QED  BY <3>1, <3>2
  <2>5. CASE Checkpoint \/ Join \/ Persist \/ Retire \/ Return
    <3>1. UNCHANGED place  BY <2>5, Zenon DEF Checkpoint, Join, Persist, Retire, Return
    <3>2. pc \in Placing
      BY <2>5, SMT DEF Checkpoint, Join, Persist, Retire, Return, Placing, Groups, Late
    <3> QED  BY <3>1, <3>2
  <2>6. CASE EndGroup
    <3>1. pc \in Placing  BY <2>6, SMT DEF EndGroup, Placing, Groups, Pinned
    <3> QED  BY <2>6, <3>1, Zenon DEF EndGroup
  <2>7. CASE Unwind
    <3>1. pc' \notin Placing  BY <2>7, SMT DEF Unwind, Placing, Early, Groups, Pinned, Late
    <3> QED  BY <2>7, <3>1, Zenon DEF Unwind
  <2>8. CASE Unwound
    <3>1. pc' \notin Placing  BY <2>8, SMT DEF Unwound, Placing, Early, Groups, Pinned, Late
    <3> QED  BY <2>8, <3>1, Zenon DEF Unwound
  <2>9. CASE Kill
    <3>1. pc' \notin Placing  BY <2>9, SMT DEF Kill, Placing, Early, Groups, Pinned, Late
    <3> QED  BY <2>9, <3>1, Zenon DEF Kill
  <2>10. CASE Sampler \/ Change \/ Age \/ RunLate
    <3>1. UNCHANGED <<place, pc>>
      BY <2>10, Zenon DEF Sampler, PinSampler, Sample, SamplerEnds, Change, Age, RunLate
    <3> QED  BY <3>1
  <2>11. CASE UNCHANGED vars  BY <2>11, Zenon DEF vars
  <2> QED
    BY <2>1, <2>2, <2>3, <2>4, <2>5, <2>6, <2>7, <2>8, <2>9, <2>10, <2>11, Zenon
       DEF Next, Coordinator, Machine
<1>2. ASSUME place \in Place, NEW a \in (SUBSET Cpu) \cup {None}, NEW e \in (SUBSET Cpu) \cup {None}
      PROVE  /\ With(a, e) \in Place /\ With(a, e).status = place.status
             /\ With(a, e).effective = place.effective
  <2> DEFINE r == [place EXCEPT !.threadAsked = a]
  <2>1. r \in Place /\ r.status = place.status /\ r.effective = place.effective
    BY <1>2, SMT DEF Place
  <2> DEFINE q == [r EXCEPT !.threadEffective = e]
  <2>2. q = [place EXCEPT !.threadAsked = a, !.threadEffective = e]  OBVIOUS
  <2> HIDE DEF r
  <2>3. q \in Place /\ q.status = r.status /\ q.effective = r.effective
    BY <2>1, SMT DEF Place
  <2> QED  BY <2>1, <2>2, <2>3, Zenon
<1>3. ASSUME place \in Place, place' = Unscoped
      PROVE  place' \in Place /\ place'.status = place.status /\ place'.effective = place.effective
  <2>1. None \in (SUBSET Cpu) \cup {None}  OBVIOUS
  <2>2. CASE place = None  BY <1>3, <2>2, Zenon DEF Unscoped
  <2>3. CASE place # None
    <3>1. place' = With(None, None)  BY <1>3, <2>3, Zenon DEF Unscoped
    <3> HIDE DEF With
    <3>2. /\ With(None, None) \in Place /\ With(None, None).status = place.status
          /\ With(None, None).effective = place.effective
      BY <1>2, <1>3, <2>1
    <3> QED  BY <3>1, <3>2, Zenon
  <2> QED  BY <2>2, <2>3
<1>4. PlaceTypeOK'
  <2>1. CASE Same  BY <2>1, Zenon DEF PlaceTypeOK
  <2>2. CASE Certifies  BY <2>2, Zenon DEF PlaceTypeOK
  <2>3. CASE Unscopes
    <3>1. place' \in Place \cup {None}
      <4>1. place = None => place' = None  BY <2>3, Zenon DEF Unscoped
      <4>2. place \in Place \cup {None}  BY DEF PlaceTypeOK
      <4> QED  BY <1>3, <2>3, <4>1, <4>2, Zenon
    <3>2. place \in Place => place' \in Place
      BY <1>3, <2>3, Zenon
    <3> QED  BY <2>3, <3>1, <3>2, Zenon DEF PlaceTypeOK
  <2>4. CASE Scopes
    <3>1. pc \in Placing  BY <2>4, SMT DEF Placing, Groups
    <3>2. place \in Place  BY <3>1, Zenon DEF PlaceTypeOK
    <3> QED  BY <1>2, <2>4, <3>2, Zenon DEF PlaceTypeOK
  <2>5. CASE Ends  BY <2>5, Zenon DEF PlaceTypeOK
  <2> QED  BY <1>1, <2>1, <2>2, <2>3, <2>4, <2>5, Zenon
<1>5. ASSUME pc \in Placing, pc' \in Placing
      PROVE  place'.status = place.status /\ place'.effective = place.effective
  <2>1. place \in Place  BY <1>5, Zenon DEF PlaceTypeOK
  <2>2. pc # "boot"  BY <1>5, SMT DEF Placing, Early, Groups, Pinned, Late
  <2>3. CASE Scopes
    <3>1. PICK a \in (SUBSET Cpu) \cup {None}, e \in (SUBSET Cpu) \cup {None} : place' = With(a, e)
      BY <2>3
    <3> HIDE DEF With
    <3> QED  BY <1>2, <2>1, <3>1, Zenon
  <2>4. CASE Unscopes  BY <1>3, <2>1, <2>4, Zenon
  <2>5. CASE Same  BY <2>5, Zenon
  <2> QED  BY <1>1, <1>5, <2>2, <2>3, <2>4, <2>5, Zenon
<1> QED  BY <1>4, <1>5

(***************************************************************************)
(* The rounds of a group, and what its gate saw.                           *)
(***************************************************************************)
Resets == rounds' = <<>> /\ UNCHANGED done /\ pc' \in {"scan", "unwind", "killed"}
Begins ==
  /\ pc = "round" /\ pc' = "sample" /\ Unmoved /\ CheckGate
  /\ round' = [clean |-> Clean, inside |-> boundary = place.effective]
  /\ UNCHANGED <<rounds, done>>
Ends ==
  /\ pc = "sample" /\ pc' \in {"round", "end"} /\ Unmoved
  /\ rounds' = Append(rounds, [round EXCEPT !.inside = @ /\ boundary = place.effective])
  /\ UNCHANGED <<gate, done>>
Closes ==
  /\ pc = "end" /\ pc' = "checkpoint" /\ UNCHANGED <<rounds, gate>>
  /\ done' = Append(done, [rounds |-> rounds, late |-> late])
  /\ unreliable' = (unreliable \/ GateUnreliable)
Holds ==
  /\ UNCHANGED <<rounds, done>> /\ (pc' = "scan" => pc = "scan")
  /\ pc' = "sample" => pc = "sample" /\ round' = round

(* These are all, and only one waiting for rivals or beginning a round     *)
(* moves the gate of a group.                                              *)
LEMMA RoundEffects ==
  ASSUME EngineTypeOK, [Next]_vars
  PROVE  /\ Resets \/ Begins \/ Ends \/ Closes \/ Holds
         /\ pc \in {"next"} \cup Late => unreliable' = unreliable
         /\ \/ UNCHANGED gate
            \/ gate' = NewGate /\ pc' \in {"scan", "unwind", "killed"}
               /\ (pc \notin Groups \ {"next"} \/ pc' = "killed")
            \/ gate' = [gate EXCEPT !.waits = @ + 1]
            \/ gate' = [gate EXCEPT !.missing = TRUE]
<1> USE DEF machine, mask, measure, thread, files, suite
<1> DEFINE Same == UNCHANGED <<gate, unreliable>>
           Idle == /\ Same /\ UNCHANGED <<rounds, done, round>>
                   /\ pc' = "sample" => pc = "sample"
                   /\ pc' = "scan" => pc = "scan"
           G == \/ UNCHANGED gate
                \/ gate' = NewGate /\ pc' \in {"scan", "unwind", "killed"}
                   /\ (pc \notin Groups \ {"next"} \/ pc' = "killed")
                \/ gate' = [gate EXCEPT !.waits = @ + 1]
                \/ gate' = [gate EXCEPT !.missing = TRUE]
           U == pc \in {"next"} \cup Late => unreliable' = unreliable
           R == Resets \/ Begins \/ Ends \/ Closes \/ Holds
<1>0. Idle => R /\ U /\ G  BY Zenon DEF Holds
<1> HIDE DEF Idle
<1>1. CASE Boot \/ Admit \/ RetainPending \/ Spawn \/ Ready \/ EnterAffinity
  <2>1. Same /\ UNCHANGED <<rounds, done, round>>
    BY <1>1, Zenon DEF Boot, Admit, RetainPending, Spawn, Ready, EnterAffinity
  <2>2. pc' # "sample" /\ pc' # "scan"
    BY <1>1, SMT DEF Boot, Admit, RetainPending, Saved, Spawn, Ready, EnterAffinity
  <2> QED  BY <1>0, <2>1, <2>2, Zenon DEF Idle
<1>2. CASE TakeLock
  <2>1. UNCHANGED <<gate, rounds, done>> /\ pc = "lock" /\ pc' = "pending"
    BY <1>2, Zenon DEF TakeLock
  <2>2. pc \notin {"next"} \cup Late /\ pc' # "sample" /\ pc' # "scan"  BY <2>1, SMT DEF Late
  <2> QED  BY <2>1, <2>2, Zenon DEF Holds
<1>3. CASE BeginGroup
  <2>1. gate' = NewGate /\ rounds' = <<>> /\ UNCHANGED <<done, unreliable>> /\ pc = "next"
        /\ pc' \in {"scan", "unwind"}
    BY <1>3, SMT DEF BeginGroup
  <2>2. pc \notin Groups \ {"next"} /\ pc' \in {"scan", "unwind", "killed"}  BY <2>1, SMT
  <2> QED  BY <2>1, <2>2, Zenon DEF Resets
<1>4. CASE Scan
  <2>1. /\ UNCHANGED <<rounds, done, unreliable>> /\ pc = "scan" /\ pc' # "sample"
        /\ G
    BY <1>4, SMT DEF Scan
  <2> QED  BY <2>1, Zenon DEF Holds
<1>5. CASE WarmUp \/ EndRounds
  <2>1. Same /\ UNCHANGED <<rounds, done, round>>  BY <1>5, Zenon DEF WarmUp, EndRounds
  <2>2. pc' # "sample" /\ pc' # "scan"  BY <1>5, SMT DEF WarmUp, EndRounds
  <2> QED  BY <1>0, <2>1, <2>2, Zenon DEF Idle
<1>6. CASE BeginRound
  <2>1. UNCHANGED <<rounds, done, unreliable>> /\ pc = "round"  BY <1>6, Zenon DEF BeginRound
  <2>2. CASE Unmoved
    <3>1. CheckGate /\ pc' = "sample"
          /\ round' = [clean |-> Clean, inside |-> boundary = place.effective]
      BY <1>6, <2>2, Zenon DEF BeginRound
    <3>2. G  BY <3>1, Zenon DEF CheckGate
    <3> QED  BY <2>1, <2>2, <3>1, <3>2, Zenon DEF Begins
  <2>3. CASE ~Unmoved
    <3>1. pc' = "unwind" /\ UNCHANGED gate  BY <1>6, <2>3, Zenon DEF BeginRound
    <3>2. pc' # "sample" /\ pc' # "scan"  BY <3>1, SMT
    <3> QED  BY <2>1, <3>1, <3>2, Zenon DEF Holds
  <2> QED  BY <2>2, <2>3
<1>7. ASSUME NEW b \in Bench, RunBenchmark(b) PROVE R /\ U /\ G
  <2>1. Same /\ UNCHANGED <<rounds, done, round>> /\ pc = "sample"
    BY <1>7, Zenon DEF RunBenchmark
  <2>2. pc' # "scan"  BY <1>7, SMT DEF RunBenchmark
  <2> QED  BY <1>0, <2>1, <2>2, Zenon DEF Idle
<1>8. CASE EndRound
  <2>1. UNCHANGED <<gate, done, unreliable>> /\ pc = "sample"  BY <1>8, Zenon DEF EndRound
  <2>2. CASE Unmoved
    <3>1. pc' \in {"round", "end"}  BY <1>8, <2>2, SMT DEF EndRound
    <3>2. rounds' = Append(rounds, [round EXCEPT !.inside = @ /\ boundary = place.effective])
      BY <1>8, <2>2, Zenon DEF EndRound
    <3> QED  BY <2>1, <2>2, <3>1, <3>2, Zenon DEF Ends
  <2>3. CASE ~Unmoved
    <3>1. pc' = "unwind" /\ UNCHANGED rounds  BY <1>8, <2>3, Zenon DEF EndRound
    <3>2. pc' # "sample" /\ pc' # "scan"  BY <3>1, SMT
    <3> QED  BY <2>1, <3>1, <3>2, Zenon DEF Holds
  <2> QED  BY <2>2, <2>3
<1>9. CASE EndGroup
  <2>1. pc = "end" /\ Closes  BY <1>9, Zenon DEF EndGroup, Closes
  <2>2. pc \notin {"next"} \cup Late  BY <2>1, SMT DEF Late
  <2> QED  BY <2>1, <2>2, Zenon DEF Closes
<1>10. CASE Checkpoint \/ Join \/ Persist \/ Retire \/ Return \/ Unwind \/ Unwound
  <2>1. Same /\ UNCHANGED <<rounds, done, round>>
    BY <1>10, Zenon DEF Checkpoint, Join, Persist, Retire, Return, Unwind, Unwound
  <2>2. pc' # "sample" /\ pc' # "scan"
    BY <1>10, SMT DEF Checkpoint, Saved, Join, Persist, Retire, Return, Unwind, Unwound
  <2> QED  BY <1>0, <2>1, <2>2, Zenon DEF Idle
<1>11. CASE Kill
  <2>1. /\ pc' = "killed" /\ gate' = NewGate /\ rounds' = <<>> /\ UNCHANGED <<done, unreliable>>
    BY <1>11, Zenon DEF Kill
  <2>2. pc' \in {"scan", "unwind", "killed"}  BY <2>1
  <2> QED  BY <2>1, <2>2, Zenon DEF Resets
<1>12. CASE Sampler \/ Change \/ Age \/ RunLate
  <2>1. Same /\ UNCHANGED <<rounds, done, round, pc>>
    BY <1>12, Zenon DEF Sampler, PinSampler, Sample, SamplerEnds, Change, Age, RunLate
  <2> QED  BY <1>0, <2>1, Zenon DEF Idle
<1>13. CASE UNCHANGED vars
  <2>1. Same /\ UNCHANGED <<rounds, done, round, pc>>  BY <1>13, Zenon DEF vars
  <2> QED  BY <1>0, <2>1, Zenon DEF Idle
<1>14. R /\ U /\ G
  BY <1>1, <1>2, <1>3, <1>4, <1>5, <1>6, <1>7, <1>8, <1>9, <1>10, <1>11, <1>12, <1>13, Zenon
     DEF Next, Coordinator, Machine
<1> QED  BY <1>14

(* What the gate has told it keeps until the next group.                   *)
LEMMA GateStep ==
  ASSUME EngineTypeOK, GateTypeOK, [Next]_vars
  PROVE  /\ GateTypeOK'
         /\ pc \in Groups \ {"next"} /\ pc' # "killed" => (Told => Told')
<1> USE DEF GateTypeOK
<1>1. gate.waits \in Nat /\ gate.missing \in BOOLEAN  BY DEF GateTypeOK
<1>2. CASE UNCHANGED gate  BY <1>2, Zenon DEF Told
<1>3. CASE gate' = NewGate /\ (pc \notin Groups \ {"next"} \/ pc' = "killed")
  BY <1>3, SMT DEF NewGate
<1>4. CASE gate' = [gate EXCEPT !.waits = @ + 1]
  <2>1. gate'.waits = gate.waits + 1  BY <1>4, SMT
  <2>2. gate.waits + 1 \in Nat /\ gate.waits + 1 > 0  BY <1>1, SMT
  <2>3. gate' \in [waits : Nat, missing : BOOLEAN]  BY <1>4, <2>2, Zenon
  <2> QED  BY <2>1, <2>2, <2>3, Zenon DEF Told
<1>5. CASE gate' = [gate EXCEPT !.missing = TRUE]
  <2>1. gate' \in [waits : Nat, missing : BOOLEAN]  BY <1>5, Zenon
  <2>2. gate'.missing = TRUE  BY <1>5, Zenon
  <2> QED  BY <2>1, <2>2, Zenon DEF Told
<1> QED  BY <1>2, <1>3, <1>4, <1>5, RoundEffects, Zenon

\* What is appended is the last, and what was there stays.
LEMMA Appended ==
  ASSUME NEW S, NEW s \in Seq(S), NEW e \in S, NEW t, t = Append(s, e)
  PROVE  /\ t \in Seq(S)
         /\ \A i \in DOMAIN t : t[i] = e \/ (i \in DOMAIN s /\ t[i] = s[i])
<1>1. /\ t \in Seq(S) /\ Len(t) = Len(s) + 1
      /\ \A i \in 1 .. Len(s) : t[i] = s[i]
      /\ t[Len(s) + 1] = e
  BY SMT
<1>2. DOMAIN t = 1 .. (Len(s) + 1) /\ DOMAIN s = 1 .. Len(s) /\ Len(s) \in Nat
  BY <1>1, SMT
<1>3. \A i \in 1 .. (Len(s) + 1) : i = Len(s) + 1 \/ i \in 1 .. Len(s)
  BY <1>2, SMT
<1> QED  BY <1>1, <1>2, <1>3, Zenon

\* Nothing is wrong with no rounds.
LEMMA NoRounds ==
  ASSUME NEW S
  PROVE  <<>> \in Seq(S) /\ DOMAIN <<>> = {} /\ Inside(<<>>) /\ Quiet(<<>>)
<1>1. <<>> \in Seq(S) /\ DOMAIN <<>> = {}  BY SMT
<1> QED  BY <1>1, Zenon DEF Inside, Quiet

(* The round that ends is the one that began.                              *)
LEMMA EndedRound ==
  ASSUME RoundTypeOK, Ends
  PROVE  \E r \in Round : /\ rounds' = Append(rounds, r) /\ r.clean = round.clean
                          /\ r.inside = (round.inside /\ boundary = place.effective)
<1> DEFINE r == [round EXCEPT !.inside = @ /\ boundary = place.effective]
<1>1. round \in Round  BY Zenon DEF RoundTypeOK, Ends
<1>2. r \in Round /\ r.clean = round.clean /\ r.inside = (round.inside /\ boundary = place.effective)
  <2>1. r.clean = round.clean  BY <1>1, Zenon DEF Round
  <2>2. r.inside = (round.inside /\ boundary = place.effective)  BY <1>1, Zenon DEF Round
  <2>3. (round.inside /\ boundary = place.effective) \in BOOLEAN  BY Zenon
  <2>4. r \in Round  BY <1>1, <2>3, Zenon DEF Round
  <2> QED  BY <2>1, <2>2, <2>4
<1>3. rounds' = Append(rounds, r)  BY Zenon DEF Ends
<1> QED  BY <1>2, <1>3, Zenon

\* What the gate is told of the machine, or that it is told nothing.
LEMMA CleanType ==
  ASSUME SamplerTypeOK
  PROVE  Clean \in {TRUE, FALSE, None}
<1>1. CASE ~conf.gate \/ sampler.seen = None  BY <1>1, Zenon DEF Clean
<1>2. CASE ~(~conf.gate \/ sampler.seen = None)
  <2>1. sampler.seen \in [noisy : BOOLEAN, fresh : BOOLEAN]
      BY <1>2, Zenon DEF SamplerTypeOK, Thread
  <2>2. sampler.seen.noisy \in BOOLEAN  BY <2>1, Zenon
  <2>3. Clean = None \/ Clean = (~sampler.seen.noisy)  BY <1>2, Zenon DEF Clean
  <2>4. (~sampler.seen.noisy) \in {TRUE, FALSE}  BY <2>2, Zenon
  <2> QED  BY <2>3, <2>4, Zenon
<1> QED  BY <1>1, <1>2

(* Every step keeps the types of what is measured.                         *)
LEMMA RoundTypeStep ==
  ASSUME EngineTypeOK, SamplerTypeOK, RoundTypeOK, [Next]_vars
  PROVE  RoundTypeOK'
<1> USE DEF RoundTypeOK
<1>1. CASE Resets
  <2>1. pc' # "sample"  BY <1>1, SMT DEF Resets
  <2> QED  BY <1>1, <2>1, NoRounds, Zenon DEF Resets
<1>2. CASE Begins
  <2>1. Clean \in {TRUE, FALSE, None}  BY CleanType
  <2>2. (boundary = place.effective) \in BOOLEAN  BY Zenon
  <2>3. round' \in Round  BY <1>2, <2>1, <2>2, Zenon DEF Begins, Round
  <2> QED  BY <1>2, <2>3, Zenon DEF Begins
<1>3. CASE Ends
  <2>1. pc' # "sample" /\ UNCHANGED done  BY <1>3, SMT DEF Ends
  <2>2. rounds' \in Seq(Round)  BY <1>3, EndedRound, Appended, Zenon
  <2> QED  BY <2>1, <2>2, Zenon
<1>4. CASE Closes
  <2>1. [rounds |-> rounds, late |-> late] \in Group  BY Zenon DEF Group, EngineTypeOK
  <2>2. done' \in Seq(Group)  BY <1>4, <2>1, Appended, Zenon DEF Closes
  <2>3. pc' # "sample" /\ UNCHANGED rounds  BY <1>4, SMT DEF Closes
  <2> QED  BY <2>2, <2>3, Zenon
<1>5. CASE Holds  BY <1>5, Zenon DEF Holds
<1> QED  BY <1>1, <1>2, <1>3, <1>4, <1>5, RoundEffects, Zenon

(* What is published is what the run holds, and it is published once.      *)
LEMMA PacketEffects ==
  ASSUME EngineTypeOK, [Next]_vars
  PROVE  \/ UNCHANGED packet /\ (pc' = "retire" => pc = "retire")
         \/ /\ pc = "next" /\ pc' = "retire" /\ packet' = (IF conf.saving THEN Result ELSE packet)
            /\ UNCHANGED <<rounds, done, unreliable, place>>
<1> USE DEF machine, mask, measure, thread, files, suite
<1> DEFINE Same == UNCHANGED packet /\ (pc' = "retire" => pc = "retire")
<1>1. CASE Boot \/ Admit \/ TakeLock \/ RetainPending \/ BeginGroup \/ Scan \/ Spawn \/ Ready
  <2>1. UNCHANGED packet
    BY <1>1, Zenon DEF Boot, Admit, TakeLock, RetainPending, BeginGroup, Scan, Spawn, Ready
  <2>2. pc' # "retire"
    BY <1>1, SMT DEF Boot, Admit, TakeLock, RetainPending, Saved, BeginGroup, Scan, Spawn, Ready
  <2> QED  BY <2>1, <2>2
<1>2. CASE EnterAffinity \/ WarmUp \/ BeginRound \/ EndRound \/ EndRounds \/ EndGroup
  <2>1. UNCHANGED packet
    BY <1>2, Zenon DEF EnterAffinity, WarmUp, BeginRound, EndRound, EndRounds, EndGroup
  <2>2. pc' # "retire"
    BY <1>2, SMT DEF EnterAffinity, WarmUp, BeginRound, EndRound, EndRounds, EndGroup
  <2> QED  BY <2>1, <2>2
<1>3. ASSUME NEW b \in Bench, RunBenchmark(b) PROVE Same
  <2>1. UNCHANGED packet  BY <1>3, Zenon DEF RunBenchmark
  <2>2. pc' # "retire"  BY <1>3, SMT DEF RunBenchmark
  <2> QED  BY <2>1, <2>2
<1>4. CASE Checkpoint \/ Join \/ Retire \/ Return \/ Unwind \/ Unwound \/ Kill
  <2>1. UNCHANGED packet
    BY <1>4, Zenon DEF Checkpoint, Join, Retire, Return, Unwind, Unwound, Kill
  <2>2. pc' # "retire"
    BY <1>4, SMT DEF Checkpoint, Saved, Join, Retire, Return, Unwind, Unwound, Kill
  <2> QED  BY <2>1, <2>2
<1>5. CASE Persist
  <2>1. CASE pc' = "retire"
    <3>1. pc' # "unwind"  BY <2>1
    <3> QED  BY <1>5, <2>1, <3>1, Zenon DEF Persist
  <2>2. CASE pc' # "retire"  BY <1>5, <2>2, Zenon DEF Persist
  <2> QED  BY <2>1, <2>2
<1>6. CASE Sampler \/ Change \/ Age \/ RunLate
  <2>1. UNCHANGED <<packet, pc>>
    BY <1>6, Zenon DEF Sampler, PinSampler, Sample, SamplerEnds, Change, Age, RunLate
  <2> QED  BY <2>1
<1>7. CASE UNCHANGED vars  BY <1>7, Zenon DEF vars
<1> QED
  BY <1>1, <1>2, <1>3, <1>4, <1>5, <1>6, <1>7, Zenon DEF Next, Coordinator, Machine

(* A placement that is certified is compared before and after each round.  *)
LEMMA InsideStep ==
  ASSUME EngineTypeOK, PlaceTypeOK, RoundTypeOK, InsideInv, [Next]_vars
  PROVE  InsideInv'
<1> DEFINE Good == /\ Inside(rounds)
                   /\ pc = "sample" => round.inside
                   /\ \A g \in DOMAIN done : Inside(done[g].rounds)
<1>1. pc' \in Early => rounds' = <<>> /\ done' = <<>>
  <2> SUFFICES ASSUME pc' \in Early PROVE rounds' = <<>> /\ done' = <<>>
    OBVIOUS
  <2>1. pc \in Early  BY PcEffects, Zenon
  <2>2. rounds = <<>> /\ done = <<>>  BY <2>1, Zenon DEF InsideInv
  <2>3. ~Begins /\ ~Ends /\ ~Closes
    BY SMT DEF Begins, Ends, Closes, Early
  <2> QED  BY <2>2, <2>3, RoundEffects, Zenon DEF Resets, Holds
<1>2. ASSUME pc' \in Placing, place'.status = "enforced_uniform" PROVE Good'
  <2>1. CASE pc \notin Placing
    <3>1. pc = "boot" /\ pc' = "admit"  BY <1>2, <2>1, PcEffects, Zenon
    <3>2. pc' \in Early /\ pc' # "sample"  BY <3>1, SMT DEF Early
    <3>3. rounds' = <<>> /\ done' = <<>>  BY <1>1, <3>2
    <3> QED  BY <3>2, <3>3, NoRounds, Zenon
  <2>2. CASE pc \in Placing
    <3>1. place.status = "enforced_uniform"  BY <1>2, <2>2, PlaceStep, Zenon
    <3>2. Good  BY <2>2, <3>1, Zenon DEF InsideInv
    <3>3. CASE Resets
      <4>1. pc' # "sample"  BY <3>3, SMT DEF Resets
      <4> QED  BY <3>2, <3>3, <4>1, NoRounds, Zenon DEF Resets
    <3>4. CASE Begins
      <4>1. boundary = place.effective  BY <3>1, <3>4, Zenon DEF Begins, Unmoved, Verify
      <4>2. round'.inside  BY <3>4, <4>1, Zenon DEF Begins
      <4> QED  BY <3>2, <3>4, <4>2, Zenon DEF Begins
    <3>5. CASE Ends
      <4>1. boundary = place.effective  BY <3>1, <3>5, Zenon DEF Ends, Unmoved, Verify
      <4>2. round.inside  BY <3>2, <3>5, Zenon DEF Ends
      <4>3. PICK r \in Round : rounds' = Append(rounds, r) /\ r.inside = (round.inside /\ boundary = place.effective)
        BY <3>5, EndedRound, Zenon
      <4>4. r.inside  BY <4>1, <4>2, <4>3
      <4>5. Inside(rounds')
        <5>1. rounds \in Seq(Round)  BY DEF RoundTypeOK
        <5>2. \A i \in DOMAIN rounds' : rounds'[i] = r \/ (i \in DOMAIN rounds /\ rounds'[i] = rounds[i])
          BY <4>3, <5>1, Appended
        <5> QED  BY <3>2, <4>4, <5>2, Zenon DEF Inside
      <4>6. pc' # "sample" /\ UNCHANGED done  BY <3>5, SMT DEF Ends
      <4> QED  BY <3>2, <4>5, <4>6, Zenon
    <3>6. CASE Closes
      <4> DEFINE e == [rounds |-> rounds, late |-> late]
      <4>1. e \in Group  BY Zenon DEF Group, EngineTypeOK, RoundTypeOK
      <4>2. e.rounds = rounds  OBVIOUS
      <4>3. done' = Append(done, e)  BY <3>6, Zenon DEF Closes
      <4> HIDE DEF e
      <4>4. \A i \in DOMAIN done' : done'[i] = e \/ (i \in DOMAIN done /\ done'[i] = done[i])
        <5>1. done \in Seq(Group)  BY DEF RoundTypeOK
        <5> QED  BY <4>1, <4>3, <5>1, Appended
      <4>5. pc' # "sample" /\ UNCHANGED rounds  BY <3>6, SMT DEF Closes
      <4>6. \A g \in DOMAIN done' : Inside(done'[g].rounds)
        BY <3>2, <4>2, <4>4, Zenon
      <4> QED  BY <3>2, <4>5, <4>6, Zenon
    <3>7. CASE Holds  BY <3>2, <3>7, Zenon DEF Holds
    <3> QED  BY <3>3, <3>4, <3>5, <3>6, <3>7, RoundEffects, Zenon
  <2> QED  BY <2>1, <2>2
<1>3. RoundsInsideBoundary'
  <2>1. CASE UNCHANGED packet
    BY <2>1, Zenon DEF InsideInv, RoundsInsideBoundary
  <2>2. CASE pc = "next" /\ packet' = Result
    <3>1. pc \in Placing  BY <2>2, SMT DEF Placing, Groups
    <3>2. packet'.place = place /\ packet'.groups = done  BY <2>2, Zenon DEF Result
    <3>3. place.status = "enforced_uniform" => \A g \in DOMAIN done : Inside(done[g].rounds)
      BY <3>1, Zenon DEF InsideInv
    <3> QED  BY <3>2, <3>3, Zenon DEF RoundsInsideBoundary, Inside
  <2> QED  BY <2>1, <2>2, PacketEffects, Zenon
<1> QED  BY <1>1, <1>2, <1>3, Zenon DEF InsideInv

(***************************************************************************)
(* Quiet, or told.                                                         *)
(***************************************************************************)

\* A run is admitted when a confirmation's configuration is what it asserts.
LEMMA AdmittedIsAdmissible ==
  ASSUME [Next]_vars, pc = "boot", pc' = "admit"
  PROVE  Admissible
<1>1. CASE Boot
  <2>1. pc' # "delegated" /\ pc' # "refused" /\ pc' # "printed"  OBVIOUS
  <2> QED  BY <1>1, <2>1, Zenon DEF Boot
<1>2. ~(Admit \/ TakeLock \/ RetainPending \/ BeginGroup \/ Scan \/ Spawn \/ Ready)
  BY SMT DEF Admit, TakeLock, RetainPending, BeginGroup, Scan, Spawn, Ready
<1>3. ~(EnterAffinity \/ WarmUp \/ BeginRound \/ EndRound \/ EndRounds \/ EndGroup)
  BY SMT DEF EnterAffinity, WarmUp, BeginRound, EndRound, EndRounds, EndGroup
<1>4. ~\E b \in Bench : RunBenchmark(b)  BY SMT DEF RunBenchmark
<1>5. ~(Checkpoint \/ Join \/ Persist \/ Retire \/ Return \/ Unwind \/ Unwound \/ Kill)
  BY SMT DEF Checkpoint, Join, Persist, Retire, Return, Unwind, Unwound, Kill
<1>6. ~(Sampler \/ Change \/ Age \/ RunLate \/ UNCHANGED vars)
  <2>1. pc' # pc  OBVIOUS
  <2> QED  BY <2>1, Zenon DEF Sampler, PinSampler, Sample, SamplerEnds, Change, Age, RunLate, vars
<1> QED  BY <1>1, <1>2, <1>3, <1>4, <1>5, <1>6, Zenon DEF Next, Coordinator, Machine

(* The gate of a confirmation is strict and allows no wait, so that what   *)
(* it has told makes the results unreliable.                               *)
LEMMA ToldIsUnreliable ==
  ASSUME GateTypeOK, Confirming, Told
  PROVE  GateUnreliable
<1>1. CASE gate.missing  BY <1>1, Zenon DEF GateUnreliable
<1>2. CASE gate.waits > 0
  <2>1. Strict /\ MaxWaits = 0  BY Zenon DEF Strict, MaxWaits
  <2> QED  BY <1>2, <2>1, Zenon DEF GateUnreliable
<1> QED  BY <1>1, <1>2, Zenon DEF Told

\* A round that begins is quiet, or its gate tells.
LEMMA BegunRound ==
  ASSUME GateTypeOK, SamplerTypeOK, conf.gate, Begins
  PROVE  round'.clean = TRUE \/ Told'
<1>1. Clean \in {TRUE, FALSE, None} /\ CheckGate /\ round'.clean = Clean
  BY CleanType, Zenon DEF Begins
<1>2. gate.waits \in Nat /\ gate \in [waits : Nat, missing : BOOLEAN]  BY Zenon DEF GateTypeOK
<1>3. CASE Clean = None
  <2>1. gate' = [gate EXCEPT !.missing = TRUE]  BY <1>1, <1>3, Zenon DEF CheckGate
  <2>2. gate'.missing = TRUE  BY <1>2, <2>1, Zenon
  <2> QED  BY <2>2, Zenon DEF Told
<1>4. CASE Clean # None /\ Clean = TRUE  BY <1>1, <1>4, Zenon
<1>5. CASE Clean # None /\ Clean = FALSE
  <2>1. gate' = [gate EXCEPT !.waits = @ + 1]  BY <1>1, <1>5, Zenon DEF CheckGate
  <2>2. gate'.waits = gate.waits + 1  BY <1>2, <2>1, Zenon
  <2>3. gate'.waits > 0  BY <1>2, <2>2, SMT
  <2> QED  BY <2>3, Zenon DEF Told
<1> QED  BY <1>1, <1>3, <1>4, <1>5, Zenon

(* The rounds of a confirmation's group are quiet, or its gate tells.      *)
LEMMA QuietRoundsStep ==
  ASSUME EngineTypeOK, SamplerTypeOK, GateTypeOK, RoundTypeOK, InsideInv, QuietInv, [Next]_vars,
         Confirming, pc' \in Groups
  PROVE  /\ Quiet(rounds') \/ Told'
         /\ pc' = "sample" => round'.clean = TRUE \/ Told'
<1>1. CASE pc \notin Groups
  <2>1. pc = "pending" /\ pc' = "next"  BY <1>1, PcEffects, Zenon
  <2>2. rounds = <<>>  BY <2>1, SMT DEF InsideInv, Early
  <2>3. pc' # "sample" /\ ~Begins /\ ~Ends /\ ~Closes  BY <2>1, SMT DEF Begins, Ends, Closes
  <2>4. rounds' = <<>>  BY <2>2, <2>3, RoundEffects, Zenon DEF Resets, Holds
  <2> QED  BY <2>3, <2>4, NoRounds, Zenon
<1>2. CASE pc \in Groups
  <2>1. /\ Quiet(rounds) \/ Told
        /\ pc = "sample" => round.clean = TRUE \/ Told
        /\ conf.gate
    <3>1. pc \in Placing  BY <1>2, Zenon DEF Placing
    <3> QED  BY <1>2, <3>1, Zenon DEF QuietInv
  <2>2. pc # "next" => (Told => Told')
    <3>1. pc' # "killed"  BY SMT DEF Groups, Pinned
    <3>2. pc # "next" => pc \in Groups \ {"next"}  BY <1>2
    <3> QED  BY <3>1, <3>2, GateStep, Zenon
  <2>3. CASE Resets
    <3>1. pc' # "sample"  BY <2>3, SMT DEF Resets
    <3> QED  BY <2>3, <3>1, NoRounds, Zenon DEF Resets
  <2>4. CASE Begins
    <3>1. pc # "next"  BY <2>4, SMT DEF Begins
    <3>2. rounds' = rounds  BY <2>4, Zenon DEF Begins
    <3> QED  BY <2>1, <2>2, <2>4, <3>1, <3>2, BegunRound, Zenon
  <2>5. CASE Ends
    <3>1. pc = "sample" /\ pc' # "sample" /\ gate' = gate  BY <2>5, SMT DEF Ends
    <3>2. Told => Told'  BY <3>1, Zenon DEF Told
    <3>3. PICK r \in Round : rounds' = Append(rounds, r) /\ r.clean = round.clean
      BY <2>5, EndedRound, Zenon
    <3>4. rounds \in Seq(Round)  BY DEF RoundTypeOK
    <3>5. \A i \in DOMAIN rounds' : rounds'[i] = r \/ (i \in DOMAIN rounds /\ rounds'[i] = rounds[i])
      BY <3>3, <3>4, Appended
    <3>6. round.clean = TRUE /\ Quiet(rounds) => Quiet(rounds')
      BY <3>3, <3>5, Zenon DEF Quiet
    <3> QED  BY <2>1, <3>1, <3>2, <3>6, Zenon
  <2>6. CASE Closes
    <3>1. pc' # "sample" /\ gate' = gate /\ rounds' = rounds  BY <2>6, SMT DEF Closes
    <3> QED  BY <2>1, <3>1, Zenon DEF Told
  <2>7. CASE Holds
    <3>1. rounds' = rounds /\ (pc' = "sample" => pc = "sample" /\ round' = round)
      BY <2>7, Zenon DEF Holds
    <3>2. Told => Told'
      <4>1. CASE pc # "next"  BY <2>2, <4>1
      <4>2. CASE pc = "next"
        <5>1. pc' # "scan" /\ pc' # "unwind" /\ pc' # "killed"
          <6>1. pc' # "scan"  BY <2>7, <4>2, SMT DEF Holds
          <6> QED  BY <6>1, SMT DEF Groups, Pinned
        <5>3. \/ gate' = gate \/ gate' = [gate EXCEPT !.waits = @ + 1]
              \/ gate' = [gate EXCEPT !.missing = TRUE]
          <6>1. ~(pc' \in {"scan", "unwind", "killed"})  BY <5>1
          <6> QED  BY <6>1, RoundEffects, Zenon
        <5>4. gate.waits \in Nat /\ gate \in [waits : Nat, missing : BOOLEAN]
          BY Zenon DEF GateTypeOK
        <5>5. CASE gate' = gate  BY <5>5, Zenon DEF Told
        <5>6. CASE gate' = [gate EXCEPT !.waits = @ + 1]
          <6>1. gate'.waits = gate.waits + 1  BY <5>4, <5>6, Zenon
          <6>2. gate'.waits > 0  BY <5>4, <6>1, SMT
          <6> QED  BY <6>2, Zenon DEF Told
        <5>7. CASE gate' = [gate EXCEPT !.missing = TRUE]
          <6>1. gate'.missing = TRUE  BY <5>4, <5>7, Zenon
          <6> QED  BY <6>1, Zenon DEF Told
        <5> QED  BY <5>3, <5>5, <5>6, <5>7
      <4> QED  BY <4>1, <4>2
    <3> QED  BY <2>1, <3>1, <3>2, Zenon
  <2> QED  BY <2>3, <2>4, <2>5, <2>6, <2>7, RoundEffects, Zenon
<1> QED  BY <1>1, <1>2

(* The results of a confirmation are quiet, or it is unreliable.           *)
LEMMA QuietDoneStep ==
  ASSUME EngineTypeOK, FlagTypeOK, PlaceTypeOK, HeldInv, GateTypeOK, RoundTypeOK, InsideInv,
         QuietInv, [Next]_vars, Confirming, pc' \in Placing
  PROVE  (\A g \in DOMAIN done' : Quiet(done'[g].rounds)) \/ unreliable'
<1>1. CASE pc \notin Placing
  <2>1. pc = "boot" /\ pc' = "admit"  BY <1>1, PcEffects, Zenon
  <2>2. pc' \in Early  BY <2>1, SMT DEF Early
  <2>3. done' = <<>>  BY <2>2, InsideStep, Zenon DEF InsideInv
  <2> QED  BY <2>3, NoRounds, Zenon
<1>2. CASE pc \in Placing
  <2>1. (\A g \in DOMAIN done : Quiet(done[g].rounds)) \/ unreliable
    BY <1>2, Zenon DEF QuietInv
  <2>2. unreliable => unreliable'  BY HeldStep, Zenon
  <2>3. CASE UNCHANGED done  BY <2>1, <2>2, <2>3, Zenon
  <2>4. CASE Closes
    <3> DEFINE e == [rounds |-> rounds, late |-> late]
    <3>1. e \in Group  BY Zenon DEF Group, EngineTypeOK, RoundTypeOK
    <3>2. e.rounds = rounds  OBVIOUS
    <3>3. done' = Append(done, e)  BY <2>4, Zenon DEF Closes
    <3> HIDE DEF e
    <3>4. \A i \in DOMAIN done' : done'[i] = e \/ (i \in DOMAIN done /\ done'[i] = done[i])
      <4>1. done \in Seq(Group)  BY DEF RoundTypeOK
      <4> QED  BY <3>1, <3>3, <4>1, Appended
    <3>5. pc = "end" /\ unreliable' = (unreliable \/ GateUnreliable)  BY <2>4, Zenon DEF Closes
    <3>6. pc \in Groups  BY <3>5, SMT DEF Groups, Pinned
    <3>7. Quiet(rounds) \/ Told  BY <3>6, Zenon DEF QuietInv
    <3>8. Told => unreliable'  BY <3>5, ToldIsUnreliable, Zenon
    <3> QED  BY <2>1, <2>2, <3>2, <3>4, <3>7, <3>8, Zenon
  <2> QED  BY <2>3, <2>4, RoundEffects, Zenon DEF Resets, Begins, Ends, Holds
<1> QED  BY <1>1, <1>2

(* A confirmation that does not say otherwise was quiet.                   *)
LEMMA QuietStep ==
  ASSUME EngineTypeOK, FlagTypeOK, SamplerTypeOK, GateTypeOK, PlaceTypeOK, RoundTypeOK, HeldInv,
         InsideInv, QuietInv, FilesInv, [Next]_vars
  PROVE  QuietInv'
<1>0. conf' = conf /\ (Confirming' <=> Confirming)  BY MachineEffects, Zenon DEF Confirming
<1>1. Confirming /\ pc' \in Placing => conf.gate /\ conf.saving
  <2>1. CASE pc \in Placing  BY <2>1, Zenon DEF QuietInv
  <2>2. CASE pc \notin Placing
    <3>1. pc' \in Placing => Admissible  BY <2>2, PcEffects, AdmittedIsAdmissible, Zenon
    <3> QED  BY <3>1, Zenon DEF Admissible
  <2> QED  BY <2>1, <2>2
<1>2. Confirming /\ pc' \in Groups =>
        /\ Quiet(rounds') \/ Told'
        /\ pc' = "sample" => round'.clean = TRUE \/ Told'
  BY QuietRoundsStep, Zenon
<1>3. Confirming /\ pc' \in Placing =>
        (\A g \in DOMAIN done' : Quiet(done'[g].rounds)) \/ unreliable'
  BY QuietDoneStep, Zenon
<1>4. /\ packet' # None => packet' \in Packet
      /\ packet' # None /\ Confirming /\ ~packet'.unreliable =>
           \A g \in DOMAIN packet'.groups : Quiet(packet'.groups[g].rounds)
  <2>1. CASE UNCHANGED packet  BY <2>1, Zenon DEF QuietInv
  <2>2. CASE pc = "next" /\ packet' = Result
    <3>1. pc \in Placing  BY <2>2, SMT DEF Placing, Groups
    <3>2. /\ packet'.groups = done /\ packet'.unreliable = unreliable
          /\ packet' = [groups |-> done, unreliable |-> unreliable, place |-> place]
      BY <2>2, Zenon DEF Result
    <3>3. done \in Seq(Group) /\ unreliable \in BOOLEAN /\ place \in Place
      BY <3>1, Zenon DEF RoundTypeOK, FlagTypeOK, PlaceTypeOK
    <3>4. packet' \in Packet
      <4>1. [groups |-> done, unreliable |-> unreliable, place |-> place] \in Packet
        BY <3>3, Zenon DEF Packet
      <4> QED  BY <3>2, <4>1, Zenon
    <3> QED  BY <3>1, <3>2, <3>4, Zenon DEF QuietInv
  <2> QED  BY <2>1, <2>2, PacketEffects, Zenon
<1>5. packet' # None /\ pc' \in Late => packet'.unreliable = unreliable'
  <2>1. CASE pc \in Late
    <3>1. unreliable' = unreliable  BY <2>1, RoundEffects, Zenon
    <3>2. pc # "next"  BY <2>1, SMT DEF Late
    <3>3. packet' = packet  BY <3>2, PacketEffects, Zenon
    <3> QED  BY <2>1, <3>1, <3>3, Zenon DEF QuietInv
  <2>2. CASE pc \notin Late /\ pc' \in Late
    <3>1. pc = "next" /\ pc' = "retire"  BY <2>2, PcEffects, Zenon
    <3>2. packet = None  BY <3>1, SMT DEF FilesInv, Groups
    <3>3. /\ packet' = IF conf.saving THEN Result ELSE packet
          /\ unreliable' = unreliable
      <4>1. pc # "retire"  BY <3>1
      <4> QED  BY <3>1, <4>1, PacketEffects, Zenon
    <3> QED  BY <3>2, <3>3, Zenon DEF Result
  <2> QED  BY <2>1, <2>2
<1> QED  BY <1>0, <1>1, <1>2, <1>3, <1>4, <1>5, Zenon DEF QuietInv

(***************************************************************************)
(* The files.                                                              *)
(***************************************************************************)

(* Who writes and removes the checkpoint, and who writes the child result. *)
LEMMA FilesEffects ==
  ASSUME EngineTypeOK, [Next]_vars
  PROVE  /\ \/ UNCHANGED attempt /\ ~(conf.saving /\ pc = "pending" /\ pc' = "next")
            \/ attempt' \in {"pending", "partial"}
            \/ pc = "retire"
         /\ pc' = "done" => pc \in {"return", "done"}
         /\ UNCHANGED child \/ pc = "return"
<1> USE DEF machine, mask, measure, thread, files, suite
<1> DEFINE Same == /\ UNCHANGED <<attempt, child>> /\ ~(pc = "pending" /\ pc' = "next")
                   /\ pc' = "done" => pc = "done"
           Goal == /\ \/ UNCHANGED attempt /\ ~(conf.saving /\ pc = "pending" /\ pc' = "next")
                      \/ attempt' \in {"pending", "partial"}
                      \/ pc = "retire"
                   /\ pc' = "done" => pc \in {"return", "done"}
                   /\ UNCHANGED child \/ pc = "return"
<1>0. Same => Goal  OBVIOUS
<1> HIDE DEF Same
<1>1. CASE Boot \/ Admit \/ TakeLock \/ BeginGroup \/ Scan \/ Spawn \/ Ready
  <2>1. UNCHANGED <<attempt, child>>
    BY <1>1, Zenon DEF Boot, Admit, TakeLock, BeginGroup, Scan, Spawn, Ready
  <2>2. pc' # "done" /\ pc # "pending"
    BY <1>1, SMT DEF Boot, Admit, TakeLock, BeginGroup, Scan, Spawn, Ready
  <2> QED  BY <1>0, <2>1, <2>2, Zenon DEF Same
<1>2. CASE EnterAffinity \/ WarmUp \/ BeginRound \/ EndRound \/ EndRounds \/ EndGroup
  <2>1. UNCHANGED <<attempt, child>>
    BY <1>2, Zenon DEF EnterAffinity, WarmUp, BeginRound, EndRound, EndRounds, EndGroup
  <2>2. pc' # "done" /\ pc # "pending"
    BY <1>2, SMT DEF EnterAffinity, WarmUp, BeginRound, EndRound, EndRounds, EndGroup
  <2> QED  BY <1>0, <2>1, <2>2, Zenon DEF Same
<1>3. ASSUME NEW b \in Bench, RunBenchmark(b) PROVE Goal
  <2>1. UNCHANGED <<attempt, child>>  BY <1>3, Zenon DEF RunBenchmark
  <2>2. pc' # "done" /\ pc # "pending"  BY <1>3, SMT DEF RunBenchmark
  <2> QED  BY <1>0, <2>1, <2>2, Zenon DEF Same
<1>4. CASE RetainPending \/ Checkpoint
  <2>1. UNCHANGED child  BY <1>4, Zenon DEF RetainPending, Checkpoint
  <2>2. pc' # "done"  BY <1>4, SMT DEF RetainPending, Checkpoint, Saved
  <2>3. \/ UNCHANGED attempt /\ ~(conf.saving /\ pc = "pending" /\ pc' = "next")
        \/ attempt' \in {"pending", "partial"}
    BY <1>4, SMT DEF RetainPending, Checkpoint, Saved
  <2> QED  BY <2>1, <2>2, <2>3
<1>5. CASE Join \/ Persist \/ Unwind \/ Unwound \/ Kill
  <2>1. UNCHANGED <<attempt, child>>  BY <1>5, Zenon DEF Join, Persist, Unwind, Unwound, Kill
  <2>2. pc' # "done" /\ (pc # "pending" \/ pc' # "next")
    BY <1>5, SMT DEF Join, Persist, Unwind, Unwound, Kill
  <2> QED  BY <1>0, <2>1, <2>2, Zenon DEF Same
<1>6. CASE Retire  BY <1>6, SMT DEF Retire
<1>7. CASE Return
  <2>1. UNCHANGED attempt /\ pc = "return"  BY <1>7, Zenon DEF Return
  <2> QED  BY <2>1
<1>8. CASE Sampler \/ Change \/ Age \/ RunLate
  <2>1. UNCHANGED <<attempt, child, pc>>
    BY <1>8, Zenon DEF Sampler, PinSampler, Sample, SamplerEnds, Change, Age, RunLate
  <2>2. ~(pc = "pending" /\ pc' = "next")  BY <2>1, SMT
  <2> QED  BY <1>0, <2>1, <2>2, Zenon DEF Same
<1>9. CASE UNCHANGED vars
  <2>1. UNCHANGED <<attempt, child, pc>>  BY <1>9, Zenon DEF vars
  <2>2. ~(pc = "pending" /\ pc' = "next")  BY <2>1, SMT
  <2> QED  BY <1>0, <2>1, <2>2, Zenon DEF Same
<1>10. Goal
  BY <1>1, <1>2, <1>3, <1>4, <1>5, <1>6, <1>7, <1>8, <1>9, Zenon DEF Next, Coordinator, Machine
<1> QED  BY <1>10

(* There is evidence before the checkpoint goes.                           *)
LEMMA FilesStep ==
  ASSUME EngineTypeOK, FlagTypeOK, PlaceTypeOK, RoundTypeOK, FilesInv, [Next]_vars
  PROVE  FilesInv'
<1>0. conf' = conf  BY MachineEffects, Zenon
<1>1. pc' \in Early => group' = 0
  <2>1. pc' \in Early => pc \in Early /\ (group' # group => pc = "next")  BY PcEffects, Zenon
  <2>2. pc = "next" => pc \notin Early  BY SMT DEF Early
  <2> QED  BY <2>1, <2>2, Zenon DEF FilesInv
<1>2. packet # None => packet' # None
  <2>1. CASE pc = "next"
    <3>1. packet = None  BY <2>1, SMT DEF FilesInv, Groups
    <3> QED  BY <3>1
  <2> QED  BY <2>1, PacketEffects, Zenon
<1>3. pc' \in Early \cup Groups => packet' = None
  <2> SUFFICES ASSUME pc' \in Early \cup Groups PROVE packet' = None
    OBVIOUS
  <2>1. pc' # "retire"  BY SMT DEF Early, Groups, Pinned
  <2>2. pc \in Early \cup Groups
    <3>1. pc = "pending" => pc \in Early  BY SMT DEF Early
    <3> QED  BY <3>1, PcEffects, Zenon
  <2> QED  BY <2>1, <2>2, PacketEffects, Zenon DEF FilesInv
<1>4. pc = "next" /\ pc' = "retire" /\ conf.saving => packet' # None
  <2> SUFFICES ASSUME pc = "next", pc' = "retire", conf.saving PROVE packet' # None
    OBVIOUS
  <2>1. packet' = Result
    <3>1. pc # "retire"  OBVIOUS
    <3> QED  BY <3>1, PacketEffects, Zenon
  <2>2. pc \in Placing  BY SMT DEF Placing, Groups
  <2>3. done \in Seq(Group) /\ unreliable \in BOOLEAN /\ place \in Place
    BY <2>2, Zenon DEF RoundTypeOK, FlagTypeOK, PlaceTypeOK
  <2>4. Result \in Packet  BY <2>3, Zenon DEF Packet, Result
  <2>5. None \notin Packet  BY EngineAssumption, Zenon DEF Packet, Group, Round
  <2> QED  BY <2>1, <2>4, <2>5, Zenon
<1>5. conf.saving /\ pc' \in Late \cup {"done"} => packet' # None
  <2> SUFFICES ASSUME conf.saving, pc' \in Late \cup {"done"} PROVE packet' # None
    OBVIOUS
  <2>1. CASE pc \in Late \cup {"done"}  BY <1>2, <2>1, Zenon DEF FilesInv
  <2>2. CASE pc \notin Late \cup {"done"}
    <3>1. pc' # "done"
      <4>1. pc \notin {"return", "done"}  BY <2>2, SMT DEF Late
      <4> QED  BY <4>1, FilesEffects, Zenon
    <3>2. pc = "next" /\ pc' = "retire"  BY <2>2, <3>1, PcEffects, Zenon
    <3> QED  BY <1>4, <3>2
  <2> QED  BY <2>1, <2>2
<1>6. conf.saving /\ (group' > 0 \/ pc' \in Groups \cup Late) => attempt' # "none" \/ packet' # None
  <2> SUFFICES ASSUME conf.saving, group' > 0 \/ pc' \in Groups \cup Late
               PROVE  attempt' # "none" \/ packet' # None
    OBVIOUS
  <2>1. CASE attempt' \in {"pending", "partial"}  BY <2>1, SMT
  <2>2. CASE pc = "retire"
    <3>1. pc \in Late  BY <2>2, SMT DEF Late
    <3> QED  BY <1>2, <3>1, Zenon DEF FilesInv
  <2>3. CASE UNCHANGED attempt /\ ~(conf.saving /\ pc = "pending" /\ pc' = "next")
    <3>1. group > 0 \/ pc \in Groups \cup Late
      <4>1. CASE group' # group
        <5>1. pc = "next"  BY <4>1, PcEffects, Zenon
        <5> QED  BY <5>1, SMT DEF Groups
      <4>2. CASE group' = group /\ group' > 0  BY <4>2
      <4>3. CASE pc' \in Groups  BY <2>3, <4>3, PcEffects, Zenon
      <4>4. CASE pc' \in Late
        <5>1. pc = "next" => pc \in Groups  BY SMT DEF Groups
        <5> QED  BY <4>4, <5>1, PcEffects, Zenon
      <4> QED  BY <4>1, <4>2, <4>3, <4>4, Zenon
    <3>2. attempt # "none" \/ packet # None  BY <3>1, Zenon DEF FilesInv
    <3> QED  BY <1>2, <2>3, <3>2
  <2> QED  BY <2>1, <2>2, <2>3, FilesEffects, Zenon
<1>7. child' /\ conf.saving => packet' # None
  <2>1. CASE UNCHANGED child  BY <1>2, <2>1, Zenon DEF FilesInv
  <2>2. CASE pc = "return"
    <3>1. pc \in Late  BY <2>2, SMT DEF Late
    <3> QED  BY <1>2, <3>1, Zenon DEF FilesInv
  <2> QED  BY <2>1, <2>2, FilesEffects, Zenon
<1> QED  BY <1>0, <1>1, <1>3, <1>5, <1>6, <1>7, Zenon DEF FilesInv

(***************************************************************************)
(* The invariant and what it says.                                         *)
(***************************************************************************)

(* A process starts with nothing measured and nobody kept out.             *)
LEMMA EngineInit ==
  ASSUME Init PROVE EngineInv
<1> USE DEF Init
<1>1. EngineTypeOK  BY SMT DEF EngineTypeOK, Early
<1>2. MaskTypeOK
  <2>1. asked \in Mask  BY EngineAssumption, Zenon
  <2>2. asked \in SUBSET Cpu /\ {} \in SUBSET Cpu  BY <2>1, SMT DEF Mask
  <2> QED  BY <2>2, Zenon DEF MaskTypeOK
<1>3. FlagTypeOK  BY Zenon DEF FlagTypeOK
<1>4. SamplerTypeOK
  <2>1. {} \in SUBSET Cpu  OBVIOUS
  <2>2. "none" \in {"none", "starting", "sampling", "running", "refused", "ended"}  OBVIOUS
  <2> QED  BY <2>1, <2>2, Zenon DEF SamplerTypeOK, Thread, NoSampler
<1>5. GateTypeOK  BY SMT DEF GateTypeOK, NewGate
<1>6. PlaceTypeOK
  <2>1. pc \notin Placing  BY SMT DEF Placing, Early, Groups, Pinned, Late
  <2> QED  BY <2>1, Zenon DEF PlaceTypeOK
<1>7. RoundTypeOK
  <2>1. pc # "sample"  OBVIOUS
  <2> QED  BY <2>1, NoRounds, Zenon DEF RoundTypeOK
<1>8. MaskInv  BY Zenon DEF MaskInv, MyMask, Kept
<1>9. SamplerInv
  <2>1. sampler.st = "none"  BY Zenon DEF NoSampler
  <2>2. sampler.st \notin {"starting", "sampling", "running"}  BY <2>1
  <2> QED  BY <2>1, <2>2, Zenon DEF SamplerInv
<1>10. HeldInv
  <2>1. pc \notin {"pending"} \cup Groups \cup Late  BY SMT DEF Groups, Pinned, Late
  <2> QED  BY <2>1, Zenon DEF HeldInv
<1>11. pc \notin Placing /\ pc \notin Groups /\ pc \notin Late /\ pc # "done"
  BY SMT DEF Placing, Early, Groups, Pinned, Late
<1>12. InsideInv  BY <1>11, Zenon DEF InsideInv, RoundsInsideBoundary
<1>13. QuietInv  BY <1>11, Zenon DEF QuietInv
<1>14. FilesInv
  <2>1. ~(group > 0)  BY SMT
  <2> QED  BY <1>11, <2>1, SMT DEF FilesInv
<1> QED
  BY <1>1, <1>2, <1>3, <1>4, <1>5, <1>6, <1>7, <1>8, <1>9, <1>10, <1>12, <1>13, <1>14, Zenon
     DEF EngineInv

(* The invariant of a benchmark process: src/engine.rs with its gate, its  *)
(* sampler and its placement, however the machine changes meanwhile.       *)
THEOREM EngineInvariance == Spec => []EngineInv
<1>1. Init => EngineInv  BY EngineInit, Zenon
<1>2. EngineInv /\ [Next]_vars => EngineInv'
  <2> SUFFICES ASSUME EngineInv, [Next]_vars PROVE EngineInv'
    OBVIOUS
  <2> USE DEF EngineInv
  <2>1. EngineTypeOK'  BY PcEffects, Zenon
  <2>2. MaskTypeOK' /\ MaskInv'  BY MaskStep, Zenon
  <2>3. SamplerTypeOK' /\ SamplerInv'  BY SamplerStep, Zenon
  <2>4. HeldInv' /\ FlagTypeOK'  BY HeldStep, Zenon
  <2>5. GateTypeOK'  BY GateStep, Zenon
  <2>6. PlaceTypeOK'  BY PlaceStep, Zenon
  <2>7. RoundTypeOK'  BY RoundTypeStep, Zenon
  <2>8. InsideInv'  BY InsideStep, Zenon
  <2>9. QuietInv'  BY QuietStep, Zenon
  <2>10. FilesInv'  BY FilesStep, Zenon
  <2> QED  BY <2>1, <2>2, <2>3, <2>4, <2>5, <2>6, <2>7, <2>8, <2>9, <2>10, Zenon
<1> QED  BY <1>1, <1>2, PTL DEF Spec

(* A confirmation that is published without the unreliable mark was quiet  *)
(* in every round, and the lock, where there is one, kept others out:      *)
(* Suite::run and ResourceGate of src/engine.rs and src/gate.rs.           *)
THEOREM QuietTheorem == Spec => []ReliableIsQuiet
<1>1. EngineInv => ReliableIsQuiet
  <2> SUFFICES ASSUME EngineInv, packet # None, Confirming, ~packet.unreliable
               PROVE  /\ \A g \in DOMAIN packet.groups : Quiet(packet.groups[g].rounds)
                      /\ pc \in Late /\ conf.lockDir => "lock" \in held
    BY Zenon DEF ReliableIsQuiet, Quiet, Late
  <2>1. \A g \in DOMAIN packet.groups : Quiet(packet.groups[g].rounds)
    BY Zenon DEF EngineInv, QuietInv
  <2>2. ASSUME pc \in Late, conf.lockDir PROVE "lock" \in held
    <3>1. packet.unreliable = unreliable  BY <2>2, Zenon DEF EngineInv, QuietInv
    <3>2. ~unreliable  BY <3>1
    <3> QED  BY <2>2, <3>2, Zenon DEF EngineInv, HeldInv
  <2> QED  BY <2>1, <2>2
<1> QED  BY <1>1, EngineInvariance, PTL

(* Evidence of one certified class of cores holds no round that began or   *)
(* ended outside the certified boundary: PlacementReceipt::verify of       *)
(* src/platform/placement.rs, before and after each round.                 *)
THEOREM InsideTheorem == Spec => []RoundsInsideBoundary
<1>1. EngineInv => RoundsInsideBoundary  BY Zenon DEF EngineInv, InsideInv
<1> QED  BY <1>1, EngineInvariance, PTL

(* The observer keeps to the launch mask and off the pinned CPUs:          *)
(* select_observer of src/platform/placement.rs, start of src/monitor.rs.  *)
THEOREM ObserverTheorem == Spec => []ObserverKeepsOut
<1>1. EngineInv => ObserverKeepsOut
  <2> SUFFICES ASSUME EngineInv, sampler.st \in {"sampling", "running"}, ~moved
               PROVE  LET cpus == CurrentAffinity(sampler.asked, boundary) IN
                      /\ cpus \subseteq Kept
                      /\ sampler.pin # None => cpus \cap conf.pin = {}
                      /\ sampler.pin = None => cpus = Kept
    BY Zenon DEF ObserverKeepsOut, Kept
  <2> DEFINE cpus == CurrentAffinity(sampler.asked, boundary)
  <2>1. sampler.st \in {"starting", "sampling", "running"} /\ sampler.st # "starting"  OBVIOUS
  <2>2. /\ sampler.pin = None => cpus = Kept
        /\ sampler.pin # None => sampler.pin \subseteq Kept /\ sampler.pin \cap conf.pin = {}
                                 /\ cpus \subseteq sampler.pin
    BY <2>1, Zenon DEF EngineInv, SamplerInv
  <2> HIDE DEF cpus
  <2>3. /\ cpus \subseteq Kept
        /\ sampler.pin # None => cpus \cap conf.pin = {}
        /\ sampler.pin = None => cpus = Kept
    BY <2>2, SMT
  <2> QED  BY <2>3 DEF cpus
<1> QED  BY <1>1, EngineInvariance, PTL

(* However a run ends, its mask is what it was, no sampler is left and     *)
(* nobody is kept waiting: the drops of the guards in src/engine.rs.       *)
THEOREM LeakTheorem == Spec => []NothingLeaks
<1>1. EngineInv => NothingLeaks
  <2> SUFFICES ASSUME EngineInv, pc \in Terminal
               PROVE  /\ sampler.st = "none" /\ held = {}
                      /\ ~moved => MyMask = Kept
    BY Zenon DEF NothingLeaks, Kept
  <2>1. sampler.st = "none"  BY Zenon DEF EngineInv, SamplerInv, Alone
  <2>2. held = {}  BY Zenon DEF EngineInv, HeldInv
  <2>3. pc \notin Pinned \cup {"unwind"}  BY SMT DEF Terminal, Pinned
  <2>4. ~moved => MyMask = Kept  BY <2>3, Zenon DEF EngineInv, MaskInv
  <2> QED  BY <2>1, <2>2, <2>4
<1> QED  BY <1>1, EngineInvariance, PTL

(* From the first save on there is a file that tells of the attempt, and a *)
(* child result only beside its evidence: Checkpoint of src/engine.rs.     *)
THEOREM AttemptTheorem == Spec => []AttemptIsKept
<1>1. EngineInv => AttemptIsKept
  <2>1. pc = "next" => pc \in Groups  BY SMT DEF Groups
  <2> QED  BY <2>1, Zenon DEF EngineInv, FilesInv, AttemptIsKept
<1> QED  BY <1>1, EngineInvariance, PTL

=============================================================================
