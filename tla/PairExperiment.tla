--------------------------- MODULE PairExperiment ---------------------------
(***************************************************************************)
(* External pair experiments: run, check_block, load_interrupted of        *)
(* src/src/bin/support/pair.rs, and summarize of pair/analysis.rs.         *)
(*                                                                         *)
(* An attempt runs every arm of every block of every case, one process at  *)
(* a time, checks each finished block against its baseline arm, and keeps  *)
(* what it did in a directory of its own: the plan, a journal of events,   *)
(* a checkpoint per checked block, and at the end a packet.  Whatever is   *)
(* left of an attempt, at any time, can be read and resumed by another.*)
(***************************************************************************)
EXTENDS Naturals, FiniteSets

CONSTANTS
  Attempt,       \* attempts, each with its output directory
  NCases,        \* number of cases of the plan
  NBlocks,       \* number of blocks of each case
  Arm, Base,     \* the arms, one of which is the baseline
  Schedule,      \* the order of the arms in each block, the same for every resume
  Identity,      \* what the plan's programs and inputs may contain
  MaxFailures    \* bound on the invocations and checks that fail

ASSUME PairExperimentAssumption ==
  /\ NCases \in Nat \ {0} /\ NBlocks \in Nat \ {0}
  /\ IsFiniteSet(Arm) /\ Base \in Arm
  /\ MaxFailures \in Nat

NArms == Cardinality(Arm)
Case  == 1 .. NCases
Block == 1 .. NBlocks
Order == 1 .. NArms

ASSUME ScheduleAssumption ==
  /\ Schedule \in [Case \X Block -> [Order -> Arm]]
  /\ \A c \in Case, b \in Block, x \in Arm : \E o \in Order : Schedule[c, b][o] = x

\* An invocation as it is kept: its directory tells whose it was.
Row == [case : Case, block : Block, arm : Arm, by : Attempt,
        status : {"running", "completed", "failed", "interrupted"}]

VARIABLES
  identity,     \* what the programs and inputs contain now
  failures,     \* failures so far
  step,         \* what each attempt does next
  mode,         \* iterate or confirm
  declared,     \* the identity it found when it began
  prior,        \* the rows of the attempt that it resumes
  case, block,  \* where it is
  order,        \* the position in the block's schedule
  unsafe,       \* a process could not be accounted for
  rows,         \* packet.invocations
  opened,       \* attempts whose plan and journal are on disk
  journal,      \* the last event of each invocation
  checkpoint,   \* the rows of the block checkpoints
  packet,       \* the rows of the packet
  published,    \* attempts whose packet is on disk
  checked       \* history: <<attempt, case, block>> that passed through check_block

position == <<case, block, order>>
memory   == <<prior, position, unsafe, rows>>
disk     == <<opened, journal, checkpoint, packet, published>>
contract == <<identity, mode, declared>>
vars == <<contract, failures, step, memory, disk, checked>>

Holding == {"plan", "case", "arm", "run", "check", "checkpoint", "finish"}

TypeOK ==
  /\ identity \in Identity /\ failures \in 0 .. MaxFailures
  /\ step \in [Attempt -> {"new", "wait", "done"} \cup Holding]
  /\ mode \in [Attempt -> {"iterate", "confirm"}]
  /\ declared \in [Attempt -> Identity]
  /\ case \in [Attempt -> Case] /\ block \in [Attempt -> Block]
  /\ order \in [Attempt -> Order]
  /\ unsafe \in [Attempt -> BOOLEAN]
  /\ prior \in [Attempt -> SUBSET Row] /\ rows \in [Attempt -> SUBSET Row]
  /\ journal \in [Attempt -> SUBSET Row] /\ checkpoint \in [Attempt -> SUBSET Row]
  /\ packet \in [Attempt -> SUBSET Row]
  /\ opened \subseteq Attempt /\ published \subseteq Attempt
  /\ checked \subseteq Attempt \X Case \X Block

Init ==
  /\ identity \in Identity /\ failures = 0
  /\ step = [a \in Attempt |-> "new"]
  /\ mode = [a \in Attempt |-> "iterate"]
  /\ declared = [a \in Attempt |-> identity]
  /\ case = [a \in Attempt |-> 1] /\ block = [a \in Attempt |-> 1]
  /\ order = [a \in Attempt |-> 1]
  /\ unsafe = [a \in Attempt |-> FALSE]
  /\ prior = [a \in Attempt |-> {}] /\ rows = [a \in Attempt |-> {}]
  /\ journal = [a \in Attempt |-> {}] /\ checkpoint = [a \in Attempt |-> {}]
  /\ packet = [a \in Attempt |-> {}]
  /\ opened = {} /\ published = {} /\ checked = {}

-----------------------------------------------------------------------------
Goto(a, from, to) == step[a] = from /\ step' = [step EXCEPT ![a] = to]

OfCase(s, c)     == {r \in s : r.case = c}
OfBlock(s, c, b) == {r \in s : r.case = c /\ r.block = b}
Slot(r)          == <<r.case, r.block, r.arm>>

\* s with the rows of t in place of those of the same slots.
Override(s, t) == {r \in s : \A q \in t : Slot(q) # Slot(r)} \cup t

\* case_complete: as many rows as planned, all of them completed.
Complete(s, c) ==
  /\ Cardinality(OfCase(s, c)) = NBlocks * NArms
  /\ \A r \in OfCase(s, c) : r.status = "completed"

\* summarize: only such a block contributes a pair.
Contributes(s, c, b) ==
  /\ Cardinality(OfBlock(s, c, b)) = NArms
  /\ \A r \in OfBlock(s, c, b) : r.status = "completed"

\* The invocation in hand.
Event(a, s) == [case |-> case[a], block |-> block[a], arm |-> Schedule[case[a], block[a]][order[a]],
                by |-> a, status |-> s]

\* The attempt is over: what it had in memory is gone.
Leave(a) ==
  /\ step' = [step EXCEPT ![a] = "done"]
  /\ prior' = [prior EXCEPT ![a] = {}] /\ rows' = [rows EXCEPT ![a] = {}]
  /\ case' = [case EXCEPT ![a] = 1] /\ block' = [block EXCEPT ![a] = 1]
  /\ order' = [order EXCEPT ![a] = 1]
  /\ unsafe' = [unsafe EXCEPT ![a] = FALSE]

\* The attempt goes on with the next case, if there is one.
NextCase(a) ==
  /\ block' = [block EXCEPT ![a] = 1]
  /\ IF case[a] < NCases
       THEN case' = [case EXCEPT ![a] = @ + 1] /\ step' = [step EXCEPT ![a] = "case"]
       ELSE step' = [step EXCEPT ![a] = "finish"] /\ UNCHANGED case

Fail == failures < MaxFailures /\ failures' = failures + 1

Outcome(s) ==
  \/ s = "completed" /\ UNCHANGED failures
  \/ s = "failed" /\ Fail

\* append: the journal has the outcome before the packet in memory.
Log(a, s) ==
  /\ journal' = [journal EXCEPT ![a] = Override(@, {Event(a, s)})]
  /\ rows' = [rows EXCEPT ![a] = @ \cup {Event(a, s)}]
  /\ UNCHANGED <<contract, prior, case, block, opened, checkpoint, packet, published, checked>>

-----------------------------------------------------------------------------
(* Faulty variants of some definitions, which the properties must tell     *)
(* apart.                                                                  *)

\* The journal's completed rows count as they are.
LoadTrusting(a) ==
  IF a \in published THEN packet[a]
  ELSE Override({IF r.status = "running" THEN [r EXCEPT !.status = "interrupted"] ELSE r
                   : r \in journal[a]}, checkpoint[a])

\* The completed arms of an incomplete case are taken over.
EnterCaseBorrowing(a) ==
  /\ Goto(a, "case", "arm") /\ ~Complete(prior[a], case[a])
  /\ rows' = [rows EXCEPT ![a] =
       @ \cup {r \in OfCase(prior[a], case[a]) : r.status = "completed"}]
  /\ UNCHANGED <<contract, failures, prior, position, unsafe, disk, checked>>

\* The rows of the block are checkpointed before they are checked.
InvokeCheckpointing(a) ==
  /\ step[a] = "run"
  /\ \E s \in {"completed", "failed"} :
       /\ Outcome(s)
       /\ journal' = [journal EXCEPT ![a] = Override(@, {Event(a, s)})]
       /\ rows' = [rows EXCEPT ![a] = @ \cup {Event(a, s)}]
  /\ IF order[a] < NArms
       THEN Goto(a, "run", "arm") /\ order' = [order EXCEPT ![a] = @ + 1] /\ UNCHANGED checkpoint
       ELSE /\ Goto(a, "run", "check") /\ order' = [order EXCEPT ![a] = 1]
            /\ checkpoint' = [checkpoint EXCEPT ![a] = @ \cup OfBlock(rows'[a], case[a], block[a])]
  /\ UNCHANGED <<contract, prior, case, block, unsafe, opened, packet, published, checked>>

-----------------------------------------------------------------------------
\* load, load_interrupted: the packet, or else the journal, with the
\* checkpoints over it; what the journal says was completed was not checked.
\* An append cut short is not there.  A case can only be completed by its
\* checkpoints, so that it does not matter that the files are read in turn.
Load(a) ==
  IF a \in published THEN packet[a]
  ELSE Override({IF r.status \in {"running", "completed"}
                   THEN [r EXCEPT !.status = "interrupted"] ELSE r
                   : r \in journal[a]}, checkpoint[a])

\* validate_packet: one row of each slot at most; the rest of it holds by the
\* types of rows and schedule.
Valid(s) == \A r, q \in s : Slot(r) = Slot(q) => r = q

-----------------------------------------------------------------------------
(* Before admission.                                                       *)

\* A fresh attempt, of either mode.
Begin(a) ==
  /\ Goto(a, "new", "wait")
  /\ \E m \in {"iterate", "confirm"} : mode' = [mode EXCEPT ![a] = m]
  /\ declared' = [declared EXCEPT ![a] = identity]
  /\ UNCHANGED <<identity, failures, memory, disk, checked>>

\* --resume loads another attempt, which may still run; what is read of it must
\* be valid, only iterate resumes,
\* and the fingerprints must be the same.
Resume(a, p) ==
  /\ Goto(a, "new", "wait")
  /\ p \in opened
  /\ Valid(Load(p)) /\ mode[p] = "iterate" /\ declared[p] = identity
  /\ declared' = [declared EXCEPT ![a] = identity]
  /\ prior' = [prior EXCEPT ![a] = Load(p)]
  /\ UNCHANGED <<identity, mode, failures, position, unsafe, rows, disk, checked>>

\* The reservation admits one attempt at a time (module Admission).
Admit(a) ==
  /\ Goto(a, "wait", "plan")
  /\ \A b \in Attempt : step[b] \notin Holding
  /\ UNCHANGED <<contract, failures, memory, disk, checked>>

\* The plan is synced before the journal is created; until then nothing loads.
OpenJournal(a) ==
  /\ Goto(a, "plan", "case")
  /\ opened' = opened \cup {a}
  /\ UNCHANGED <<contract, failures, memory, journal, checkpoint, packet, published, checked>>

-----------------------------------------------------------------------------
(* The experiment.                                                         *)

\* A case that the resumed attempt has completed is taken over whole, ...
Reuse(a) ==
  /\ step[a] = "case" /\ Complete(prior[a], case[a])
  /\ rows' = [rows EXCEPT ![a] = @ \cup OfCase(prior[a], case[a])]
  /\ NextCase(a)
  /\ UNCHANGED <<contract, failures, prior, order, unsafe, disk, checked>>

\* ... any other is run from its first block.
EnterCase(a) ==
  /\ Goto(a, "case", "arm") /\ ~Complete(prior[a], case[a])
  /\ UNCHANGED <<contract, failures, memory, disk, checked>>

Deadline(a) ==
  /\ Goto(a, "arm", "finish")
  /\ UNCHANGED <<contract, failures, memory, disk, checked>>

\* The journal learns of the launch before it happens, ...
Start(a) ==
  /\ Goto(a, "arm", "run")
  /\ journal' = [journal EXCEPT ![a] = Override(@, {Event(a, "running")})]
  /\ UNCHANGED <<contract, failures, memory, opened, checkpoint, packet, published, checked>>

\* ... and of the outcome before the next arm of the block.
Invoke(a) ==
  /\ IF order[a] < NArms
       THEN Goto(a, "run", "arm") /\ order' = [order EXCEPT ![a] = @ + 1]
       ELSE Goto(a, "run", "check") /\ order' = [order EXCEPT ![a] = 1]
  /\ \E s \in {"completed", "failed"} : Outcome(s) /\ Log(a, s)
  /\ UNCHANGED unsafe

\* The supervisor gave up on the child, at a timeout or an interrupt, and what is
\* left of it may still run: nothing else may be started.
Lose(a) ==
  /\ Goto(a, "run", "finish")
  /\ Outcome("failed") /\ Log(a, "failed")
  /\ unsafe' = [unsafe EXCEPT ![a] = TRUE]
  /\ UNCHANGED order

\* There are more than 100000 observations by now, which only the sampling
\* during the invocations of a confirmation amounts to.
Overflow(a) ==
  /\ Goto(a, "run", "finish") /\ mode[a] = "confirm"
  /\ \E s \in {"completed", "failed"} : Outcome(s) /\ Log(a, s)
  /\ UNCHANGED <<order, unsafe>>

\* check_block: against a completed baseline, completed candidates may fail; a
\* checker that is lost makes going on unsafe.
Check(a) ==
  LET here == OfBlock(rows[a], case[a], block[a])
      done == {r \in here : r.status = "completed"}
  IN /\ Goto(a, "check", "checkpoint")
     /\ \E bad \in SUBSET {r \in done : r.arm # Base} :
          /\ bad # {} => /\ \E r \in done : r.arm = Base
                         /\ Fail
          /\ bad = {} => UNCHANGED failures
          /\ rows' = [rows EXCEPT ![a] = Override(@, {[r EXCEPT !.status = "failed"] : r \in bad})]
          /\ \E u \in BOOLEAN : (u => bad # {}) /\ unsafe' = [unsafe EXCEPT ![a] = u]
     /\ checked' = checked \cup {<<a, case[a], block[a]>>}
     /\ UNCHANGED <<contract, prior, position, disk>>

Checkpoint(a) ==
  /\ step[a] = "checkpoint"
  /\ checkpoint' = [checkpoint EXCEPT ![a] = @ \cup OfBlock(rows[a], case[a], block[a])]
  /\ CASE unsafe[a] -> step' = [step EXCEPT ![a] = "finish"] /\ UNCHANGED <<case, block>>
       [] ~unsafe[a] /\ block[a] < NBlocks ->
            /\ step' = [step EXCEPT ![a] = "arm"]
            /\ block' = [block EXCEPT ![a] = @ + 1]
            /\ UNCHANGED case
       [] OTHER -> NextCase(a)
  /\ UNCHANGED <<contract, failures, prior, order, unsafe, rows, opened, journal, packet,
                 published, checked>>

\* The identity has changed: there is no packet, but the journal is retained.
Refuse(a) ==
  /\ step[a] = "finish" /\ identity # declared[a]
  /\ Leave(a)
  /\ UNCHANGED <<contract, failures, disk, checked>>

Publish(a) ==
  /\ step[a] = "finish" /\ identity = declared[a]
  /\ packet' = [packet EXCEPT ![a] = rows[a]]
  /\ published' = published \cup {a}
  /\ Leave(a)
  /\ UNCHANGED <<contract, failures, opened, journal, checkpoint, checked>>

\* Anything fails, or the process is killed.
Stop(a) ==
  /\ step[a] \in {"wait"} \cup Holding
  /\ Leave(a)
  /\ UNCHANGED <<contract, failures, disk, checked>>

\* Somebody replaces a program or an input.
Change ==
  /\ identity' \in Identity \ {identity}
  /\ UNCHANGED <<mode, declared, failures, step, memory, disk, checked>>

Next ==
  \/ \E a \in Attempt :
       \/ Begin(a) \/ Admit(a) \/ OpenJournal(a)
       \/ Reuse(a) \/ EnterCase(a) \/ Deadline(a) \/ Start(a) \/ Invoke(a)
       \/ Lose(a) \/ Overflow(a) \/ Check(a) \/ Checkpoint(a)
       \/ Refuse(a) \/ Publish(a) \/ Stop(a)
       \/ \E p \in Attempt : Resume(a, p)
  \/ Change

Spec == Init /\ [][Next]_vars

-----------------------------------------------------------------------------
\* A block of s that would contribute was checked by the attempt that ran it,
\* which ran all of it.
CheckedBlock(s, c, b) ==
  Contributes(s, c, b) =>
    \E a \in Attempt : /\ <<a, c, b>> \in checked
                       /\ \A r \in OfBlock(s, c, b) : r.by = a

\* "Only checked block checkpoints can establish completed cases after an
\* interruption": whatever is read of an attempt that has no packet, while it
\* runs or once it is dead, no block counts that was not checked.
InterruptedIsChecked ==
  \A a \in opened \ published :
    LET loaded == Load(a) IN \A c \in Case, b \in Block : CheckedBlock(loaded, c, b)

\* "It does not borrow successful arms from a failed block": the rows of a case
\* are of one attempt, under the identity that the packet declares, and there
\* is one of each slot.
CasesNotMixed ==
  \A a \in Attempt : \A r, q \in rows[a] \cup packet[a] : r.case = q.case =>
    /\ r.by = q.by /\ declared[r.by] = declared[a]
    /\ r.by # a => r.status = "completed"
    /\ Slot(r) = Slot(q) => r = q

\* What can be read of an attempt never gets less: a completed case stays
\* completed, through checkpoints, publication, and interruption.
NeverUnlearned ==
  [][\A a \in opened :
       LET loaded == Load(a) IN
         \A c \in Case : Complete(loaded, c) => Complete(loaded', c)]_disk

-----------------------------------------------------------------------------
(* What makes InterruptedIsChecked inductive.                              *)

\* What an attempt has checkpointed it has run itself, and checked, ...
CheckpointIsChecked ==
  \A a \in Attempt : \A r \in checkpoint[a] : r.by = a /\ <<a, r.case, r.block>> \in checked

\* ... as it has when it is about to: what it took over is of earlier cases.
OwnRows ==
  \A a \in Attempt :
    /\ step[a] \in {"new", "wait", "plan"} => rows[a] = {}
    /\ step[a] = "checkpoint" => <<a, case[a], block[a]>> \in checked
    /\ step[a] \in {"case", "arm", "run", "check", "checkpoint"} =>
         \A r \in rows[a] : r.by = a \/ r.case < case[a]

IInv == TypeOK /\ CheckpointIsChecked /\ OwnRows
=============================================================================
