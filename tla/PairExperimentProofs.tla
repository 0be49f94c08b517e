------------------------ MODULE PairExperimentProofs ------------------------
(***************************************************************************)
(* PairExperiment, for every plan and any number of attempts: whenever     *)
(* and however an attempt is cut off, what is read back of it counts no    *)
(* block that was not checked, and no case is made of rows of two attempts *)
(* or identities (MixInv), and what was complete stays so (RetainInv).     *)
(* PairConfirmation, for every schedule, interval and load: foreign load   *)
(* inside a window is noticed (ConfirmInv), and the verdict of a           *)
(* confirmation is earned (EarnedInv); no order of a block is drawn in     *)
(* more ways than another (SameWays).  PairPlan, for every plan: what was  *)
(* admitted can be launched (PlanInv).                                     *)
(***************************************************************************)
EXTENDS PairExperiment, PairConfirmation, PairPlan, FiniteSetTheorems, SequenceTheorems, TLAPS

USE PairExperimentAssumption

\* There is a first case, a first block and a first arm.
LEMMA Bounds ==
  /\ 1 \in Case /\ 1 \in Block /\ NArms \in Nat \ {0} /\ 1 \in Order
<1>1. NArms \in Nat
  BY FS_CardinalityType DEF NArms
<1>2. NArms # 0
  <2>1. Arm # {}  OBVIOUS
  <2>2. IsFiniteSet(Arm)  OBVIOUS
  <2>3. Cardinality(Arm) # 0  BY <2>1, <2>2, FS_EmptySet, Zenon
  <2> QED  BY <2>3 DEF NArms
<1> QED  BY <1>1, <1>2 DEF Case, Block, Order

\* The invocation in hand is a row, whatever its outcome.
LEMMA EventIsRow ==
  ASSUME TypeOK, NEW a \in Attempt, NEW s \in {"running", "completed", "failed"}
  PROVE  Event(a, s) \in Row /\ Event(a, s).by = a
<1>1. case[a] \in Case /\ block[a] \in Block /\ order[a] \in Order
  BY DEF TypeOK
<1>2. Schedule[case[a], block[a]] \in [Order -> Arm]
  BY <1>1, ScheduleAssumption, Zenon
<1>3. Schedule[case[a], block[a]][order[a]] \in Arm
  BY <1>1, <1>2, Zenon
<1> QED  BY <1>1, <1>3 DEF Event, Row

\* Replacing rows by rows gives rows.
LEMMA OverrideRows ==
  ASSUME NEW S \in SUBSET Row, NEW T \in SUBSET Row
  PROVE  Override(S, T) \in SUBSET Row
  BY DEF Override

\* What is read of an attempt are rows.
LEMMA LoadRows ==
  ASSUME TypeOK, NEW a \in Attempt
  PROVE  Load(a) \in SUBSET Row
<1> DEFINE J == {IF r.status \in {"running", "completed"}
                   THEN [r EXCEPT !.status = "interrupted"] ELSE r : r \in journal[a]}
<1>1. J \in SUBSET Row
  <2> SUFFICES ASSUME NEW r \in journal[a]
               PROVE  (IF r.status \in {"running", "completed"}
                         THEN [r EXCEPT !.status = "interrupted"] ELSE r) \in Row
    OBVIOUS
  <2>1. r \in Row  BY DEF TypeOK
  <2>2. [r EXCEPT !.status = "interrupted"] \in Row  BY <2>1 DEF Row
  <2> QED  BY <2>1, <2>2
<1>2. checkpoint[a] \in SUBSET Row /\ packet[a] \in SUBSET Row
  BY DEF TypeOK
<1>3. Override(J, checkpoint[a]) \in SUBSET Row
  BY <1>1, <1>2, OverrideRows
<1> QED  BY <1>2, <1>3 DEF Load

\* What an attempt leaves in memory has its type.
LEMMA LeaveType ==
  ASSUME TypeOK, NEW a \in Attempt, Leave(a)
  PROVE  /\ step' \in [Attempt -> {"new", "wait", "done"} \cup Holding]
         /\ case' \in [Attempt -> Case] /\ block' \in [Attempt -> Block]
         /\ order' \in [Attempt -> Order] /\ unsafe' \in [Attempt -> BOOLEAN]
         /\ prior' \in [Attempt -> SUBSET Row] /\ rows' \in [Attempt -> SUBSET Row]
<1>1. /\ step' \in [Attempt -> {"new", "wait", "done"} \cup Holding]
      /\ case' \in [Attempt -> Case] /\ block' \in [Attempt -> Block]
      /\ order' \in [Attempt -> Order] /\ unsafe' \in [Attempt -> BOOLEAN]
  BY Bounds, Zenon DEF TypeOK, Leave
<1>2. prior' \in [Attempt -> SUBSET Row] /\ rows' \in [Attempt -> SUBSET Row]
  BY DEF TypeOK, Leave
<1> QED  BY <1>1, <1>2

\* Every step keeps the types.
LEMMA TypeStep ==
  ASSUME TypeOK, Next
  PROVE  TypeOK'
<1> USE DEF TypeOK, Holding
<1>1. ASSUME NEW a \in Attempt, Begin(a) PROVE TypeOK'
  BY <1>1 DEF Begin, Goto, contract, memory, position, disk
<1>2. ASSUME NEW a \in Attempt, Admit(a) PROVE TypeOK'
  BY <1>2 DEF Admit, Goto, contract, memory, position, disk
<1>3. ASSUME NEW a \in Attempt, OpenJournal(a) PROVE TypeOK'
  BY <1>3 DEF OpenJournal, Goto, contract, memory, position, disk
<1>4. ASSUME NEW a \in Attempt, Reuse(a) PROVE TypeOK'
  BY <1>4, Bounds DEF Reuse, NextCase, OfCase, Case, contract, disk
<1>5. ASSUME NEW a \in Attempt, EnterCase(a) PROVE TypeOK'
  BY <1>5 DEF EnterCase, Goto, contract, memory, position, disk
<1>6. ASSUME NEW a \in Attempt, Deadline(a) PROVE TypeOK'
  BY <1>6 DEF Deadline, Goto, contract, memory, position, disk
<1>7. ASSUME NEW a \in Attempt, Start(a) PROVE TypeOK'
  <2>1. Event(a, "running") \in Row  BY EventIsRow
  <2>2. Override(journal[a], {Event(a, "running")}) \in SUBSET Row  BY <2>1, OverrideRows
  <2> QED  BY <1>7, <2>2 DEF Start, Goto, contract, memory, position, disk
<1>8. ASSUME NEW a \in Attempt, Invoke(a) PROVE TypeOK'
  <2>1. PICK s \in {"completed", "failed"} : Outcome(s) /\ Log(a, s)
    BY <1>8 DEF Invoke
  <2>2. Event(a, s) \in Row  BY EventIsRow
  <2>3. Override(journal[a], {Event(a, s)}) \in SUBSET Row  BY <2>2, OverrideRows
  <2>4. failures' \in 0 .. MaxFailures  BY <2>1 DEF Outcome, Fail
  <2>5. journal' \in [Attempt -> SUBSET Row] /\ rows' \in [Attempt -> SUBSET Row]
    BY <2>1, <2>2, <2>3 DEF Log
  <2>6. order[a] \in 1 .. NArms  BY DEF Order
  <2>7. order' \in [Attempt -> Order]
    <3>1. CASE order[a] < NArms
      <4>1. order[a] + 1 \in Order  BY <2>6, <3>1, Bounds DEF Order
      <4> QED  BY <1>8, <3>1, <4>1 DEF Invoke
    <3>2. CASE ~(order[a] < NArms)  BY <1>8, <3>2, Bounds DEF Invoke
    <3> QED  BY <3>1, <3>2
  <2>8. step' \in [Attempt -> {"new", "wait", "done"} \cup Holding]
    <3> HIDE DEF TypeOK
    <3>1. step' = [step EXCEPT ![a] = "arm"] \/ step' = [step EXCEPT ![a] = "check"]
      BY <1>8, Zenon DEF Invoke, Goto
    <3>2. step \in [Attempt -> {"new", "wait", "done"} \cup Holding]  BY DEF TypeOK
    <3> QED  BY <3>1, <3>2
  <2> QED  BY <1>8, <2>1, <2>4, <2>5, <2>7, <2>8 DEF Invoke, Log, contract
<1>9. ASSUME NEW a \in Attempt, Lose(a) PROVE TypeOK'
  <2> DEFINE s == "failed"
  <2>1. Outcome(s) /\ Log(a, s)  BY <1>9 DEF Lose
  <2>2. Event(a, s) \in Row  BY EventIsRow
  <2>3. Override(journal[a], {Event(a, s)}) \in SUBSET Row  BY <2>2, OverrideRows
  <2>4. failures' \in 0 .. MaxFailures  BY <2>1 DEF Outcome, Fail
  <2>5. journal' \in [Attempt -> SUBSET Row] /\ rows' \in [Attempt -> SUBSET Row]
    BY <2>1, <2>2, <2>3 DEF Log
  <2> QED  BY <1>9, <2>1, <2>4, <2>5, Bounds DEF Lose, Log, Order, Goto, contract, memory, position, disk
<1>10. ASSUME NEW a \in Attempt, Overflow(a) PROVE TypeOK'
  <2>1. PICK s \in {"completed", "failed"} : Outcome(s) /\ Log(a, s)
    BY <1>10 DEF Overflow
  <2>2. Event(a, s) \in Row  BY EventIsRow
  <2>3. Override(journal[a], {Event(a, s)}) \in SUBSET Row  BY <2>2, OverrideRows
  <2>4. failures' \in 0 .. MaxFailures  BY <2>1 DEF Outcome, Fail
  <2>5. journal' \in [Attempt -> SUBSET Row] /\ rows' \in [Attempt -> SUBSET Row]
    BY <2>1, <2>2, <2>3 DEF Log
  <2> QED  BY <1>10, <2>1, <2>4, <2>5, Bounds DEF Overflow, Log, Order, Goto, contract, memory, position, disk
<1>11. ASSUME NEW a \in Attempt, Check(a) PROVE TypeOK'
  <2> DEFINE done == {r \in OfBlock(rows[a], case[a], block[a]) : r.status = "completed"}
  <2>1. PICK bad \in SUBSET {r \in done : r.arm # Base} :
          /\ failures' = failures \/ Fail
          /\ rows' = [rows EXCEPT ![a] = Override(rows[a], {[r EXCEPT !.status = "failed"] : r \in bad})]
    BY <1>11 DEF Check
  <2>2. {[r EXCEPT !.status = "failed"] : r \in bad} \in SUBSET Row  BY DEF OfBlock, Row
  <2>3. Override(rows[a], {[r EXCEPT !.status = "failed"] : r \in bad}) \in SUBSET Row
    BY <2>2, OverrideRows
  <2>4. rows' \in [Attempt -> SUBSET Row]  BY <2>1, <2>3
  <2>5. failures' \in 0 .. MaxFailures  BY <2>1 DEF Fail
  <2>6. unsafe' \in [Attempt -> BOOLEAN]  BY <1>11, Zenon DEF Check
  <2>7. checked' \subseteq Attempt \X Case \X Block  BY <1>11 DEF Check
  <2> QED  BY <1>11, <2>4, <2>5, <2>6, <2>7 DEF Check, Goto, contract, position, disk
<1>12. ASSUME NEW a \in Attempt, Checkpoint(a) PROVE TypeOK'
  BY <1>12, Bounds DEF Checkpoint, NextCase, OfBlock, Case, Block, contract
<1>13. ASSUME NEW a \in Attempt, Refuse(a) PROVE TypeOK'
  BY <1>13, LeaveType DEF Refuse, contract, disk
<1>14. ASSUME NEW a \in Attempt, Publish(a) PROVE TypeOK'
  <2>1. Leave(a)  BY <1>14 DEF Publish
  <2>2. packet' \in [Attempt -> SUBSET Row]  BY <1>14 DEF Publish
  <2>3. published' \subseteq Attempt  BY <1>14 DEF Publish
  <2> QED  BY <1>14, <2>1, <2>2, <2>3, LeaveType DEF Publish, contract
<1>15. ASSUME NEW a \in Attempt, Stop(a) PROVE TypeOK'
  BY <1>15, LeaveType DEF Stop, contract, disk
<1>16. ASSUME NEW a \in Attempt, NEW p \in Attempt, Resume(a, p) PROVE TypeOK'
  <2>1. Load(p) \in SUBSET Row  BY LoadRows
  <2> QED  BY <1>16, <2>1 DEF Resume, Goto, contract, memory, position, disk
<1>17. ASSUME Change PROVE TypeOK'
  BY <1>17 DEF Change, Goto, contract, memory, position, disk
<1> QED BY <1>1, <1>2, <1>3, <1>4, <1>5, <1>6, <1>7, <1>8, <1>9, <1>10, <1>11, <1>12, <1>13, <1>14, <1>15, <1>16, <1>17
       DEF Next

\* Every step keeps that checkpoints are checked.
LEMMA CheckpointStep ==
  ASSUME TypeOK, OwnRows, CheckpointIsChecked, Next
  PROVE  CheckpointIsChecked'
<1> USE DEF TypeOK, CheckpointIsChecked
<1>1. ASSUME NEW a \in Attempt, Begin(a) PROVE CheckpointIsChecked'
  BY <1>1 DEF Begin, Goto, contract, memory, position, disk
<1>2. ASSUME NEW a \in Attempt, Admit(a) PROVE CheckpointIsChecked'
  BY <1>2 DEF Admit, Goto, contract, memory, position, disk
<1>3. ASSUME NEW a \in Attempt, OpenJournal(a) PROVE CheckpointIsChecked'
  BY <1>3 DEF OpenJournal, Goto, contract, memory, position, disk
<1>4. ASSUME NEW a \in Attempt, Reuse(a) PROVE CheckpointIsChecked'
  BY <1>4 DEF Reuse, NextCase, Goto, contract, memory, position, disk
<1>5. ASSUME NEW a \in Attempt, EnterCase(a) PROVE CheckpointIsChecked'
  BY <1>5 DEF EnterCase, Goto, contract, memory, position, disk
<1>6. ASSUME NEW a \in Attempt, Deadline(a) PROVE CheckpointIsChecked'
  BY <1>6 DEF Deadline, Goto, contract, memory, position, disk
<1>7. ASSUME NEW a \in Attempt, Start(a) PROVE CheckpointIsChecked'
  BY <1>7 DEF Start, Goto, contract, memory, position, disk
<1>8. ASSUME NEW a \in Attempt, Invoke(a) PROVE CheckpointIsChecked'
  BY <1>8 DEF Invoke, Log, Goto, contract, memory, position, disk
<1>9. ASSUME NEW a \in Attempt, Lose(a) PROVE CheckpointIsChecked'
  BY <1>9 DEF Lose, Log, Outcome, Fail, Goto, contract, memory, position, disk
<1>10. ASSUME NEW a \in Attempt, Overflow(a) PROVE CheckpointIsChecked'
  BY <1>10 DEF Overflow, Log, Goto, contract, memory, position, disk
<1>11. ASSUME NEW a \in Attempt, Check(a) PROVE CheckpointIsChecked'
  BY <1>11 DEF Check, Fail, Goto, contract, memory, position, disk
<1>12. ASSUME NEW a \in Attempt, Checkpoint(a) PROVE CheckpointIsChecked'
  <2> SUFFICES ASSUME NEW d \in Attempt, NEW r \in checkpoint'[d]
               PROVE  r.by = d /\ <<d, r.case, r.block>> \in checked'
    OBVIOUS
  <2>1. checked' = checked  BY <1>12 DEF Checkpoint
  <2>2. CASE r \in checkpoint[d]  BY <2>1, <2>2
  <2>3. CASE r \notin checkpoint[d]
    <3>1. d = a /\ r \in rows[a] /\ r.case = case[a] /\ r.block = block[a]
      BY <1>12, <2>3 DEF Checkpoint, OfBlock
    <3>2. step[a] = "checkpoint"  BY <1>12 DEF Checkpoint
    <3>3. case[a] \in Nat  BY DEF Case
    <3> QED  BY <2>1, <3>1, <3>2, <3>3 DEF OwnRows
  <2> QED  BY <2>2, <2>3
<1>13. ASSUME NEW a \in Attempt, Refuse(a) PROVE CheckpointIsChecked'
  BY <1>13 DEF Refuse, Leave, Goto, contract, memory, position, disk
<1>14. ASSUME NEW a \in Attempt, Publish(a) PROVE CheckpointIsChecked'
  BY <1>14 DEF Publish, Leave, Goto, contract, memory, position, disk
<1>15. ASSUME NEW a \in Attempt, Stop(a) PROVE CheckpointIsChecked'
  BY <1>15 DEF Stop, Leave, Goto, contract, memory, position, disk
<1>16. ASSUME NEW a \in Attempt, NEW p \in Attempt, Resume(a, p) PROVE CheckpointIsChecked'
  BY <1>16 DEF Resume, Goto, contract, memory, position, disk
<1>17. ASSUME Change PROVE CheckpointIsChecked'
  BY <1>17 DEF Change, Goto, contract, memory, position, disk
<1> QED BY <1>1, <1>2, <1>3, <1>4, <1>5, <1>6, <1>7, <1>8, <1>9, <1>10, <1>11, <1>12, <1>13, <1>14, <1>15, <1>16, <1>17
       DEF Next

\* Every step keeps that an attempt runs all of the case it is in.
LEMMA OwnStep ==
  ASSUME TypeOK, OwnRows, Next
  PROVE  OwnRows'
<1> USE DEF TypeOK, OwnRows
<1>1. ASSUME NEW a \in Attempt, Begin(a) PROVE OwnRows'
  BY <1>1 DEF Begin, Goto, contract, memory, position, disk
<1>2. ASSUME NEW a \in Attempt, Admit(a) PROVE OwnRows'
  BY <1>2 DEF Admit, Goto, contract, memory, position, disk
<1>3. ASSUME NEW a \in Attempt, OpenJournal(a) PROVE OwnRows'
  BY <1>3 DEF OpenJournal, Goto, contract, memory, position, disk
<1>4. ASSUME NEW a \in Attempt, Reuse(a) PROVE OwnRows'
  <2> SUFFICES ASSUME NEW d \in Attempt, NEW r \in rows'[d],
                      step'[d] \in {"case", "arm", "run", "check", "checkpoint"}
               PROVE  r.by = d \/ r.case < case'[d]
    BY <1>4 DEF Reuse, NextCase
  <2>1. CASE d # a  BY <1>4, <2>1 DEF Reuse, NextCase
  <2>2. CASE d = a
    <3>1. case'[a] = case[a] + 1 /\ case[a] \in Nat  BY <1>4, <2>2 DEF Reuse, NextCase, Case
    <3>2. r \in rows[a] \/ r.case = case[a]  BY <1>4, <2>2 DEF Reuse, OfCase
    <3>3. step[a] = "case"  BY <1>4 DEF Reuse
    <3>4. CASE r \in rows[a]
      <4>1. r.case \in Nat  BY <3>4 DEF Row, Case
      <4>2. r.by = a \/ r.case < case[a]  BY <3>3, <3>4
      <4>3. r.case < case[a] => r.case < case'[a]  BY <3>1, <4>1
      <4> QED  BY <2>2, <4>2, <4>3
    <3> QED  BY <2>2, <3>1, <3>2, <3>4
  <2> QED  BY <2>1, <2>2
<1>5. ASSUME NEW a \in Attempt, EnterCase(a) PROVE OwnRows'
  BY <1>5 DEF EnterCase, Goto, contract, memory, position, disk
<1>6. ASSUME NEW a \in Attempt, Deadline(a) PROVE OwnRows'
  BY <1>6 DEF Deadline, Goto, contract, memory, position, disk
<1>7. ASSUME NEW a \in Attempt, Start(a) PROVE OwnRows'
  BY <1>7 DEF Start, Goto, contract, memory, position, disk
<1>8. ASSUME NEW a \in Attempt, Invoke(a) PROVE OwnRows'
  <2>1. PICK s \in {"completed", "failed"} : Log(a, s)
    BY <1>8 DEF Invoke
  <2>2. Event(a, s).by = a  BY DEF Event
  <2>3. rows' = [rows EXCEPT ![a] = @ \cup {Event(a, s)}] /\ case' = case
    BY <2>1 DEF Log
  <2>4. /\ step[a] = "run" /\ step'[a] \in {"arm", "check", "finish"}
        /\ \A d \in Attempt \ {a} : step'[d] = step[d]
    BY <1>8 DEF Invoke, Goto
  <2> SUFFICES ASSUME NEW d \in Attempt
               PROVE  /\ step'[d] \in {"new", "wait", "plan"} => rows'[d] = {}
                      /\ step'[d] = "checkpoint" => <<d, case'[d], block'[d]>> \in checked'
                      /\ step'[d] \in {"case", "arm", "run", "check", "checkpoint"} =>
                           \A r \in rows'[d] : r.by = d \/ r.case < case'[d]
    OBVIOUS
  <2>5. CASE d = a
    <3>1. \A r \in rows'[a] : r \in rows[a] \/ r = Event(a, s)  BY <2>3
    <3> QED  BY <2>2, <2>3, <2>4, <2>5, <3>1
  <2>6. CASE d # a
    <3>1. rows'[d] = rows[d] /\ step'[d] = step[d]  BY <2>3, <2>4, <2>6
    <3> QED  BY <2>1, <2>3, <3>1 DEF Log
  <2> QED  BY <2>5, <2>6
<1>9. ASSUME NEW a \in Attempt, Lose(a) PROVE OwnRows'
  <2> DEFINE s == "failed"
  <2>1. Log(a, s)
    BY <1>9 DEF Lose
  <2>2. Event(a, s).by = a  BY DEF Event
  <2>3. rows' = [rows EXCEPT ![a] = @ \cup {Event(a, s)}] /\ case' = case
    BY <2>1 DEF Log
  <2>4. /\ step[a] = "run" /\ step'[a] \in {"arm", "check", "finish"}
        /\ \A d \in Attempt \ {a} : step'[d] = step[d]
    BY <1>9 DEF Lose, Goto
  <2> SUFFICES ASSUME NEW d \in Attempt
               PROVE  /\ step'[d] \in {"new", "wait", "plan"} => rows'[d] = {}
                      /\ step'[d] = "checkpoint" => <<d, case'[d], block'[d]>> \in checked'
                      /\ step'[d] \in {"case", "arm", "run", "check", "checkpoint"} =>
                           \A r \in rows'[d] : r.by = d \/ r.case < case'[d]
    OBVIOUS
  <2>5. CASE d = a
    <3>1. \A r \in rows'[a] : r \in rows[a] \/ r = Event(a, s)  BY <2>3
    <3> QED  BY <2>2, <2>3, <2>4, <2>5, <3>1
  <2>6. CASE d # a
    <3>1. rows'[d] = rows[d] /\ step'[d] = step[d]  BY <2>3, <2>4, <2>6
    <3> QED  BY <2>1, <2>3, <3>1 DEF Log
  <2> QED  BY <2>5, <2>6
<1>10. ASSUME NEW a \in Attempt, Overflow(a) PROVE OwnRows'
  <2>1. PICK s \in {"completed", "failed"} : Log(a, s)
    BY <1>10 DEF Overflow
  <2>2. Event(a, s).by = a  BY DEF Event
  <2>3. rows' = [rows EXCEPT ![a] = @ \cup {Event(a, s)}] /\ case' = case
    BY <2>1 DEF Log
  <2>4. /\ step[a] = "run" /\ step'[a] \in {"arm", "check", "finish"}
        /\ \A d \in Attempt \ {a} : step'[d] = step[d]
    BY <1>10 DEF Overflow, Goto
  <2> SUFFICES ASSUME NEW d \in Attempt
               PROVE  /\ step'[d] \in {"new", "wait", "plan"} => rows'[d] = {}
                      /\ step'[d] = "checkpoint" => <<d, case'[d], block'[d]>> \in checked'
                      /\ step'[d] \in {"case", "arm", "run", "check", "checkpoint"} =>
                           \A r \in rows'[d] : r.by = d \/ r.case < case'[d]
    OBVIOUS
  <2>5. CASE d = a
    <3>1. \A r \in rows'[a] : r \in rows[a] \/ r = Event(a, s)  BY <2>3
    <3> QED  BY <2>2, <2>3, <2>4, <2>5, <3>1
  <2>6. CASE d # a
    <3>1. rows'[d] = rows[d] /\ step'[d] = step[d]  BY <2>3, <2>4, <2>6
    <3> QED  BY <2>1, <2>3, <3>1 DEF Log
  <2> QED  BY <2>5, <2>6
<1>11. ASSUME NEW a \in Attempt, Check(a) PROVE OwnRows'
  <2>1. PICK bad \in SUBSET OfBlock(rows[a], case[a], block[a]) :
          rows' = [rows EXCEPT ![a] = Override(rows[a], {[r EXCEPT !.status = "failed"] : r \in bad})]
    BY <1>11 DEF Check
  <2>2. \A r \in rows'[a] : \E q \in rows[a] : r.by = q.by /\ r.case = q.case
    <3>1. ASSUME NEW q \in bad
          PROVE  /\ q \in rows[a] /\ [q EXCEPT !.status = "failed"].by = q.by
                 /\ [q EXCEPT !.status = "failed"].case = q.case
      <4>1. q \in rows[a]  BY DEF OfBlock
      <4>2. q \in Row  BY <4>1
      <4> QED  BY <4>1, <4>2 DEF Row
    <3>2. rows'[a] = Override(rows[a], {[r EXCEPT !.status = "failed"] : r \in bad})
      BY <2>1
    <3> SUFFICES ASSUME NEW r \in rows'[a]
                 PROVE  \E q \in rows[a] : r.by = q.by /\ r.case = q.case
      OBVIOUS
    <3>3. r \in rows[a] \/ \E q \in bad : r = [q EXCEPT !.status = "failed"]
      BY <3>2, Zenon DEF Override
    <3>4. CASE r \in rows[a]  BY <3>4
    <3>5. CASE \E q \in bad : r = [q EXCEPT !.status = "failed"]
      <4>1. PICK q \in bad : r = [q EXCEPT !.status = "failed"]  BY <3>5
      <4> QED  BY <3>1, <4>1
    <3> QED  BY <3>3, <3>4, <3>5
  <2>3. case' = case /\ block' = block  BY <1>11 DEF Check, position
  <2>4. /\ step[a] = "check" /\ step'[a] = "checkpoint"
        /\ \A d \in Attempt \ {a} : step'[d] = step[d] /\ rows'[d] = rows[d]
    BY <1>11, <2>1 DEF Check, Goto
  <2>5. <<a, case[a], block[a]>> \in checked' /\ checked \subseteq checked'
    BY <1>11 DEF Check
  <2> SUFFICES ASSUME NEW d \in Attempt
               PROVE  /\ step'[d] \in {"new", "wait", "plan"} => rows'[d] = {}
                      /\ step'[d] = "checkpoint" => <<d, case'[d], block'[d]>> \in checked'
                      /\ step'[d] \in {"case", "arm", "run", "check", "checkpoint"} =>
                           \A r \in rows'[d] : r.by = d \/ r.case < case'[d]
    OBVIOUS
  <2>6. CASE d = a  BY <2>2, <2>3, <2>4, <2>5, <2>6
  <2>7. CASE d # a  BY <2>3, <2>4, <2>5, <2>7
  <2> QED  BY <2>6, <2>7
<1>12. ASSUME NEW a \in Attempt, Checkpoint(a) PROVE OwnRows'
  <2>1. rows' = rows /\ checked' = checked  BY <1>12 DEF Checkpoint
  <2>2. step[a] = "checkpoint" /\ step'[a] \in {"finish", "arm", "case"}
    BY <1>12 DEF Checkpoint, NextCase
  <2>3. \A d \in Attempt \ {a} : step'[d] = step[d] /\ case'[d] = case[d] /\ block'[d] = block[d]
    BY <1>12 DEF Checkpoint, NextCase
  <2>4. case[a] \in Nat /\ (case'[a] = case[a] \/ case'[a] = case[a] + 1)
    BY <1>12 DEF Checkpoint, NextCase, Case
  <2>5. \A r \in rows[a] : r.case \in Nat  BY DEF Row, Case
  <2>6. \A r \in rows[a] : r.by = a \/ r.case < case'[a]
    <3> SUFFICES ASSUME NEW r \in rows[a]  PROVE r.by = a \/ r.case < case'[a]
      OBVIOUS
    <3>1. r.by = a \/ r.case < case[a]  BY <2>2
    <3>2. r.case < case[a] => r.case < case'[a]  BY <2>4, <2>5
    <3> QED  BY <3>1, <3>2
  <2> SUFFICES ASSUME NEW d \in Attempt
               PROVE  /\ step'[d] \in {"new", "wait", "plan"} => rows'[d] = {}
                      /\ step'[d] = "checkpoint" => <<d, case'[d], block'[d]>> \in checked'
                      /\ step'[d] \in {"case", "arm", "run", "check", "checkpoint"} =>
                           \A r \in rows'[d] : r.by = d \/ r.case < case'[d]
    OBVIOUS
  <2>7. CASE d = a  BY <2>1, <2>2, <2>6, <2>7
  <2>8. CASE d # a  BY <2>1, <2>3, <2>8
  <2> QED  BY <2>7, <2>8
<1>13. ASSUME NEW a \in Attempt, Refuse(a) PROVE OwnRows'
  BY <1>13 DEF Refuse, Leave, Goto, contract, memory, position, disk
<1>14. ASSUME NEW a \in Attempt, Publish(a) PROVE OwnRows'
  BY <1>14 DEF Publish, Leave, Goto, contract, memory, position, disk
<1>15. ASSUME NEW a \in Attempt, Stop(a) PROVE OwnRows'
  BY <1>15 DEF Stop, Leave, Goto, contract, memory, position, disk
<1>16. ASSUME NEW a \in Attempt, NEW p \in Attempt, Resume(a, p) PROVE OwnRows'
  BY <1>16 DEF Resume, Goto, contract, memory, position, disk
<1>17. ASSUME Change PROVE OwnRows'
  BY <1>17 DEF Change, Goto, contract, memory, position, disk
<1> QED BY <1>1, <1>2, <1>3, <1>4, <1>5, <1>6, <1>7, <1>8, <1>9, <1>10, <1>11, <1>12, <1>13, <1>14, <1>15, <1>16, <1>17
       DEF Next

-----------------------------------------------------------------------------
\* An experiment starts with nothing recorded.
LEMMA InitInv == Init => IInv
  BY Bounds DEF Init, IInv, TypeOK, CheckpointIsChecked, OwnRows, Holding

\* The invariant is one of the variables alone.
LEMMA StutterInv == IInv /\ UNCHANGED vars => IInv'
  BY DEF IInv, TypeOK, CheckpointIsChecked, OwnRows, vars, contract, memory, position, disk

\* Every step of an attempt keeps the invariant.
LEMMA StepInv == IInv /\ [Next]_vars => IInv'
  BY TypeStep, CheckpointStep, OwnStep, StutterInv DEF IInv

\* The inductive invariant, for every plan and any number of attempts: an
\* attempt checkpoints only rows of its own, of blocks that it has checked.
THEOREM Invariance == Spec => []IInv
  BY InitInv, StepInv, PTL DEF Spec

\* What is read of an attempt without a packet, whenever it was cut off, counts
\* no block that the attempt itself has not run and checked.
THEOREM InterruptedTheorem == Spec => []InterruptedIsChecked
<1>1. IInv => InterruptedIsChecked
  <2> SUFFICES ASSUME IInv, NEW a \in opened \ published, NEW c \in Case, NEW b \in Block,
                      Contributes(Load(a), c, b)
               PROVE  /\ <<a, c, b>> \in checked
                      /\ \A r \in OfBlock(Load(a), c, b) : r.by = a
    BY DEF InterruptedIsChecked, CheckedBlock, IInv, TypeOK
  <2>1. \A r \in Load(a) : r.status = "completed" => r \in checkpoint[a]
    <3> DEFINE J == {IF r.status \in {"running", "completed"}
                       THEN [r EXCEPT !.status = "interrupted"] ELSE r : r \in journal[a]}
    <3>1. \A r \in J : r.status # "completed"
      <4> SUFFICES ASSUME NEW r \in journal[a]
                   PROVE  (IF r.status \in {"running", "completed"}
                             THEN [r EXCEPT !.status = "interrupted"] ELSE r).status # "completed"
        OBVIOUS
      <4>1. r \in Row  BY DEF IInv, TypeOK
      <4>2. [r EXCEPT !.status = "interrupted"].status = "interrupted"  BY <4>1 DEF Row
      <4> QED  BY <4>2
    <3>2. Load(a) = Override(J, checkpoint[a])  BY DEF Load
    <3> QED  BY <3>1, <3>2 DEF Override
  <2>2. OfBlock(Load(a), c, b) # {}
    <3>1. Cardinality(OfBlock(Load(a), c, b)) # 0  BY Bounds DEF Contributes
    <3> QED  BY <3>1, FS_EmptySet, Zenon
  <2>3. \A r \in OfBlock(Load(a), c, b) : r.case = c /\ r.block = b /\ r \in checkpoint[a]
    BY <2>1 DEF Contributes, OfBlock
  <2> QED  BY <2>2, <2>3 DEF IInv, TypeOK, CheckpointIsChecked
<1> QED  BY <1>1, Invariance, PTL

-----------------------------------------------------------------------------
(* No case of a packet is a mixture of attempts.                            *)

\* The rows of a case are of one attempt.
OneAttempt(s) == \A r, q \in s : r.case = q.case => r.by = q.by

\* They are of attempts that have begun, under the identity that a declares.
Lived(a, s) == \A r \in s : step[r.by] # "new" /\ declared[r.by] = declared[a]

\* What an attempt has not run itself it has found completed.
Taken(a, s) == \A r \in s : r.by # a => r.status = "completed"

\* What a retains, in memory and on disk, and what it resumes is unmixed.
Unmixed ==
  \A a \in Attempt :
    /\ OneAttempt(prior[a]) /\ Valid(prior[a]) /\ Lived(a, prior[a])
    /\ OneAttempt(rows[a]) /\ Valid(rows[a]) /\ Lived(a, rows[a]) /\ Taken(a, rows[a])
    /\ OneAttempt(packet[a]) /\ Valid(packet[a]) /\ Lived(a, packet[a]) /\ Taken(a, packet[a])

\* An attempt that has not begun has nothing; only one that is over has a
\* packet, and it has nothing else in memory.
Bare ==
  \A a \in Attempt :
    /\ step[a] = "new" => a \notin opened /\ prior[a] = {}
    /\ step[a] \in {"new", "done"} => rows[a] = {}
    /\ step[a] # "done" => packet[a] = {}

\* The journal of an attempt tells of its own invocations.
OwnJournal == \A a \in Attempt : \A r \in journal[a] : r.by = a

\* The arm at a position of a block.
ArmAt(c, b, o) == Schedule[c, b][o]

\* r was run before the invocation in hand.
Behind(a, r) ==
  \/ r.case < case[a]
  \/ r.case = case[a] /\ r.block < block[a]
  \/ /\ r.case = case[a] /\ r.block = block[a]
     /\ \E o \in Order : o < order[a] /\ r.arm = ArmAt(case[a], block[a], o)

\* The slot of the invocation in hand is free.
RowsAreBehind ==
  \A a \in Attempt : \A r \in rows[a] :
    /\ step[a] = "case" => r.case < case[a]
    /\ step[a] \in {"arm", "run"} => Behind(a, r)
    /\ step[a] \in {"check", "checkpoint"} =>
         r.case < case[a] \/ (r.case = case[a] /\ r.block <= block[a])

MixInv == IInv /\ Unmixed /\ Bare /\ OwnJournal /\ RowsAreBehind

\* There are as many positions as arms.
LEMMA Positions == IsFiniteSet(Order) /\ Cardinality(Order) = Cardinality(Arm)
<1>1. NArms \in Nat \ {0}  BY Bounds
<1>2. /\ NArms \in Int /\ 1 \in Int
      /\ ~(1 > NArms) /\ NArms - 1 + 1 = NArms
  BY <1>1
<1>3. IsFiniteSet(1 .. NArms) /\ Cardinality(1 .. NArms) = NArms
  BY <1>2, FS_Interval, Zenon
<1> QED  BY <1>3, Zenon DEF Order, NArms

\* A schedule puts each arm at one position.
LEMMA OnePosition ==
  ASSUME NEW c \in Case, NEW b \in Block, NEW o \in Order, NEW p \in Order,
         ArmAt(c, b, o) = ArmAt(c, b, p)
  PROVE  o = p
<1> DEFINE f == Schedule[c, b]
<1>1. f \in [Order -> Arm]  BY ScheduleAssumption, Zenon
<1>2. \A x \in Arm : \E i \in Order : f[i] = x  BY ScheduleAssumption, Zenon
<1>3. f \in Surjection(Order, Arm)  BY <1>1, <1>2, Zenon DEF Surjection
<1>4. f \in Injection(Order, Arm)
  BY <1>3, Positions, FS_SurjSameCardinalityImpliesInj, Zenon
<1>5. \A x, y \in Order : f[x] = f[y] => x = y  BY <1>4, Zenon DEF Injection, IsInjective
<1> QED  BY <1>5, Zenon DEF ArmAt

\* The invocation in hand.
LEMMA EventFields ==
  ASSUME NEW a \in Attempt, NEW s
  PROVE  /\ Event(a, s).case = case[a] /\ Event(a, s).block = block[a]
         /\ Event(a, s).by = a /\ Event(a, s).status = s
         /\ Event(a, s).arm = ArmAt(case[a], block[a], order[a])
  BY Zenon DEF Event, ArmAt

\* What has begun stays begun, with the identity that it declared.
LEMMA BegunStays ==
  ASSUME TypeOK, Next, NEW d \in Attempt, step[d] # "new"
  PROVE  step'[d] # "new" /\ declared'[d] = declared[d]
<1> USE DEF TypeOK
<1>1. ASSUME NEW a \in Attempt, Begin(a) PROVE step'[d] # "new" /\ declared'[d] = declared[d]
  BY <1>1 DEF Begin, Goto
<1>2. ASSUME NEW a \in Attempt, NEW p \in Attempt, Resume(a, p)
      PROVE  step'[d] # "new" /\ declared'[d] = declared[d]
  BY <1>2 DEF Resume, Goto
<1>3. ASSUME NEW a \in Attempt,
             Admit(a) \/ OpenJournal(a) \/ EnterCase(a) \/ Deadline(a) \/ Start(a)
      PROVE  step'[d] # "new" /\ declared'[d] = declared[d]
  BY <1>3 DEF Admit, OpenJournal, EnterCase, Deadline, Start, Goto, contract
<1>4. ASSUME NEW a \in Attempt, Invoke(a) \/ Lose(a) \/ Overflow(a)
      PROVE  step'[d] # "new" /\ declared'[d] = declared[d]
  BY <1>4 DEF Invoke, Lose, Overflow, Log, Goto, contract
<1>5. ASSUME NEW a \in Attempt, Check(a) PROVE step'[d] # "new" /\ declared'[d] = declared[d]
  BY <1>5 DEF Check, Goto, contract
<1>6. ASSUME NEW a \in Attempt, Reuse(a) \/ Checkpoint(a)
      PROVE  step'[d] # "new" /\ declared'[d] = declared[d]
  BY <1>6 DEF Reuse, Checkpoint, NextCase, contract
<1>7. ASSUME NEW a \in Attempt, Refuse(a) \/ Publish(a) \/ Stop(a)
      PROVE  step'[d] # "new" /\ declared'[d] = declared[d]
  BY <1>7 DEF Refuse, Publish, Stop, Leave, contract
<1>8. ASSUME Change PROVE step'[d] # "new" /\ declared'[d] = declared[d]
  BY <1>8 DEF Change
<1> QED  BY <1>1, <1>2, <1>3, <1>4, <1>5, <1>6, <1>7, <1>8 DEF Next

\* What a step may do to what the attempt d has: nothing, ...
Rests(d) ==
  /\ step'[d] = step[d] /\ rows'[d] = rows[d] /\ journal'[d] = journal[d]
  /\ prior'[d] = prior[d] /\ packet'[d] = packet[d]
  /\ case'[d] = case[d] /\ block'[d] = block[d] /\ order'[d] = order[d]

\* ... let it begin, with what another one left, ...
Begins(d) ==
  /\ step[d] = "new" /\ step'[d] = "wait"
  /\ rows'[d] = rows[d] /\ journal'[d] = journal[d] /\ packet'[d] = packet[d]
  /\ \/ prior'[d] = prior[d]
     \/ \E p \in opened : /\ Valid(Load(p)) /\ declared'[d] = declared[p]
                          /\ prior'[d] = Load(p)

\* ... let it go on without a result, ...
Moves(d) ==
  /\ <<step[d], step'[d]>> \in {<<"wait", "plan">>, <<"plan", "case">>, <<"case", "arm">>,
                                <<"arm", "finish">>, <<"arm", "run">>}
  /\ rows'[d] = rows[d] /\ prior'[d] = prior[d] /\ packet'[d] = packet[d]
  /\ case'[d] = case[d] /\ block'[d] = block[d] /\ order'[d] = order[d]
  /\ \/ journal'[d] = journal[d]
     \/ journal'[d] = Override(journal[d], {Event(d, "running")})

\* ... take over a case, ...
Reuses(d) ==
  /\ step[d] = "case" /\ Complete(prior[d], case[d])
  /\ rows'[d] = rows[d] \cup OfCase(prior[d], case[d])
  /\ prior'[d] = prior[d] /\ packet'[d] = packet[d] /\ journal'[d] = journal[d]
  /\ step'[d] = "finish" \/ (step'[d] = "case" /\ case'[d] = case[d] + 1)

\* ... log an outcome, ...
Logs(d) ==
  /\ step[d] = "run"
  /\ \E s \in {"completed", "failed"} :
       /\ journal'[d] = Override(journal[d], {Event(d, s)})
       /\ rows'[d] = rows[d] \cup {Event(d, s)}
  /\ prior'[d] = prior[d] /\ packet'[d] = packet[d]
  /\ case'[d] = case[d] /\ block'[d] = block[d]
  /\ \/ step'[d] = "arm" /\ order[d] < NArms /\ order'[d] = order[d] + 1
     \/ step'[d] \in {"check", "finish"}

\* ... let a check fail some rows of the block, ...
Checks(d) ==
  /\ step[d] = "check" /\ step'[d] = "checkpoint"
  /\ \E bad \in SUBSET OfBlock(rows[d], case[d], block[d]) :
       rows'[d] = Override(rows[d], {[r EXCEPT !.status = "failed"] : r \in bad})
  /\ prior'[d] = prior[d] /\ packet'[d] = packet[d] /\ journal'[d] = journal[d]
  /\ case'[d] = case[d] /\ block'[d] = block[d]

\* ... finish a block, ...
Checkpoints(d) ==
  /\ step[d] = "checkpoint"
  /\ rows'[d] = rows[d] /\ prior'[d] = prior[d] /\ packet'[d] = packet[d]
  /\ journal'[d] = journal[d]
  /\ \/ step'[d] = "finish"
     \/ step'[d] = "arm" /\ case'[d] = case[d] /\ block'[d] = block[d] + 1
     \/ step'[d] = "case" /\ case'[d] = case[d] + 1

\* ... or end it.
Leaves(d) ==
  /\ step[d] \notin {"new", "done"} /\ step'[d] = "done"
  /\ rows'[d] = {} /\ prior'[d] = {} /\ journal'[d] = journal[d]
  /\ packet'[d] = packet[d] \/ packet'[d] = rows[d]

Effect(d) ==
  \/ Rests(d) \/ Begins(d) \/ Moves(d) \/ Reuses(d) \/ Logs(d) \/ Checks(d)
  \/ Checkpoints(d) \/ Leaves(d)

\* These are all there is.
LEMMA Effects ==
  ASSUME TypeOK, Next, NEW d \in Attempt
  PROVE  Effect(d)
<1> USE DEF TypeOK
<1>1. ASSUME NEW a \in Attempt, Begin(a) PROVE Effect(d)
  BY <1>1 DEF Begin, Goto, memory, position, disk, Effect, Rests, Begins
<1>2. ASSUME NEW a \in Attempt, NEW p \in Attempt, Resume(a, p) PROVE Effect(d)
  <2>1. CASE d = a
    <3>1. step[d] = "new" /\ step'[d] = "wait"  BY <1>2, <2>1 DEF Resume, Goto
    <3>2. rows'[d] = rows[d] /\ journal'[d] = journal[d] /\ packet'[d] = packet[d]
      BY <1>2 DEF Resume, disk
    <3>3. p \in opened /\ Valid(Load(p)) /\ declared'[d] = declared[p]
      BY <1>2, <2>1 DEF Resume
    <3>4. prior'[d] = Load(p)  BY <1>2, <2>1 DEF Resume
    <3> QED  BY <3>1, <3>2, <3>3, <3>4, Zenon DEF Effect, Begins
  <2>2. CASE d # a
    BY <1>2, <2>2 DEF Resume, Goto, position, disk, Effect, Rests
  <2> QED  BY <2>1, <2>2
<1>3. ASSUME NEW a \in Attempt,
             Admit(a) \/ OpenJournal(a) \/ EnterCase(a) \/ Deadline(a) \/ Start(a)
      PROVE  Effect(d)
  BY <1>3 DEF Admit, OpenJournal, EnterCase, Deadline, Start, Goto, memory, position, disk,
              Effect, Rests, Moves
<1>4. ASSUME NEW a \in Attempt, Reuse(a) PROVE Effect(d)
  BY <1>4 DEF Reuse, NextCase, disk, Effect, Rests, Reuses
<1>5. ASSUME NEW a \in Attempt, NEW s \in {"completed", "failed"}, Log(a, s),
             Invoke(a) \/ Lose(a) \/ Overflow(a)
      PROVE  Effect(d)
  <2>1. CASE d = a
    <3>1. /\ journal'[d] = Override(journal[d], {Event(d, s)})
          /\ rows'[d] = rows[d] \cup {Event(d, s)}
          /\ prior'[d] = prior[d] /\ packet'[d] = packet[d]
          /\ case'[d] = case[d] /\ block'[d] = block[d]
      BY <1>5, <2>1 DEF Log
    <3>2. /\ step[d] = "run"
          /\ \/ step'[d] = "arm" /\ order[d] < NArms /\ order'[d] = order[d] + 1
             \/ step'[d] \in {"check", "finish"}
      BY <1>5, <2>1 DEF Invoke, Lose, Overflow, Goto
    <3> QED  BY <3>1, <3>2, Zenon DEF Effect, Logs
  <2>2. CASE d # a
    BY <1>5, <2>2 DEF Log, Invoke, Lose, Overflow, Goto, Effect, Rests
  <2> QED  BY <2>1, <2>2
<1>6. ASSUME NEW a \in Attempt, Check(a) PROVE Effect(d)
  <2>1. PICK bad \in SUBSET OfBlock(rows[a], case[a], block[a]) :
          rows' = [rows EXCEPT ![a] = Override(rows[a], {[r EXCEPT !.status = "failed"] : r \in bad})]
    BY <1>6 DEF Check
  <2>2. CASE d = a
    <3>1. rows'[d] = Override(rows[d], {[r EXCEPT !.status = "failed"] : r \in bad})
      BY <2>1, <2>2
    <3>2. /\ step[d] = "check" /\ step'[d] = "checkpoint"
          /\ prior'[d] = prior[d] /\ packet'[d] = packet[d] /\ journal'[d] = journal[d]
          /\ case'[d] = case[d] /\ block'[d] = block[d]
      BY <1>6, <2>2 DEF Check, Goto, position, disk
    <3> QED  BY <2>2, <3>1, <3>2, Zenon DEF Effect, Checks
  <2>3. CASE d # a
    BY <1>6, <2>1, <2>3 DEF Check, Goto, position, disk, Effect, Rests
  <2> QED  BY <2>2, <2>3
<1>7. ASSUME NEW a \in Attempt, Checkpoint(a) PROVE Effect(d)
  <2>1. /\ rows' = rows /\ prior' = prior /\ packet' = packet /\ journal' = journal
        /\ order' = order
    BY <1>7 DEF Checkpoint
  <2>2. step[a] = "checkpoint"  BY <1>7 DEF Checkpoint
  <2>3. \/ step'[a] = "finish"
        \/ step'[a] = "arm" /\ case'[a] = case[a] /\ block'[a] = block[a] + 1
        \/ step'[a] = "case" /\ case'[a] = case[a] + 1
    BY <1>7 DEF Checkpoint, NextCase
  <2>4. d # a => step'[d] = step[d] /\ case'[d] = case[d] /\ block'[d] = block[d]
    BY <1>7 DEF Checkpoint, NextCase
  <2> QED  BY <2>1, <2>2, <2>3, <2>4 DEF Effect, Rests, Checkpoints
<1>8. ASSUME NEW a \in Attempt, Refuse(a) \/ Publish(a) \/ Stop(a) PROVE Effect(d)
  BY <1>8 DEF Refuse, Publish, Stop, Leave, Holding, disk, Effect, Rests, Leaves
<1>9. ASSUME Change PROVE Effect(d)
  BY <1>9 DEF Change, memory, position, disk, Effect, Rests
<1>10. ASSUME NEW a \in Attempt, Invoke(a) \/ Lose(a) \/ Overflow(a) PROVE Effect(d)
  <2>1. PICK s \in {"completed", "failed"} : Log(a, s)
    BY <1>10 DEF Invoke, Lose, Overflow
  <2> QED  BY <1>5, <1>10, <2>1
<1> QED  BY <1>1, <1>2, <1>3, <1>4, <1>6, <1>7, <1>8, <1>9, <1>10 DEF Next

\* Every step keeps that an attempt that has not begun has nothing.
LEMMA BareStep ==
  ASSUME TypeOK, Bare, Next
  PROVE  Bare'
<1>1. opened' \subseteq opened \cup {d \in Attempt : step'[d] # "new"}
  <2>1. ASSUME NEW a \in Attempt, OpenJournal(a)
        PROVE  opened' \subseteq opened \cup {d \in Attempt : step'[d] # "new"}
    BY <2>1 DEF OpenJournal, Goto, TypeOK
  <2>2. ASSUME NEW a \in Attempt, Invoke(a) \/ Lose(a) \/ Overflow(a)
        PROVE  opened' = opened
    BY <2>2 DEF Invoke, Lose, Overflow, Log
  <2>3. ASSUME NEW a \in Attempt,
               Begin(a) \/ Admit(a) \/ Reuse(a) \/ EnterCase(a) \/ Deadline(a) \/ Start(a)
                 \/ Check(a) \/ Checkpoint(a) \/ Refuse(a) \/ Publish(a) \/ Stop(a)
        PROVE  opened' = opened
    BY <2>3 DEF Begin, Admit, Reuse, EnterCase, Deadline, Start, Check, Checkpoint, Refuse,
                Publish, Stop, disk
  <2>4. ASSUME (\E a, p \in Attempt : Resume(a, p)) \/ Change PROVE opened' = opened
    BY <2>4 DEF Resume, Change, disk
  <2> QED  BY <2>1, <2>2, <2>3, <2>4 DEF Next
<1> SUFFICES ASSUME NEW d \in Attempt
             PROVE  /\ step'[d] = "new" => d \notin opened' /\ prior'[d] = {}
                    /\ step'[d] \in {"new", "done"} => rows'[d] = {}
                    /\ step'[d] # "done" => packet'[d] = {}
  BY DEF Bare
<1>2. Effect(d)  BY Effects
<1>3. /\ step[d] = "new" => d \notin opened /\ prior[d] = {}
      /\ step[d] \in {"new", "done"} => rows[d] = {}
      /\ step[d] # "done" => packet[d] = {}
  BY DEF Bare
<1>4. step'[d] = "new" => step[d] = "new"  BY BegunStays
<1> QED  BY <1>1, <1>2, <1>3, <1>4
     DEF Effect, Rests, Begins, Moves, Reuses, Logs, Checks, Checkpoints, Leaves

\* Every step keeps that the journal of an attempt is its own.
LEMMA JournalStep ==
  ASSUME TypeOK, OwnJournal, Next
  PROVE  OwnJournal'
<1> SUFFICES ASSUME NEW d \in Attempt, NEW r \in journal'[d] PROVE r.by = d
  BY DEF OwnJournal
<1>1. \A q \in journal[d] : q.by = d  BY DEF OwnJournal
<1>2. CASE r \in journal[d]  BY <1>1, <1>2
<1>3. CASE r \notin journal[d]
  <2>1. \E s \in {"running", "completed", "failed"} :
          journal'[d] = Override(journal[d], {Event(d, s)})
    BY <1>3, Effects
       DEF Effect, Rests, Begins, Moves, Reuses, Logs, Checks, Checkpoints, Leaves
  <2>2. PICK s \in {"running", "completed", "failed"} : r \in Override(journal[d], {Event(d, s)})
    BY <2>1
  <2>3. r = Event(d, s)  BY <1>3, <2>2 DEF Override
  <2> QED  BY <2>3 DEF Event
<1> QED  BY <1>2, <1>3

\* What is behind stays behind when the arm, the block or the case in hand is
\* done, and what is done then is behind.
LEMMA BehindStep ==
  ASSUME TypeOK, OwnRows, Bare, RowsAreBehind, Next
  PROVE  RowsAreBehind'
<1> DEFINE Goal(d, r) ==
      /\ step'[d] = "case" => r.case < case'[d]
      /\ step'[d] \in {"arm", "run"} => Behind(d, r)'
      /\ step'[d] \in {"check", "checkpoint"} =>
           r.case < case'[d] \/ (r.case = case'[d] /\ r.block <= block'[d])
<1> SUFFICES ASSUME NEW d \in Attempt, NEW r \in rows'[d] PROVE Goal(d, r)
  BY DEF RowsAreBehind
<1>0. TypeOK'  BY TypeStep
<1>1. /\ case[d] \in Nat /\ case'[d] \in Nat /\ block[d] \in Nat /\ block'[d] \in Nat
      /\ order[d] \in Nat /\ order'[d] \in Nat /\ order[d] \in Order
      /\ r \in Row /\ r.case \in Nat /\ r.block \in Nat
  BY <1>0 DEF TypeOK, Case, Block, Order, Row
<1>2. \A q \in rows[d] :
        /\ step[d] = "case" => q.case < case[d]
        /\ step[d] \in {"arm", "run"} => Behind(d, q)
        /\ step[d] \in {"check", "checkpoint"} =>
             q.case < case[d] \/ (q.case = case[d] /\ q.block <= block[d])
  BY DEF RowsAreBehind
<1>3. CASE Rests(d)
  BY <1>2, <1>3 DEF Rests, Behind
<1>4. CASE Begins(d)
  BY <1>4 DEF Begins
<1>5. CASE Moves(d)
  <2>1. step[d] = "plan" => rows[d] = {}  BY DEF OwnRows
  <2>2. CASE step[d] = "case"
    <3>1. r.case < case'[d] /\ step'[d] = "arm"  BY <1>2, <1>5, <2>2 DEF Moves
    <3> QED  BY <3>1 DEF Behind
  <2>3. CASE step[d] # "case"
    BY <1>2, <1>5, <2>1, <2>3 DEF Moves, Behind
  <2> QED  BY <2>2, <2>3
<1>6. CASE Reuses(d)
  <2>1. r \in rows[d] \/ r.case = case[d]  BY <1>6 DEF Reuses, OfCase
  <2>2. r.case <= case[d]  BY <1>1, <1>2, <1>6, <2>1 DEF Reuses
  <2> QED  BY <1>1, <1>6, <2>2 DEF Reuses
<1>7. CASE Logs(d)
  <2>1. PICK s \in {"completed", "failed"} : rows'[d] = rows[d] \cup {Event(d, s)}
    BY <1>7 DEF Logs
  <2>2. \/ Behind(d, r)
        \/ r.case = case[d] /\ r.block = block[d] /\ r.arm = ArmAt(case[d], block[d], order[d])
    <3>1. r \in rows[d] \/ r = Event(d, s)  BY <2>1
    <3> QED  BY <1>2, <1>7, <3>1, EventFields DEF Logs
  <2>3. r.case < case[d] \/ (r.case = case[d] /\ r.block <= block[d])
    BY <1>1, <2>2 DEF Behind
  <2>4. case'[d] = case[d] /\ block'[d] = block[d]  BY <1>7 DEF Logs
  <2>5. ASSUME step'[d] = "arm" PROVE Behind(d, r)'
    <3>1. order'[d] = order[d] + 1  BY <1>7, <2>5 DEF Logs
    <3>2. order[d] < order'[d] /\ \A o \in Order : o < order[d] => o < order'[d]
      BY <1>1, <3>1 DEF Order
    <3> QED  BY <1>1, <2>2, <2>4, <3>2 DEF Behind
  <2>6. step'[d] \in {"arm", "check", "finish"}  BY <1>7 DEF Logs
  <2> QED  BY <2>3, <2>4, <2>5, <2>6
<1>8. CASE Checks(d)
  <2>1. PICK bad \in SUBSET OfBlock(rows[d], case[d], block[d]) :
          rows'[d] = Override(rows[d], {[q EXCEPT !.status = "failed"] : q \in bad})
    BY <1>8 DEF Checks
  <2>2. \E q \in rows[d] : r.case = q.case /\ r.block = q.block
    <3>1. CASE r \in rows[d]  BY <3>1
    <3>2. CASE r \notin rows[d]
      <4>1. PICK q \in bad : r = [q EXCEPT !.status = "failed"]
        BY <2>1, <3>2 DEF Override
      <4>2. q \in rows[d] /\ q \in Row  BY <4>1 DEF OfBlock, TypeOK
      <4> QED  BY <4>1, <4>2 DEF Row
    <3> QED  BY <3>1, <3>2
  <2> QED  BY <1>2, <1>8, <2>2 DEF Checks
<1>9. CASE Checkpoints(d)
  <2>1. r.case < case[d] \/ (r.case = case[d] /\ r.block <= block[d])
    BY <1>2, <1>9 DEF Checkpoints
  <2>2. ASSUME step'[d] = "arm" PROVE Behind(d, r)'
    <3>1. case'[d] = case[d] /\ block'[d] = block[d] + 1  BY <1>9, <2>2 DEF Checkpoints
    <3>2. r.case < case'[d] \/ (r.case = case'[d] /\ r.block < block'[d])
      BY <1>1, <2>1, <3>1
    <3> QED  BY <3>2 DEF Behind
  <2>3. ASSUME step'[d] = "case" PROVE r.case < case'[d]
    <3>1. case'[d] = case[d] + 1  BY <1>9, <2>3 DEF Checkpoints
    <3> QED  BY <1>1, <2>1, <3>1
  <2>4. step'[d] \in {"arm", "case", "finish"}  BY <1>9 DEF Checkpoints
  <2> QED  BY <2>2, <2>3, <2>4
<1>10. CASE Leaves(d)
  BY <1>10 DEF Leaves
<1>11. Effect(d)  BY Effects
<1> QED  BY <1>3, <1>4, <1>5, <1>6, <1>7, <1>8, <1>9, <1>10, <1>11 DEF Effect

\* A case that is not there can be added whole.
LEMMA AddCase ==
  ASSUME NEW R \in SUBSET Row, NEW P \in SUBSET Row, NEW c \in Case,
         OneAttempt(R), Valid(R), OneAttempt(P), Valid(P), \A r \in R : r.case < c
  PROVE  OneAttempt(R \cup OfCase(P, c)) /\ Valid(R \cup OfCase(P, c))
<1>1. \A r \in R, q \in OfCase(P, c) : r.case # q.case
  <2>1. \A r \in R : r.case \in Nat  BY DEF Row, Case
  <2>2. c \in Nat  BY DEF Case
  <2>3. \A r \in R : r.case # c  BY <2>1, <2>2
  <2> QED  BY <2>3 DEF OfCase
<1>2. OneAttempt(R \cup OfCase(P, c))
  BY <1>1, Zenon DEF OneAttempt, OfCase
<1>3. \A r, q : Slot(r) = Slot(q) => r.case = q.case
  BY DEF Slot
<1>4. Valid(R \cup OfCase(P, c))
  BY <1>1, <1>3, Zenon DEF Valid, OfCase
<1> QED  BY <1>2, <1>4

\* A row can be added of which there is none of the slot, and others of the case
\* only by the same attempt.
LEMMA AddRow ==
  ASSUME NEW R, NEW e, OneAttempt(R), Valid(R),
         \A r \in R : Slot(r) # Slot(e), \A r \in R : r.case = e.case => r.by = e.by
  PROVE  OneAttempt(R \cup {e}) /\ Valid(R \cup {e})
<1>1. OneAttempt(R \cup {e})
  <2> SUFFICES ASSUME NEW r \in R \cup {e}, NEW q \in R \cup {e}, r.case = q.case
               PROVE  r.by = q.by
    BY DEF OneAttempt
  <2>1. CASE r = e \/ q = e  BY <2>1, Zenon
  <2>2. CASE r \in R /\ q \in R  BY <2>2, Zenon DEF OneAttempt
  <2> QED  BY <2>1, <2>2, Zenon
<1>2. Valid(R \cup {e})
  BY Zenon DEF Valid
<1> QED  BY <1>1, <1>2

\* The row r, failed by a check.
LEMMA FailedRow ==
  ASSUME NEW r \in Row
  PROVE  LET q == [r EXCEPT !.status = "failed"]
         IN q.case = r.case /\ q.by = r.by /\ Slot(q) = Slot(r)
  BY DEF Row, Slot

\* Rows can be failed.
LEMMA FailRows ==
  ASSUME NEW R \in SUBSET Row, NEW bad \in SUBSET R, OneAttempt(R), Valid(R)
  PROVE  LET S == Override(R, {[r EXCEPT !.status = "failed"] : r \in bad})
         IN  OneAttempt(S) /\ Valid(S)
<1> DEFINE F(r) == [r EXCEPT !.status = "failed"]
           T == {F(r) : r \in bad}
           S == Override(R, T)
<1>1. \A r \in bad : r \in R /\ F(r).case = r.case /\ F(r).by = r.by /\ Slot(F(r)) = Slot(r)
  BY FailedRow, Zenon
<1> HIDE DEF F
<1>2. \A r \in S : \E q \in R : r.case = q.case /\ r.by = q.by
  BY <1>1, Zenon DEF Override
<1>3. OneAttempt(S)
  <2> SUFFICES ASSUME NEW r \in S, NEW q \in S, r.case = q.case PROVE r.by = q.by
    BY DEF OneAttempt
  <2>1. PICK x \in R : r.case = x.case /\ r.by = x.by  BY <1>2
  <2>2. PICK y \in R : q.case = y.case /\ q.by = y.by  BY <1>2
  <2> QED  BY <2>1, <2>2, Zenon DEF OneAttempt
<1>4. Valid(S)
  <2> SUFFICES ASSUME NEW r \in S, NEW q \in S, Slot(r) = Slot(q) PROVE r = q
    BY DEF Valid
  <2> HIDE DEF T
  <2>1. CASE r \in T /\ q \in T
    <3>1. PICK x \in bad : r = F(x)  BY <2>1 DEF T
    <3>2. PICK y \in bad : q = F(y)  BY <2>1 DEF T
    <3>3. Slot(x) = Slot(y)  BY <1>1, <3>1, <3>2, Zenon
    <3>4. x = y  BY <1>1, <3>3, Zenon DEF Valid
    <3> QED  BY <3>1, <3>2, <3>4
  <2>2. CASE r \notin T /\ q \notin T
    <3>1. r \in R /\ q \in R  BY <2>2 DEF Override
    <3> QED  BY <3>1, Zenon DEF Valid
  <2>3. CASE r \in T /\ q \notin T  BY <2>3, Zenon DEF Override
  <2>4. CASE r \notin T /\ q \in T  BY <2>4, Zenon DEF Override
  <2> QED  BY <2>1, <2>2, <2>3, <2>4
<1> QED  BY <1>3, <1>4 DEF F

\* What is read of an attempt that has no packet is its own; so that what is read
\* of any attempt is of one attempt for each case.
LEMMA LoadUnmixed ==
  ASSUME TypeOK, CheckpointIsChecked, OwnJournal, Bare, Unmixed, NEW p \in opened
  PROVE  OneAttempt(Load(p)) /\ Lived(p, Load(p))
<1> p \in Attempt /\ step[p] # "new"  BY DEF TypeOK, Bare
<1>1. CASE p \in published
  <2>1. Load(p) = packet[p]  BY <1>1 DEF Load
  <2> QED  BY <2>1 DEF Unmixed
<1>2. CASE p \notin published
  <2> DEFINE I(r) == IF r.status \in {"running", "completed"}
                       THEN [r EXCEPT !.status = "interrupted"] ELSE r
             J == {I(r) : r \in journal[p]}
  <2>1. \A r \in journal[p] : I(r).by = p
    <3> SUFFICES ASSUME NEW r \in journal[p] PROVE I(r).by = p
      OBVIOUS
    <3>1. r \in Row /\ r.by = p  BY DEF TypeOK, OwnJournal
    <3> QED  BY <3>1 DEF Row
  <2>2. Load(p) = Override(J, checkpoint[p])  BY <1>2 DEF Load
  <2> HIDE DEF I
  <2>3. ASSUME NEW r \in Load(p) PROVE r.by = p
    <3>1. r \in checkpoint[p] \/ \E q \in journal[p] : r = I(q)
      BY <2>2, Zenon DEF Override
    <3> QED  BY <2>1, <3>1 DEF CheckpointIsChecked
  <2> QED  BY <2>3, Zenon DEF OneAttempt, Lived
<1> QED  BY <1>1, <1>2

\* Of attempts that have begun rows stay, under the same identity.
LEMMA LivedStays ==
  ASSUME TypeOK, Next, NEW d \in Attempt, NEW S \in SUBSET Row, Lived(d, S),
         step[d] # "new"
  PROVE  \A r \in S : step'[r.by] # "new" /\ declared'[r.by] = declared'[d]
<1> SUFFICES ASSUME NEW r \in S PROVE step'[r.by] # "new" /\ declared'[r.by] = declared'[d]
  OBVIOUS
<1>1. r.by \in Attempt  BY DEF Row
<1>2. step[r.by] # "new" /\ declared[r.by] = declared[d]  BY DEF Lived
<1>3. step'[r.by] # "new" /\ declared'[r.by] = declared[r.by]  BY <1>1, <1>2, BegunStays
<1>4. declared'[d] = declared[d]  BY BegunStays
<1> QED  BY <1>2, <1>3, <1>4

\* Every step keeps what is retained and resumed unmixed.
LEMMA UnmixedStep ==
  ASSUME MixInv, Next
  PROVE  Unmixed'
<1> USE DEF MixInv, IInv
<1> DEFINE Fine(d, S) ==
      OneAttempt(S) /\ Valid(S)
      /\ \A r \in S : step'[r.by] # "new" /\ declared'[r.by] = declared'[d]
<1> SUFFICES ASSUME NEW d \in Attempt
             PROVE  /\ Fine(d, prior'[d])
                    /\ Fine(d, rows'[d]) /\ Taken(d, rows'[d])
                    /\ Fine(d, packet'[d]) /\ Taken(d, packet'[d])
  BY Zenon DEF Unmixed, OneAttempt, Valid, Lived, Taken, Slot
<1>1. Effect(d)  BY Effects
<1>2. /\ prior[d] \in SUBSET Row /\ rows[d] \in SUBSET Row /\ packet[d] \in SUBSET Row
      /\ case[d] \in Case
  BY DEF TypeOK
<1>3. /\ OneAttempt(prior[d]) /\ Valid(prior[d]) /\ Lived(d, prior[d])
      /\ OneAttempt(rows[d]) /\ Valid(rows[d]) /\ Lived(d, rows[d]) /\ Taken(d, rows[d])
      /\ OneAttempt(packet[d]) /\ Valid(packet[d]) /\ Lived(d, packet[d]) /\ Taken(d, packet[d])
  BY DEF Unmixed
<1>4. step[d] = "new" => prior[d] = {} /\ rows[d] = {} /\ packet[d] = {}
  BY DEF Bare
<1>5. Fine(d, {}) /\ Taken(d, {})
  BY DEF OneAttempt, Valid, Taken
\* What is kept is as it was.
<1>6. Fine(d, prior[d]) /\ Fine(d, rows[d]) /\ Fine(d, packet[d])
  <2>1. CASE step[d] = "new"  BY <1>4, <1>5, <2>1
  <2>2. CASE step[d] # "new"  BY <1>2, <1>3, <2>2, LivedStays
  <2> QED  BY <2>1, <2>2
<1> HIDE DEF Fine
<1>7. CASE Rests(d) \/ Moves(d) \/ Checkpoints(d)
  BY <1>3, <1>6, <1>7 DEF Rests, Moves, Checkpoints
<1>8. CASE Begins(d)
  <2>1. rows'[d] = rows[d] /\ packet'[d] = packet[d]  BY <1>8 DEF Begins
  <2>2. CASE prior'[d] = prior[d]  BY <1>3, <1>6, <2>1, <2>2
  <2>3. CASE \E p \in opened : /\ Valid(Load(p)) /\ declared'[d] = declared[p]
                               /\ prior'[d] = Load(p)
    <3>1. PICK p \in opened : /\ Valid(Load(p)) /\ declared'[d] = declared[p]
                              /\ prior'[d] = Load(p)
      BY <2>3
    <3>2. p \in Attempt /\ step[p] # "new"  BY DEF TypeOK, Bare
    <3>3. OneAttempt(Load(p)) /\ Lived(p, Load(p))  BY LoadUnmixed
    <3>4. Load(p) \in SUBSET Row  BY <3>2, LoadRows
    <3>5. \A r \in Load(p) : step'[r.by] # "new" /\ declared'[r.by] = declared'[p]
      BY <3>2, <3>3, <3>4, LivedStays
    <3>6. declared'[p] = declared[p]  BY <3>2, BegunStays
    <3>7. Fine(d, Load(p))  BY <3>1, <3>3, <3>5, <3>6 DEF Fine
    <3> QED  BY <1>3, <1>6, <2>1, <3>1, <3>7
  <2> QED  BY <1>8, <2>2, <2>3 DEF Begins
<1>9. CASE Reuses(d)
  <2> DEFINE T == OfCase(prior[d], case[d])
  <2>1. step[d] = "case" /\ rows'[d] = rows[d] \cup T /\ prior'[d] = prior[d] /\ packet'[d] = packet[d]
    BY <1>9 DEF Reuses
  <2>2. \A r \in rows[d] : r.case < case[d]  BY <2>1 DEF RowsAreBehind
  <2>3. OneAttempt(rows'[d]) /\ Valid(rows'[d])  BY <1>2, <1>3, <2>1, <2>2, AddCase
  <2>4. \A r \in T : r \in prior[d] /\ r.status = "completed"
    BY <1>9 DEF Reuses, Complete, OfCase
  <2>5. Taken(d, rows'[d])  BY <1>3, <2>1, <2>4 DEF Taken
  <2>6. Fine(d, rows'[d])  BY <1>6, <2>1, <2>3, <2>4 DEF Fine
  <2> QED  BY <1>3, <1>6, <2>1, <2>5, <2>6
<1>10. CASE Logs(d)
  <2>1. PICK s \in {"completed", "failed"} : rows'[d] = rows[d] \cup {Event(d, s)}
    BY <1>10 DEF Logs
  <2>2. prior'[d] = prior[d] /\ packet'[d] = packet[d] /\ step[d] = "run"
    BY <1>10 DEF Logs
  <2>3. ASSUME NEW r \in rows[d]
        PROVE  Slot(r) # Slot(Event(d, s)) /\ (r.case = Event(d, s).case => r.by = d)
    <3>1. Behind(d, r)  BY <2>2 DEF RowsAreBehind
    <3>2. r.by = d \/ r.case < case[d]  BY <2>2 DEF OwnRows
    <3>3. /\ r.case \in Nat /\ case[d] \in Case /\ case[d] \in Nat
          /\ r.block \in Nat /\ block[d] \in Block /\ block[d] \in Nat
          /\ order[d] \in Order
      BY <1>2 DEF TypeOK, Row, Case, Block
    <3>4. ASSUME r.case = case[d], r.block = block[d], r.arm = ArmAt(case[d], block[d], order[d])
          PROVE  FALSE
      <4>1. PICK o \in Order : o < order[d] /\ r.arm = ArmAt(case[d], block[d], o)
        BY <3>1, <3>3, <3>4 DEF Behind
      <4>2. o = order[d]  BY <3>3, <3>4, <4>1, OnePosition
      <4> QED  BY <4>1, <4>2 DEF Order
    <3>5. Slot(r) # Slot(Event(d, s))  BY <3>4, EventFields DEF Slot
    <3>6. r.case = case[d] => r.by = d  BY <3>2, <3>3
    <3> QED  BY <3>5, <3>6, EventFields
  <2>4. Event(d, s).by = d  BY EventFields
  <2>5. OneAttempt(rows'[d]) /\ Valid(rows'[d])
    <3> DEFINE e == Event(d, s)
    <3> HIDE DEF e
    <3>1. \A r \in rows[d] : Slot(r) # Slot(e) /\ (r.case = e.case => r.by = e.by)
      BY <2>3, <2>4 DEF e
    <3>2. OneAttempt(rows[d] \cup {e}) /\ Valid(rows[d] \cup {e})  BY <1>3, <3>1, AddRow
    <3> QED  BY <2>1, <3>2 DEF e
  <2>6. Taken(d, rows'[d])  BY <1>3, <2>1, <2>4, Zenon DEF Taken
  <2>7. step'[d] # "new"  BY <2>2, BegunStays
  <2>8. Fine(d, rows'[d])  BY <1>6, <2>1, <2>4, <2>5, <2>7, Zenon DEF Fine
  <2> QED  BY <1>3, <1>6, <2>2, <2>6, <2>8
<1>11. CASE Checks(d)
  <2>1. PICK bad \in SUBSET OfBlock(rows[d], case[d], block[d]) :
          rows'[d] = Override(rows[d], {[r EXCEPT !.status = "failed"] : r \in bad})
    BY <1>11 DEF Checks
  <2>2. prior'[d] = prior[d] /\ packet'[d] = packet[d] /\ step[d] = "check"
    BY <1>11 DEF Checks
  <2>3. bad \in SUBSET rows[d] /\ \A r \in bad : r.case = case[d]  BY DEF OfBlock
  <2>4. OneAttempt(rows'[d]) /\ Valid(rows'[d])  BY <1>2, <1>3, <2>1, <2>3, FailRows
  <2>5. \A r \in bad : r.by = d
    <3>1. case[d] \in Nat  BY <1>2 DEF Case
    <3>2. ~(case[d] < case[d])  BY <3>1
    <3>3. \A r \in rows[d] : r.by = d \/ r.case < case[d]  BY <2>2 DEF OwnRows
    <3> QED  BY <2>3, <3>2, <3>3, Zenon
  <2>6. ASSUME NEW r \in rows'[d] PROVE r \in rows[d] \/ r.by = d
    <3>1. r \in rows[d] \/ \E q \in bad : r = [q EXCEPT !.status = "failed"]
      BY <2>1, Zenon DEF Override
    <3>2. ASSUME NEW q \in bad PROVE [q EXCEPT !.status = "failed"].by = d
      <4>1. q \in Row  BY <1>2, <2>3
      <4> QED  BY <2>5, <4>1, FailedRow
    <3> QED  BY <3>1, <3>2, Zenon
  <2>7. Taken(d, rows'[d])  BY <1>3, <2>6 DEF Taken
  <2>8. step'[d] # "new"  BY <2>2, BegunStays
  <2>9. Fine(d, rows'[d])  BY <1>6, <2>4, <2>6, <2>8 DEF Fine
  <2> QED  BY <1>3, <1>6, <2>2, <2>7, <2>9
<1>12. CASE Leaves(d)
  BY <1>3, <1>5, <1>6, <1>12 DEF Leaves
<1> QED  BY <1>1, <1>7, <1>8, <1>9, <1>10, <1>11, <1>12 DEF Effect

\* An experiment starts with nothing to mix.
LEMMA MixInit == Init => MixInv
  BY InitInv DEF Init, MixInv, Unmixed, Bare, OwnJournal, RowsAreBehind, OneAttempt, Valid,
                 Lived, Taken

\* Every step of an attempt keeps the cases apart.
LEMMA MixStep == MixInv /\ [Next]_vars => MixInv'
<1>1. ASSUME MixInv, Next PROVE MixInv'
  BY <1>1, StepInv, UnmixedStep, BareStep, JournalStep, BehindStep DEF MixInv, IInv
<1>2. ASSUME MixInv, UNCHANGED vars PROVE MixInv'
  <2>1. IInv'  BY <1>2, StepInv DEF MixInv
  <2>2. (Unmixed /\ Bare /\ OwnJournal)'
    BY <1>2 DEF MixInv, Unmixed, Bare, OwnJournal, Lived, vars, contract, memory, position, disk
  <2>3. RowsAreBehind'
    BY <1>2 DEF MixInv, RowsAreBehind, Behind, vars, memory, position
  <2> QED  BY <2>1, <2>2, <2>3 DEF MixInv
<1> QED  BY <1>1, <1>2

\* The inductive invariant behind CasesNotMixed: an attempt's rows are behind it,
\* one in each slot, and every case is of one attempt, of the same identity.
THEOREM MixInvariance == Spec => []MixInv
  BY MixInit, MixStep, PTL DEF Spec

\* Whatever is resumed, by whom, and whenever it was cut off: no case of a packet
\* is put together from the rows of two attempts or of two identities, what it
\* took over was completed, and no slot is in it twice.
THEOREM CasesTheorem == Spec => []CasesNotMixed
<1>1. MixInv => CasesNotMixed
  <2> SUFFICES ASSUME MixInv, NEW a \in Attempt, NEW r \in rows[a] \cup packet[a],
                      NEW q \in rows[a] \cup packet[a], r.case = q.case
               PROVE  /\ r.by = q.by /\ declared[r.by] = declared[a]
                      /\ r.by # a => r.status = "completed"
                      /\ Slot(r) = Slot(q) => r = q
    BY DEF CasesNotMixed
  <2>1. rows[a] = {} \/ packet[a] = {}  BY DEF MixInv, Bare
  <2>2. PICK S : r \in S /\ q \in S /\ (S = rows[a] \/ S = packet[a])
    BY <2>1, Zenon
  <2>3. OneAttempt(S) /\ Valid(S) /\ Lived(a, S) /\ Taken(a, S)
    BY <2>2, Zenon DEF MixInv, Unmixed
  <2> QED  BY <2>2, <2>3, Zenon DEF OneAttempt, Valid, Lived, Taken
<1> QED  BY <1>1, MixInvariance, PTL

-----------------------------------------------------------------------------
(* What can be read of an attempt never gets less.                          *)

\* What an attempt has checkpointed is in its memory too, while it runs, one row
\* in each slot, and of blocks before the one in hand; who has published is done.
Retained ==
  \A d \in Attempt :
    /\ step[d] \in {"new", "wait", "plan"} => checkpoint[d] = {}
    /\ step[d] \in Holding => checkpoint[d] \subseteq rows[d]
    /\ step[d] \in {"case", "arm", "run", "check", "checkpoint"} =>
         \A r \in checkpoint[d] :
           r.case < case[d] \/ (r.case = case[d] /\ r.block < block[d])
    /\ Valid(checkpoint[d])
    /\ d \in published => step[d] = "done"

\* What a step may do to the checkpoints and the packet of the attempt d: nothing,
\* add a block, ...
Saves(d) ==
  /\ step[d] = "checkpoint"
  /\ checkpoint'[d] = checkpoint[d] \cup OfBlock(rows[d], case[d], block[d])
  /\ packet'[d] = packet[d] /\ (d \in published' => d \in published)
  /\ \/ step'[d] = "finish"
     \/ step'[d] = "arm" /\ case'[d] = case[d] /\ block'[d] = block[d] + 1
     \/ step'[d] = "case" /\ case'[d] = case[d] + 1

\* ... publish what is in memory, ...
Publishes(d) ==
  /\ step[d] = "finish" /\ step'[d] = "done"
  /\ checkpoint'[d] = checkpoint[d] /\ packet'[d] = rows[d] /\ d \in published'

\* ... or neither.
Spares(d) ==
  /\ checkpoint'[d] = checkpoint[d] /\ packet'[d] = packet[d]
  /\ (d \in published' <=> d \in published)

\* These are all there is.
LEMMA DiskEffects ==
  ASSUME TypeOK, Next, NEW d \in Attempt
  PROVE  Saves(d) \/ Publishes(d) \/ Spares(d)
<1> USE DEF TypeOK
<1>1. ASSUME NEW a \in Attempt, Checkpoint(a) PROVE Saves(d) \/ Spares(d)
  <2>1. /\ rows' = rows /\ packet' = packet /\ published' = published
        /\ checkpoint' = [checkpoint EXCEPT ![a] = @ \cup OfBlock(rows[a], case[a], block[a])]
        /\ step[a] = "checkpoint"
    BY <1>1 DEF Checkpoint
  <2>2. \/ step'[a] = "finish"
        \/ step'[a] = "arm" /\ case'[a] = case[a] /\ block'[a] = block[a] + 1
        \/ step'[a] = "case" /\ case'[a] = case[a] + 1
    BY <1>1 DEF Checkpoint, NextCase
  <2> QED  BY <2>1, <2>2 DEF Saves, Spares
<1>2. ASSUME NEW a \in Attempt, Publish(a) PROVE Publishes(d) \/ Spares(d)
  BY <1>2 DEF Publish, Leave, Publishes, Spares
<1>3. ASSUME NEW a \in Attempt, Invoke(a) \/ Lose(a) \/ Overflow(a) PROVE Spares(d)
  BY <1>3 DEF Invoke, Lose, Overflow, Log, Spares
<1>4. ASSUME NEW a \in Attempt,
             Begin(a) \/ Admit(a) \/ OpenJournal(a) \/ Reuse(a) \/ EnterCase(a) \/ Deadline(a)
               \/ Start(a) \/ Check(a) \/ Refuse(a) \/ Stop(a)
      PROVE  Spares(d)
  BY <1>4 DEF Begin, Admit, OpenJournal, Reuse, EnterCase, Deadline, Start, Check, Refuse, Stop,
              disk, Spares
<1>5. ASSUME (\E a, p \in Attempt : Resume(a, p)) \/ Change PROVE Spares(d)
  BY <1>5 DEF Resume, Change, disk, Spares
<1> QED  BY <1>1, <1>2, <1>3, <1>4, <1>5 DEF Next

\* A set of as many rows of a case as there are slots, no two of the same, is there
\* for every slot.
LEMMA EverySlot ==
  ASSUME NEW R \in SUBSET Row, Valid(R), NEW c \in Case, \A r \in R : r.case = c,
         Cardinality(R) = NBlocks * NArms, NEW b \in Block, NEW x \in Arm
  PROVE  \E r \in R : r.block = b /\ r.arm = x
<1> DEFINE P == Block \X Arm
           f == [r \in R |-> <<r.block, r.arm>>]
<1>1. IsFiniteSet(Block) /\ Cardinality(Block) = NBlocks
  <2>1. NBlocks \in Int /\ 1 \in Int /\ ~(1 > NBlocks) /\ NBlocks - 1 + 1 = NBlocks
    OBVIOUS
  <2> QED  BY <2>1, FS_Interval, Zenon DEF Block
<1>2. IsFiniteSet(P) /\ Cardinality(P) = NBlocks * NArms
  <2>1. IsFiniteSet(Arm)  OBVIOUS
  <2> QED  BY <1>1, <2>1, FS_Product, Zenon DEF NArms
<1>3. f \in [R -> P]
  BY DEF Row
<1>4. \A r, q \in R : f[r] = f[q] => r = q
  <2> SUFFICES ASSUME NEW r \in R, NEW q \in R, f[r] = f[q] PROVE r = q
    OBVIOUS
  <2>1. r.block = q.block /\ r.arm = q.arm  OBVIOUS
  <2>2. Slot(r) = Slot(q)  BY <2>1 DEF Slot
  <2> QED  BY <2>2 DEF Valid
<1>5. f \in Injection(R, P)
  <2> HIDE DEF f, P
  <2> QED  BY <1>3, <1>4, Zenon DEF Injection, IsInjective
<1>6. f \in Surjection(R, P)
  <2> HIDE DEF f, P
  <2> QED  BY <1>2, <1>5, FS_Injection, Zenon
<1>7. <<b, x>> \in P  OBVIOUS
<1>8. PICK r \in R : f[r] = <<b, x>>
  <2> HIDE DEF f, P
  <2> QED  BY <1>6, <1>7, Zenon DEF Surjection
<1> QED  BY <1>8

\* Of an attempt without a packet, what counts is what is checkpointed.
LEMMA CompleteIsCheckpointed ==
  ASSUME TypeOK, NEW d \in Attempt, d \notin published, NEW c \in Case, Complete(Load(d), c)
  PROVE  OfCase(Load(d), c) = OfCase(checkpoint[d], c)
<1> DEFINE I(r) == IF r.status \in {"running", "completed"}
                     THEN [r EXCEPT !.status = "interrupted"] ELSE r
           J == {I(r) : r \in journal[d]}
<1>1. Load(d) = Override(J, checkpoint[d])  BY DEF Load
<1>2. \A r \in journal[d] : I(r).status # "completed"
  <2> SUFFICES ASSUME NEW r \in journal[d] PROVE I(r).status # "completed"
    OBVIOUS
  <2>1. r \in Row  BY DEF TypeOK
  <2>2. [r EXCEPT !.status = "interrupted"].status = "interrupted"  BY <2>1 DEF Row
  <2> QED  BY <2>2
<1> HIDE DEF I
<1>3. checkpoint[d] \subseteq Load(d)  BY <1>1 DEF Override
<1>4. \A r \in OfCase(Load(d), c) : r.status = "completed"  BY DEF Complete
<1>5. \A r \in Load(d) : r \in checkpoint[d] \/ \E q \in journal[d] : r = I(q)
  BY <1>1, Zenon DEF Override
<1>6. \A r \in OfCase(Load(d), c) : r \in checkpoint[d]
  BY <1>2, <1>4, <1>5, Zenon DEF OfCase
<1> QED  BY <1>3, <1>6, Zenon DEF OfCase

\* Every step keeps that what is checkpointed is in memory.
LEMMA RetainedStep ==
  ASSUME MixInv, Retained, Next
  PROVE  Retained'
<1> USE DEF MixInv, IInv
<1> SUFFICES ASSUME NEW d \in Attempt
             PROVE  /\ step'[d] \in {"new", "wait", "plan"} => checkpoint'[d] = {}
                    /\ step'[d] \in Holding => checkpoint'[d] \subseteq rows'[d]
                    /\ step'[d] \in {"case", "arm", "run", "check", "checkpoint"} =>
                         \A r \in checkpoint'[d] :
                           r.case < case'[d] \/ (r.case = case'[d] /\ r.block < block'[d])
                    /\ Valid(checkpoint'[d])
                    /\ d \in published' => step'[d] = "done"
  BY Zenon DEF Retained, Valid, Slot
<1> DEFINE Early(r) == r.case < case[d] \/ (r.case = case[d] /\ r.block < block[d])
<1>1. /\ step[d] \in {"new", "wait", "plan"} => checkpoint[d] = {}
      /\ step[d] \in Holding => checkpoint[d] \subseteq rows[d]
      /\ step[d] \in {"case", "arm", "run", "check", "checkpoint"} =>
           \A r \in checkpoint[d] : Early(r)
      /\ Valid(checkpoint[d])
      /\ d \in published => step[d] = "done"
  BY DEF Retained
<1>0. TypeOK'  BY TypeStep
<1>2. /\ rows[d] \in SUBSET Row /\ checkpoint[d] \in SUBSET Row
      /\ rows'[d] \in SUBSET Row /\ checkpoint'[d] \in SUBSET Row
      /\ case[d] \in Nat /\ block[d] \in Nat /\ case'[d] \in Nat /\ block'[d] \in Nat
      /\ case[d] \in Case
      /\ \A r \in Row : r.case \in Nat /\ r.block \in Nat
  BY <1>0 DEF TypeOK, Case, Block, Row
<1>3. Effect(d)  BY Effects
<1>4. CASE Saves(d)
  <2>1. rows'[d] = rows[d]
    BY <1>3, <1>4 DEF Effect, Saves, Rests, Begins, Moves, Reuses, Logs, Checks, Checkpoints, Leaves
  <2>2. \A r \in checkpoint'[d] :
          r \in rows[d] /\ (r.case < case[d] \/ (r.case = case[d] /\ r.block <= block[d]))
    BY <1>1, <1>2, <1>4 DEF Saves, OfBlock, Holding
  <2>3. step'[d] = "finish" \/ \A r \in checkpoint'[d] :
          r.case < case'[d] \/ (r.case = case'[d] /\ r.block < block'[d])
    BY <1>2, <1>4, <2>2 DEF Saves
  <2>4. Valid(rows[d])  BY DEF Unmixed
  <2>5. Valid(checkpoint'[d])  BY <2>2, <2>4, Zenon DEF Valid
  <2>6. d \notin published'  BY <1>1, <1>4 DEF Saves
  <2> QED  BY <1>4, <2>1, <2>2, <2>3, <2>5, <2>6 DEF Saves
<1>5. CASE Publishes(d)
  BY <1>1, <1>5 DEF Publishes, Holding
<1>6. CASE Spares(d)
  <2>1. checkpoint'[d] = checkpoint[d] /\ (d \in published' <=> d \in published)
    BY <1>6 DEF Spares
  <2>2. CASE Rests(d)  BY <1>1, <2>1, <2>2 DEF Rests
  <2>3. CASE Begins(d)  BY <1>1, <2>1, <2>3 DEF Begins, Holding
  <2>4. CASE Moves(d)  BY <1>1, <2>1, <2>4 DEF Moves, Holding
  <2>5. CASE Reuses(d)
    <3>1. \A r \in checkpoint[d] : r.case <= case[d] /\ r.case < case[d]
      <4>1. \A r \in checkpoint[d] : r \in rows[d]  BY <1>1, <2>5 DEF Reuses, Holding
      <4>2. \A r \in rows[d] : r.case < case[d]  BY <2>5 DEF RowsAreBehind, Reuses
      <4> QED  BY <1>2, <4>1, <4>2
    <3> QED  BY <1>1, <1>2, <2>1, <2>5, <3>1 DEF Reuses, Holding
  <2>6. CASE Logs(d)  BY <1>1, <2>1, <2>6 DEF Logs, Holding
  <2>7. CASE Checks(d)
    <3>1. PICK bad \in SUBSET OfBlock(rows[d], case[d], block[d]) :
            rows'[d] = Override(rows[d], {[r EXCEPT !.status = "failed"] : r \in bad})
      BY <2>7 DEF Checks
    <3>2. ASSUME NEW r \in checkpoint[d] PROVE r \in rows'[d]
      <4>1. r \in rows[d] /\ Early(r)  BY <1>1, <2>7 DEF Checks, Holding
      <4>2. ~(r.case = case[d] /\ r.block = block[d])  BY <1>2, <4>1
      <4>3. ASSUME NEW q \in bad PROVE Slot([q EXCEPT !.status = "failed"]) # Slot(r)
        <5>1. q \in Row /\ q.case = case[d] /\ q.block = block[d]  BY <1>2 DEF OfBlock
        <5>2. Slot([q EXCEPT !.status = "failed"]) = Slot(q)  BY <5>1, FailedRow
        <5> QED  BY <4>2, <5>1, <5>2 DEF Slot
      <4> QED  BY <3>1, <4>1, <4>3, Zenon DEF Override
    <3> QED  BY <1>1, <2>1, <2>7, <3>2 DEF Checks, Holding
  <2>8. CASE Checkpoints(d)
    <3>1. d \notin published /\ checkpoint[d] \subseteq rows[d]
      BY <1>1, <2>8 DEF Checkpoints, Holding
    <3>2. step'[d] = "finish" \/ \A r \in checkpoint[d] :
            r.case < case'[d] \/ (r.case = case'[d] /\ r.block < block'[d])
      BY <1>1, <1>2, <2>8 DEF Checkpoints
    <3> QED  BY <1>1, <2>1, <2>8, <3>1, <3>2 DEF Checkpoints
  <2>9. CASE Leaves(d)  BY <1>1, <2>1, <2>9 DEF Leaves, Holding
  <2> QED  BY <1>3, <2>2, <2>3, <2>4, <2>5, <2>6, <2>7, <2>8, <2>9 DEF Effect
<1> QED  BY <1>4, <1>5, <1>6, DiskEffects

\* The inductive invariant behind NeverUnlearned.
RetainInv == MixInv /\ Retained

\* An attempt keeps to it from its beginning.
THEOREM RetainInvariance == Spec => []RetainInv
<1>1. Init => RetainInv
  BY MixInit DEF Init, RetainInv, Retained, Valid, Holding
<1>2. RetainInv /\ [Next]_vars => RetainInv'
  <2>1. RetainInv /\ UNCHANGED vars => Retained'
    BY DEF RetainInv, Retained, Valid, Slot, vars, memory, position, disk
  <2> QED  BY <2>1, MixStep, RetainedStep DEF RetainInv
<1> QED  BY <1>1, <1>2, PTL DEF Spec

\* A case that is complete in the checkpoints has a row there for every slot.
LEMMA CompleteCheckpoint ==
  ASSUME RetainInv, NEW d \in Attempt, d \notin published, NEW c \in Case, Complete(Load(d), c)
  PROVE  /\ \A r \in OfCase(checkpoint[d], c) : r.status = "completed"
         /\ Cardinality(OfCase(checkpoint[d], c)) = NBlocks * NArms
         /\ \A b \in Block, x \in Arm :
              \E r \in OfCase(checkpoint[d], c) : r.block = b /\ r.arm = x
<1> DEFINE R == OfCase(checkpoint[d], c)
<1>1. OfCase(Load(d), c) = R
  BY CompleteIsCheckpointed DEF RetainInv, MixInv, IInv
<1>2. R \in SUBSET Row /\ \A r \in R : r.case = c
  BY DEF RetainInv, MixInv, IInv, TypeOK, OfCase
<1>3. Valid(R)
  BY DEF RetainInv, Retained, Valid, OfCase
<1>4. Cardinality(R) = NBlocks * NArms /\ \A r \in R : r.status = "completed"
  BY <1>1 DEF Complete
<1> HIDE DEF R
<1>5. \A b \in Block, x \in Arm : \E r \in R : r.block = b /\ r.arm = x
  BY <1>2, <1>3, <1>4, EverySlot
<1> QED  BY <1>4, <1>5 DEF R

\* A complete case is none that a step adds a row to.
LEMMA CaseStays ==
  ASSUME RetainInv, Next, NEW d \in Attempt, d \notin published, d \notin published',
         NEW c \in Case, Complete(Load(d), c)
  PROVE  OfCase(Load(d)', c) = OfCase(checkpoint[d], c)
<1>1. \A b \in Block, x \in Arm :
        \E r \in OfCase(checkpoint[d], c) : r.block = b /\ r.arm = x
  BY CompleteCheckpoint
<1>0. TypeOK /\ TypeOK'  BY TypeStep DEF RetainInv, MixInv, IInv
<1>2. OfCase(checkpoint'[d], c) = OfCase(checkpoint[d], c)
  <2>1. CASE Saves(d)
    <3>1. PICK r \in checkpoint[d] : r.case = c /\ r.block = block[d]
      <4>1. block[d] \in Block  BY <1>0 DEF TypeOK
      <4>2. Base \in Arm  OBVIOUS
      <4> QED  BY <1>1, <4>1, <4>2 DEF OfCase
    <3>2. r.case < case[d] \/ (r.case = case[d] /\ r.block < block[d])
      BY <2>1 DEF Saves, RetainInv, Retained
    <3>3. case[d] # c
      <4>1. case[d] \in Nat /\ block[d] \in Nat /\ c \in Nat
        BY <1>0 DEF TypeOK, Case, Block
      <4> QED  BY <3>1, <3>2, <4>1
    <3> QED  BY <2>1, <3>3 DEF Saves, OfCase, OfBlock
  <2>2. CASE Publishes(d)  BY <2>2 DEF Publishes
  <2>3. CASE Spares(d)  BY <2>3 DEF Spares
  <2> QED  BY <1>0, <2>1, <2>2, <2>3, DiskEffects
<1> DEFINE I(r) == IF r.status \in {"running", "completed"}
                     THEN [r EXCEPT !.status = "interrupted"] ELSE r
           J == {I(r) : r \in journal'[d]}
<1>3. Load(d)' = Override(J, checkpoint'[d])  BY DEF Load
<1>4. \A r \in journal'[d] : I(r) \in Row
  <2> SUFFICES ASSUME NEW r \in journal'[d] PROVE I(r) \in Row
    OBVIOUS
  <2>1. r \in Row  BY <1>0 DEF TypeOK
  <2> QED  BY <2>1 DEF Row
<1> HIDE DEF I
<1>5. ASSUME NEW r \in OfCase(Load(d)', c) PROVE r \in checkpoint'[d]
  <2>1. SUFFICES ASSUME r \notin checkpoint'[d] PROVE FALSE
    OBVIOUS
  <2>2. r \in Load(d)' /\ r.case = c  BY DEF OfCase
  <2>3. r \in J /\ \A q \in checkpoint'[d] : Slot(q) # Slot(r)
    BY <1>3, <2>1, <2>2, Zenon DEF Override
  <2>4. r \in Row  BY <1>4, <2>3
  <2>5. r.block \in Block /\ r.arm \in Arm  BY <2>4 DEF Row
  <2>6. PICK q \in OfCase(checkpoint[d], c) : q.block = r.block /\ q.arm = r.arm
    BY <1>1, <2>5
  <2>7. q \in checkpoint'[d] /\ q.case = c  BY <1>2, <2>6 DEF OfCase
  <2>8. Slot(q) = Slot(r)  BY <2>2, <2>6, <2>7 DEF Slot
  <2> QED  BY <2>3, <2>7, <2>8
<1>6. checkpoint'[d] \subseteq Load(d)'  BY <1>3 DEF Override
<1> QED  BY <1>2, <1>5, <1>6, Zenon DEF OfCase

\* A packet holds the complete cases of the checkpoints as they are.
LEMMA PacketHasCase ==
  ASSUME RetainInv, NEW d \in Attempt, Publishes(d), d \notin published,
         NEW c \in Case, Complete(Load(d), c)
  PROVE  OfCase(Load(d)', c) = OfCase(checkpoint[d], c)
<1>1. Load(d)' = rows[d]  BY DEF Load, Publishes
<1>2. checkpoint[d] \subseteq rows[d]  BY DEF RetainInv, Retained, Publishes, Holding
<1>3. Valid(rows[d])  BY DEF RetainInv, MixInv, Unmixed
<1>4. rows[d] \in SUBSET Row  BY DEF RetainInv, MixInv, IInv, TypeOK
<1>5. ASSUME NEW r \in OfCase(rows[d], c) PROVE r \in checkpoint[d]
  <2>1. r \in rows[d] /\ r.case = c /\ r.block \in Block /\ r.arm \in Arm
    BY <1>4 DEF OfCase, Row
  <2>2. PICK q \in OfCase(checkpoint[d], c) : q.block = r.block /\ q.arm = r.arm
    BY <2>1, CompleteCheckpoint
  <2>3. q \in checkpoint[d] /\ Slot(q) = Slot(r)  BY <2>1, <2>2 DEF OfCase, Slot
  <2> QED  BY <1>2, <1>3, <2>1, <2>3 DEF Valid
<1> QED  BY <1>1, <1>2, <1>5, Zenon DEF OfCase

\* What a reader has seen completed, of a running attempt, a dead one or a
\* finished one, it will see completed whatever comes in between.
THEOREM UnlearnedTheorem == Spec => NeverUnlearned
<1>1. RetainInv /\ Next =>
        \A a \in opened :
          LET loaded == Load(a) IN
            \A c \in Case : Complete(loaded, c) => Complete(loaded', c)
  <2> SUFFICES ASSUME RetainInv, Next, NEW d \in opened, NEW c \in Case, Complete(Load(d), c)
               PROVE  Complete(Load(d)', c)
    OBVIOUS
  <2>0. d \in Attempt /\ TypeOK  BY DEF RetainInv, MixInv, IInv, TypeOK
  <2>1. CASE d \in published
    <3>1. step[d] = "done"  BY <2>0, <2>1 DEF RetainInv, Retained
    <3>2. Spares(d)  BY <2>0, <3>1, DiskEffects DEF Saves, Publishes
    <3>3. Load(d)' = Load(d)  BY <2>1, <3>2 DEF Load, Spares
    <3> QED  BY <3>3
  <2>2. CASE d \notin published
    <3>1. OfCase(Load(d)', c) = OfCase(checkpoint[d], c)
      <4>1. CASE d \notin published'  BY <2>0, <2>2, <4>1, CaseStays
      <4>2. CASE d \in published'
        <5>1. Publishes(d)  BY <2>0, <2>2, <4>2, DiskEffects DEF Saves, Spares
        <5> QED  BY <2>0, <2>2, <5>1, PacketHasCase
      <4> QED  BY <4>1, <4>2
    <3>2. /\ \A r \in OfCase(checkpoint[d], c) : r.status = "completed"
          /\ Cardinality(OfCase(checkpoint[d], c)) = NBlocks * NArms
      BY <2>0, <2>2, CompleteCheckpoint
    <3> QED  BY <3>1, <3>2 DEF Complete
  <2> QED  BY <2>1, <2>2
<1>2. RetainInv /\ [Next]_vars =>
        [\A a \in opened :
          LET loaded == Load(a) IN
            \A c \in Case : Complete(loaded, c) => Complete(loaded', c)]_disk
  BY <1>1 DEF vars
<1> QED  BY <1>2, RetainInvariance, PTL DEF Spec, NeverUnlearned

-----------------------------------------------------------------------------
(* PairConfirmation, for any margins, intervals and number of windows.      *)

ConfirmSpec == ConfirmInit /\ [][ConfirmNext]_confirmVars

Sample == [phase : {"none", "observation_limit", "lifecycle_unobserved", "boundary",
                    "start_transition", "during", "exit_transition"},
           clean : BOOLEAN, own : BOOLEAN, used : BOOLEAN, late : BOOLEAN]

ConfirmTypeOK ==
  /\ at \in {"plan", "settle", "before", "launch", "poll", "probe", "reaped", "cleanup",
             "join", "after", "summary", "judge", "end"}
  /\ purpose \in {"iterate"} \cup Accepts
  /\ window \in [always : BOOLEAN, never : BOOLEAN]
  /\ sample \in Sample /\ windows \in Seq(Sample) /\ observations \in Seq(Sample)
  /\ watch \in {"idle", "stamp", "limit", "ended"}
  /\ known \in BOOLEAN /\ lasted \in BOOLEAN /\ missed \in BOOLEAN /\ observed \in BOOLEAN
  /\ foreign \in BOOLEAN /\ burden \in BOOLEAN
  /\ lastAlive \in BOOLEAN /\ exitSeen \in BOOLEAN

\* Something that is kept of the invocation, or will be, refuses it.
Refuses ==
  \/ \E i \in 1 .. Len(observations) : Unclean(observations[i])
  \/ \E i \in 1 .. Len(windows) : Unclean(Classified(windows[i]))

\* A load that was missed is told by what is kept; and when that is gone, the
\* invocation is not observed.
MissedIsKept ==
  IF at \in {"judge", "end"} THEN missed => ~observed ELSE missed => Refuses

\* The observer takes windows only between the launch and the join of an
\* invocation that is to be confirmed.
WatchedInTime ==
  /\ at \in {"plan", "settle", "before", "launch", "judge", "end"} \/ purpose = "iterate" => ~known
  /\ watch \in {"stamp", "limit"} => known /\ at \notin {"after", "summary"}
  /\ at \in {"after", "summary"} => (known => watch = "ended")
  /\ windows # <<>> => at \in {"poll", "probe", "reaped", "cleanup", "join"} /\ known

\* A window without its time has seen the load that lasted for it.
SampleTells ==
  watch = "stamp" =>
    /\ windows # <<>> => sample.phase = "during"
    /\ windows = <<>> => sample.phase = "start_transition"
    /\ sample.used = (sample.phase # "start_transition")
    /\ lasted => ~sample.clean
    /\ ~sample.own => ~sample.clean

\* Nothing is concluded without observations.
Concluded(v) == v \notin {"none", "invalid", "exploratory", "inconclusive"}
VerdictsObserved ==
  \A x \in Candidate : Concluded(verdict[x]) => at = "end" /\ observed

ConfirmInv ==
  ConfirmTypeOK /\ MissedIsKept /\ WatchedInTime /\ SampleTells /\ VerdictsObserved

\* The steps that take no window and no observation.
Silent ==
  \/ DrawSchedule \/ Settle \/ Launch \/ Poll \/ Kill \/ Alive \/ Reap \/ SeeExit \/ CleanUp
  \/ ChildExits \/ Machine

\* What they leave alone.
LEMMA SilentKeeps ==
  ASSUME Silent
  PROVE  /\ windows' = windows /\ observations' = observations /\ missed' = missed
         /\ observed' = observed /\ purpose' = purpose /\ verdict' = verdict
         /\ sample' = sample /\ lasted' = lasted /\ watch' = watch
         /\ known' = known \/ known' = (purpose # "iterate")
         /\ at' = at \/ <<at, at'>> \in {<<"plan", "settle">>, <<"settle", "before">>,
              <<"settle", "summary">>, <<"launch", "poll">>, <<"launch", "join">>,
              <<"poll", "probe">>, <<"poll", "join">>, <<"probe", "poll">>,
              <<"probe", "reaped">>, <<"reaped", "cleanup">>, <<"cleanup", "join">>}
         /\ known' = known \/ (at' = "probe" /\ at = "poll")
<1>1. ASSUME DrawSchedule \/ Settle
      PROVE  /\ windows' = windows /\ observations' = observations /\ missed' = missed
             /\ observed' = observed /\ purpose' = purpose /\ verdict' = verdict
             /\ sample' = sample /\ lasted' = lasted /\ watch' = watch /\ known' = known
             /\ <<at, at'>> \in {<<"plan", "settle">>, <<"settle", "before">>,
                                 <<"settle", "summary">>}
  BY <1>1 DEF DrawSchedule, Settle, GiveUp, thread
<1>2. ASSUME Launch \/ Kill \/ Alive \/ Reap \/ SeeExit \/ CleanUp
      PROVE  /\ windows' = windows /\ observations' = observations /\ missed' = missed
             /\ observed' = observed /\ purpose' = purpose /\ verdict' = verdict
             /\ sample' = sample /\ lasted' = lasted /\ watch' = watch /\ known' = known
             /\ <<at, at'>> \in {<<"launch", "poll">>, <<"launch", "join">>,
                  <<"poll", "join">>, <<"probe", "poll">>,
                  <<"probe", "reaped">>, <<"reaped", "cleanup">>, <<"cleanup", "join">>}
  BY <1>2 DEF Launch, Kill, Alive, Reap, SeeExit, CleanUp, Supervised, outcome, thread
<1>3. ASSUME Poll
      PROVE  /\ windows' = windows /\ observations' = observations /\ missed' = missed
             /\ observed' = observed /\ purpose' = purpose /\ verdict' = verdict
             /\ sample' = sample /\ lasted' = lasted /\ watch' = watch
             /\ known' = (purpose # "iterate") /\ at = "poll" /\ at' = "probe"
  BY <1>3, Zenon DEF Poll, outcome
<1>4. ASSUME ChildExits \/ Machine
      PROVE  /\ windows' = windows /\ observations' = observations /\ missed' = missed
             /\ observed' = observed /\ purpose' = purpose /\ verdict' = verdict
             /\ sample' = sample /\ lasted' = lasted /\ watch' = watch /\ known' = known
             /\ at' = at
  BY <1>4 DEF ChildExits, Machine, Supervised, outcome, thread
<1>5. CASE DrawSchedule \/ Settle  BY <1>1, <1>5
<1>6. CASE Launch \/ Kill \/ Alive \/ Reap \/ SeeExit \/ CleanUp  BY <1>2, <1>6
<1>7. CASE Poll  BY <1>3, <1>7
<1>8. CASE ChildExits \/ Machine  BY <1>4, <1>8
<1> QED  BY <1>5, <1>6, <1>7, <1>8, Zenon DEF Silent

\* What a window says once its invocation has ended.
LEMMA ClassifiedSample ==
  ASSUME NEW w \in Sample
  PROVE  /\ Classified(w) \in Sample
         /\ ~w.own => Unclean(Classified(w))
         /\ w.phase = "during" /\ ~w.late /\ ~w.clean => Unclean(Classified(w))
<1>1. w.clean \in BOOLEAN /\ w.own \in BOOLEAN /\ w.used \in BOOLEAN /\ w.late \in BOOLEAN
  BY DEF Sample
<1>2. CASE Waived(w)
  <2>1. w.phase = "during" /\ w.late  BY <1>2 DEF Waived
  <2>2. CASE w.own
    BY <1>1, <1>2, <2>1, <2>2 DEF Classified, Unclean, Sample
  <2>3. CASE ~w.own
    BY <1>1, <1>2, <2>1, <2>3 DEF Classified, Unclean, Sample
  <2> QED  BY <2>2, <2>3
<1>3. CASE ~Waived(w)
  <2>2. CASE w.own
    BY <1>1, <1>3, <2>2 DEF Classified, Unclean, Sample
  <2>3. CASE ~w.own
    BY <1>1, <1>3, <2>3 DEF Classified, Unclean, Sample
  <2> QED  BY <2>2, <2>3
<1> QED  BY <1>2, <1>3

\* What a window, or a boundary, sees at its refresh.
LEMMA ObservationSample ==
  ASSUME ConfirmTypeOK, NEW phase \in {"boundary", "start_transition", "during"},
         NEW attributed \in BOOLEAN, NEW loud \in Loud(attributed)
  PROVE  /\ Observation(phase, loud) \in Sample
         /\ Observation(phase, loud).phase = phase
         /\ Observation(phase, loud).used = (phase # "start_transition")
         /\ Observation(phase, loud).own = ~burden
         /\ burden \/ window.always => ~Observation(phase, loud).clean
<1>1. loud \in BOOLEAN /\ (window.always => loud = TRUE)
  BY DEF Loud, ConfirmTypeOK
<1>2. burden \in BOOLEAN  BY DEF ConfirmTypeOK
<1> QED  BY <1>1, <1>2 DEF Observation, Sample

\* The samples that are not taken.
LEMMA NoSamples == {NoSample, Limit, Unobserved} \subseteq Sample
<1>1. NoSample \in Sample  BY DEF NoSample, Sample
<1>2. ASSUME NEW s \in Sample, NEW p \in {"observation_limit", "lifecycle_unobserved"}
      PROVE  [s EXCEPT !.phase = p] \in Sample
  BY DEF Sample
<1> QED  BY <1>1, <1>2 DEF Limit, Unobserved

\* What a concatenation holds, and where.
LEMMA Joined ==
  ASSUME NEW S, NEW s \in Seq(S), NEW t \in Seq(S)
  PROVE  /\ s \o t \in Seq(S) /\ Len(s \o t) = Len(s) + Len(t)
         /\ \A i \in 1 .. Len(s) + Len(t) :
              (s \o t)[i] = IF i <= Len(s) THEN s[i] ELSE t[i - Len(s)]
<1>1. Len(s \o t) = Len(s) + Len(t) /\ s \o t \in Seq(S)  OBVIOUS
<1>2. ASSUME NEW i \in 1 .. Len(s) + Len(t)
      PROVE  (s \o t)[i] = IF i <= Len(s) THEN s[i] ELSE t[i - Len(s)]
  OBVIOUS
<1> QED  BY <1>1, <1>2

\* What becomes of an invocation's observations when the observer is joined.
LEMMA JoinObservations ==
  ASSUME ConfirmTypeOK, Join
  PROVE  /\ observations' \in Seq(Sample)
         /\ Refuses => \E i \in 1 .. Len(observations') : Unclean(observations'[i])
<1> DEFINE M == [i \in 1 .. Len(windows) |-> Classified(windows[i])]
           T == IF windows # <<>> /\ ~(lastAlive /\ exitSeen) THEN <<Unobserved>> ELSE <<>>
           O == observations \o M
<1>1. observations' = O \o T  BY DEF Join
<1>2. windows \in Seq(Sample) /\ observations \in Seq(Sample) /\ Len(windows) \in Nat
  BY DEF ConfirmTypeOK
<1>3. \A i \in 1 .. Len(windows) : Classified(windows[i]) \in Sample
  BY <1>2, ElementOfSeq, ClassifiedSample
<1>4. M \in Seq(Sample) /\ Len(M) = Len(windows)
      /\ \A i \in 1 .. Len(windows) : M[i] = Classified(windows[i])
  BY <1>2, <1>3
<1>5. T \in Seq(Sample)  BY NoSamples
<1> HIDE DEF M, T
<1>6. /\ O \in Seq(Sample) /\ Len(O) = Len(observations) + Len(M)
      /\ \A i \in 1 .. Len(observations) + Len(M) :
           O[i] = IF i <= Len(observations) THEN observations[i] ELSE M[i - Len(observations)]
  <2>1. observations \in Seq(Sample) /\ M \in Seq(Sample)  BY <1>2, <1>4
  <2> QED  BY ONLY <2>1, Joined, Zenon
<1> HIDE DEF O
<1>7. /\ observations' \in Seq(Sample) /\ Len(observations') = Len(O) + Len(T)
      /\ \A i \in 1 .. Len(O) + Len(T) :
           observations'[i] = IF i <= Len(O) THEN O[i] ELSE T[i - Len(O)]
  <2>1. O \in Seq(Sample) /\ T \in Seq(Sample)  BY <1>5, <1>6
  <2>2. /\ O \o T \in Seq(Sample) /\ Len(O \o T) = Len(O) + Len(T)
        /\ \A i \in 1 .. Len(O) + Len(T) :
             (O \o T)[i] = IF i <= Len(O) THEN O[i] ELSE T[i - Len(O)]
    BY ONLY <2>1, Joined, Zenon
  <2> QED  BY ONLY <1>1, <2>2, Zenon
<1>8. Len(observations) \in Nat /\ Len(M) \in Nat /\ Len(T) \in Nat /\ Len(O) \in Nat
  BY <1>2, <1>4, <1>5, <1>6, LenProperties
<1>9. ASSUME NEW i \in 1 .. Len(observations), Unclean(observations[i])
      PROVE  \E j \in 1 .. Len(observations') : Unclean(observations'[j])
  <2>1. i \in 1 .. Len(observations') /\ observations'[i] = observations[i]
    <3>1. i \in 1 .. Len(observations) + Len(M) /\ i <= Len(O)  BY <1>6, <1>8
    <3>2. i \in 1 .. Len(O) + Len(T) /\ O[i] = observations[i]  BY ONLY <1>6, <1>8, <1>9, <3>1
    <3>3. observations'[i] = O[i]  BY ONLY <1>7, <3>1, <3>2
    <3> QED  BY ONLY <1>7, <3>2, <3>3
  <2> QED  BY <1>9, <2>1, Zenon
<1>10. ASSUME NEW i \in 1 .. Len(windows), Unclean(Classified(windows[i]))
       PROVE  \E j \in 1 .. Len(observations') : Unclean(observations'[j])
  <2> DEFINE j == Len(observations) + i
  <2>1. j \in 1 .. Len(O) /\ j <= Len(O) /\ ~(j <= Len(observations)) /\ j - Len(observations) = i
    BY <1>2, <1>4, <1>6, <1>8
  <2> HIDE DEF j
  <2>2. O[j] = M[i]  BY <1>6, <2>1
  <2>3. j \in 1 .. Len(observations') /\ observations'[j] = O[j]
    <3>1. j \in 1 .. Len(O) + Len(T)  BY ONLY <1>8, <2>1
    <3> QED  BY ONLY <1>7, <2>1, <3>1
  <2>4. observations'[j] = Classified(windows[i])  BY <1>4, <2>2, <2>3
  <2> QED  BY <1>10, <2>3, <2>4, Zenon
<1>11. Refuses => \E i \in 1 .. Len(observations') : Unclean(observations'[i])
  BY <1>9, <1>10, Zenon DEF Refuses
<1> QED  BY <1>7, <1>11

\* A boundary observation is added to the others.
LEMMA BoundaryAdds ==
  ASSUME ConfirmTypeOK, NEW attributed \in BOOLEAN, Boundary(attributed)
  PROVE  /\ observations' \in Seq(Sample) /\ window' \in [always : BOOLEAN, never : BOOLEAN]
         /\ missed' \in BOOLEAN
         /\ Len(observations') = Len(observations) + 1 /\ Len(observations) \in Nat
         /\ \A i \in 1 .. Len(observations) : observations'[i] = observations[i]
         /\ missed' => missed \/ Unclean(observations'[Len(observations')])
<1>1. PICK loud \in Loud(attributed) :
        observations' = Append(observations, Observation("boundary", loud))
  BY DEF Boundary
<1> DEFINE o == Observation("boundary", loud)
<1>2. /\ o \in Sample /\ o.phase = "boundary"
      /\ burden \/ window.always => ~o.clean
  BY ObservationSample
<1>3. observations \in Seq(Sample)  BY DEF ConfirmTypeOK
<1> HIDE DEF o
<1>4. /\ observations' = Append(observations, o)
      /\ observations' \in Seq(Sample) /\ Len(observations') = Len(observations) + 1
      /\ observations'[Len(observations')] = o
      /\ \A i \in 1 .. Len(observations) : observations'[i] = observations[i]
  BY <1>1, <1>2, <1>3 DEF o
<1>5. burden \/ window.always => Unclean(o)
  BY <1>2, Zenon DEF Unclean
<1>6. missed' => missed \/ Unclean(o)
  BY <1>5, Zenon DEF Boundary
<1>7. window' \in [always : BOOLEAN, never : BOOLEAN]
  BY DEF Boundary, Fresh, ConfirmTypeOK
<1>8. missed' \in BOOLEAN  BY Zenon DEF Boundary
<1> QED  BY <1>3, <1>4, <1>6, <1>7, <1>8

\* A window is added to the others.
LEMMA StampAdds ==
  ASSUME ConfirmTypeOK, SampleTells, Stamp
  PROVE  /\ windows' \in Seq(Sample) /\ windows' # <<>> /\ missed' \in BOOLEAN
         /\ Len(windows') = Len(windows) + 1 /\ Len(windows) \in Nat
         /\ \A i \in 1 .. Len(windows) : windows'[i] = windows[i]
         /\ missed' => missed \/ Unclean(Classified(windows'[Len(windows')]))
<1> DEFINE w == [sample EXCEPT !.late = exitSeen]
<1>1. sample \in Sample /\ exitSeen \in BOOLEAN /\ windows \in Seq(Sample)
  BY DEF ConfirmTypeOK
<1>2. /\ w \in Sample /\ w.phase = sample.phase /\ w.clean = sample.clean
      /\ w.own = sample.own /\ w.late = exitSeen
  BY <1>1 DEF Sample
<1>3. windows' = Append(windows, w)  BY DEF Stamp
<1> HIDE DEF w
<1>4. /\ windows' \in Seq(Sample) /\ Len(windows') = Len(windows) + 1
      /\ windows'[Len(windows')] = w /\ windows' # <<>>
      /\ \A i \in 1 .. Len(windows) : windows'[i] = windows[i]
  BY <1>1, <1>2, <1>3
<1>5. /\ ~w.own => Unclean(Classified(w))
      /\ w.phase = "during" /\ ~w.late /\ ~w.clean => Unclean(Classified(w))
  BY <1>2, ClassifiedSample
<1>6. lasted /\ ~exitSeen /\ windows # <<>> => w.phase = "during" /\ ~w.late /\ ~w.clean
  BY <1>2, Zenon DEF SampleTells, Stamp
<1>7. missed' => missed \/ Unclean(Classified(w))
  BY <1>2, <1>5, <1>6, Zenon DEF Stamp
<1>8. missed' \in BOOLEAN  BY Zenon DEF Stamp
<1> QED  BY <1>1, <1>4, <1>7, <1>8

\* Every step keeps the types.
LEMMA ConfirmTypeStep ==
  ASSUME ConfirmTypeOK, SampleTells, ConfirmNext
  PROVE  ConfirmTypeOK'
<1> USE DEF ConfirmTypeOK
<1>1. ASSUME Silent PROVE ConfirmTypeOK'
  <2>1. /\ windows' \in Seq(Sample) /\ observations' \in Seq(Sample) /\ sample' \in Sample
        /\ watch' \in {"idle", "stamp", "limit", "ended"}
        /\ purpose' \in {"iterate"} \cup Accepts
        /\ at' \in {"plan", "settle", "before", "launch", "poll", "probe", "reaped", "cleanup",
                    "join", "after", "summary", "judge", "end"}
    BY <1>1, SilentKeeps
  <2>2. /\ known' \in BOOLEAN /\ lasted' \in BOOLEAN /\ missed' \in BOOLEAN
        /\ observed' \in BOOLEAN
    BY <1>1, SilentKeeps, Zenon
  <2>3. window' \in [always : BOOLEAN, never : BOOLEAN]
    <3>1. window' = window \/ Machine
      BY <1>1 DEF Silent, DrawSchedule, Settle, Launch, Poll, Kill, Alive, Reap, SeeExit, CleanUp,
                  ChildExits, Supervised
    <3>2. ASSUME Machine, foreign' = ~foreign
          PROVE  window' \in [always : BOOLEAN, never : BOOLEAN]
      <4> DEFINE x == window.always /\ foreign'
                 y == window.never /\ ~foreign'
      <4>1. x \in BOOLEAN /\ y \in BOOLEAN  BY Zenon
      <4>2. window' = [always |-> x, never |-> y]  BY <3>2, Zenon DEF Machine
      <4> QED  BY <4>1, <4>2, Zenon
    <3>3. Machine => window' = window \/ foreign' = ~foreign  BY Zenon DEF Machine
    <3> QED  BY <3>1, <3>2, <3>3
  <2>4. foreign' \in BOOLEAN /\ burden' \in BOOLEAN
    BY <1>1, Zenon DEF Silent, DrawSchedule, Settle, Launch, Poll, Kill, Alive, Reap, SeeExit,
                       CleanUp, ChildExits, Machine, Supervised, machine
  <2>5. lastAlive' \in BOOLEAN /\ exitSeen' \in BOOLEAN
    BY <1>1, Zenon DEF Silent, DrawSchedule, Settle, Launch, Poll, Kill, Alive, Reap, SeeExit,
                       CleanUp, ChildExits, Machine, Supervised, seen
  <2> QED  BY <2>1, <2>2, <2>3, <2>4, <2>5
<1>2. ASSUME ObserveBefore \/ ObserveAfter PROVE ConfirmTypeOK'
  <2>1. PICK attributed \in BOOLEAN : Boundary(attributed)
    BY <1>2 DEF ObserveBefore, ObserveAfter
  <2>2. /\ observations' \in Seq(Sample) /\ window' \in [always : BOOLEAN, never : BOOLEAN]
        /\ missed' \in BOOLEAN
    BY <2>1, BoundaryAdds
  <2>3. at' \in {"launch", "summary"}  BY <1>2 DEF ObserveBefore, ObserveAfter, GiveUp
  <2>4. UNCHANGED <<purpose, sample, windows, watch, known, lasted, observed, foreign, burden,
                    lastAlive, exitSeen>>
    BY <1>2, Zenon DEF ObserveBefore, ObserveAfter, outcome, machine, seen, thread
  <2> QED  BY <2>2, <2>3, <2>4
<1>3. ASSUME Refresh PROVE ConfirmTypeOK'
  <2>1. PICK phase \in {"boundary", "start_transition", "during"}, attributed \in BOOLEAN :
          \E loud \in Loud(attributed) : sample' = Observation(phase, loud)
    BY <1>3 DEF Refresh
  <2>2. sample' \in Sample  BY <2>1, ObservationSample
  <2>3. window' \in [always : BOOLEAN, never : BOOLEAN] /\ lasted' \in BOOLEAN
    BY <1>3 DEF Refresh, Fresh
  <2>4. /\ UNCHANGED <<at, purpose, windows, observations, known, missed, observed, foreign, burden,
                       lastAlive, exitSeen>>
        /\ watch' = "stamp"
    BY <1>3, Zenon DEF Refresh, outcome, machine, seen
  <2> QED  BY <2>2, <2>3, <2>4
<1>4. ASSUME Stamp PROVE ConfirmTypeOK'
  <2>1. windows' \in Seq(Sample) /\ missed' \in BOOLEAN  BY <1>4, StampAdds
  <2>2. sample' \in Sample  BY <1>4, NoSamples DEF Stamp
  <2>3. watch' \in {"idle", "limit"}  BY <1>4 DEF Stamp
  <2>4. /\ UNCHANGED <<at, purpose, window, observations, known, observed, foreign, burden,
                       lastAlive, exitSeen>>
        /\ lasted' \in BOOLEAN
    BY <1>4, Zenon DEF Stamp, outcome, machine, seen
  <2>5. watch' \in {"idle", "stamp", "limit", "ended"}  BY <2>3
  <2>6. /\ at' \in {"plan", "settle", "before", "launch", "poll", "probe", "reaped", "cleanup",
                    "join", "after", "summary", "judge", "end"}
        /\ purpose' \in {"iterate"} \cup Accepts
        /\ window' \in [always : BOOLEAN, never : BOOLEAN]
        /\ observations' \in Seq(Sample)
    BY <2>4
  <2>7. /\ known' \in BOOLEAN /\ observed' \in BOOLEAN /\ foreign' \in BOOLEAN
        /\ burden' \in BOOLEAN /\ lastAlive' \in BOOLEAN /\ exitSeen' \in BOOLEAN
    BY <2>4, Zenon
  <2> QED  BY <2>1, <2>2, <2>4, <2>5, <2>6, <2>7, Zenon
<1>5. ASSUME WatchEnds PROVE ConfirmTypeOK'
  <2>1. windows' \in Seq(Sample)  BY <1>5, NoSamples DEF WatchEnds
  <2>2. /\ UNCHANGED <<at, purpose, window, sample, observations, known, lasted, missed, observed,
                       foreign, burden, lastAlive, exitSeen>>
        /\ watch' = "ended"
    BY <1>5, Zenon DEF WatchEnds, outcome, machine, seen
  <2> QED  BY <2>1, <2>2
<1>6. ASSUME Join PROVE ConfirmTypeOK'
  <2>1. observations' \in Seq(Sample)  BY <1>6, JoinObservations
  <2>2. /\ UNCHANGED <<purpose, window, sample, watch, known, lasted, missed, observed,
                       foreign, burden, lastAlive, exitSeen>>
        /\ at' = "after" /\ windows' = <<>>
    BY <1>6, Zenon DEF Join, outcome, machine, seen
  <2>3. windows' \in Seq(Sample)  BY <2>2
  <2> QED  BY <2>1, <2>2, <2>3
<1>7. ASSUME Record PROVE ConfirmTypeOK'
  <2>1. observed' \in BOOLEAN  BY <1>7, Zenon DEF Record, Admissible
  <2>2. window' = [always |-> FALSE, never |-> ~FALSE]  BY <1>7, Zenon DEF Record, Fresh
  <2>3. window' \in [always : BOOLEAN, never : BOOLEAN]  BY <2>2
  <2>4. /\ foreign' \in BOOLEAN /\ burden' \in BOOLEAN /\ lastAlive' \in BOOLEAN
        /\ exitSeen' \in BOOLEAN /\ known' \in BOOLEAN /\ lasted' \in BOOLEAN
        /\ missed' \in BOOLEAN
    BY <1>7, Zenon DEF Record
  <2>5. /\ at' \in {"judge"} /\ purpose' = purpose /\ observations' \in Seq(Sample)
        /\ windows' = windows /\ sample' = sample /\ watch' = "idle"
    BY <1>7 DEF Record
  <2> QED  BY <2>1, <2>3, <2>4, <2>5, Zenon
<1>8. ASSUME NEW interval, NEW uniform, Summarize(interval, uniform) PROVE ConfirmTypeOK'
  <2>1. /\ UNCHANGED <<purpose, window, sample, windows, observations, watch, known, lasted, missed,
                       observed, foreign, burden, lastAlive, exitSeen>>
        /\ at' = "end"
    BY <1>8, Zenon DEF Summarize, machine, seen, thread
  <2> QED  BY <2>1
<1> QED  BY <1>1, <1>2, <1>3, <1>4, <1>5, <1>6, <1>7, <1>8, Zenon
  DEF ConfirmNext, Invocation, Watch, Silent

\* Every step keeps that windows are taken in time.
LEMMA WatchedStep ==
  ASSUME ConfirmTypeOK, WatchedInTime, ConfirmNext
  PROVE  WatchedInTime'
<1> USE DEF WatchedInTime
<1>1. CASE Silent
  <2>1. windows' = windows /\ watch' = watch /\ purpose' = purpose  BY <1>1, SilentKeeps
  <2>2. /\ at' = at \/ <<at, at'>> \in {<<"plan", "settle">>, <<"settle", "before">>,
              <<"settle", "summary">>, <<"launch", "poll">>, <<"launch", "join">>,
              <<"poll", "probe">>, <<"poll", "join">>, <<"probe", "poll">>,
              <<"probe", "reaped">>, <<"reaped", "cleanup">>, <<"cleanup", "join">>}
        /\ known' = known \/ known' = (purpose # "iterate")
        /\ known' = known \/ (at' = "probe" /\ at = "poll")
    BY <1>1, SilentKeeps
  <2>3. CASE known' = known  BY <2>1, <2>2, <2>3
  <2>4. CASE known' # known
    <3>1. at = "poll" /\ at' = "probe" /\ known' = (purpose # "iterate")  BY <2>2, <2>4
    <3>2. ~(at \in {"plan", "settle", "before", "launch", "judge", "end"} \/ purpose = "iterate")
          => known'
      BY <3>1, Zenon
    <3>3. purpose = "iterate" => ~known'  BY <3>1, Zenon
    <3>4. known => known'  BY <3>1, <3>2
    <3> QED  BY <2>1, <3>1, <3>3, <3>4
  <2> QED  BY <2>3, <2>4
<1>2. CASE ObserveBefore \/ ObserveAfter
  <2>1. windows' = windows /\ watch' = watch /\ purpose' = purpose /\ known' = known
    BY <1>2 DEF ObserveBefore, ObserveAfter, outcome, thread
  <2>2. <<at, at'>> \in {<<"before", "launch">>, <<"before", "summary">>, <<"after", "summary">>}
    BY <1>2 DEF ObserveBefore, ObserveAfter, GiveUp
  <2> QED  BY <2>1, <2>2
<1>3. CASE Refresh
  BY <1>3 DEF Refresh, outcome, ConfirmTypeOK
<1>4. CASE Stamp
  BY <1>4 DEF Stamp, outcome, ConfirmTypeOK
<1>5. CASE WatchEnds
  BY <1>5 DEF WatchEnds, outcome, ConfirmTypeOK
<1>6. CASE Join
  BY <1>6 DEF Join, outcome, ConfirmTypeOK
<1>7. CASE Record
  BY <1>7 DEF Record
<1>8. ASSUME NEW interval, NEW uniform, Summarize(interval, uniform) PROVE WatchedInTime'
  BY <1>8 DEF Summarize, thread
<1> QED  BY <1>1, <1>2, <1>3, <1>4, <1>5, <1>6, <1>7, <1>8, Zenon
  DEF ConfirmNext, Invocation, Watch, Silent

\* Every step keeps that the window under way has seen its load.
LEMMA SampleStep ==
  ASSUME ConfirmTypeOK, WatchedInTime, SampleTells, ConfirmNext
  PROVE  SampleTells'
<1>1. ASSUME watch' = watch, windows' = windows, sample' = sample, lasted' = lasted
      PROVE  SampleTells'
  BY <1>1, Zenon DEF SampleTells
<1>2. ASSUME watch' # "stamp" PROVE SampleTells'
  BY <1>2 DEF SampleTells
<1>3. CASE Silent  BY <1>1, <1>3, SilentKeeps
<1>4. CASE ObserveBefore \/ ObserveAfter
  BY <1>1, <1>4 DEF ObserveBefore, ObserveAfter, GiveUp, thread
<1>5. CASE Refresh
  <2> DEFINE phase == IF windows = <<>> THEN "start_transition" ELSE "during"
             attributed == windows # <<>> /\ child # "reaped"
  <2>1. PICK loud \in Loud(attributed) : sample' = Observation(phase, loud)
    BY <1>5, Zenon DEF Refresh
  <2>2. attributed \in BOOLEAN /\ phase \in {"boundary", "start_transition", "during"}
    OBVIOUS
  <2> HIDE DEF attributed, phase
  <2>3. /\ sample'.phase = phase /\ sample'.used = (phase # "start_transition")
        /\ sample'.own = ~burden /\ (burden \/ window.always => ~sample'.clean)
    BY <2>1, <2>2, ObservationSample
  <2>4. windows' = windows /\ lasted' = window.always  BY <1>5 DEF Refresh
  <2> QED  BY <2>3, <2>4, Zenon DEF SampleTells, phase
<1>6. CASE Stamp  BY <1>2, <1>6 DEF Stamp
<1>7. CASE WatchEnds  BY <1>2, <1>7 DEF WatchEnds
<1>8. CASE Join
  <2>1. watch' # "stamp"  BY <1>8 DEF Join, WatchedInTime
  <2> QED  BY <1>2, <2>1
<1>9. CASE Record  BY <1>2, <1>9 DEF Record
<1>10. ASSUME NEW interval, NEW uniform, Summarize(interval, uniform) PROVE SampleTells'
  BY <1>1, <1>10 DEF Summarize, thread
<1> QED  BY <1>3, <1>4, <1>5, <1>6, <1>7, <1>8, <1>9, <1>10, Zenon
  DEF ConfirmNext, Invocation, Watch, Silent

\* What refuses an invocation still does, with more of it.
LEMMA RefusesStays ==
  ASSUME Len(observations) \in Nat, Len(windows) \in Nat,
         Len(observations') \in Nat, Len(windows') \in Nat,
         Len(observations) <= Len(observations'), Len(windows) <= Len(windows'),
         \A i \in 1 .. Len(observations) : observations'[i] = observations[i],
         \A i \in 1 .. Len(windows) : windows'[i] = windows[i],
         Refuses
  PROVE  Refuses'
<1>1. /\ 1 .. Len(observations) \subseteq 1 .. Len(observations')
      /\ 1 .. Len(windows) \subseteq 1 .. Len(windows')
  OBVIOUS
<1>2. CASE \E i \in 1 .. Len(observations) : Unclean(observations[i])
  <2>1. PICK i \in 1 .. Len(observations) : Unclean(observations[i])  BY <1>2
  <2>2. i \in 1 .. Len(observations') /\ Unclean(observations'[i])  BY <1>1, <2>1
  <2> QED  BY <2>2, Zenon DEF Refuses
<1>3. CASE \E i \in 1 .. Len(windows) : Unclean(Classified(windows[i]))
  <2>1. PICK i \in 1 .. Len(windows) : Unclean(Classified(windows[i]))  BY <1>3
  <2>2. i \in 1 .. Len(windows') /\ Unclean(Classified(windows'[i]))  BY <1>1, <2>1
  <2> QED  BY <2>2, Zenon DEF Refuses
<1> QED  BY <1>2, <1>3, Zenon DEF Refuses

\* Every step keeps that a load that was missed is told.
LEMMA MissedStep ==
  ASSUME ConfirmTypeOK, WatchedInTime, SampleTells, MissedIsKept, ConfirmNext
  PROVE  MissedIsKept'
<1>0. /\ windows \in Seq(Sample) /\ observations \in Seq(Sample)
      /\ Len(windows) \in Nat /\ Len(observations) \in Nat
  BY DEF ConfirmTypeOK
<1>1. CASE Silent
  <2>1. /\ windows' = windows /\ observations' = observations /\ missed' = missed
        /\ observed' = observed
        /\ at \in {"judge", "end"} <=> at' \in {"judge", "end"}
    BY <1>1, SilentKeeps
  <2>2. Refuses => Refuses'  BY <2>1, Zenon DEF Refuses
  <2> QED  BY <2>1, <2>2, Zenon DEF MissedIsKept
<1>2. CASE ObserveBefore \/ ObserveAfter
  <2>1. PICK attributed \in BOOLEAN : Boundary(attributed)
    BY <1>2 DEF ObserveBefore, ObserveAfter
  <2>2. /\ observations' \in Seq(Sample) /\ Len(observations') = Len(observations) + 1
        /\ \A i \in 1 .. Len(observations) : observations'[i] = observations[i]
        /\ missed' => missed \/ Unclean(observations'[Len(observations')])
    BY <2>1, BoundaryAdds
  <2>3. /\ windows' = windows
        /\ at \notin {"judge", "end"} /\ at' \notin {"judge", "end"}
    BY <1>2 DEF ObserveBefore, ObserveAfter, GiveUp, thread
  <2>4. missed => Refuses'
    <3>1. missed => Refuses  BY <2>3 DEF MissedIsKept
    <3> QED  BY <1>0, <2>2, <2>3, <3>1, RefusesStays
  <2>5. Unclean(observations'[Len(observations')]) => Refuses'
    <3>1. Len(observations') \in 1 .. Len(observations')  BY <1>0, <2>2
    <3> QED  BY <3>1, Zenon DEF Refuses
  <2> QED  BY <2>2, <2>3, <2>4, <2>5 DEF MissedIsKept
<1>3. CASE Refresh
  <2>1. /\ windows' = windows /\ observations' = observations /\ missed' = missed
        /\ at' = at /\ observed' = observed
    BY <1>3 DEF Refresh, outcome
  <2> QED  BY <2>1, Zenon DEF MissedIsKept, Refuses
<1>4. CASE Stamp
  <2>1. /\ windows' \in Seq(Sample) /\ Len(windows') = Len(windows) + 1
        /\ \A i \in 1 .. Len(windows) : windows'[i] = windows[i]
        /\ missed' => missed \/ Unclean(Classified(windows'[Len(windows')]))
    BY <1>4, StampAdds
  <2>2. observations' = observations /\ at' = at  BY <1>4 DEF Stamp
  <2>3. at \notin {"judge", "end"}  BY <1>4 DEF Stamp, WatchedInTime
  <2>4. missed => Refuses'
    <3>1. missed => Refuses  BY <2>3 DEF MissedIsKept
    <3> QED  BY <1>0, <2>1, <2>2, <3>1, RefusesStays
  <2>5. Unclean(Classified(windows'[Len(windows')])) => Refuses'
    <3>1. Len(windows') \in 1 .. Len(windows')  BY <1>0, <2>1
    <3> QED  BY <3>1, Zenon DEF Refuses
  <2> QED  BY <2>1, <2>2, <2>3, <2>4, <2>5 DEF MissedIsKept
<1>5. CASE WatchEnds
  <2>1. observations' = observations /\ at' = at /\ missed' = missed /\ observed' = observed
    BY <1>5 DEF WatchEnds, outcome
  <2>2. /\ Len(windows') \in Nat /\ Len(windows) <= Len(windows')
        /\ \A i \in 1 .. Len(windows) : windows'[i] = windows[i]
    <3>1. CASE windows' = windows  BY <1>0, <3>1
    <3>2. CASE windows' = Append(windows, Limit)  BY <1>0, <3>2, NoSamples
    <3> QED  BY <1>5, <3>1, <3>2 DEF WatchEnds
  <2>3. Refuses => Refuses'  BY <1>0, <2>1, <2>2, RefusesStays
  <2> QED  BY <2>1, <2>3, Zenon DEF MissedIsKept
<1>6. CASE Join
  <2>1. Refuses => Refuses'  BY <1>6, JoinObservations, Zenon DEF Refuses
  <2>2. missed' = missed /\ at = "join" /\ at' = "after"  BY <1>6 DEF Join
  <2> QED  BY <2>1, <2>2 DEF MissedIsKept
<1>7. CASE Record
  <2>1. at = "summary" /\ at' = "judge" /\ missed' = missed /\ observed' = Admissible
    BY <1>7 DEF Record
  <2>2. windows = <<>>  BY <2>1 DEF WatchedInTime
  <2>3. 1 .. Len(windows) = {}  BY <2>2
  <2>4. DOMAIN observations = 1 .. Len(observations)  BY <1>0, LenProperties
  <2>5. Refuses => ~Admissible  BY <2>3, <2>4, Zenon DEF Refuses, Admissible
  <2>6. missed => Refuses  BY <2>1 DEF MissedIsKept
  <2> QED  BY <2>1, <2>5, <2>6, Zenon DEF MissedIsKept
<1>8. ASSUME NEW interval, NEW uniform, Summarize(interval, uniform) PROVE MissedIsKept'
  BY <1>8 DEF Summarize, MissedIsKept
<1> QED  BY <1>1, <1>2, <1>3, <1>4, <1>5, <1>6, <1>7, <1>8, Zenon
  DEF ConfirmNext, Invocation, Watch, Silent

\* Every step keeps that nothing is concluded without observations.
LEMMA VerdictStep ==
  ASSUME ConfirmTypeOK, WatchedInTime, VerdictsObserved, ConfirmNext
  PROVE  VerdictsObserved'
<1>1. CASE Silent
  <2>1. verdict' = verdict /\ observed' = observed /\ (at = "end" => at' = "end")
    BY <1>1, SilentKeeps
  <2> QED  BY <2>1, Zenon DEF VerdictsObserved
<1>2. CASE ObserveBefore \/ ObserveAfter \/ Refresh \/ Stamp \/ WatchEnds \/ Join
  <2>1. verdict' = verdict /\ observed' = observed /\ (at = "end" => at' = "end")
    BY <1>2 DEF ObserveBefore, ObserveAfter, GiveUp, Refresh, Stamp, WatchEnds, Join, outcome
  <2> QED  BY <2>1, Zenon DEF VerdictsObserved
<1>3. CASE Record
  <2>1. verdict' = verdict /\ at = "summary"  BY <1>3 DEF Record
  <2> QED  BY <2>1 DEF VerdictsObserved
<1>4. ASSUME NEW interval \in [Candidate \cup {Control} -> Interval \cup {Unclear}], NEW uniform,
             Summarize(interval, uniform)
      PROVE  VerdictsObserved'
  <2> DEFINE valid == status = "completed" /\ uniform /\ observed
             judged == [x \in DOMAIN interval |->
                          IF purpose = "iterate" THEN "exploratory" ELSE Judge(valid, interval[x])]
  <2>1. /\ verdict' = IF purpose = "iterate" THEN judged ELSE Qualified(judged, interval[Control])
        /\ observed' = observed /\ at' = "end"
    BY <1>4, Zenon DEF Summarize
  <2> SUFFICES ASSUME NEW x \in Candidate, Concluded(verdict'[x]) PROVE observed
    BY <2>1, Zenon DEF VerdictsObserved
  <2>2. DOMAIN judged = DOMAIN interval /\ x \in DOMAIN interval  OBVIOUS
  <2>3. CASE purpose = "iterate"
    <3>1. verdict'[x] = "exploratory"  BY <2>1, <2>2, <2>3
    <3> QED  BY <3>1 DEF Concluded
  <2>4. CASE purpose # "iterate"
    <3>1. judged[x] = Judge(valid, interval[x])  BY <2>2, <2>4
    <3>2. verdict'[x] = judged[x] \/ verdict'[x] = "inconclusive"
      BY <2>1, <2>2, <2>4, Zenon DEF Qualified
    <3>3. Judge(valid, interval[x]) # "invalid" => observed  BY Zenon DEF Judge
    <3> QED  BY <3>1, <3>2, <3>3 DEF Concluded
  <2> QED  BY <2>3, <2>4
<1> QED  BY <1>1, <1>2, <1>3, <1>4, Zenon
  DEF ConfirmNext, Invocation, Watch, Silent

\* A confirmation starts with no draws and no windows.
LEMMA ConfirmInitInv == ConfirmInit => ConfirmInv
<1> SUFFICES ASSUME ConfirmInit PROVE ConfirmInv
  OBVIOUS
<1>1. ConfirmTypeOK
  <2>1. /\ purpose \in {"iterate"} \cup Accepts /\ windows \in Seq(Sample)
        /\ observations \in Seq(Sample) /\ sample \in Sample /\ at = "plan" /\ watch = "idle"
    BY NoSamples DEF ConfirmInit
  <2>2. /\ known \in BOOLEAN /\ lasted \in BOOLEAN /\ missed \in BOOLEAN
        /\ observed \in BOOLEAN /\ foreign \in BOOLEAN /\ burden \in BOOLEAN
        /\ lastAlive \in BOOLEAN /\ exitSeen \in BOOLEAN
    BY Zenon DEF ConfirmInit
  <2>3. window = [always |-> foreign, never |-> ~foreign]  BY Zenon DEF ConfirmInit, Fresh
  <2>4. (~foreign) \in BOOLEAN  BY Zenon
  <2>5. window \in [always : BOOLEAN, never : BOOLEAN]  BY <2>2, <2>3, <2>4, Zenon
  <2> QED  BY <2>1, <2>2, <2>5 DEF ConfirmTypeOK
<1>2. MissedIsKept  BY DEF ConfirmInit, MissedIsKept
<1>3. WatchedInTime  BY DEF ConfirmInit, WatchedInTime
<1>4. SampleTells  BY DEF ConfirmInit, SampleTells
<1>5. VerdictsObserved  BY DEF ConfirmInit, VerdictsObserved, Concluded
<1> QED  BY <1>1, <1>2, <1>3, <1>4, <1>5 DEF ConfirmInv

\* Every step of a confirmation keeps its invariant.
LEMMA ConfirmStepInv == ConfirmInv /\ [ConfirmNext]_confirmVars => ConfirmInv'
<1>1. ASSUME ConfirmInv, ConfirmNext PROVE ConfirmInv'
  BY <1>1, ConfirmTypeStep, MissedStep, WatchedStep, SampleStep, VerdictStep DEF ConfirmInv
<1>2. ASSUME ConfirmInv, UNCHANGED confirmVars PROVE ConfirmInv'
  <2> USE <1>2 DEF ConfirmInv, confirmVars, outcome, machine, seen, thread
  <2>1. ConfirmTypeOK'  BY DEF ConfirmTypeOK
  <2>2. MissedIsKept'  BY Zenon DEF MissedIsKept, Refuses
  <2>3. WatchedInTime'  BY DEF WatchedInTime
  <2>4. SampleTells'  BY Zenon DEF SampleTells
  <2>5. VerdictsObserved'  BY DEF VerdictsObserved
  <2> QED  BY <2>1, <2>2, <2>3, <2>4, <2>5
<1> QED  BY <1>1, <1>2

\* The inductive invariant behind LoadIsNoticed: until its verdict, every load
\* that an invocation missed is told by a window or a boundary that is kept of it.
THEOREM ConfirmInvariance == ConfirmSpec => []ConfirmInv
  BY ConfirmInitInv, ConfirmStepInv, PTL DEF ConfirmSpec

\* No verdict rests on an invocation beside which a load lasted for a window that
\* had to tell it, however the windows and the life of the process interleave.
THEOREM LoadTheorem == ConfirmSpec => []LoadIsNoticed
<1>1. ConfirmInv => LoadIsNoticed
  BY DEF ConfirmInv, MissedIsKept, VerdictsObserved, Concluded, LoadIsNoticed
<1> QED  BY <1>1, ConfirmInvariance, PTL

\* What AcceptedIsEarned says of the verdicts.
VerdictIsEarned ==
  purpose \in Accepts /\ exitCode \in {0, 1} =>
    /\ status = "completed" /\ blocks.uniform
    /\ \A x \in Candidate \cup {Control} : blocks.interval[x] # Unclear
    /\ Equivalent(blocks.interval[Control])
    /\ exitCode = 1 => \E x \in Candidate : blocks.interval[x][1] > Margin
    /\ exitCode # 1 => \A x \in Candidate :
         /\ purpose = "improvement" => blocks.interval[x][2] < -Margin
         /\ purpose = "equivalence" => /\ blocks.interval[x][2] <= Margin
                                       /\ blocks.interval[x][1] >= -Margin
         /\ purpose = "non_inferiority" => blocks.interval[x][2] <= Margin

\* What a verdict says of its interval.
LEMMA ClassifySays ==
  ASSUME NEW i \in Interval
  PROVE  /\ Classify(i) = "regression" => i[1] > Margin
         /\ Classify(i) = "improvement" => i[2] < -Margin
         /\ Classify(i) = "equivalent" => i[1] >= -Margin /\ i[2] <= Margin
         /\ Classify(i) = "non_inferior" => i[2] <= Margin
         /\ Classify(i) # "invalid"
  BY Zenon DEF Classify

\* What is accepted of a candidate, by the kind of verdict that the plan asks for.
LEMMA EnoughSays ==
  ASSUME purpose \in Accepts, NEW v, Enough(v)
  PROVE  /\ purpose = "improvement" => v = "improvement"
         /\ purpose = "equivalence" => v = "equivalent"
         /\ purpose = "non_inferiority" => v \in {"improvement", "equivalent", "non_inferior"}
<1>1. CASE purpose = "improvement"
  <2>1. v = "improvement"  BY <1>1, Zenon DEF Enough
  <2> QED  BY <1>1, <2>1
<1>2. CASE purpose = "equivalence"
  <2>1. v = "equivalent"  BY <1>2, Zenon DEF Enough
  <2> QED  BY <1>2, <2>1
<1>3. CASE purpose = "non_inferiority"
  <2>1. v \in {"improvement", "equivalent", "non_inferior"}  BY <1>3, Zenon DEF Enough
  <2> QED  BY <1>3, <2>1
<1> QED  BY <1>1, <1>2, <1>3 DEF Accepts

\* The summary earns what it says.
LEMMA SummaryEarns ==
  ASSUME NEW interval \in [Candidate \cup {Control} -> Interval \cup {Unclear}],
         NEW uniform \in BOOLEAN, Summarize(interval, uniform)
  PROVE  VerdictIsEarned'
<1> SUFFICES ASSUME purpose \in Accepts, exitCode' \in {0, 1} PROVE VerdictIsEarned'
  BY DEF Summarize, VerdictIsEarned
<1> DEFINE complete == status = "completed"
           valid == complete /\ uniform /\ observed
           judged == [x \in DOMAIN interval |->
                        IF purpose = "iterate" THEN "exploratory" ELSE Judge(valid, interval[x])]
           said == {verdict'[x] : x \in Candidate}
<1>1. purpose # "iterate"  BY DEF Accepts
<1>2. /\ verdict' = Qualified(judged, interval[Control])
      /\ exitCode' = IF ~complete THEN 2 ELSE ExitCode(verdict')
      /\ blocks' = [interval |-> interval, uniform |-> uniform]
      /\ status' = status /\ purpose' = purpose
  BY <1>1, Zenon DEF Summarize
<1>3. complete /\ exitCode' = ExitCode(verdict')  BY <1>2
<1>4. /\ ~\E v \in said : v \in {"invalid", "inconclusive", "exploratory"}
      /\ exitCode' = 1 => "regression" \in said
      /\ exitCode' # 1 => \A v \in said : Enough(v)
  <2>1. said \cap {"invalid", "inconclusive", "exploratory"} = {}  BY <1>3 DEF ExitCode
  <2>2. exitCode' = IF "regression" \in said THEN 1
                    ELSE IF \A v \in said : Enough(v) THEN 0 ELSE 2
    BY <1>3, <2>1, Zenon DEF ExitCode
  <2>3. exitCode' = 1 => "regression" \in said  BY <2>2
  <2>4. exitCode' # 1 => \A v \in said : Enough(v)  BY <2>2
  <2> QED  BY <2>1, <2>3, <2>4
<1>5. ASSUME NEW x \in Candidate
      PROVE  /\ valid /\ Equivalent(interval[Control]) /\ interval[x] # Unclear
             /\ verdict'[x] = Classify(interval[x]) /\ interval[x] \in Interval
  <2>1. verdict'[x] \notin {"invalid", "inconclusive", "exploratory"}  BY <1>4
  <2>2. DOMAIN judged = DOMAIN interval /\ x \in DOMAIN interval  OBVIOUS
  <2>3. judged[x] = Judge(valid, interval[x])  BY <1>1, <2>2
  <2>4. verdict'[x] = IF judged[x] = "invalid" \/ Equivalent(interval[Control])
                      THEN judged[x] ELSE "inconclusive"
    BY <1>2, <2>2, Zenon DEF Qualified
  <2>5. verdict'[x] = Judge(valid, interval[x]) /\ Judge(valid, interval[x]) # "invalid"
        /\ Equivalent(interval[Control])
    BY <2>1, <2>3, <2>4
  <2>6. valid /\ interval[x] # Unclear /\ verdict'[x] = Classify(interval[x])
    BY <2>5, Zenon DEF Judge
  <2> QED  BY <2>5, <2>6
<1>6. PICK x \in Candidate : TRUE  BY ConfirmationAssumption
<1>7. valid /\ Equivalent(interval[Control])  BY <1>5
<1>8. interval[Control] # Unclear  BY <1>7, Zenon DEF Equivalent
<1>9. ASSUME exitCode' = 1 PROVE \E y \in Candidate : interval[y][1] > Margin
  <2>1. PICK y \in Candidate : verdict'[y] = "regression"  BY <1>4, <1>9
  <2>2. interval[y] \in Interval /\ Classify(interval[y]) = "regression"  BY <1>5, <2>1
  <2>3. interval[y][1] > Margin  BY <2>2, ClassifySays, Zenon
  <2> QED  BY <2>3, Zenon
<1>10. ASSUME exitCode' # 1, NEW y \in Candidate
       PROVE  /\ purpose = "improvement" => interval[y][2] < -Margin
              /\ purpose = "equivalence" => /\ interval[y][2] <= Margin
                                            /\ interval[y][1] >= -Margin
              /\ purpose = "non_inferiority" => interval[y][2] <= Margin
  <2>1. Enough(verdict'[y])  BY <1>4, <1>10
  <2>2. interval[y] \in Interval /\ verdict'[y] = Classify(interval[y])  BY <1>5
  <2>3. /\ Classify(interval[y]) = "improvement" => interval[y][2] < -Margin
        /\ Classify(interval[y]) = "equivalent" =>
             interval[y][1] >= -Margin /\ interval[y][2] <= Margin
        /\ Classify(interval[y]) = "non_inferior" => interval[y][2] <= Margin
    BY <2>2, ClassifySays, Zenon
  <2>4. interval[y][2] < -Margin => interval[y][2] <= Margin
    <3>1. interval[y][2] \in Int /\ Margin \in Nat  BY <2>2, ConfirmationAssumption
    <3> QED  BY <3>1
  <2>5. /\ purpose = "improvement" => verdict'[y] = "improvement"
        /\ purpose = "equivalence" => verdict'[y] = "equivalent"
        /\ purpose = "non_inferiority" =>
             verdict'[y] \in {"improvement", "equivalent", "non_inferior"}
    BY <2>1, EnoughSays
  <2> QED  BY <2>2, <2>3, <2>4, <2>5
<1>11. blocks'.interval = interval /\ blocks'.uniform = uniform  BY <1>2
<1>12. \A y \in Candidate \cup {Control} : interval[y] # Unclear  BY <1>5, <1>8
<1>13. Equivalent(blocks'.interval[Control])  BY <1>7, <1>11
<1> QED  BY <1>2, <1>3, <1>7, <1>9, <1>10, <1>11, <1>12, <1>13, Zenon DEF VerdictIsEarned

\* Until the summary there is no exit code, after it nothing changes.
EarnedInv == VerdictIsEarned /\ (at # "end" => exitCode = -1)

\* Every step keeps what the exit code and the status say of each other.
LEMMA EarnedStep ==
  ASSUME EarnedInv, [ConfirmNext]_confirmVars
  PROVE  EarnedInv'
<1>1. CASE exitCode' = exitCode /\ at' # "end" /\ at # "end"
  BY <1>1 DEF EarnedInv, VerdictIsEarned
<1>2. CASE /\ exitCode' = exitCode /\ at' = at /\ purpose' = purpose /\ status' = status
           /\ blocks' = blocks
  BY <1>2, Zenon DEF EarnedInv, VerdictIsEarned, Equivalent
<1>3. CASE Silent
  <2>1. CASE ChildExits \/ Machine
    BY <1>2, <2>1 DEF ChildExits, Machine, Supervised, outcome
  <2>2. CASE ~(ChildExits \/ Machine)
    BY <1>1, <1>3, <2>2
       DEF Silent, DrawSchedule, Settle, GiveUp, Launch, Poll, Kill, Alive, Reap, SeeExit, CleanUp,
           Supervised, outcome
  <2> QED  BY <2>1, <2>2
<1>4. CASE ObserveBefore \/ ObserveAfter \/ Join \/ Record
  BY <1>1, <1>4 DEF ObserveBefore, ObserveAfter, Join, Record, GiveUp, outcome
<1>5. CASE Refresh \/ Stamp \/ WatchEnds
  BY <1>2, <1>5 DEF Refresh, Stamp, WatchEnds, outcome
<1>6. ASSUME NEW interval \in [Candidate \cup {Control} -> Interval \cup {Unclear}],
             NEW uniform \in BOOLEAN, Summarize(interval, uniform)
      PROVE  EarnedInv'
  BY <1>6, SummaryEarns DEF EarnedInv, Summarize
<1>7. CASE UNCHANGED confirmVars
  BY <1>2, <1>7 DEF confirmVars, outcome
<1>8. CASE ConfirmNext
  BY <1>3, <1>4, <1>5, <1>6, <1>8, Zenon DEF ConfirmNext, Invocation, Watch, Silent
<1> QED  BY <1>7, <1>8

\* A verdict that is accepted, or that fails the run, is earned: for every plan,
\* whatever the intervals, and however the invocation went.
THEOREM VerdictTheorem == ConfirmSpec => []VerdictIsEarned
<1>1. ConfirmInit => EarnedInv  BY DEF ConfirmInit, EarnedInv, VerdictIsEarned
<1>2. EarnedInv /\ [ConfirmNext]_confirmVars => EarnedInv'  BY EarnedStep
<1>3. EarnedInv => VerdictIsEarned  BY DEF EarnedInv
<1> QED  BY <1>1, <1>2, <1>3, PTL DEF ConfirmSpec

-----------------------------------------------------------------------------
(* The order of a block is drawn without favour, for any number of arms and *)
(* any generator.  The orders are counted by injections both ways; what the *)
(* recursion of Shuffle computes is shown along the least element of a set. *)

\* A set of naturals has a least element.
LEMMA LeastNatural ==
  ASSUME NEW T \in SUBSET Nat, T # {}
  PROVE  \E m \in T : \A k \in T : m <= k
<1> DEFINE Below(n) == 0 .. n
           B == {Below(n) : n \in T}
<1>1. PICK n0 \in T : TRUE  OBVIOUS
<1>2. \A n \in T : IsFiniteSet(Below(n))  BY FS_Interval
<1>3. B \subseteq FiniteSubsetsOf(Nat) /\ B # {}
  BY <1>2 DEF FiniteSubsetsOf
<1>4. IsWellFoundedOn(StrictSubsetOrdering(Nat), FiniteSubsetsOf(Nat))
  BY FS_StrictSubsetOrderingWellFounded, Zenon
<1> HIDE DEF B
<1>5. PICK X \in B : \A Y \in B : ~(<<Y, X>> \in StrictSubsetOrdering(Nat))
  BY <1>3, <1>4, WFMin, Zenon
<1>6. PICK m \in T : X = Below(m)  BY <1>5 DEF B
<1>7. ASSUME NEW k \in T, ~(m <= k) PROVE FALSE
  <2>1. Below(k) \in B  BY DEF B
  <2>2. Below(k) \subseteq Below(m) /\ Below(k) # Below(m)
    <3>1. k \in Nat /\ m \in Nat /\ k < m  BY <1>7
    <3>2. m \in Below(m) /\ m \notin Below(k)  BY <3>1
    <3> QED  BY <3>1, <3>2
  <2>3. Below(k) \in SUBSET Nat /\ Below(m) \in SUBSET Nat  OBVIOUS
  <2>4. <<Below(k), X>> \in StrictSubsetOrdering(Nat)
    BY <1>6, <2>2, <2>3 DEF StrictSubsetOrdering
  <2> QED  BY <1>5, <2>1, <2>4
<1> QED  BY <1>7

\* What holds of n and goes down holds down to m.
LEMMA Downwards ==
  ASSUME NEW m \in Int, NEW n \in Int, NEW P, n \in P,
         \A k \in m .. n - 1 : k + 1 \in P => k \in P
  PROVE  \A k \in m .. n : k \in P
<1> DEFINE T == {j \in Nat : n - j >= m /\ n - j \notin P}
<1>1. CASE T = {}
  <2> SUFFICES ASSUME NEW k \in m .. n PROVE k \in P
    OBVIOUS
  <2> DEFINE j == n - k
  <2>1. j \in Nat /\ n - j = k /\ n - j >= m  OBVIOUS
  <2> HIDE DEF j
  <2> QED  BY <1>1, <2>1
<1>2. CASE T # {}
  <2>1. PICK j \in T : \A k \in T : j <= k  BY <1>2, LeastNatural
  <2>2. j # 0  BY <2>1
  <2>3. j - 1 \in Nat /\ ~(j <= j - 1) /\ n - (j - 1) = (n - j) + 1 /\ n - (j - 1) >= m
    BY <2>1, <2>2
  <2>4. (n - j) + 1 \in P  BY <2>1, <2>3
  <2>5. n - j \in m .. n - 1  BY <2>1, <2>2
  <2> QED  BY <2>1, <2>4, <2>5
<1> QED  BY <1>1, <1>2

Seat   == 1 .. PlanArms
Choice == 2 .. PlanArms
Orders == {p \in [Seat -> Seat] : \A i, j \in Seat : p[i] = p[j] => i = j}

\* Anything that residues can be taken of.
Draw == [Choice -> Nat]

\* The recursion of Shuffle, ...
At(d, s, i) == IF i > PlanArms THEN [k \in 1 .. PlanArms |-> k]
               ELSE Swap(s[i + 1], i, (d[i] % i) + 1)
IsRun(d, s) == s = [i \in 2 .. PlanArms + 1 |-> At(d, s, i)]
Run(d) == CHOOSE s : IsRun(d, s)

\* ... which can be followed to its end, ...
LEMMA RunExists ==
  ASSUME NEW d
  PROVE  IsRun(d, Run(d)) /\ Shuffle(d) = Run(d)[2]
<1> DEFINE P == {k \in 2 .. PlanArms + 1 : \E s : \A i \in k .. PlanArms + 1 : s[i] = At(d, s, i)}
<1>0. PlanArms \in Nat \ {0}  BY ConfirmationAssumption
<1>10. ASSUME NEW r, NEW s, NEW i, i > PlanArms \/ r[i + 1] = s[i + 1]
      PROVE  At(d, r, i) = At(d, s, i)
  BY <1>10, Zenon DEF At
<1>1. PlanArms + 1 \in P
  <2> DEFINE s == [i \in {PlanArms + 1} |-> [k \in 1 .. PlanArms |-> k]]
  <2>1. \A i \in PlanArms + 1 .. PlanArms + 1 : s[i] = At(d, s, i)
    BY <1>0 DEF At
  <2> HIDE DEF s
  <2> QED  BY <1>0, <2>1
<1>2. ASSUME NEW k \in 2 .. (PlanArms + 1) - 1, k + 1 \in P PROVE k \in P
  <2>1. PICK s : \A i \in k + 1 .. PlanArms + 1 : s[i] = At(d, s, i)  BY <1>2
  <2> DEFINE r == [i \in 2 .. PlanArms + 1 |-> IF i = k THEN At(d, s, k) ELSE s[i]]
  <2>2. \A i \in k .. PlanArms + 1 : i = k \/ i \in k + 1 .. PlanArms + 1  BY <1>0
  <2>3. \A i \in k + 1 .. PlanArms + 1 : i \in 2 .. PlanArms + 1 /\ i # k /\ r[i] = s[i]
    BY <1>0
  <2>4. r[k] = At(d, s, k)  BY <1>0
  <2>5. ASSUME NEW i \in k .. PlanArms + 1 PROVE At(d, r, i) = At(d, s, i)
    <3> HIDE DEF r
    <3>1. CASE i > PlanArms  BY <1>10, <3>1, Zenon
    <3>2. CASE ~(i > PlanArms)
      <4>1. i + 1 \in k + 1 .. PlanArms + 1  BY <1>0, <3>2
      <4>2. r[i + 1] = s[i + 1]  BY <2>3, <4>1
      <4> QED  BY <1>10, <4>2, Zenon
    <3> QED  BY <3>1, <3>2
  <2> HIDE DEF r
  <2>6. \A i \in k .. PlanArms + 1 : r[i] = At(d, r, i)  BY <2>1, <2>2, <2>3, <2>4, <2>5
  <2>7. k \in 2 .. PlanArms + 1  BY <1>0
  <2> QED  BY <2>6, <2>7, Zenon
<1>3. \A k \in 2 .. PlanArms + 1 : k \in P
  <2> HIDE DEF P
  <2>1. 2 \in Int /\ PlanArms + 1 \in Int  BY <1>0
  <2> QED  BY <1>1, <1>2, <2>1, Downwards
<1>4. 2 \in P
  <2> HIDE DEF P
  <2>1. 2 \in 2 .. PlanArms + 1  BY <1>0
  <2> QED  BY <1>3, <2>1, Zenon
<1>5. PICK s : \A i \in 2 .. PlanArms + 1 : s[i] = At(d, s, i)  BY <1>4
<1> DEFINE r == [i \in 2 .. PlanArms + 1 |-> At(d, s, i)]
<1>6. \A i \in 2 .. PlanArms + 1 : At(d, r, i) = At(d, s, i)
  <2> SUFFICES ASSUME NEW i \in 2 .. PlanArms + 1 PROVE At(d, r, i) = At(d, s, i)
    OBVIOUS
  <2>1. CASE i > PlanArms  BY <1>10, <2>1, Zenon
  <2>2. CASE ~(i > PlanArms)
    <3>1. i + 1 \in 2 .. PlanArms + 1  BY <1>0, <2>2
    <3>2. r[i + 1] = At(d, s, i + 1)  BY <3>1
    <3> HIDE DEF r
    <3>3. r[i + 1] = s[i + 1]  BY <1>5, <3>1, <3>2, Zenon
    <3> QED  BY <1>10, <3>3, Zenon
  <2> QED  BY <2>1, <2>2
<1>7. IsRun(d, r)
  <2>1. r = [i \in 2 .. PlanArms + 1 |-> At(d, r, i)]  BY <1>6
  <2> QED  BY <2>1, Zenon DEF IsRun
<1>8. IsRun(d, Run(d))  BY <1>7, Zenon DEF Run
<1>9. Shuffle(d) = Run(d)[2]  BY Zenon DEF Shuffle, Run, IsRun, At
<1> QED  BY <1>8, <1>9

\* ... begins with the arms as they are, and swaps one after the other.
LEMMA RunSteps ==
  ASSUME NEW d
  PROVE  /\ Run(d)[PlanArms + 1] = [k \in Seat |-> k]
         /\ \A i \in Choice : Run(d)[i] = Swap(Run(d)[i + 1], i, (d[i] % i) + 1)
<1>0. PlanArms \in Nat \ {0}  BY ConfirmationAssumption
<1> DEFINE r == Run(d)
<1>1. r = [i \in 2 .. PlanArms + 1 |-> At(d, r, i)]  BY RunExists, Zenon DEF IsRun
<1> HIDE DEF r
<1>2. \A i \in 2 .. PlanArms + 1 : r[i] = At(d, r, i)  BY <1>1, Zenon
<1>3. r[PlanArms + 1] = [k \in Seat |-> k]
  <2>1. PlanArms + 1 \in 2 .. PlanArms + 1 /\ PlanArms + 1 > PlanArms  BY <1>0
  <2> QED  BY <1>2, <2>1, Zenon DEF At, Seat
<1>4. ASSUME NEW i \in Choice PROVE r[i] = Swap(r[i + 1], i, (d[i] % i) + 1)
  <2>1. i \in 2 .. PlanArms + 1 /\ ~(i > PlanArms)  BY <1>0 DEF Choice
  <2> QED  BY <1>2, <2>1, Zenon DEF At
<1> QED  BY <1>3, <1>4 DEF r

\* A residue is a seat at or before the one it is for.
LEMMA ResidueSeat ==
  ASSUME NEW i \in Choice, NEW n \in Nat
  PROVE  /\ n % i \in 0 .. i - 1 /\ (n % i) + 1 \in 1 .. i /\ (n % i) + 1 \in Seat
         /\ i \in Seat /\ i \in Nat \ {0}
<1>1. PlanArms \in Nat \ {0} /\ i \in Nat \ {0} /\ i <= PlanArms
  BY ConfirmationAssumption DEF Choice
<1>2. n % i \in 0 .. i - 1  BY <1>1
<1> QED  BY <1>1, <1>2 DEF Seat

\* A swap of an order is an order, ...
LEMMA SwapOrder ==
  ASSUME NEW f \in Orders, NEW i \in Seat, NEW j \in Seat
  PROVE  /\ Swap(f, i, j) \in Orders
         /\ \A x \in Seat : Swap(f, i, j)[x] =
              IF x = j THEN f[i] ELSE IF x = i THEN f[j] ELSE f[x]
<1> DEFINE g == Swap(f, i, j)
<1>1. f \in [Seat -> Seat] /\ \A x, y \in Seat : f[x] = f[y] => x = y  BY DEF Orders
<1>2. g \in [Seat -> Seat]
      /\ \A x \in Seat : g[x] = IF x = j THEN f[i] ELSE IF x = i THEN f[j] ELSE f[x]
  BY <1>1 DEF Swap
<1> HIDE DEF g
<1>3. ASSUME NEW x \in Seat, NEW y \in Seat, g[x] = g[y] PROVE x = y
  <2> DEFINE b(z) == IF z = j THEN i ELSE IF z = i THEN j ELSE z
  <2>1. b(x) \in Seat /\ b(y) \in Seat /\ g[x] = f[b(x)] /\ g[y] = f[b(y)]  BY <1>2
  <2>2. b(x) = b(y)  BY <1>1, <1>3, <2>1
  <2> QED  BY <2>2
<1>4. g \in Orders  BY <1>2, <1>3 DEF Orders
<1> QED  BY <1>2, <1>4 DEF g

\* ... so that there is an order throughout.
LEMMA RunOrders ==
  ASSUME NEW d \in Draw
  PROVE  \A k \in 2 .. PlanArms + 1 : Run(d)[k] \in Orders
<1> DEFINE P == {k \in 2 .. PlanArms + 1 : Run(d)[k] \in Orders}
<1>0. PlanArms \in Nat \ {0}  BY ConfirmationAssumption
<1>1. PlanArms + 1 \in P
  <2>1. [k \in Seat |-> k] \in Orders  BY DEF Orders
  <2> QED  BY <1>0, <2>1, RunSteps
<1>2. ASSUME NEW k \in 2 .. (PlanArms + 1) - 1, k + 1 \in P PROVE k \in P
  <2>1. k \in Choice /\ k \in 2 .. PlanArms + 1  BY <1>0 DEF Choice
  <2>2. d[k] \in Nat  BY <2>1 DEF Draw
  <2>3. Run(d)[k] = Swap(Run(d)[k + 1], k, (d[k] % k) + 1)  BY <2>1, RunSteps
  <2>4. Run(d)[k + 1] \in Orders  BY <1>2
  <2> DEFINE j == (d[k] % k) + 1
  <2>5. j \in Seat /\ k \in Seat  BY ONLY <2>1, <2>2, ResidueSeat
  <2> HIDE DEF j
  <2>6. Run(d)[k] \in Orders
    <3>1. Run(d)[k] = Swap(Run(d)[k + 1], k, j)  BY <2>3 DEF j
    <3> QED  BY ONLY <2>4, <2>5, <3>1, SwapOrder
  <2> QED  BY <2>1, <2>6
<1> HIDE DEF P
<1>3. \A k \in 2 .. PlanArms + 1 : k \in P
  <2>1. 2 \in Int /\ PlanArms + 1 \in Int  BY <1>0
  <2> QED  BY <1>1, <1>2, <2>1, Downwards
<1> QED  BY <1>3 DEF P

\* What is swapped later is before.
LEMMA RunSettles ==
  ASSUME NEW d \in Draw, NEW i \in 2 .. PlanArms + 1, NEW x \in i .. PlanArms
  PROVE  Shuffle(d)[x] = Run(d)[i][x]
<1> DEFINE P == {k \in 2 .. i : Run(d)[k][x] = Run(d)[i][x]}
<1>0. PlanArms \in Nat \ {0} /\ i \in Int /\ 2 \in Int /\ x \in Seat /\ 2 <= i
  BY ConfirmationAssumption DEF Seat
<1>1. i \in P  BY <1>0
<1>2. ASSUME NEW k \in 2 .. i - 1, k + 1 \in P PROVE k \in P
  <2>1. k \in Choice /\ k \in 2 .. i /\ k + 1 \in 2 .. PlanArms + 1 /\ k < x
    BY <1>0 DEF Choice
  <2>2. d[k] \in Nat  BY <2>1 DEF Draw
  <2> DEFINE j == (d[k] % k) + 1
  <2>3. j \in Seat /\ k \in Seat /\ j <= k /\ k \in Nat
    <3>1. j \in 1 .. k /\ j \in Seat /\ k \in Seat /\ k \in Nat \ {0}
      BY ONLY <2>1, <2>2, ResidueSeat
    <3> HIDE DEF j
    <3> QED  BY ONLY <3>1
  <2>4. x # k /\ x # j  BY <2>1, <2>3
  <2>5. Run(d)[k] = Swap(Run(d)[k + 1], k, j)  BY <2>1, RunSteps
  <2>6. Run(d)[k + 1] \in Orders  BY <2>1, RunOrders
  <2> HIDE DEF j
  <2>7. Run(d)[k][x] = Run(d)[k + 1][x]
    <3> DEFINE f == Run(d)[k + 1]
    <3>1. f \in Orders  BY <2>6
    <3>2. Run(d)[k] = Swap(f, k, j)  BY <2>5
    <3> HIDE DEF f
    <3>3. Swap(f, k, j)[x] = f[x]  BY ONLY <1>0, <2>3, <2>4, <3>1, SwapOrder
    <3> QED  BY <3>2, <3>3 DEF f
  <2>8. Run(d)[k + 1][x] = Run(d)[i][x]  BY <1>2
  <2> QED  BY <2>1, <2>7, <2>8
<1>3. 2 \in P
  <2> HIDE DEF P
  <2>1. \A k \in 2 .. i : k \in P  BY <1>0, <1>1, <1>2, Downwards
  <2> QED  BY <1>0, <2>1
<1>4. Shuffle(d) = Run(d)[2]  BY RunExists
<1> QED  BY <1>3, <1>4

\* Down to where their residues agree two draws give the same.
LEMMA SameResidues ==
  ASSUME NEW d, NEW e, NEW m \in 2 .. PlanArms + 1,
         \A i \in m .. PlanArms : d[i] % i = e[i] % i
  PROVE  \A k \in m .. PlanArms + 1 : Run(d)[k] = Run(e)[k]
<1> DEFINE P == {k \in m .. PlanArms + 1 : Run(d)[k] = Run(e)[k]}
<1>0. PlanArms \in Nat \ {0} /\ m \in Int /\ PlanArms + 1 \in Int  BY ConfirmationAssumption
<1>1. PlanArms + 1 \in P
  <2>1. PlanArms + 1 \in m .. PlanArms + 1  BY <1>0
  <2>2. Run(d)[PlanArms + 1] = [k \in Seat |-> k]  BY RunSteps
  <2>3. Run(e)[PlanArms + 1] = [k \in Seat |-> k]  BY RunSteps
  <2> QED  BY <2>1, <2>2, <2>3, Zenon
<1>2. ASSUME NEW k \in m .. (PlanArms + 1) - 1, k + 1 \in P PROVE k \in P
  <2>1. k \in Choice /\ k \in m .. PlanArms /\ k \in m .. PlanArms + 1  BY <1>0 DEF Choice
  <2>2. /\ Run(d)[k] = Swap(Run(d)[k + 1], k, (d[k] % k) + 1)
        /\ Run(e)[k] = Swap(Run(e)[k + 1], k, (e[k] % k) + 1)
    BY <2>1, RunSteps
  <2>3. Run(d)[k + 1] = Run(e)[k + 1]  BY <1>2
  <2>4. Run(d)[k] = Run(e)[k]  BY <2>1, <2>2, <2>3, Zenon
  <2> QED  BY <2>1, <2>4
<1> HIDE DEF P
<1>3. \A k \in m .. PlanArms + 1 : k \in P  BY <1>0, <1>1, <1>2, Downwards
<1> QED  BY <1>3 DEF P

\* An order tells the residues that it was drawn with.
LEMMA OneResidue ==
  ASSUME NEW d \in Draw, NEW e \in Draw, Shuffle(d) = Shuffle(e), NEW c \in Choice
  PROVE  d[c] % c = e[c] % c
<1> DEFINE P == {k \in 2 .. PlanArms + 1 : Run(d)[k] = Run(e)[k]}
<1>0. PlanArms \in Nat \ {0}  BY ConfirmationAssumption
<1>1. PlanArms + 1 \in P
  <2>1. PlanArms + 1 \in 2 .. PlanArms + 1  BY <1>0
  <2>2. Run(d)[PlanArms + 1] = [k \in Seat |-> k]  BY RunSteps
  <2>3. Run(e)[PlanArms + 1] = [k \in Seat |-> k]  BY RunSteps
  <2> QED  BY <2>1, <2>2, <2>3, Zenon
<1>2. ASSUME NEW k \in Choice, k + 1 \in P PROVE k \in P /\ d[k] % k = e[k] % k
  <2> DEFINE f == Run(d)[k + 1]
             j == (d[k] % k) + 1
             l == (e[k] % k) + 1
  <2>1. k \in 2 .. PlanArms + 1 /\ k + 1 \in 2 .. PlanArms + 1 /\ k \in k .. PlanArms
    BY <1>0 DEF Choice
  <2>2. d[k] \in Nat /\ e[k] \in Nat  BY DEF Draw
  <2>3. j \in Seat /\ l \in Seat /\ k \in Seat /\ d[k] % k \in Int /\ e[k] % k \in Int
    <3>1. d[k] % k \in 0 .. k - 1 /\ j \in Seat /\ k \in Seat  BY ONLY <1>2, <2>2, ResidueSeat
    <3>2. e[k] % k \in 0 .. k - 1 /\ l \in Seat  BY ONLY <1>2, <2>2, ResidueSeat
    <3> QED  BY <3>1, <3>2
  <2>4. f \in Orders  BY <2>1, RunOrders
  <2>5. Run(d)[k] = Swap(f, k, j) /\ Run(e)[k] = Swap(f, k, l)
    <3>1. Run(e)[k + 1] = f  BY <1>2
    <3> QED  BY <3>1, RunSteps
  <2> HIDE DEF f, j, l
  <2>6. Run(d)[k][k] = f[j] /\ Run(e)[k][k] = f[l]
    <3>1. Swap(f, k, j)[k] = f[j]  BY ONLY <2>3, <2>4, SwapOrder
    <3>2. Swap(f, k, l)[k] = f[l]  BY ONLY <2>3, <2>4, SwapOrder
    <3> QED  BY <2>5, <3>1, <3>2
  <2>7. Run(d)[k][k] = Run(e)[k][k]
    <3>1. Shuffle(d)[k] = Run(d)[k][k] /\ Shuffle(e)[k] = Run(e)[k][k]
      BY <2>1, RunSettles
    <3> QED  BY <3>1
  <2>8. j = l  BY <2>3, <2>4, <2>6, <2>7 DEF Orders
  <2>9. d[k] % k = e[k] % k  BY <2>3, <2>8 DEF j, l
  <2> QED  BY <2>1, <2>5, <2>8, <2>9
<1> HIDE DEF P
<1>3. \A k \in 2 .. PlanArms + 1 : k \in P
  <2>1. 2 \in Int /\ PlanArms + 1 \in Int /\ 2 .. (PlanArms + 1) - 1 = Choice
    BY <1>0 DEF Choice
  <2> QED  BY <1>1, <1>2, <2>1, Downwards
<1>4. c + 1 \in 2 .. PlanArms + 1  BY <1>0 DEF Choice
<1> QED  BY <1>2, <1>3, <1>4

\* A whole number is its quotient and its residue.
LEMMA Quotient ==
  ASSUME NEW a \in Int, NEW i \in Nat \ {0}
  PROVE  a = i * (a \div i) + (a % i) /\ a \div i \in Int /\ a % i \in 0 .. i - 1
<1>1. a % i \in 0 .. i - 1  OBVIOUS
<1>2. a \div i \in Int  OBVIOUS
<1>3. a = i * (a \div i) + (a % i)  OBVIOUS
<1> QED  BY <1>1, <1>2, <1>3

\* A multiple that is less than the next one is at most this one.
LEMMA Multiple ==
  ASSUME NEW i \in Nat \ {0}, NEW k \in Int, NEW l \in Int, i * k < i * l + i
  PROVE  k <= l
<1>1. SUFFICES ASSUME k >= l + 1 PROVE FALSE
  OBVIOUS
<1>2. PICK z \in Nat : k = l + 1 + z
  <2>1. k - l - 1 \in Nat /\ k = l + 1 + (k - l - 1)  BY <1>1
  <2> QED BY <2>1
<1>3. i * k = i * l + i + i * z BY <1>2
<1>4. i * z \in Nat  OBVIOUS
<1>5. i * l \in Int /\ i * k \in Int OBVIOUS
<1> QED  BY <1>3, <1>4, <1>5

\* A number has one quotient and one residue.
LEMMA OneQuotient ==
  ASSUME NEW i \in Nat \ {0}, NEW k \in Int, NEW l \in Int, NEW r \in 0 .. i - 1, NEW s \in 0 .. i - 1,
         i * k + r = i * l + s
  PROVE  k = l /\ r = s
<1>1. i * k \in Int /\ i * l \in Int  OBVIOUS
<1>2. i * k < i * l + i /\ i * l < i * k + i  BY <1>1
<1>3. k <= l /\ l <= k  BY <1>2, Multiple
<1> QED  BY <1>1, <1>3

\* What is added to a multiple is its residue.
LEMMA Residue ==
  ASSUME NEW i \in Nat \ {0}, NEW k \in Int, NEW r \in 0 .. i - 1
  PROVE  (i * k + r) % i = r
<1> DEFINE a == i * k + r
<1>1. a \in Int OBVIOUS
<1>2. a = i * (a \div i) + (a % i) /\ a \div i \in Int /\ a % i \in 0 .. i - 1 BY <1>1, Quotient
<1> DEFINE q == a \div i
           s == a % i
<1>3. i * k + r = i * q + s /\ q \in Int /\ s \in 0 .. i - 1 BY <1>2
<1> HIDE DEF q, s
<1>4. r = s  BY <1>3, OneQuotient
<1> QED  BY <1>4 DEF s

\* The first number at or after n that leaves the residue of r, counted in blocks of
\* i from t on: where n's block begins, and how far into it.
Moved(n, t, i, r) == n - ((n - t) % i) + ((r - t) % i)

\* It is in n's block.
LEMMA MovedInRange ==
  ASSUME NEW D \in Nat, NEW i \in Nat \ {0}, i <= D, NEW r \in Nat, NEW t \in Nat, t = (D - i) % i,
         NEW n \in t .. D - 1
  PROVE  Moved(n, t, i, r) \in t .. D - 1 /\ Moved(n, t, i, r) % i = r % i
<1>1. t \in 0 .. i - 1 /\ t \in Int  OBVIOUS
<1> DEFINE u == (n - t) % i
           v == (r - t) % i
<1>2. PICK a \in Int : n - t = i * a + u /\ u \in 0 .. i - 1
  <2>1. n - t \in Int  BY <1>1
  <2> QED  BY <2>1, Quotient
<1>3. PICK b \in Int : r - t = i * b + v /\ v \in 0 .. i - 1
  <2>1. r - t \in Int  BY <1>1
  <2> QED  BY <2>1, Quotient
<1>4. PICK c \in Int : D - i = i * c + t
  <2>1. D - i \in Int  OBVIOUS
  <2> QED  BY <2>1, Quotient
<1> DEFINE m == n - u + v
<1> HIDE DEF u, v
<1>5. n \in Int /\ D \in Int /\ i \in Int /\ 0 < i /\ t <= n /\ n < D  BY <1>1
<1>6. m = t + i * a + v  BY <1>1, <1>2, <1>3, <1>5
<1>7. 0 <= a
  <2>1. i * (-1) < i * a  BY <1>2, <1>5, <1>1
  <2>2. i * (-1) < i * a + i  BY <2>1, <1>5
  <2>3. ASSUME a < 0 PROVE FALSE
    <3>1. PICK z \in Nat : a = -1 - z
      <4>1. -1 - a \in Nat /\ a = -1 - (-1 - a)  BY <2>3
      <4> QED  BY <4>1
    <3>2. i * a = i * (-1) - i * z  BY <3>1
    <3>3. i * z \in Nat  OBVIOUS
    <3> QED  BY <2>1, <3>2, <3>3
  <2> QED  BY <2>3
<1>8. a <= c
  <2>1. i * a < i * c + i  BY <1>1, <1>2, <1>4, <1>5
  <2> QED  BY <2>1, Multiple
<1>9. i * a \in Nat /\ i * a <= i * c
  <2>1. PICK z \in Nat : c = a + z
    <3>1. c - a \in Nat /\ c = a + (c - a)  BY <1>8
    <3> QED  BY <3>1
  <2>2. i * c = i * a + i * z /\ i * z \in Nat  BY <2>1
  <2>3. i * a \in Nat  BY <1>7
  <2> QED  BY <2>2, <2>3
<1>10. m \in t .. D - 1
  <2>1. t <= m  BY <1>1, <1>3, <1>6, <1>9
  <2>2. m < D
    <3>1. D = i * c + t + i /\ i * c \in Int  BY <1>1, <1>4, <1>5
    <3> QED  BY <1>1, <1>3, <1>6, <1>9, <3>1
  <2>3. m \in Int  BY <1>1, <1>3, <1>6, <1>9
  <2> QED  BY <1>1, <1>5, <2>1, <2>2, <2>3
<1>11. m % i = r % i
  <2>1. PICK e \in Int : t + v = i * e + ((t + v) % i)
    <3>1. t + v \in Int  BY <1>1, <1>3
    <3> QED  BY <3>1, Quotient
  <2> DEFINE w == (t + v) % i
  <2>2. w \in 0 .. i - 1  BY <1>1, <1>3
  <2>3. t + v = i * e + w  BY <2>1
  <2> HIDE DEF w
  <2>4. m = i * (a + e) + w
    <3>1. i * (a + e) = i * a + i * e  OBVIOUS
    <3> QED  BY <1>1, <1>3, <1>6, <2>2, <2>3, <3>1
  <2>5. r = i * (b + e) + w
    <3>1. i * (b + e) = i * b + i * e  OBVIOUS
    <3>2. i * b \in Int /\ i * e \in Int  OBVIOUS
    <3> QED  BY <1>1, <1>3, <2>2, <2>3, <3>1, <3>2
  <2>6. a + e \in Int /\ b + e \in Int  OBVIOUS
  <2>7. (i * (a + e) + w) % i = w  BY <2>2, <2>6, Residue
  <2>8. (i * (b + e) + w) % i = w  BY <2>2, <2>6, Residue
  <2> QED  BY <2>4, <2>5, <2>7, <2>8
<1> QED  BY <1>10, <1>11 DEF Moved, u, v

\* Two of the same residue are not moved to the same.
LEMMA MovedApart ==
  ASSUME NEW i \in Nat \ {0}, NEW r \in Nat, NEW t \in Nat, NEW n \in Nat, NEW k \in Nat,
         n % i = k % i, Moved(n, t, i, r) = Moved(k, t, i, r)
  PROVE  n = k
<1>1. PICK a \in Int : n = i * a + (n % i)
  <2>1. n \in Int  OBVIOUS
  <2> QED  BY <2>1, Quotient
<1>2. PICK b \in Int : k = i * b + (k % i)
  <2>1. k \in Int  OBVIOUS
  <2> QED  BY <2>1, Quotient
<1> DEFINE s == n % i
<1>3. s \in 0 .. i - 1 /\ n = i * a + s /\ k = i * b + s  BY <1>1, <1>2
<1> HIDE DEF s
<1>4. s - t \in Int  BY <1>3
<1>5. PICK c \in Int : s - t = i * c + ((s - t) % i)  BY <1>4, Quotient
<1> DEFINE u == (s - t) % i
<1>6. u \in 0 .. i - 1 /\ s - t = i * c + u  BY <1>4, <1>5
<1> HIDE DEF u
<1>7. n - t = i * (a + c) + u
  <2>1. i * (a + c) = i * a + i * c /\ i * a \in Int /\ i * c \in Int  OBVIOUS
  <2> QED  BY <1>3, <1>6, <2>1
<1>8. k - t = i * (b + c) + u
  <2>1. i * (b + c) = i * b + i * c /\ i * b \in Int /\ i * c \in Int  OBVIOUS
  <2> QED  BY <1>3, <1>6, <2>1
<1>9. a + c \in Int /\ b + c \in Int  OBVIOUS
<1>10. (i * (a + c) + u) % i = u  BY <1>6, <1>9, Residue
<1>11. (i * (b + c) + u) % i = u  BY <1>6, <1>9, Residue
<1>12. (n - t) % i = (k - t) % i  BY <1>7, <1>8, <1>10, <1>11
<1> DEFINE x == (n - t) % i
           y == (r - t) % i
<1>13. x \in Int /\ y \in Int  OBVIOUS
<1>14. n - x + y = k - x + y  BY <1>12 DEF Moved
<1> HIDE DEF x, y
<1> QED  BY <1>13, <1>14

\* An order has every arm.
LEMMA OrderOnto ==
  ASSUME NEW p \in Orders, NEW y \in Seat
  PROVE  \E x \in Seat : p[x] = y
<1>0. PlanArms \in Int  BY ConfirmationAssumption
<1>1. IsFiniteSet(Seat)  BY <1>0, FS_Interval DEF Seat
<1>2. p \in Injection(Seat, Seat)  BY Zenon DEF Orders, Injection, IsInjective
<1>3. p \in Surjection(Seat, Seat)  BY <1>1, <1>2, FS_Injection, Zenon
<1> QED  BY <1>3, Zenon DEF Surjection

\* Every order can be drawn: the last arm that is not in place yet is put there by
\* the residue that says where it is now.
LEMMA EveryOrder ==
  ASSUME NEW p \in Orders
  PROVE  \E d \in Draw : Shuffle(d) = p
<1>0. PlanArms \in Nat \ {0}  BY ConfirmationAssumption
<1> DEFINE Settled(d, k) == \A x \in k .. PlanArms : Run(d)[k][x] = p[x]
           P == {k \in 2 .. PlanArms + 1 : \E d \in Draw : Settled(d, k)}
<1>1. PlanArms + 1 \in P
  <2>1. [i \in Choice |-> 0] \in Draw  BY DEF Draw
  <2>2. ~ \E x \in PlanArms + 1 .. PlanArms : TRUE  BY <1>0
  <2>3. PlanArms + 1 \in 2 .. PlanArms + 1  BY <1>0
  <2> QED  BY <2>1, <2>2, <2>3
<1>2. ASSUME NEW k \in 2 .. (PlanArms + 1) - 1, k + 1 \in P PROVE k \in P
  <2>1. PICK d \in Draw : Settled(d, k + 1)  BY <1>2
  <2>2. k \in Choice /\ k \in Seat /\ k + 1 \in 2 .. PlanArms + 1 /\ k \in 2 .. PlanArms + 1
    BY <1>0 DEF Choice, Seat
  <2> DEFINE f == Run(d)[k + 1]
  <2>3. f \in Orders  BY <2>2, RunOrders
  <2>4. \A x \in k + 1 .. PlanArms : f[x] = p[x]  BY <2>1
  <2> HIDE DEF f
  <2>5. p \in [Seat -> Seat] /\ \A x, y \in Seat : p[x] = p[y] => x = y  BY DEF Orders
  <2>6. PICK j \in Seat : f[j] = p[k]  BY <2>2, <2>3, <2>5, OrderOnto
  <2>7. j <= k
    <3> SUFFICES ASSUME ~(j <= k) PROVE FALSE
      OBVIOUS
    <3>1. j \in k + 1 .. PlanArms /\ j # k  BY <1>0, <2>2 DEF Seat
    <3>2. p[j] = p[k]  BY <2>4, <2>6, <3>1
    <3> QED  BY <2>2, <2>5, <3>1, <3>2
  <2> DEFINE e == [d EXCEPT ![k] = j - 1]
  <2>8. j - 1 \in Nat /\ j - 1 < k /\ (j - 1) % k = j - 1
    <3>1. j \in Nat \ {0} /\ k \in Nat \ {0}  BY <2>2 DEF Seat
    <3>2. j - 1 \in 0 .. k - 1  BY <2>7, <3>1
    <3>3. k * 0 + (j - 1) = j - 1 /\ 0 \in Int  BY <3>1
    <3>4. (k * 0 + (j - 1)) % k = j - 1  BY <3>1, <3>2, Residue
    <3> QED  BY <3>2, <3>3, <3>4
  <2>9. e \in Draw /\ e[k] = j - 1 /\ \A i \in Choice \ {k} : e[i] = d[i]
    BY <2>2, <2>8 DEF Draw
  <2> HIDE DEF e
  <2>10. Run(e)[k + 1] = f
    <3>1. \A i \in k + 1 .. PlanArms : i \in Choice \ {k}  BY <2>2 DEF Choice
    <3>2. \A i \in k + 1 .. PlanArms : e[i] % i = d[i] % i  BY <2>9, <3>1
    <3>3. k + 1 \in k + 1 .. PlanArms + 1  BY <1>0, <2>2
    <3>4. Run(e)[k + 1] = Run(d)[k + 1]  BY <2>2, <3>2, <3>3, SameResidues
    <3> QED  BY <3>4 DEF f
  <2>11. Run(e)[k] = Swap(f, k, j)
    <3>1. Run(e)[k] = Swap(Run(e)[k + 1], k, (e[k] % k) + 1)  BY <2>2, RunSteps
    <3>2. (e[k] % k) + 1 = j  BY <2>8, <2>9 DEF Seat
    <3> QED  BY <2>10, <3>1, <3>2
  <2>12. \A x \in Seat : Swap(f, k, j)[x] = IF x = j THEN f[k] ELSE IF x = k THEN f[j] ELSE f[x]
    BY <2>2, <2>3, SwapOrder
  <2>13. ASSUME NEW x \in k .. PlanArms PROVE Run(e)[k][x] = p[x]
    <3>1. x \in Seat  BY <2>2 DEF Seat
    <3>2. CASE x = k  BY <2>6, <2>11, <2>12, <3>1, <3>2
    <3>3. CASE x # k
      <4>1. x \in k + 1 .. PlanArms /\ x # j  BY <2>2, <2>7, <3>3 DEF Seat
      <4> QED  BY <2>4, <2>11, <2>12, <3>1, <3>3, <4>1
    <3> QED  BY <3>2, <3>3
  <2> QED  BY <2>2, <2>9, <2>13
<1>3. PICK d \in Draw : Settled(d, 2)
  <2>1. 2 \in 2 .. PlanArms + 1 /\ 2 \in Int /\ PlanArms + 1 \in Int  BY <1>0
  <2>2. 2 \in P
    <3> HIDE DEF P
    <3> QED  BY <1>1, <1>2, <2>1, Downwards
  <2> QED  BY <2>2
<1> DEFINE q == Shuffle(d)
<1>4. q \in Orders
  <2>1. 2 \in 2 .. PlanArms + 1  BY <1>0
  <2> QED  BY <2>1, RunOrders, RunExists
<1>5. \A x \in Choice : q[x] = p[x]  BY <1>3, RunExists DEF Choice
<1> HIDE DEF q
<1>6. q[1] = p[1]
  <2>1. 1 \in Seat /\ \A x \in Seat : x = 1 \/ x \in Choice  BY <1>0 DEF Seat, Choice
  <2>2. /\ p \in [Seat -> Seat] /\ q \in [Seat -> Seat]
        /\ \A x, y \in Seat : q[x] = q[y] => x = y
        /\ \A x, y \in Seat : p[x] = p[y] => x = y
    BY <1>4 DEF Orders
  <2>3. PICK x \in Seat : p[x] = q[1]  BY <2>1, <2>2, OrderOnto
  <2>4. CASE x = 1  BY <2>3, <2>4
  <2>5. CASE x \in Choice
    <3>1. q[x] = q[1]  BY <1>5, <2>3, <2>5
    <3>2. x = 1  BY <2>1, <2>2, <3>1
    <3> QED  BY <2>3, <3>2
  <2> QED  BY <2>1, <2>4, <2>5
<1>7. q = p
  <2>1. \A x \in Seat : x = 1 \/ x \in Choice  BY <1>0 DEF Seat, Choice
  <2>2. \A x \in Seat : q[x] = p[x]  BY <1>5, <1>6, <2>1
  <2>3. p \in [Seat -> Seat] /\ q \in [Seat -> Seat]  BY <1>4 DEF Orders
  <2> QED  BY <2>2, <2>3
<1> QED  BY <1>7 DEF q

\* There are finitely many functions from a finite set to another.
LEMMA FiniteFunctions ==
  ASSUME NEW S, NEW T, IsFiniteSet(S), IsFiniteSet(T)
  PROVE  IsFiniteSet([S -> T])
<1> DEFINE F == [S -> T]
           G(f) == {<<x, f[x]>> : x \in S}
           g == [f \in F |-> G(f)]
           U == SUBSET (S \X T)
<1>1. IsFiniteSet(U)  BY FS_Product, FS_SUBSET
<1>2. \A f \in F : G(f) \in U  OBVIOUS
<1>3. ASSUME NEW f \in F, NEW h \in F, G(f) = G(h) PROVE f = h
  <2>1. ASSUME NEW x \in S PROVE f[x] = h[x]
    <3>1. <<x, f[x]>> \in G(h)  BY <1>3
    <3>2. PICK y \in S : <<x, f[x]>> = <<y, h[y]>>  BY <3>1
    <3> QED  BY <3>2
  <2> QED  BY <2>1
<1> HIDE DEF F, G, U
<1>4. g \in [F -> U] /\ \A f \in F : g[f] = G(f)  BY <1>2
<1> HIDE DEF g
<1>5. \A f, h \in F : g[f] = g[h] => f = h  BY <1>3, <1>4
<1>6. g \in Injection(F, U)  BY <1>4, <1>5, Zenon DEF Injection, IsInjective
<1>7. IsFiniteSet(F)  BY <1>1, <1>6, FS_Injection, Zenon
<1> QED  BY <1>7 DEF F

\* The draws that lead to an order.
Ways(p) == {d \in AllDraws : Shuffle(d) = p}

\* The draws are finitely many, and each makes an order.
LEMMA DrawsAreFinite ==
  /\ IsFiniteSet(AllDraws) /\ AllDraws \subseteq Draw
  /\ \A d \in AllDraws : Shuffle(d) \in Orders
<1>1. PlanArms \in Int /\ Draws \in Int /\ Draws - 1 \in Int /\ PlanArms \in Nat \ {0}
  BY ConfirmationAssumption
<1>2. IsFiniteSet(2 .. PlanArms) /\ IsFiniteSet(0 .. Draws - 1)  BY <1>1, FS_Interval
<1>3. IsFiniteSet([2 .. PlanArms -> 0 .. Draws - 1])  BY <1>2, FiniteFunctions
<1>4. AllDraws \in SUBSET [2 .. PlanArms -> 0 .. Draws - 1]  BY Zenon DEF AllDraws
<1>5. IsFiniteSet(AllDraws)  BY <1>3, <1>4, FS_Subset, Zenon
<1>6. AllDraws \subseteq Draw
  <2>1. 0 .. Draws - 1 \subseteq Nat  BY <1>1
  <2> QED  BY <1>4, <2>1 DEF Draw, Choice
<1>7. ASSUME NEW d \in AllDraws PROVE Shuffle(d) \in Orders
  <2>1. d \in Draw  BY <1>6
  <2>2. 2 \in 2 .. PlanArms + 1  BY <1>1
  <2> QED  BY <2>1, <2>2, RunOrders, RunExists
<1> QED  BY <1>5, <1>6, <1>7

\* No order is drawn in more ways than another: change the residues.
LEMMA NoMoreWays ==
  ASSUME NEW p \in Orders, NEW q \in Orders
  PROVE  Cardinality(Ways(p)) <= Cardinality(Ways(q))
<1>0. /\ PlanArms \in Nat \ {0} /\ Draws \in Nat /\ PlanArms <= Draws
      /\ \A i \in Choice : i \in Nat \ {0} /\ i <= Draws
  BY ConfirmationAssumption DEF Choice
<1>1. PICK e \in Draw : Shuffle(e) = q  BY EveryOrder
<1> DEFINE T(i) == (Draws - i) % i
           M(i, n) == Moved(n, T(i), i, e[i])
           H(d) == [i \in Choice |-> M(i, d[i])]
           h == [d \in Ways(p) |-> H(d)]
<1>2. \A i \in Choice : Accepted(i) = T(i) .. Draws - 1 /\ T(i) \in Nat
  <2> SUFFICES ASSUME NEW i \in Choice PROVE Accepted(i) = T(i) .. Draws - 1 /\ T(i) \in Nat
    OBVIOUS
  <2>1. T(i) \in Nat  BY <1>0
  <2> HIDE DEF T
  <2>2. Accepted(i) = {n \in 0 .. Draws - 1 : n >= T(i)}  BY DEF Accepted, T
  <2> QED  BY <1>0, <2>1, <2>2
<1>3. \A d \in Ways(p) : d \in Draw /\ Shuffle(d) = p /\ \A i \in Choice : d[i] \in T(i) .. Draws - 1
  <2> HIDE DEF T
  <2>1. \A d \in AllDraws : \A i \in Choice : d[i] \in Accepted(i)
    BY DEF AllDraws, Choice
  <2> QED  BY <1>2, <2>1, DrawsAreFinite DEF Ways
<1>4. ASSUME NEW i \in Choice, NEW n \in T(i) .. Draws - 1
      PROVE  M(i, n) \in T(i) .. Draws - 1 /\ M(i, n) % i = e[i] % i
  <2> DEFINE t == T(i)
             r == e[i]
  <2>1. r \in Nat /\ t \in Nat  BY <1>2 DEF Draw
  <2>2. t = (Draws - i) % i /\ n \in t .. Draws - 1  BY <1>4
  <2>3. i \in Nat \ {0} /\ i <= Draws /\ Draws \in Nat  BY <1>0
  <2> HIDE DEF t, r
  <2>4. Moved(n, t, i, r) \in t .. Draws - 1 /\ Moved(n, t, i, r) % i = r % i
    BY ONLY <2>1, <2>2, <2>3, MovedInRange
  <2> QED  BY <2>4 DEF t, r
<1>5. ASSUME NEW d \in Ways(p) PROVE H(d) \in Ways(q)
  <2>1. \A i \in Choice : H(d)[i] \in T(i) .. Draws - 1 /\ H(d)[i] % i = e[i] % i
    <3> SUFFICES ASSUME NEW i \in Choice
                 PROVE  H(d)[i] \in T(i) .. Draws - 1 /\ H(d)[i] % i = e[i] % i
      OBVIOUS
    <3>1. H(d)[i] = M(i, d[i])  OBVIOUS
    <3> HIDE DEF H, M, T
    <3> QED  BY <1>3, <1>4, <3>1
  <2>2. DOMAIN H(d) = Choice /\ H(d) = [i \in Choice |-> H(d)[i]]  OBVIOUS
  <2> HIDE DEF H, M, T
  <2>3. \A i \in Choice : H(d)[i] \in Accepted(i) /\ H(d)[i] \in 0 .. Draws - 1
    BY <1>2, <2>1 DEF Accepted
  <2>4. H(d) \in AllDraws  BY <2>2, <2>3 DEF AllDraws, Choice
  <2>5. Shuffle(H(d)) = Shuffle(e)
    <3>1. \A i \in 2 .. PlanArms : H(d)[i] % i = e[i] % i  BY <2>1 DEF Choice
    <3>2. 2 \in 2 .. PlanArms + 1  BY <1>0
    <3>3. Run(H(d))[2] = Run(e)[2]  BY <3>1, <3>2, SameResidues
    <3> QED  BY <3>3, RunExists
  <2> QED  BY <1>1, <2>4, <2>5 DEF Ways
<1>6. ASSUME NEW d \in Ways(p), NEW c \in Ways(p), H(d) = H(c) PROVE d = c
  <2>1. d \in Draw /\ c \in Draw /\ Shuffle(d) = Shuffle(c)  BY <1>3
  <2>2. ASSUME NEW i \in Choice PROVE d[i] = c[i]
    <3>1. M(i, d[i]) = M(i, c[i])
      <4>1. H(d)[i] = M(i, d[i]) /\ H(c)[i] = M(i, c[i])  OBVIOUS
      <4> HIDE DEF H, M
      <4> QED  BY <1>6, <4>1
    <3>2. d[i] % i = c[i] % i  BY <2>1, OneResidue
    <3>3. d[i] \in Nat /\ c[i] \in Nat /\ e[i] \in Nat  BY <2>1 DEF Draw
    <3> DEFINE t == T(i)
    <3>4. t \in Nat /\ i \in Nat \ {0}  BY <1>0, <1>2
    <3>5. Moved(d[i], t, i, e[i]) = Moved(c[i], t, i, e[i])  BY <3>1
    <3> HIDE DEF t
    <3> QED  BY ONLY <3>2, <3>3, <3>4, <3>5, MovedApart
  <2> QED  BY <2>1, <2>2 DEF Draw
<1> HIDE DEF H
<1>7. h \in [Ways(p) -> Ways(q)] /\ \A d \in Ways(p) : h[d] = H(d)  BY <1>5
<1> HIDE DEF h
<1>8. h \in Injection(Ways(p), Ways(q))
  <2>1. \A c, d \in Ways(p) : h[c] = h[d] => c = d  BY <1>6, <1>7, Zenon
  <2> QED  BY ONLY <1>7, <2>1, Zenon DEF Injection, IsInjective
<1>9. IsFiniteSet(Ways(q))
  <2>1. Ways(q) \in SUBSET AllDraws  BY DEF Ways
  <2> QED  BY <2>1, DrawsAreFinite, FS_Subset, Zenon
<1> QED  BY <1>8, <1>9, FS_Injection, Zenon

\* So all are drawn in as many.
LEMMA SameWays ==
  ASSUME NEW p \in Orders, NEW q \in Orders
  PROVE  Cardinality(Ways(p)) = Cardinality(Ways(q))
<1>1. IsFiniteSet(Ways(p)) /\ IsFiniteSet(Ways(q))
  <2>1. Ways(p) \in SUBSET AllDraws /\ Ways(q) \in SUBSET AllDraws  BY DEF Ways
  <2> QED  BY <2>1, DrawsAreFinite, FS_Subset, Zenon
<1>2. Cardinality(Ways(p)) \in Nat /\ Cardinality(Ways(q)) \in Nat
  BY <1>1, FS_CardinalityType, Zenon
<1> QED  BY <1>2, NoMoreWays

\* Where an order is drawn, it is one.
DrawnInv == drawn = <<>> \/ drawn \in Orders

\* A block begins with an order that was shuffled, and every other step keeps it or
\* forgets it.
LEMMA DrawnStep == DrawnInv /\ [ConfirmNext]_confirmVars => DrawnInv'
<1> SUFFICES ASSUME DrawnInv, [ConfirmNext]_confirmVars PROVE DrawnInv'
  OBVIOUS
<1>1. drawn' = drawn \/ drawn' = <<>> \/ \E d \in AllDraws : drawn' = Shuffle(d)
  <2>1. CASE DrawSchedule \/ Settle
    BY <2>1, Zenon DEF DrawSchedule, Settle
  <2>2. CASE \/ Launch \/ Poll \/ Kill \/ Alive \/ Reap \/ SeeExit \/ CleanUp \/ ChildExits
             \/ Machine
    BY <2>2, Zenon
       DEF Launch, Poll, Kill, Alive, Reap, SeeExit, CleanUp, ChildExits, Machine, Supervised, outcome
  <2>3. CASE ObserveBefore \/ ObserveAfter \/ Join \/ Record \/ Watch
    BY <2>3, Zenon
       DEF ObserveBefore, ObserveAfter, Join, Record, Watch, Refresh, Stamp, WatchEnds, outcome
  <2>4. CASE \E uniform \in BOOLEAN,
               interval \in [Candidate \cup {Control} -> Interval \cup {Unclear}] :
                 Summarize(interval, uniform)
    BY <2>4, Zenon DEF Summarize
  <2>5. CASE UNCHANGED confirmVars  BY <2>5, Zenon DEF confirmVars, outcome
  <2> QED  BY <2>1, <2>2, <2>3, <2>4, <2>5, Zenon DEF ConfirmNext, Invocation
<1> QED  BY <1>1, DrawsAreFinite DEF DrawnInv

\* Whatever the generator draws from, and however many arms there are: the order of
\* a block is one of all, and none of them is drawn in more ways than it is.
THEOREM OrderTheorem == ConfirmSpec => []OrderIsUnbiased
<1>1. ConfirmInit => DrawnInv  BY DEF ConfirmInit, DrawnInv
<1>2. DrawnInv => OrderIsUnbiased
  <2> SUFFICES ASSUME drawn \in Orders, drawn # <<>> PROVE OrderIsUnbiased
    BY DEF DrawnInv, OrderIsUnbiased
  <2>1. \A p \in Orders : Cardinality(Ways(p)) = Cardinality(Ways(drawn))
    BY SameWays
  <2> QED  BY <2>1, Zenon DEF OrderIsUnbiased, Orders, Ways, Seat
<1> QED  BY <1>1, <1>2, DrawnStep, PTL DEF ConfirmSpec

\* What is accepted, or fails, has earned it: the order, the control, every
\* candidate's interval and the exit code agree.
THEOREM AcceptedTheorem == ConfirmSpec => []AcceptedIsEarned
<1>1. OrderIsUnbiased /\ VerdictIsEarned => AcceptedIsEarned
  <2> SUFFICES ASSUME OrderIsUnbiased, VerdictIsEarned, purpose \in Accepts, exitCode \in {0, 1}
               PROVE  /\ status = "completed" /\ blocks.uniform
                      /\ \A x \in Candidate \cup {Control} : blocks.interval[x] # Unclear
                      /\ Equivalent(blocks.interval[Control])
                      /\ LET within(x) == blocks.interval[x][2] <= Margin
                             tight(x)  == within(x) /\ blocks.interval[x][1] >= -Margin
                             faster(x) == blocks.interval[x][2] < -Margin
                         IN IF exitCode = 1 THEN \E x \in Candidate : blocks.interval[x][1] > Margin
                            ELSE \A x \in Candidate :
                                   CASE purpose = "improvement"     -> faster(x)
                                     [] purpose = "equivalence"     -> tight(x)
                                     [] purpose = "non_inferiority" -> within(x)
    BY Zenon DEF AcceptedIsEarned
  <2>1. purpose \in {"improvement", "equivalence", "non_inferiority"}  BY DEF Accepts
  <2> QED  BY <2>1, Zenon DEF VerdictIsEarned
<1> QED  BY <1>1, OrderTheorem, VerdictTheorem, PTL
-----------------------------------------------------------------------------
\* Two arms that differ in their names at most find the same program, and have the
\* same variables and texts.
LEMMA SameArm ==
  ASSUME NEW x, NEW y, x.args = y.args, x.env = y.env, x.bare = y.bare, x.program = y.program
  PROVE  Found(x) = Found(y) /\ Environ(x) = Environ(y) /\ Texts(x) = Texts(y)
<1>1. Merged(x) = Merged(y)  BY Zenon DEF Merged
<1>2. Environ(x) = Environ(y)  BY <1>1, Zenon DEF Environ
<1>3. Texts(x) = Texts(y)  BY Zenon DEF Texts
<1> QED  BY <1>2, <1>3, Zenon DEF Found

\* What an arm's variables are made of has been looked at.
LEMMA VariableIsText ==
  ASSUME NEW x, NEW k \in DOMAIN Environ(x), k \in DOMAIN plan.env \cup DOMAIN x.env
  PROVE  Environ(x)[k] \in Texts(x)
<1>1. k \in DOMAIN Merged(x) /\ Merged(x)[k] # NoText /\ Environ(x)[k] = Merged(x)[k]
  BY Zenon DEF Environ
<1>2. CASE k \in DOMAIN x.env
  <2>1. Merged(x)[k] = x.env[k]  BY <1>1, <1>2 DEF Merged
  <2> QED  BY <1>1, <1>2, <2>1, Zenon DEF Texts
<1>3. CASE k \notin DOMAIN x.env
  <2>1. k \in DOMAIN plan.env /\ Merged(x)[k] = plan.env[k]  BY <1>1, <1>3 DEF Merged
  <2> QED  BY <1>1, <2>1, Zenon DEF Texts
<1> QED  BY <1>2, <1>3

\* A text that expands differs, between two launches of a case, in the directory.
LEMMA SameText ==
  ASSUME NEW t, NEW c, NEW d, NEW e, Expandable(t, FieldsOf(c, d))
  PROVE  \/ Expand(t, FieldsOf(c, d)) = Expand(t, FieldsOf(c, e))
         \/ /\ Expand(t, FieldsOf(c, d))[1] = "dir"
            /\ Expand(t, FieldsOf(c, e))[1] = "dir"
<1> DEFINE K == c.fields \cup DOMAIN c.inputs \cup {"output"}
           key == t[2]
<1>1. CASE t[1] # "$"  BY <1>1 DEF Expand
<1>2. CASE t[1] = "$" /\ key = "output"
  <2>1. \A x : FieldsOf(c, x)["output"] = <<"dir", x>>  BY DEF FieldsOf
  <2>2. \A x : Expand(t, FieldsOf(c, x)) = <<"dir", x>>  BY <1>2, <2>1 DEF Expand
  <2> QED  BY <2>2
<1>3. CASE t[1] = "$" /\ key # "output"
  <2>1. key \in K  BY <1>3 DEF Expandable, FieldsOf
  <2>2. \A x : FieldsOf(c, x)[key] =
                 IF key \in c.fields THEN <<"text", <<c.id, key>>>> ELSE <<"text", c.inputs[key]>>
    BY <1>3, <2>1 DEF FieldsOf
  <2> QED  BY <1>3, <2>2 DEF Expand
<1> QED  BY <1>1, <1>2, <1>3

\* What division leaves of natural numbers.
LEMMA Division ==
  ASSUME NEW n \in Nat, NEW p \in Nat \ {0}
  PROVE  n = p * (n \div p) + (n % p) /\ n \div p \in Nat /\ n % p \in 0 .. p - 1
<1> DEFINE q == n \div p
           r == n % p
<1>1. n = p * q + r /\ q \in Int /\ r \in 0 .. p - 1  BY Quotient
<1> HIDE DEF q, r
<1>2. p * 0 < p * q + p  BY <1>1
<1>3. q >= 0  BY <1>1, <1>2, Multiple
<1> QED  BY <1>1, <1>3 DEF q, r

\* There are no more cells than launches by number.
LEMMA CellsCounted ==
  ASSUME NEW c \in Nat, NEW b \in Nat, NEW p \in Nat
  PROVE  /\ Cardinality((1 .. c) \X (1 .. b) \X (1 .. p)) \in Nat
         /\ Cardinality((1 .. c) \X (1 .. b) \X (1 .. p)) <= c * b * p
<1> DEFINE S == (1 .. c) \X (1 .. b) \X (1 .. p)
           T == ((1 .. c) \X (1 .. b)) \X (1 .. p)
           f == [x \in S |-> <<<<x[1], x[2]>>, x[3]>>]
<1>1. IsFiniteSet(1 .. c) /\ Cardinality(1 .. c) = c
  BY FS_Interval
<1>2. IsFiniteSet(1 .. b) /\ Cardinality(1 .. b) = b
  BY FS_Interval
<1>3. IsFiniteSet(1 .. p) /\ Cardinality(1 .. p) = p
  BY FS_Interval
<1>4. IsFiniteSet((1 .. c) \X (1 .. b)) /\ Cardinality((1 .. c) \X (1 .. b)) = c * b
  <2> DEFINE X == 1 .. c
             Y == 1 .. b
  <2> HIDE DEF X, Y
  <2>1. IsFiniteSet(X) /\ IsFiniteSet(Y) /\ Cardinality(X) = c /\ Cardinality(Y) = b
    BY <1>1, <1>2 DEF X, Y
  <2>2. IsFiniteSet(X \X Y) /\ Cardinality(X \X Y) = Cardinality(X) * Cardinality(Y)
    BY <2>1, FS_Product, Zenon
  <2> QED  BY <2>1, <2>2, Zenon DEF X, Y
<1>5. IsFiniteSet(T) /\ Cardinality(T) = c * b * p
  <2> DEFINE X == (1 .. c) \X (1 .. b)
             Y == 1 .. p
  <2> HIDE DEF X, Y
  <2>1. IsFiniteSet(X) /\ IsFiniteSet(Y) /\ Cardinality(X) = c * b /\ Cardinality(Y) = p
    BY <1>3, <1>4 DEF X, Y
  <2>2. IsFiniteSet(X \X Y) /\ Cardinality(X \X Y) = Cardinality(X) * Cardinality(Y)
    BY <2>1, FS_Product, Zenon
  <2> QED  BY <2>1, <2>2, Zenon DEF X, Y
<1>6. f \in Injection(S, T)
  <2>1. \A x \in S : x = <<x[1], x[2], x[3]>> /\ <<<<x[1], x[2]>>, x[3]>> \in T  OBVIOUS
  <2>2. f \in [S -> T] /\ \A x \in S : f[x] = <<<<x[1], x[2]>>, x[3]>>  BY <2>1, Zenon
  <2> HIDE DEF f, S, T
  <2>3. ASSUME NEW x \in S, NEW y \in S, f[x] = f[y] PROVE x = y
    <3>1. <<<<x[1], x[2]>>, x[3]>> = <<<<y[1], y[2]>>, y[3]>>  BY <2>2, <2>3, Zenon
    <3>2. x[1] = y[1] /\ x[2] = y[2] /\ x[3] = y[3]  BY <3>1
    <3> QED  BY <2>1, <3>2, Zenon
  <2> QED  BY <2>2, <2>3, Zenon DEF Injection, IsInjective
<1> HIDE DEF f, S, T
<1>7. IsFiniteSet(S) /\ Cardinality(S) <= Cardinality(T)  BY <1>5, <1>6, FS_Injection, Zenon
<1>8. Cardinality(S) \in Nat  BY <1>7, FS_CardinalityType
<1> QED  BY <1>5, <1>7, <1>8 DEF S

\* Dividing twice is dividing by the product.
LEMMA TwoQuotients ==
  ASSUME NEW n \in Nat, NEW p \in Nat \ {0}, NEW b \in Nat \ {0}
  PROVE  n \div (p * b) = (n \div p) \div b
<1> DEFINE q == n \div p
           r == n % p
           u == q \div b
           v == q % b
           w == n \div (p * b)
           z == n % (p * b)
<1>1. p * b \in Nat \ {0}
  <2>1. p * b \in Nat  OBVIOUS
  <2>2. PICK c \in Nat : b = c + 1
    <3>1. b - 1 \in Nat /\ b = (b - 1) + 1  OBVIOUS
    <3> QED  BY <3>1
  <2>3. p * b = p * c + p  BY <2>2
  <2>4. p * c \in Nat  OBVIOUS
  <2> QED  BY <2>1, <2>3, <2>4
<1>2. n = p * q + r /\ q \in Int /\ r \in 0 .. p - 1  BY Quotient
<1>3. q = b * u + v /\ u \in Int /\ v \in 0 .. b - 1  BY <1>2, Quotient
<1>4. n = (p * b) * w + z /\ w \in Int /\ z \in 0 .. p * b - 1
  <2> DEFINE m == p * b
  <2>1. m \in Nat \ {0} /\ n \in Int  BY <1>1
  <2> HIDE DEF m
  <2>2. n = m * (n \div m) + (n % m) /\ n \div m \in Int /\ n % m \in 0 .. m - 1
    BY ONLY <2>1, Quotient
  <2> QED  BY <2>2 DEF m
<1> HIDE DEF q, r, u, v, w, z
<1>5. n = (p * b) * u + (p * v + r)  
  <2>1. p * q = p * (b * u) + p * v  BY <1>3
  <2>2. p * (b * u) = (p * b) * u  BY <1>3
  <2> QED  BY <1>2, <1>3, <2>1, <2>2
<1>6. p * v + r \in 0 .. p * b - 1
  <2>1. PICK x \in Nat : b = v + 1 + x
    <3>1. b - v - 1 \in Nat /\ b = v + 1 + (b - v - 1)  BY <1>3
    <3> QED  BY <3>1
  <2>2. v \in Nat /\ p * v \in Nat /\ p * x \in Nat  BY <1>3
  <2>3. p * b = p * v + p + p * x  BY <2>1, <2>2
  <2> QED  BY <1>2, <2>2, <2>3
<1> DEFINE m == p * b
           s == p * v + r
<1>7. m \in Nat \ {0} /\ s \in 0 .. m - 1 /\ z \in 0 .. m - 1 /\ m * w + z = m * u + s
  BY <1>1, <1>4, <1>5, <1>6
<1> HIDE DEF m, s
<1>8. w = u  BY <1>3, <1>4, <1>7, OneQuotient
<1> QED  BY <1>8 DEF w, u, q

\* The cell of a launch: its case, block and position.
LEMMA CellIs ==
  ASSUME NEW p \in Nat \ {0}, Len(places) = p, NEW b \in Nat \ {0}, plan.blocks = b, NEW n \in Nat
  PROVE  CellAt(n) = <<((n \div p) \div b) + 1, ((n \div p) % b) + 1, (n % p) + 1>>
<1> DEFINE x == n \div (p * b)
           u == (n \div p) \div b
           v == (n \div p) % b
           w == n % p
<1>1. x = u  BY TwoQuotients
<1>2. CellAt(n) = <<x + 1, v + 1, w + 1>>  BY DEF CellAt
<1> HIDE DEF x, u, v, w
<1>3. CellAt(n) = <<u + 1, v + 1, w + 1>>  BY ONLY <1>1, <1>2
<1> QED  BY <1>3 DEF u, v, w

\* The cells of an experiment, by number, ...
LEMMA CellInCells ==
  ASSUME IsPlan(plan), NEW p \in Nat \ {0}, Len(places) = p, DOMAIN places = 1 .. p,
         plan.blocks > 0, NEW n \in Nat, n < Cardinality(Cells)
  PROVE  CellAt(n) \in Cells
<1> DEFINE C == Len(plan.cases)
           B == plan.blocks
           q == n \div p
           r == n % p
           u == q \div B
           v == q % B
<1>1. C \in Nat /\ DOMAIN plan.cases = 1 .. C /\ B \in Nat \ {0}  BY DEF IsPlan
<1>2. Cells = (1 .. C) \X (1 .. B) \X (1 .. p)  BY <1>1 DEF Cells
<1>3. CellAt(n) = <<u + 1, v + 1, r + 1>>  BY <1>1, CellIs, Zenon
<1> HIDE DEF C, B
<1>4. n < C * B * p
  <2>1. Cardinality(Cells) \in Nat /\ Cardinality(Cells) <= C * B * p
    BY <1>1, <1>2, CellsCounted
  <2>2. C * B * p \in Nat  BY <1>1
  <2> QED  BY <2>1, <2>2
<1>5. n = p * q + r /\ q \in Nat /\ r \in 0 .. p - 1  BY Division, Zenon
<1>6. q = B * u + v /\ u \in Nat /\ v \in 0 .. B - 1  BY <1>1, <1>5, Division, Zenon
<1> HIDE DEF q, r, u, v
<1>7. u < C
  <2>1. SUFFICES ASSUME u >= C PROVE FALSE  BY <1>1, <1>6
  <2>2. PICK x \in Nat : u = C + x
    <3>1. u - C \in Nat /\ u = C + (u - C)  BY <1>1, <1>6, <2>1
    <3> QED  BY <3>1
  <2>3. q = B * C + B * x + v  BY <1>1, <1>6, <2>2
  <2>4. B * x + v \in Nat /\ B * C \in Nat  BY <1>1, <1>6
  <2>5. p * q = p * (B * C) + p * (B * x + v)
    <3> DEFINE y == B * C
               z == B * x + v
    <3>1. y \in Nat /\ z \in Nat  BY <2>4
    <3>2. q = y + z
      <4>1. B * C \in Nat /\ B * x \in Nat /\ v \in Nat  BY <1>1, <1>6
      <4> QED  BY ONLY <2>3, <4>1
    <3> HIDE DEF y, z
    <3>3. p * q = p * y + p * z  BY <3>1, <3>2
    <3> QED  BY <3>3 DEF y, z
  <2>6. p * (B * x + v) \in Nat
    <3> DEFINE z == B * x + v
    <3>1. z \in Nat  BY <2>4
    <3> HIDE DEF z
    <3>2. p * z \in Nat  BY <3>1
    <3> QED  BY <3>2 DEF z
  <2>7. p * (B * C) = C * B * p  BY <1>1
  <2>8. p * (B * C) \in Int /\ p * q \in Int  BY <1>1, <1>5
  <2> QED  BY <1>4, <1>5, <2>5, <2>6, <2>7, <2>8
<1>8. u + 1 \in 1 .. C /\ v + 1 \in 1 .. B /\ r + 1 \in 1 .. p
  BY <1>1, <1>5, <1>6, <1>7
<1> QED  BY <1>2, <1>3, <1>8

\* ... and no two numbers have one.
LEMMA CellsApart ==
  ASSUME NEW p \in Nat \ {0}, Len(places) = p, plan.blocks \in Nat \ {0},
         NEW n \in Nat, NEW m \in Nat, CellAt(n) = CellAt(m)
  PROVE  n = m
<1> DEFINE B == plan.blocks
           q == n \div p
           k == m \div p
<1>1. /\ q \div B = k \div B /\ q % B = k % B /\ n % p = m % p
  <2> DEFINE a == q \div B
             b == q % B
             c == n % p
             d == k \div B
             e == k % B
             f == m % p
  <2>1. q \in Nat /\ k \in Nat /\ c \in 0 .. p - 1 /\ f \in 0 .. p - 1  BY Division, Zenon
  <2>2. a \in Nat /\ b \in 0 .. B - 1 /\ d \in Nat /\ e \in 0 .. B - 1
    BY <2>1, Division, Zenon
  <2>3. CellAt(n) = <<a + 1, b + 1, c + 1>> /\ CellAt(m) = <<d + 1, e + 1, f + 1>>
    BY CellIs, Zenon
  <2> HIDE DEF a, b, c, d, e, f, q, k
  <2>4. <<a + 1, b + 1, c + 1>> = <<d + 1, e + 1, f + 1>>  BY <2>3, Zenon
  <2>5. a = d /\ b = e /\ c = f  BY ONLY <2>1, <2>2, <2>4, B \in Nat \ {0}
  <2> QED  BY <2>5 DEF a, b, c, d, e, f
<1>2. n = p * q + (n % p) /\ m = p * k + (m % p) /\ q \in Nat /\ k \in Nat
  BY Division, Zenon
<1>3. q = B * (q \div B) + (q % B) /\ k = B * (k \div B) + (k % B)
  BY <1>2, Division, Zenon
<1>4. q = k
  <2> HIDE DEF q, k
  <2> QED  BY <1>1, <1>3, Zenon
<1> QED  BY <1>1, <1>2, <1>4, Zenon

\* The arms with their programs found.
Placed ==
  [k \in DOMAIN WithControl(plan.arms) |->
     [WithControl(plan.arms)[k] EXCEPT !.program = Found(WithControl(plan.arms)[k])]]

\* What has been selected is valid, and what was asked for.
PlanIsValid ==
  progress \in {"selected", "resolved", "launching", "ended"} =>
    /\ \A i, j \in DOMAIN plan.arms : plan.arms[i].id = plan.arms[j].id => i = j
    /\ \A i \in DOMAIN plan.arms : plan.arms[i].id # "__aa"
    /\ Len(plan.arms) >= 2 /\ plan.blocks > 0
    /\ \A i, j \in DOMAIN plan.cases : plan.cases[i].id = plan.cases[j].id => i = j
    /\ \A i \in DOMAIN plan.cases : intent.only \in {NoText, plan.cases[i].id}

\* What has been resolved exists.
PlanIsResolved ==
  progress \in {"resolved", "launching", "ended"} =>
    /\ places = Placed
    /\ \A k \in DOMAIN WithControl(plan.arms) : Found(WithControl(plan.arms)[k]) \in Files

\* What has been launched are the first cells, in order.
PlanIsFollowed ==
  /\ progress \in {"launching", "ended"} => Expands
  /\ progress \in {"read", "selected", "resolved", "refused"} => launches = <<>>
  /\ \E n \in Nat :
       /\ launches = [i \in 1 .. n |-> LaunchAt(i - 1)]
       /\ n = 0 \/ n <= Cardinality(Cells)

PlanInv ==
  /\ progress \in {"read", "selected", "resolved", "launching", "ended", "refused"}
  /\ IsPlan(plan) /\ PlanIsValid /\ PlanIsResolved /\ PlanIsFollowed

\* A plan that has been read satisfies the invariant, ...
LEMMA PlanInitInv == PlanInit => PlanInv
<1> SUFFICES ASSUME PlanInit PROVE PlanInv
  OBVIOUS
<1>1. IsPlan(plan)  BY PlanAssumption DEF PlanInit
<1>2. progress = "read" /\ launches = <<>>  BY DEF PlanInit
<1>3. launches = [i \in 1 .. 0 |-> LaunchAt(i - 1)] /\ 0 \in Nat  BY <1>2
<1>4. PlanIsFollowed  BY <1>2, <1>3 DEF PlanIsFollowed
<1> QED  BY <1>1, <1>2, <1>4 DEF PlanInv, PlanIsValid, PlanIsResolved

\* What is asked of a valid plan.
LEMMA ValidPlanSays ==
  ASSUME ValidPairPlan(plan)
  PROVE  /\ \A i, j \in DOMAIN plan.arms : plan.arms[i].id = plan.arms[j].id => i = j
         /\ \A i \in DOMAIN plan.arms : plan.arms[i].id # "__aa"
         /\ Len(plan.arms) >= 2 /\ plan.blocks > 0
         /\ \A i, j \in DOMAIN plan.cases : plan.cases[i].id = plan.cases[j].id => i = j
<1>1. Unique(plan.arms, LAMBDA a : a.id) /\ Unique(plan.cases, LAMBDA c : c.id)
  BY Zenon DEF ValidPairPlan
<1>2. \A i \in DOMAIN plan.arms : plan.arms[i].id \notin {"", "__aa"}
  BY Zenon DEF ValidPairPlan
<1>3. Len(plan.arms) >= 2 /\ plan.blocks > 0  BY Zenon DEF ValidPairPlan
<1>4. \A i, j \in DOMAIN plan.arms : plan.arms[i].id = plan.arms[j].id => i = j
  BY ONLY <1>1, Zenon DEF Unique
<1>5. \A i, j \in DOMAIN plan.cases : plan.cases[i].id = plan.cases[j].id => i = j
  BY ONLY <1>1, Zenon DEF Unique
<1>6. \A i \in DOMAIN plan.arms : plan.arms[i].id # "__aa"  BY ONLY <1>2, Zenon
<1> QED  BY ONLY <1>3, <1>4, <1>5, <1>6, Zenon

\* A plan of which some cases are selected is a plan.
LEMMA SelectedIsPlan ==
  ASSUME IsPlan(plan), Selection # {}, NEW cases \in Selection, ValidPairPlan(plan),
         plan' = [plan EXCEPT !.cases = cases]
  PROVE  /\ IsPlan(plan') /\ plan'.arms = plan.arms /\ plan'.blocks = plan.blocks
         /\ plan'.cases = cases
         /\ \A i, j \in DOMAIN cases : cases[i].id = cases[j].id => i = j
         /\ \A i \in DOMAIN cases : intent.only \in {NoText, cases[i].id}
<1>1. /\ plan'.arms = plan.arms /\ plan'.blocks = plan.blocks /\ plan'.aa = plan.aa
      /\ plan'.cases = cases /\ DOMAIN plan' = DOMAIN plan
  BY DEF IsPlan
<1>2. CASE intent.only = NoText
  <2>1. cases = plan.cases  BY <1>2 DEF Selection
  <2>2. \A i, j \in DOMAIN plan.cases : plan.cases[i].id = plan.cases[j].id => i = j
    BY ValidPlanSays, Zenon
  <2>3. cases \in Seq(ToSet(cases))  BY <2>1 DEF IsPlan
  <2> QED  BY <1>1, <1>2, <2>1, <2>2, <2>3 DEF IsPlan
<1>3. CASE intent.only # NoText
  <2>1. PICK c : c.id = intent.only /\ cases = <<c>>  BY <1>3 DEF Selection
  <2>2. DOMAIN cases = {1} /\ cases[1] = c  BY <2>1
  <2>3. cases \in Seq(ToSet(cases))
    <3>1. c \in ToSet(cases)  BY <2>2 DEF ToSet
    <3> QED  BY <2>1, <3>1
  <2> QED  BY <1>1, <2>1, <2>2, <2>3 DEF IsPlan
<1> QED  BY <1>2, <1>3

\* The arms with their control: it comes last, and is the baseline by another name.
LEMMA ControlIsLast ==
  ASSUME IsPlan(plan)
  PROVE  /\ Len(plan.arms) \in Nat /\ DOMAIN plan.arms = 1 .. Len(plan.arms)
         /\ \A k \in 1 .. Len(plan.arms) : WithControl(plan.arms)[k] = plan.arms[k]
         /\ \/ WithControl(plan.arms) = plan.arms
            \/ /\ DOMAIN WithControl(plan.arms) = 1 .. Len(plan.arms) + 1
               /\ Len(WithControl(plan.arms)) = Len(plan.arms) + 1
               /\ WithControl(plan.arms)[Len(plan.arms) + 1] = [plan.arms[1] EXCEPT !.id = "__aa"]
<1> DEFINE s == plan.arms
           n == Len(s)
           c == [s[1] EXCEPT !.id = "__aa"]
           S == ToSet(s) \cup {c}
<1>1. s \in Seq(S) /\ n \in Nat /\ DOMAIN s = 1 .. n /\ c \in S
  <2>1. s \in Seq(ToSet(s))  BY DEF IsPlan
  <2> QED  BY <2>1
<1>2. WithControl(s) = IF plan.aa THEN Append(s, c) ELSE s  BY DEF WithControl
<1> HIDE DEF s, n, c, S
<1>3. /\ Append(s, c) \in Seq(S) /\ Len(Append(s, c)) = Len(s) + 1
      /\ \A k \in 1 .. Len(s) + 1 : Append(s, c)[k] = IF k <= Len(s) THEN s[k] ELSE c
  BY <1>1, AppendProperties
<1>4. n = Len(s)  BY DEF n
<1>5. WithControl(s) = s \/ WithControl(s) = Append(s, c)  BY <1>2
<1>6. CASE WithControl(s) = s  BY <1>1, <1>6, <1>4 DEF s
<1>7. CASE WithControl(s) = Append(s, c)
  <2>1. DOMAIN Append(s, c) = 1 .. n + 1  BY <1>3, <1>4, <1>1
  <2>2. \A k \in 1 .. n : Append(s, c)[k] = s[k]  BY <1>1, <1>3, <1>4
  <2>3. Append(s, c)[n + 1] = c  BY <1>1, <1>3, <1>4
  <2> QED  BY <1>1, <1>3, <1>4, <1>7, <2>1, <2>2, <2>3 DEF s, c
<1> QED  BY <1>5, <1>6, <1>7

\* Every one of them has what an arm has.
LEMMA ArmsAreArms ==
  ASSUME IsPlan(plan), Len(plan.arms) >= 2, NEW k \in DOMAIN WithControl(plan.arms)
  PROVE  {"id", "program", "bare", "args", "env"} \subseteq DOMAIN WithControl(plan.arms)[k]
<1> DEFINE n == Len(plan.arms)
           w == WithControl(plan.arms)
<1>1. n \in Nat /\ DOMAIN plan.arms = 1 .. n /\ \A i \in 1 .. n : w[i] = plan.arms[i]
  BY ControlIsLast
<1>2. \A i \in 1 .. n : {"id", "program", "bare", "args", "env"} \subseteq DOMAIN plan.arms[i]
  BY <1>1 DEF IsPlan, ToSet
<1>3. CASE w = plan.arms  BY <1>1, <1>2, <1>3
<1>4. CASE DOMAIN w = 1 .. n + 1 /\ w[n + 1] = [plan.arms[1] EXCEPT !.id = "__aa"]
  <2>1. DOMAIN w[n + 1] = DOMAIN plan.arms[1] /\ 1 \in 1 .. n  BY <1>1, <1>4
  <2>2. k \in 1 .. n \/ k = n + 1  BY <1>1, <1>4
  <2> QED  BY <1>1, <1>2, <2>1, <2>2
<1> QED  BY <1>3, <1>4, ControlIsLast

\* What is launched is placed.
LEMMA PlacesAre ==
  ASSUME PlanInv, progress \in {"resolved", "launching", "ended"}
  PROVE  /\ Len(places) \in Nat \ {0} /\ DOMAIN places = 1 .. Len(places)
         /\ DOMAIN WithControl(plan.arms) = 1 .. Len(places)
         /\ \A k \in 1 .. Len(places) :
              places[k] = [WithControl(plan.arms)[k] EXCEPT
                             !.program = Found(WithControl(plan.arms)[k])]
<1> DEFINE w == WithControl(plan.arms)
           E(k) == [w[k] EXCEPT !.program = Found(w[k])]
<1>1. IsPlan(plan) /\ Len(plan.arms) >= 2 /\ places = Placed
  BY DEF PlanInv, PlanIsValid, PlanIsResolved
<1>2. PICK n \in Nat \ {0} : DOMAIN w = 1 .. n
  <2>1. Len(plan.arms) \in Nat /\ DOMAIN plan.arms = 1 .. Len(plan.arms)
    BY <1>1, ControlIsLast
  <2>2. DOMAIN w = 1 .. Len(plan.arms) \/ DOMAIN w = 1 .. Len(plan.arms) + 1
    BY <1>1, <2>1, ControlIsLast
  <2>3. Len(plan.arms) \in Nat \ {0} /\ Len(plan.arms) + 1 \in Nat \ {0}  BY <1>1, <2>1
  <2> QED  BY <2>2, <2>3
<1>3. places = [k \in 1 .. n |-> E(k)]  BY <1>1, <1>2 DEF Placed
<1>4. DOMAIN places = 1 .. n /\ \A k \in 1 .. n : places[k] = E(k)  BY <1>3
<1> HIDE DEF E
<1>5. Len(places) = n  BY <1>3
<1> QED  BY <1>2, <1>4, <1>5 DEF E

\* There are finitely many cells, ...
LEMMA CellsFinite ==
  ASSUME PlanInv, progress \in {"resolved", "launching", "ended"}
  PROVE  Cardinality(Cells) \in Nat
<1>1. IsPlan(plan)  BY DEF PlanInv
<1>2. /\ Len(plan.cases) \in Nat /\ DOMAIN plan.cases = 1 .. Len(plan.cases)
      /\ plan.blocks \in Nat
  BY <1>1 DEF IsPlan
<1>3. Len(places) \in Nat /\ DOMAIN places = 1 .. Len(places)  BY PlacesAre
<1>4. Cells = (1 .. Len(plan.cases)) \X (1 .. plan.blocks) \X (1 .. Len(places))
  BY <1>2, <1>3 DEF Cells
<1> QED  BY <1>2, <1>3, <1>4, CellsCounted, Zenon

\* ... and what is launched is one of them.
LEMMA LaunchedCell ==
  ASSUME PlanInv, progress \in {"resolved", "launching", "ended"},
         NEW n \in Nat, n < Cardinality(Cells)
  PROVE  CellAt(n) \in Cells
<1>1. IsPlan(plan) /\ plan.blocks > 0  BY DEF PlanInv, PlanIsValid
<1>2. Len(places) \in Nat \ {0} /\ DOMAIN places = 1 .. Len(places)  BY PlacesAre
<1>3. plan.blocks > 0 /\ n < Cardinality(Cells)  BY <1>1
<1> QED  BY <1>1, <1>2, <1>3, CellInCells, Zenon

\* One launch more.
LEMMA Longer ==
  ASSUME NEW n \in Nat, NEW s, s = [i \in 1 .. n |-> LaunchAt(i - 1)]
  PROVE  Len(s) = n /\ Append(s, LaunchAt(n)) = [i \in 1 .. n + 1 |-> LaunchAt(i - 1)]
<1> DEFINE L == [i \in 1 .. n + 1 |-> LaunchAt(i - 1)]
           S == {LaunchAt(i - 1) : i \in 1 .. n + 1}
           t == Append(s, LaunchAt(n))
<1>1. \A i \in 1 .. n + 1 : L[i] = LaunchAt(i - 1) /\ L[i] \in S  OBVIOUS
<1>2. L[n + 1] = LaunchAt(n)
  <2>1. n + 1 \in 1 .. n + 1 /\ (n + 1) - 1 = n  OBVIOUS
  <2>2. L[n + 1] = LaunchAt((n + 1) - 1)  BY ONLY <1>1, <2>1
  <2> QED  BY ONLY <2>1, <2>2
<1>3. s = [i \in 1 .. n |-> L[i]]  OBVIOUS
<1>4. DOMAIN L = 1 .. n + 1 /\ L = [i \in 1 .. n + 1 |-> L[i]]  OBVIOUS
<1> HIDE DEF L, S
<1>5. s \in Seq(S) /\ Len(s) = n /\ L[n + 1] \in S
  <2>1. DOMAIN s = 1 .. n /\ \A i \in 1 .. n : s[i] = L[i]  BY <1>3
  <2>2. s \in [1 .. n -> S]
    <3>1. \A i \in 1 .. n : i \in 1 .. n + 1  OBVIOUS
    <3> QED  BY ONLY <1>1, <1>3, <3>1
  <2>3. s \in Seq(S) /\ Len(s) = n  BY ONLY <2>2, n \in Nat
  <2> QED  BY <1>1, <2>3
<1>6. Append(s, L[n + 1]) = L
  <2>1. /\ Append(s, L[n + 1]) \in Seq(S) /\ Len(Append(s, L[n + 1])) = n + 1
        /\ \A i \in 1 .. n + 1 :
             Append(s, L[n + 1])[i] = IF i <= n THEN s[i] ELSE L[n + 1]
    <3> DEFINE e == L[n + 1]
    <3>1. s \in Seq(S) /\ e \in S /\ Len(s) = n  BY <1>5
    <3> HIDE DEF e
    <3>2. /\ Append(s, e) \in Seq(S) /\ Len(Append(s, e)) = Len(s) + 1
          /\ \A i \in 1 .. Len(s) + 1 :
               Append(s, e)[i] = IF i <= Len(s) THEN s[i] ELSE e
      BY ONLY <3>1, AppendProperties
    <3> QED  BY <3>1, <3>2, Zenon DEF e
  <2>2. L \in Seq(S) /\ Len(L) = n + 1  BY <1>1, <1>4
  <2>3. \A i \in 1 .. n + 1 : Append(s, L[n + 1])[i] = L[i]  BY <1>3, <2>1
  <2> QED  BY <2>1, <2>2, <2>3, SeqEqual
<1> QED  BY <1>2, <1>5, <1>6 DEF L

\* ... and every step keeps it.
LEMMA PlanStepInv == PlanInv /\ [PlanNext]_planVars => PlanInv'
<1> SUFFICES ASSUME PlanInv, [PlanNext]_planVars PROVE PlanInv'
  OBVIOUS
<1> USE DEF PlanInv
<1>1. CASE SelectCases
  <2>1. progress = "read" /\ launches = <<>> /\ UNCHANGED <<inherited, intent, launches>>
    BY <1>1 DEF SelectCases, PlanIsFollowed
  <2>2. launches' = [i \in 1 .. 0 |-> LaunchAt(i - 1)'] /\ 0 \in Nat  BY <2>1
  <2>3. CASE Refused
    <3>1. progress' = "refused" /\ plan' = plan  BY <2>3 DEF Refused
    <3>2. PlanIsFollowed'  BY <2>1, <2>2, <3>1 DEF PlanIsFollowed
    <3> QED  BY <3>1, <3>2 DEF PlanIsValid, PlanIsResolved
  <2>4. CASE ~Refused
    <3>1. PICK cases \in Selection :
            plan' = [plan EXCEPT !.cases = cases] /\ progress' = "selected"
      BY <1>1, <2>4, Zenon DEF SelectCases
    <3>2. ValidPairPlan(plan) /\ Selection # {}  BY <1>1, <2>4, Zenon DEF SelectCases
    <3>3. /\ IsPlan(plan') /\ plan'.arms = plan.arms /\ plan'.blocks = plan.blocks
          /\ plan'.cases = cases
          /\ \A i, j \in DOMAIN cases : cases[i].id = cases[j].id => i = j
          /\ \A i \in DOMAIN cases : intent.only \in {NoText, cases[i].id}
      BY <3>1, <3>2, SelectedIsPlan
    <3>4. /\ \A i, j \in DOMAIN plan.arms : plan.arms[i].id = plan.arms[j].id => i = j
          /\ \A i \in DOMAIN plan.arms : plan.arms[i].id # "__aa"
          /\ Len(plan.arms) >= 2 /\ plan.blocks > 0
      BY <3>2, ValidPlanSays, Zenon
    <3>5. PlanIsValid'  BY <2>1, <3>3, <3>4 DEF PlanIsValid
    <3>6. PlanIsFollowed'  BY <2>1, <2>2, <3>1 DEF PlanIsFollowed
    <3> QED  BY <3>1, <3>3, <3>5, <3>6 DEF PlanIsResolved
  <2> QED  BY <2>3, <2>4
<1>2. CASE ResolveFiles
  <2>1. /\ progress = "selected" /\ launches = <<>> /\ UNCHANGED <<inherited, intent, launches>>
        /\ plan' = plan
    BY <1>2, Zenon DEF ResolveFiles, PlanIsFollowed, Refused
  <2>2. launches' = [i \in 1 .. 0 |-> LaunchAt(i - 1)'] /\ 0 \in Nat  BY <2>1
  <2>3. progress' \in {"resolved", "refused"}  BY <1>2, Zenon DEF ResolveFiles, Refused
  <2>4. PlanIsFollowed'  BY <2>1, <2>2, <2>3 DEF PlanIsFollowed
  <2>5. PlanIsValid'  BY <2>1, <2>3 DEF PlanIsValid
  <2>6. ASSUME progress' = "resolved"
        PROVE  /\ places' = Placed
               /\ \A k \in DOMAIN WithControl(plan.arms) : Found(WithControl(plan.arms)[k]) \in Files
    <3>1. ~Refused  BY <2>6 DEF Refused
    <3>2. places' = Placed  BY <1>2, <3>1, Zenon DEF ResolveFiles, Placed
    <3>3. {Found(a) : a \in ToSet(WithControl(plan.arms))} \subseteq Files
      BY <1>2, <3>1 DEF ResolveFiles
    <3>4. \A k \in DOMAIN WithControl(plan.arms) : WithControl(plan.arms)[k] \in ToSet(WithControl(plan.arms))
      BY Zenon DEF ToSet
    <3> QED  BY <3>2, <3>3, <3>4
  <2>7. Placed' = Placed /\ WithControl(plan.arms)' = WithControl(plan.arms)
        /\ \A a : Found(a)' = Found(a)
    <3>1. WithControl(plan.arms)' = WithControl(plan.arms)  BY <2>1 DEF WithControl
    <3>2. \A a : Environ(a)' = Environ(a)  BY <2>1, ZenonT(60) DEF Environ, Merged
    <3>3. \A a : Found(a)' = Found(a)  BY <3>2, Zenon DEF Found
    <3> QED  BY <3>1, <3>3, Zenon DEF Placed
  <2>8. PlanIsResolved'  BY <2>1, <2>3, <2>6, <2>7 DEF PlanIsResolved
  <2> QED  BY <2>1, <2>3, <2>4, <2>5, <2>8
<1>3. ASSUME UNCHANGED <<plan, inherited, intent, places>>
      PROVE  /\ IsPlan(plan') /\ Placed' = Placed
             /\ WithControl(plan.arms)' = WithControl(plan.arms)
             /\ Cells' = Cells /\ Expands' = Expands
             /\ \A a : Found(a)' = Found(a)
             /\ \A n : LaunchAt(n)' = LaunchAt(n)
  <2>1. IsPlan(plan') /\ WithControl(plan.arms)' = WithControl(plan.arms)  BY <1>3 DEF WithControl
  <2>2. Cells' = Cells /\ \A n : CellAt(n)' = CellAt(n)  BY <1>3, Zenon DEF Cells, CellAt
  <2>3. \A a : Environ(a)' = Environ(a) /\ Texts(a)' = Texts(a)
    BY <1>3, ZenonT(60) DEF Environ, Merged, Texts
  <2>4. \A a : Found(a)' = Found(a)  BY <2>3, Zenon DEF Found
  <2>5. Placed' = Placed  BY <2>1, <2>4, Zenon DEF Placed
  <2>6. \A i : ExpandsAt(i)' = ExpandsAt(i)  BY <1>3, <2>3, Zenon DEF ExpandsAt
  <2>7. Expands' = Expands  BY <2>2, <2>6, Zenon DEF Expands
  <2>8. \A a, c, d : LaunchOf(a, c, d)' = LaunchOf(a, c, d)
    BY <1>3, <2>3, ZenonT(60) DEF LaunchOf
  <2>9. \A n : LaunchAt(n)' = LaunchAt(n)  BY <1>3, <2>2, <2>8, Zenon DEF LaunchAt
  <2> QED  BY <2>1, <2>2, <2>4, <2>5, <2>7, <2>9
<1>4. ASSUME UNCHANGED <<plan, inherited, intent, places>>,
             progress' \in {"selected", "resolved", "launching", "ended"} =>
               progress \in {"selected", "resolved", "launching", "ended"},
             progress' \in {"resolved", "launching", "ended"} =>
               progress \in {"resolved", "launching", "ended"}
      PROVE  PlanIsValid' /\ PlanIsResolved'
  <2>1. PlanIsValid'  BY <1>4 DEF PlanIsValid
  <2>2. PlanIsResolved'  BY <1>3, <1>4 DEF PlanIsResolved
  <2> QED  BY <2>1, <2>2
<1>5. CASE ExpandAll
  <2>1. /\ progress = "resolved" /\ launches = <<>>
        /\ UNCHANGED <<plan, places, inherited, intent, launches>>
        /\ progress' \in {"refused", "ended", "launching"} /\ (progress' # "refused" => Expands)
    BY <1>5, Zenon DEF ExpandAll, PlanIsFollowed, Refused
  <2>2. launches' = [i \in 1 .. 0 |-> LaunchAt(i - 1)'] /\ 0 \in Nat  BY <2>1
  <2>3. PlanIsFollowed'  BY <1>3, <2>1, <2>2 DEF PlanIsFollowed
  <2>4. PlanIsValid' /\ PlanIsResolved'  BY <1>4, <2>1
  <2> QED  BY <1>3, <2>1, <2>3, <2>4
<1>6. CASE LaunchNext
  <2>1. /\ progress = "launching" /\ UNCHANGED <<plan, inherited, intent, places>>
        /\ Len(launches) < Cardinality(Cells)
    BY <1>6 DEF LaunchNext
  <2>2. PICK n \in Nat : launches = [i \in 1 .. n |-> LaunchAt(i - 1)]
    BY DEF PlanIsFollowed
  <2>3. Len(launches) = n /\ Append(launches, LaunchAt(n)) = [i \in 1 .. n + 1 |-> LaunchAt(i - 1)]
    BY <2>2, Longer
  <2>4. Expands /\ ExpandsAt(CellAt(n))
    <3>1. CellAt(n) \in Cells  BY <2>1, <2>3, LaunchedCell
    <3> QED  BY <2>1, <3>1, Zenon DEF PlanIsFollowed, Expands
  <2>5. progress' = "launching" /\ launches' = [i \in 1 .. n + 1 |-> LaunchAt(i - 1)]
    BY <1>6, <2>1, <2>3, <2>4 DEF LaunchNext
  <2>6. launches' = [i \in 1 .. n + 1 |-> LaunchAt(i - 1)'] /\ n + 1 \in Nat
    BY <1>3, <2>1, <2>5
  <2>7. Cardinality(Cells) \in Nat  BY <2>1, CellsFinite
  <2>8. n + 1 <= Cardinality(Cells')  BY <1>3, <2>1, <2>3, <2>7
  <2>9. PlanIsFollowed'  BY <1>3, <2>1, <2>4, <2>5, <2>6, <2>8 DEF PlanIsFollowed
  <2>10. PlanIsValid' /\ PlanIsResolved'  BY <1>4, <2>1, <2>5
  <2> QED  BY <1>3, <2>1, <2>5, <2>9, <2>10
<1>7. CASE EndLaunches \/ UNCHANGED planVars
  <2>1. /\ UNCHANGED <<plan, inherited, intent, places, launches>>
        /\ progress' = progress \/ (progress = "launching" /\ progress' = "ended")
    <3>1. CASE EndLaunches  BY <3>1, Zenon DEF EndLaunches
    <3>2. CASE UNCHANGED planVars  BY <3>2 DEF planVars
    <3> QED  BY <1>7, <3>1, <3>2
  <2>2. PICK n \in Nat : /\ launches = [i \in 1 .. n |-> LaunchAt(i - 1)]
                         /\ n = 0 \/ n <= Cardinality(Cells)
    BY DEF PlanIsFollowed
  <2>3. launches' = [i \in 1 .. n |-> LaunchAt(i - 1)']  BY <1>3, <2>1, <2>2
  <2>4. PlanIsFollowed'  BY <1>3, <2>1, <2>2, <2>3 DEF PlanIsFollowed
  <2>5. PlanIsValid' /\ PlanIsResolved'  BY <1>4, <2>1
  <2> QED  BY <1>3, <2>1, <2>4, <2>5
<1> QED  BY <1>1, <1>2, <1>5, <1>6, <1>7 DEF PlanNext

\* For every plan, selection and environment: the invariant of what a plan becomes.
THEOREM PlanInvariance == PlanSpec => []PlanInv
<1> QED  BY PlanInitInv, PlanStepInv, PTL DEF PlanSpec

\* What a launch was made of.
LEMMA LaunchSays ==
  ASSUME PlanInv, NEW i \in DOMAIN launches
  PROVE  /\ progress \in {"launching", "ended"} /\ i \in Nat
         /\ i - 1 \in Nat /\ CellAt(i - 1) \in Cells /\ launches[i] = LaunchAt(i - 1)
<1>1. PICK n \in Nat : /\ launches = [k \in 1 .. n |-> LaunchAt(k - 1)]
                       /\ n = 0 \/ n <= Cardinality(Cells)
  BY DEF PlanInv, PlanIsFollowed
<1>2. i \in 1 .. n /\ launches[i] = LaunchAt(i - 1)  BY <1>1
<1>3. progress \in {"launching", "ended"}
  <2>1. launches # <<>>
    <3>1. DOMAIN launches = 1 .. n /\ DOMAIN <<>> = {}  BY <1>1
    <3> QED  BY <1>2, <3>1
  <2> QED  BY <2>1 DEF PlanInv, PlanIsFollowed
<1>4. Cardinality(Cells) \in Nat  BY <1>3, CellsFinite
<1>5. i - 1 \in Nat /\ i - 1 < Cardinality(Cells)  BY <1>1, <1>2, <1>4
<1>6. CellAt(i - 1) \in Cells  BY <1>3, <1>5, LaunchedCell
<1> QED  BY <1>2, <1>3, <1>5, <1>6

\* The arm of a cell, and its case.
LEMMA CellSays ==
  ASSUME PlanInv, progress \in {"launching", "ended"}, NEW d \in Cells
  PROVE  /\ d[1] \in DOMAIN plan.cases /\ d[3] \in 1 .. Len(places)
         /\ \A t \in Texts(places[d[3]]) : Expandable(t, FieldsOf(plan.cases[d[1]], d))
<1>1. DOMAIN places = 1 .. Len(places)  BY PlacesAre
<1>2. d[1] \in DOMAIN plan.cases /\ d[3] \in DOMAIN places  BY DEF Cells
<1>3. ExpandsAt(d)  BY Zenon DEF PlanInv, PlanIsFollowed, Expands
<1> QED  BY <1>1, <1>2, <1>3 DEF ExpandsAt

\* The same launch but for the directory.
Alike(f, g) ==
  /\ DOMAIN f = DOMAIN g
  /\ \A k \in DOMAIN f : f[k] = g[k] \/ (f[k][1] = "dir" /\ g[k][1] = "dir")

\* An arm and its control, launched for one case, are launched alike.
LEMMA LaunchedAlike ==
  ASSUME NEW x, NEW y, NEW c, NEW d, NEW e,
         x.args = y.args, x.env = y.env, x.bare = y.bare, x.program = y.program,
         \A t \in Texts(x) : Expandable(t, FieldsOf(c, d))
  PROVE  /\ LaunchOf(x, c, d).program = LaunchOf(y, c, e).program
         /\ Alike(LaunchOf(x, c, d).args, LaunchOf(y, c, e).args)
         /\ Alike(LaunchOf(x, c, d).env, LaunchOf(y, c, e).env)
<1> DEFINE f == FieldsOf(c, d)
           g == FieldsOf(c, e)
           A(t) == Expand(t, f)
           B(t) == Expand(t, g)
           K == DOMAIN plan.env \cup DOMAIN x.env
           E == Environ(x)
<1>1. \A t \in Texts(x) : A(t) = B(t) \/ (A(t)[1] = "dir" /\ B(t)[1] = "dir")
  BY SameText
<1>2. Environ(y) = E  BY SameArm, Zenon
<1>3. /\ LaunchOf(x, c, d).program = x.program /\ LaunchOf(y, c, e).program = y.program
      /\ LaunchOf(x, c, d).args = [k \in DOMAIN x.args |-> A(x.args[k])]
      /\ LaunchOf(y, c, e).args = [k \in DOMAIN y.args |-> B(y.args[k])]
      /\ LaunchOf(x, c, d).env = [k \in DOMAIN E |-> IF k \in K THEN A(E[k]) ELSE inherited[k]]
      /\ LaunchOf(y, c, e).env = [k \in DOMAIN E |-> IF k \in K THEN B(E[k]) ELSE inherited[k]]
  BY <1>2, Zenon DEF LaunchOf
<1>4. \A k \in DOMAIN x.args : x.args[k] \in Texts(x)  BY DEF Texts, ToSet
<1>5. \A k \in DOMAIN E : k \in K => E[k] \in Texts(x)  BY VariableIsText
<1> HIDE DEF A, B, E, K
<1>6. Alike([k \in DOMAIN x.args |-> A(x.args[k])], [k \in DOMAIN x.args |-> B(x.args[k])])
  BY <1>1, <1>4 DEF Alike
<1>7. Alike([k \in DOMAIN E |-> IF k \in K THEN A(E[k]) ELSE inherited[k]],
            [k \in DOMAIN E |-> IF k \in K THEN B(E[k]) ELSE inherited[k]])
  BY <1>1, <1>5 DEF Alike
<1> QED  BY <1>3, <1>6, <1>7, Zenon

\* What is kept of a launch.
LEMMA LaunchKeeps ==
  ASSUME NEW n
  PROVE  /\ LaunchAt(n).cell = CellAt(n)
         /\ LaunchAt(n).case = plan.cases[CellAt(n)[1]].id
         /\ LaunchAt(n).arm = places[CellAt(n)[3]].id
         /\ LaunchAt(n).program = places[CellAt(n)[3]].program
<1>1. ASSUME NEW x, NEW c, NEW d
      PROVE  /\ LaunchOf(x, c, d).cell = d /\ LaunchOf(x, c, d).case = c.id
             /\ LaunchOf(x, c, d).arm = x.id /\ LaunchOf(x, c, d).program = x.program
  BY DEF LaunchOf
<1> DEFINE i == CellAt(n)
<1>2. LaunchAt(n) = LaunchOf(places[i[3]], plan.cases[i[1]], i)  BY Zenon DEF LaunchAt
<1> QED  BY <1>1, <1>2

\* An admitted plan runs: no text comes too late, the control is launched as the
\* baseline is, no directory twice, and nothing but what was asked for and exists.
THEOREM AdmittedTheorem == PlanSpec => []AdmittedPlanRuns
<1>1. PlanInv => AdmittedPlanRuns
  <2> SUFFICES ASSUME PlanInv PROVE AdmittedPlanRuns
    OBVIOUS
  <2>1. progress # "late"  BY DEF PlanInv
  <2>2. ASSUME NEW i \in DOMAIN launches
        PROVE  launches[i].program \in Files /\ intent.only \in {NoText, launches[i].case}
    <3> DEFINE d == CellAt(i - 1)
               w == WithControl(plan.arms)
    <3>1. progress \in {"launching", "ended"} /\ d \in Cells /\ launches[i] = LaunchAt(i - 1)
      BY LaunchSays
    <3>2. d[1] \in DOMAIN plan.cases /\ d[3] \in 1 .. Len(places)  BY <3>1, CellSays
    <3>3. launches[i].program = places[d[3]].program /\ launches[i].case = plan.cases[d[1]].id
      BY <3>1, LaunchKeeps, Zenon
    <3>4. /\ DOMAIN w = 1 .. Len(places)
          /\ places[d[3]] = [w[d[3]] EXCEPT !.program = Found(w[d[3]])]
      BY <3>1, <3>2, PlacesAre
    <3>5. "program" \in DOMAIN w[d[3]]
      BY <3>1, <3>2, <3>4, ArmsAreArms DEF PlanInv, PlanIsValid
    <3> HIDE DEF d, w
    <3>6. places[d[3]].program = Found(w[d[3]])  BY <3>4, <3>5
    <3>7. Found(w[d[3]]) \in Files  BY <3>1, <3>2, <3>4, Zenon DEF PlanInv, PlanIsResolved, w
    <3>8. intent.only \in {NoText, plan.cases[d[1]].id}
      BY <3>1, <3>2, Zenon DEF PlanInv, PlanIsValid
    <3> QED  BY <3>3, <3>6, <3>7, <3>8
  <2>3. ASSUME NEW i \in DOMAIN launches, NEW j \in DOMAIN launches, i # j
        PROVE  launches[i].cell # launches[j].cell
    <3>1. /\ progress \in {"launching", "ended"} /\ i - 1 \in Nat /\ j - 1 \in Nat
          /\ launches[i] = LaunchAt(i - 1) /\ launches[j] = LaunchAt(j - 1)
      BY LaunchSays
    <3>2. launches[i].cell = CellAt(i - 1) /\ launches[j].cell = CellAt(j - 1)
      BY <3>1, LaunchKeeps, Zenon
    <3>3. Len(places) \in Nat \ {0} /\ plan.blocks \in Nat \ {0}
      BY <3>1, PlacesAre DEF PlanInv, IsPlan, PlanIsValid
    <3>4. CellAt(i - 1) = CellAt(j - 1) => i - 1 = j - 1  BY <3>1, <3>3, CellsApart
    <3>5. i \in Nat /\ j \in Nat  BY LaunchSays
    <3> QED  BY <2>3, <3>1, <3>2, <3>4, <3>5
  <2>4. ASSUME NEW i \in DOMAIN launches, NEW j \in DOMAIN launches,
               launches[i].case = launches[j].case,
               launches[i].arm = plan.arms[1].id, launches[j].arm = "__aa"
        PROVE  /\ launches[i].program = launches[j].program
               /\ Alike(launches[i].args, launches[j].args)
               /\ Alike(launches[i].env, launches[j].env)
    <3> DEFINE d == CellAt(i - 1)
               e == CellAt(j - 1)
               w == WithControl(plan.arms)
               n == Len(plan.arms)
               x == places[d[3]]
               y == places[e[3]]
    <3>1. /\ progress \in {"launching", "ended"} /\ d \in Cells /\ e \in Cells
          /\ launches[i] = LaunchAt(i - 1) /\ launches[j] = LaunchAt(j - 1)
      BY LaunchSays
    <3>2. /\ d[1] \in DOMAIN plan.cases /\ d[3] \in 1 .. Len(places)
          /\ e[1] \in DOMAIN plan.cases /\ e[3] \in 1 .. Len(places)
          /\ \A t \in Texts(x) : Expandable(t, FieldsOf(plan.cases[d[1]], d))
      BY <3>1, CellSays
    <3>3. plan.cases[d[1]].id = plan.cases[e[1]].id /\ x.id = plan.arms[1].id /\ y.id = "__aa"
      BY <2>4, <3>1, LaunchKeeps, Zenon
    <3>4. d[1] = e[1]  BY <3>1, <3>2, <3>3, Zenon DEF PlanInv, PlanIsValid
    <3>5. /\ DOMAIN w = 1 .. Len(places)
          /\ x = [w[d[3]] EXCEPT !.program = Found(w[d[3]])]
          /\ y = [w[e[3]] EXCEPT !.program = Found(w[e[3]])]
      BY <3>1, <3>2, PlacesAre
    <3>6. /\ IsPlan(plan) /\ n >= 2
          /\ \A k, l \in DOMAIN plan.arms : plan.arms[k].id = plan.arms[l].id => k = l
          /\ \A k \in DOMAIN plan.arms : plan.arms[k].id # "__aa"
      BY <3>1, Zenon DEF PlanInv, PlanIsValid
    <3>7. /\ n \in Nat /\ DOMAIN plan.arms = 1 .. n
          /\ \A k \in 1 .. n : w[k] = plan.arms[k]
          /\ \/ w = plan.arms
             \/ DOMAIN w = 1 .. n + 1 /\ w[n + 1] = [plan.arms[1] EXCEPT !.id = "__aa"]
      BY <3>6, ControlIsLast, Zenon
    <3>8. /\ {"id", "program", "bare", "args", "env"} \subseteq DOMAIN w[d[3]]
          /\ {"id", "program", "bare", "args", "env"} \subseteq DOMAIN w[e[3]]
      BY <3>2, <3>5, <3>6, ArmsAreArms, Zenon
    <3>9. /\ x.id = w[d[3]].id /\ x.args = w[d[3]].args /\ x.env = w[d[3]].env
          /\ x.bare = w[d[3]].bare /\ x.program = Found(w[d[3]])
          /\ y.id = w[e[3]].id /\ y.args = w[e[3]].args /\ y.env = w[e[3]].env
          /\ y.bare = w[e[3]].bare /\ y.program = Found(w[e[3]])
      <4> DEFINE p == w[d[3]]
                 q == w[e[3]]
      <4> HIDE DEF p, q, x, y
      <4>1. x = [p EXCEPT !.program = Found(p)] /\ y = [q EXCEPT !.program = Found(q)]
        BY <3>5, Zenon DEF p, q
      <4> DEFINE f == Found(p)
                 g == Found(q)
      <4>2. /\ {"id", "program", "bare", "args", "env"} \subseteq DOMAIN p
            /\ {"id", "program", "bare", "args", "env"} \subseteq DOMAIN q
        BY <3>8, Zenon DEF p, q
      <4>3. x = [p EXCEPT !.program = f] /\ y = [q EXCEPT !.program = g]  BY <4>1
      <4> HIDE DEF f, g
      <4>4. /\ x.id = p.id /\ x.args = p.args /\ x.env = p.env /\ x.bare = p.bare /\ x.program = f
            /\ y.id = q.id /\ y.args = q.args /\ y.env = q.env /\ y.bare = q.bare /\ y.program = g
        BY ONLY <4>2, <4>3
      <4> QED  BY <4>4 DEF p, q, f, g
    <3> HIDE DEF x, y, w, n
    <3>10. e[3] \notin 1 .. n
      <4>1. SUFFICES ASSUME e[3] \in 1 .. n PROVE FALSE  OBVIOUS
      <4>2. w[e[3]] = plan.arms[e[3]] /\ plan.arms[e[3]].id # "__aa"
        BY <4>1, <3>6, <3>7, Zenon
      <4>3. w[e[3]].id = "__aa"  BY <3>3, <3>9, Zenon
      <4> QED  BY ONLY <4>2, <4>3
    <3>11. /\ DOMAIN w = 1 .. n + 1 /\ w[n + 1] = [plan.arms[1] EXCEPT !.id = "__aa"]
           /\ e[3] = n + 1
      <4>1. DOMAIN w = 1 .. n + 1 /\ w[n + 1] = [plan.arms[1] EXCEPT !.id = "__aa"]
        BY <3>2, <3>5, <3>7, <3>10, Zenon
      <4>2. e[3] = n + 1  BY <4>1, <3>2, <3>5, <3>7, <3>10
      <4> QED  BY <4>1, <4>2
    <3>12. 1 \in 1 .. n  BY <3>6, <3>7 DEF n
    <3>13. d[3] = 1
      <4> DEFINE a == plan.arms[1]
      <4>0. w[d[3]].id = a.id /\ a.id # "__aa"  BY <3>3, <3>6, <3>7, <3>9, <3>12, Zenon
      <4>1. d[3] # n + 1
        <5>1. SUFFICES ASSUME d[3] = n + 1 PROVE FALSE  OBVIOUS
        <5>2. w[d[3]].id = "__aa"  BY <3>3, <3>9, <3>11, <5>1, Zenon
        <5> QED  BY ONLY <4>0, <5>2
      <4>2. d[3] \in 1 .. n  BY <4>1, <3>2, <3>5, <3>7, <3>11
      <4>3. w[d[3]] = plan.arms[d[3]]  BY <4>2, <3>7, Zenon
      <4>4. plan.arms[d[3]].id = plan.arms[1].id  BY ONLY <4>0, <4>3
      <4> QED  BY <4>2, <4>4, <3>6, <3>7, <3>12, Zenon
    <3>14. w[1] = plan.arms[1]  BY <3>7, <3>12
    <3> DEFINE p == plan.arms[1]
               q == w[n + 1]
    <3>15. /\ q.args = p.args /\ q.env = p.env /\ q.bare = p.bare /\ q.program = p.program
      <4>1. {"id", "program", "bare", "args", "env"} \subseteq DOMAIN p
        BY <3>8, <3>13, <3>14, Zenon
      <4>2. q = [p EXCEPT !.id = "__aa"]  BY <3>11
      <4> HIDE DEF p, q
      <4> QED  BY ONLY <4>1, <4>2
    <3>16. Found(q) = Found(p)  BY <3>15, SameArm
    <3>17. x.args = y.args /\ x.env = y.env /\ x.bare = y.bare /\ x.program = y.program
      <4>1. w[d[3]] = p /\ w[e[3]] = q  BY <3>11, <3>13, <3>14
      <4> HIDE DEF p, q
      <4> QED  BY ONLY <3>9, <3>15, <3>16, <4>1
    <3>18. /\ launches[i] = LaunchOf(x, plan.cases[d[1]], d)
           /\ launches[j] = LaunchOf(y, plan.cases[d[1]], e)
      BY <3>1, <3>4, Zenon DEF LaunchAt, x, y
    <3> HIDE DEF d, e
    <3>19. /\ LaunchOf(x, plan.cases[d[1]], d).program = LaunchOf(y, plan.cases[d[1]], e).program
           /\ Alike(LaunchOf(x, plan.cases[d[1]], d).args, LaunchOf(y, plan.cases[d[1]], e).args)
           /\ Alike(LaunchOf(x, plan.cases[d[1]], d).env, LaunchOf(y, plan.cases[d[1]], e).env)
      BY <3>2, <3>17, LaunchedAlike, Zenon
    <3> QED  BY <3>18, <3>19, Zenon
  <2> QED  BY <2>1, <2>2, <2>3, <2>4, ZenonT(60) DEF AdmittedPlanRuns, Alike
<1> QED  BY <1>1, PlanInvariance, PTL
=============================================================================
