--------------------------- MODULE AdmissionProofs ---------------------------
(***************************************************************************)
(* The inductive invariant IInv of Admission is preserved by every step,   *)
(* so the safety invariants checked by TLC on three processes hold for any *)
(* set of processes and any largest ticket number; and Admission           *)
(* implements the abstract queue that its module states.                   *)
(***************************************************************************)
EXTENDS Admission, TLAPS

(***************************************************************************)
(* Typing of the two helpers that several actions share.                   *)
(***************************************************************************)
\* No entry is an entry.
LEMMA NoEntryTyped == NoEntry \in [ticket : 0 .. MaxTicket, running : BOOLEAN]
  BY AdmissionAssumption DEF NoEntry

\* Forgetting the scan leaves its three variables well typed.
LEMMA EndScanTyped ==
  EndScan => /\ todo' \in SUBSET Tickets
             /\ entry' \in [ticket : 0 .. MaxTicket, running : BOOLEAN]
             /\ blocked' \in BOOLEAN
  BY NoEntryTyped DEF EndScan

\* Closing a process's handles leaves the locks and the scan well typed.
LEMMA CloseAllTyped ==
  ASSUME TypeOK, NEW p \in Proc, CloseAll(p)
  PROVE  /\ control' \in Proc \cup {Free}
         /\ guard' \in [Tickets -> Proc \cup {Free, Observer}]
         /\ todo' \in SUBSET Tickets
         /\ entry' \in [ticket : 0 .. MaxTicket, running : BOOLEAN]
         /\ blocked' \in BOOLEAN
  BY EndScanTyped DEF TypeOK, CloseAll, scan

\* Only the holder of the control lock is inside a critical section.
LEMMA AloneInControl ==
  ASSUME IInv, NEW p \in Proc, control \in {p, Free}
  PROVE  \A q \in Proc : q # p => pc[q] \notin InControl
  BY AdmissionAssumption DEF IInv, ControlInv

(***************************************************************************)
(* The four steps whose effect needs more than one argument.               *)
(***************************************************************************)
\* A refused request gives back what it holds and preserves the invariant.
LEMMA RefuseStep ==
  ASSUME IInv, NEW p \in Proc, Refuse(p), pc[p] \in Enrolling \cup Queued
  PROVE  IInv'
<1>1. TypeOK'
  <2>1. CASE pc[p] \in Registered
    BY <2>1, EndScanTyped
    DEF IInv, Refuse, TypeOK, disk, scan, States, Registered, Dropping
  <2>2. CASE pc[p] \notin Registered
    BY <2>2, CloseAllTyped, AdmissionAssumption DEF IInv, Refuse, TypeOK, disk, States
  <2> QED
    BY <2>1, <2>2
<1>2. OrderInv'
  BY DEF IInv, Refuse, TypeOK, OrderInv, disk, TicketsInv
<1>3. OwnerInv'
  <2>1. ASSUME NEW q \in Proc, q # p, pc[q] \in {"register"} \cup Registered
        PROVE  guard'[seq[q]] = q
    BY <2>1, AdmissionAssumption DEF IInv, TypeOK, OwnerInv, TicketsInv, Refuse, CloseAll, Tickets
  <2>2. /\ \A q \in Proc : q # p => pc'[q] = pc[q] /\ seq'[q] = seq[q]
        /\ pc[p] \in Registered =>
             pc'[p] = "drop" /\ seq'[p] = seq[p] /\ guard'[seq[p]] = guard[seq[p]]
        /\ pc[p] \notin Registered => pc'[p] = "idle" /\ seq'[p] = 0
        /\ UNCHANGED <<record, group, retain>>
    BY AdmissionAssumption DEF IInv, TypeOK, TicketsInv, Refuse, Tickets, disk
  <2> QED
    BY <2>1, <2>2
    DEF IInv, OwnerInv, Registered, Enrolling, Queued, Admitted, Dropping
<1> USE AdmissionAssumption
        DEF IInv, TypeOK, ControlInv, TicketsInv, OwnerInv, GroupInv, OrderInv,
            ScanInv, Enrolling, Queued, Admitted, Dropping, InControl, Registered,
            disk, scan, EndScan, CloseAll
<1>4. CASE pc[p] \in Enrolling
  <2>1. ControlInv' /\ TicketsInv'
    BY <1>4 DEF Refuse
  <2>2. GroupInv'
    BY <1>4 DEF Refuse
  <2>3. ScanInv'
    BY <1>4 DEF Refuse
  <2> QED
    BY <1>1, <1>2, <1>3, <2>1, <2>2, <2>3
<1>5. CASE pc[p] \in Queued
  <2>1. ControlInv' /\ TicketsInv'
    BY <1>5 DEF Refuse
  <2>2. GroupInv'
    BY <1>5 DEF Refuse
  <2>3. ScanInv'
    BY <1>5 DEF Refuse
  <2> QED
    BY <1>1, <1>2, <1>3, <2>1, <2>2, <2>3
<1> QED
  BY <1>4, <1>5

\* Taking the control lock starts either a ticket or a scan that has every
\* record before it.
LEMMA LockControlStep ==
  ASSUME IInv, NEW p \in Proc, LockControl(p)
  PROVE  IInv'
<1>1. \A q \in Proc : q # p => pc[q] \notin InControl
  BY AloneInControl DEF LockControl
<1>2. TypeOK'
  BY DEF IInv, LockControl, TypeOK, Goto, disk, scan, States, Enrolling, Queued, Registered
<1>3. TicketsInv'
  BY DEF IInv, LockControl, Goto, TicketsInv, TypeOK, disk, Registered, Queued,
         Admitted, Dropping
<1>4. ScanInv'
  BY <1>1 DEF IInv, LockControl, Goto, TypeOK, ScanInv, disk, InControl
<1>5. ControlInv' /\ OwnerInv'
  BY AdmissionAssumption
  DEF IInv, LockControl, Goto, TypeOK, ControlInv, OwnerInv, disk, InControl,
      Registered, Queued, Admitted, Dropping
<1>6. GroupInv' /\ OrderInv'
  BY DEF IInv, LockControl, Goto, TypeOK, GroupInv, OrderInv, disk
<1> QED
  BY <1>2, <1>3, <1>4, <1>5, <1>6 DEF IInv

\* Moving to the next directory entry keeps every lower record accounted for.
LEMMA ReadTicketStep ==
  ASSUME IInv, NEW p \in Proc, NEW t \in Tickets, ReadTicket(p, t)
  PROVE  IInv'
<1>1. \A q \in Proc : q # p => pc[q] \notin InControl
  BY AloneInControl DEF IInv, ControlInv, ReadTicket, InControl
<1>2. TypeOK'
  <2>1. [ticket |-> t, running |-> record[t] = "running"]
          \in [ticket : 0 .. MaxTicket, running : BOOLEAN]
    BY AdmissionAssumption DEF Tickets
  <2> QED
    BY <2>1 DEF IInv, ReadTicket, TypeOK, disk, States, Registered, Queued
<1>3. ScanInv'
  <2>1. CASE record[t] = "absent" \/ t >= seq[p]
    BY <1>1, <2>1, AdmissionAssumption
    DEF IInv, ReadTicket, TypeOK, ScanInv, disk, InControl, Tickets
  <2>2. CASE ~(record[t] = "absent" \/ t >= seq[p])
    <3>1. /\ entry'.ticket = t /\ entry'.running = (record[t] = "running")
          /\ pc' = [pc EXCEPT ![p] = "probe"]
          /\ todo' = todo \ {t} /\ UNCHANGED <<record, guard, seq, blocked>>
      BY <2>2 DEF ReadTicket, disk
    <3>2. t < seq[p] /\ record[t] \in {"waiting", "running"}
      BY <2>2, AdmissionAssumption DEF ReadTicket, IInv, TypeOK, RecordStates, Tickets
    <3>3. /\ pc[p] = "scan" /\ pc'[p] = "probe"
          /\ \A q \in Proc : q # p => pc'[q] \notin {"scan", "probe", "judge"}
      BY <1>1, <3>1 DEF IInv, ReadTicket, TypeOK, InControl
    <3>4. ASSUME NEW u \in Tickets, u < seq[p], record[u] # "absent"
          PROVE  u \in todo' \/ blocked \/ u = t
      BY <3>1, <3>3, <3>4 DEF IInv, ScanInv
    <3>5. record'[t] \in {IF entry'.running THEN "running" ELSE "waiting", "absent"}
      BY <3>1, <3>2
    <3> QED
      BY <3>1, <3>2, <3>3, <3>4, <3>5 DEF ScanInv
  <2> QED
    BY <2>1, <2>2
<1>4. ControlInv' /\ TicketsInv' /\ OwnerInv'
  BY DEF IInv, ReadTicket, TypeOK, ControlInv, TicketsInv, OwnerInv, disk,
         InControl, Registered, Queued, Admitted, Dropping
<1>5. GroupInv' /\ OrderInv'
  BY DEF IInv, ReadTicket, TypeOK, GroupInv, OrderInv, disk
<1> QED
  BY <1>2, <1>3, <1>4, <1>5 DEF IInv

\* A process that dies, or gives up its cleanup, leaves the files as they are.
LEMMA LoseHandlesStep ==
  ASSUME IInv, NEW p \in Proc, Crash(p) \/ DropFails(p)
  PROVE  IInv'
<1>1. TypeOK'
  <2>1. CASE Crash(p)
    BY <2>1, CloseAllTyped, AdmissionAssumption DEF IInv, Crash, TypeOK, disk, States
  <2>2. CASE DropFails(p)
    BY <2>2, CloseAllTyped, AdmissionAssumption DEF IInv, DropFails, TypeOK, disk, States
  <2> QED
    BY <2>1, <2>2
<1>2. OwnerInv'
  <2>1. /\ \A q \in Proc : q # p => pc'[q] = pc[q] /\ seq'[q] = seq[q] /\ retain'[q] = retain[q]
        /\ pc'[p] \in {"idle", "dead"} /\ seq'[p] = 0
        /\ guard' = [t \in Tickets |-> IF guard[t] = p THEN Free ELSE guard[t]]
        /\ UNCHANGED <<record, group>>
    BY DEF IInv, TypeOK, Crash, DropFails, CloseAll, disk
  <2>2. ASSUME NEW q \in Proc, q # p, pc[q] \in {"register"} \cup Registered
        PROVE  guard'[seq[q]] = q
    BY <2>1, <2>2, AdmissionAssumption DEF IInv, TypeOK, OwnerInv, TicketsInv, Tickets
  <2> QED
    BY <2>1, <2>2 DEF IInv, OwnerInv, Registered, Queued, Admitted, Dropping
<1> USE AdmissionAssumption
        DEF IInv, TypeOK, ControlInv, TicketsInv, OwnerInv, GroupInv, OrderInv,
            ScanInv, Enrolling, Queued, Admitted, Dropping, InControl, Registered,
            disk, scan, EndScan, CloseAll
<1>3. CASE Crash(p)
  <2>1. ControlInv' /\ TicketsInv'
    BY <1>3 DEF Crash
  <2>2. GroupInv' /\ OrderInv' /\ ScanInv'
    BY <1>3 DEF Crash
  <2> QED
    BY <1>1, <1>2, <2>1, <2>2
<1>4. CASE DropFails(p)
  <2>1. ControlInv' /\ TicketsInv'
    BY <1>4 DEF DropFails
  <2>2. GroupInv' /\ OrderInv' /\ ScanInv'
    BY <1>4 DEF DropFails
  <2> QED
    BY <1>1, <1>2, <2>1, <2>2
<1> QED
  BY <1>3, <1>4

(***************************************************************************)
(* One step per action of Next.                                            *)
(***************************************************************************)
\* Every step of at_controlled preserves the invariant.
LEMMA AcquireStep == ASSUME IInv, NEW p \in Proc, Acquire(p) PROVE IInv'
<1>1. CASE LockControl(p)
  BY <1>1, LockControlStep
<1>2. CASE ControlTimeout(p)
  BY <1>2, RefuseStep DEF ControlTimeout, Enrolling, Queued, InControl
<1>3. CASE NoTicket(p)
  BY <1>3, RefuseStep DEF NoTicket, Enrolling, Queued, InControl
<1>4. ASSUME NEW t \in Tickets, ReadTicket(p, t) PROVE IInv'
  BY <1>4, ReadTicketStep
<1>5. ASSUME NEW t \in Tickets, UnreadableTicket(p, t) PROVE IInv'
  BY <1>5, RefuseStep DEF UnreadableTicket, Enrolling, Queued, InControl
<1>6. CASE OrphanFound(p)
  BY <1>6, RefuseStep DEF OrphanFound, Enrolling, Queued, InControl
<1>7. CASE QueueTimeout(p)
  BY <1>7, RefuseStep DEF QueueTimeout, Enrolling, Queued, InControl
<1> USE AdmissionAssumption
        DEF IInv, TypeOK, ControlInv, TicketsInv, OwnerInv, GroupInv, OrderInv,
            ScanInv, Tickets, RecordStates, GroupStates, Enrolling, Queued,
            Admitted, Dropping, InControl, Registered, States, NoEntry, disk, scan,
            Goto, Write, SetGuard
<1>8. CASE TruncateCounter(p)
  BY <1>8 DEF TruncateCounter
<1>9. CASE WriteCounter(p)
  <2>1. counter + 1 \in 0 .. MaxTicket
    BY <1>9 DEF WriteCounter
  <2>2. TypeOK'
    BY <1>9, <2>1 DEF WriteCounter
  <2>3. TicketsInv'
    BY <1>9, <2>1 DEF WriteCounter
  <2>4. ControlInv' /\ OwnerInv'
    BY <1>9 DEF WriteCounter
  <2>5. GroupInv' /\ OrderInv' /\ ScanInv'
    BY <1>9 DEF WriteCounter
  <2> QED
    BY <2>2, <2>3, <2>4, <2>5
<1>10. CASE OpenTicket(p)
  BY <1>10 DEF OpenTicket
<1>11. CASE Register(p)
  BY <1>11 DEF Register
<1>12. CASE OwnerAlive(p)
  BY <1>12 DEF OwnerAlive
<1>13. CASE OwnerGone(p)
  BY <1>13 DEF OwnerGone
<1>14. CASE SkipDeadTicket(p)
  BY <1>14 DEF SkipDeadTicket
<1>15. CASE TruncateRecord(p)
  BY <1>15 DEF TruncateRecord
<1>16. CASE Admit(p)
  <2>1. TypeOK'
    BY <1>16, EndScanTyped DEF Admit
  <2>2. ControlInv' /\ TicketsInv' /\ OwnerInv'
    BY <1>16 DEF Admit
  <2>3. GroupInv' /\ OrderInv' /\ ScanInv'
    BY <1>16 DEF Admit
  <2> QED
    BY <2>1, <2>2, <2>3
<1>17. CASE Wait(p)
  <2>1. TypeOK'
    BY <1>17, EndScanTyped DEF Wait
  <2>2. ControlInv' /\ TicketsInv' /\ OwnerInv'
    BY <1>17 DEF Wait
  <2>3. GroupInv' /\ OrderInv' /\ ScanInv'
    BY <1>17 DEF Wait
  <2> QED
    BY <2>1, <2>2, <2>3
<1>18. CASE WakeUp(p)
  BY <1>18 DEF WakeUp
<1> QED
  BY <1>1, <1>2, <1>3, <1>4, <1>5, <1>6, <1>7, <1>8, <1>9, <1>10, <1>11, <1>12, <1>13, <1>14, <1>15, <1>16, <1>17, <1>18 DEF Acquire

\* So does every step of a launcher.
LEMMA SuperviseStep == ASSUME IInv, NEW p \in Proc, Supervise(p) PROVE IInv'
<1> USE AdmissionAssumption
        DEF IInv, TypeOK, ControlInv, TicketsInv, OwnerInv, GroupInv, OrderInv,
            ScanInv, Tickets, RecordStates, GroupStates, Enrolling, Queued,
            Admitted, Dropping, InControl, Registered, States, NoEntry, disk, scan,
            Goto, Write, SetGuard
<1>1. CASE Launch(p)
  BY <1>1 DEF Launch
<1>2. CASE Spawn(p)
  BY <1>2 DEF Spawn
<1>3. CASE SpawnFails(p)
  BY <1>3 DEF SpawnFails
<1>4. CASE Reaped(p)
  BY <1>4 DEF Reaped
<1>5. CASE SuperviseFails(p)
  BY <1>5 DEF SuperviseFails
<1> QED
  BY <1>1, <1>2, <1>3, <1>4, <1>5 DEF Supervise

\* So does every step of Drop.
LEMMA DropStep == ASSUME IInv, NEW p \in Proc, Drop(p) PROVE IInv'
<1>1. CASE DropFails(p)
  BY <1>1, LoseHandlesStep
<1> USE AdmissionAssumption
        DEF IInv, TypeOK, ControlInv, TicketsInv, OwnerInv, GroupInv, OrderInv,
            ScanInv, Tickets, RecordStates, GroupStates, Enrolling, Queued,
            Admitted, Dropping, InControl, Registered, States, NoEntry, disk, scan,
            Goto, Write, SetGuard
<1>2. CASE Abandon(p)
  <2>1. TypeOK' /\ ControlInv' /\ TicketsInv'
    BY <1>2 DEF Abandon
  <2>2. OwnerInv'
    BY <1>2 DEF Abandon
  <2>3. GroupInv' /\ OrderInv' /\ ScanInv'
    BY <1>2 DEF Abandon
  <2> QED
    BY <2>1, <2>2, <2>3
<1>3. CASE DropLock(p)
  BY <1>3 DEF DropLock
<1>4. CASE DropRemove(p)
  BY <1>4 DEF DropRemove
<1>5. CASE DropClose(p)
  BY <1>5 DEF DropClose
<1> QED
  BY <1>1, <1>2, <1>3, <1>4, <1>5 DEF Drop

\* So does whatever happens to a ticket's children, and the operator's removal.
LEMMA ChildrenStep ==
  ASSUME IInv, NEW t \in Tickets, Children(t) \/ ClearOrphan(t)
  PROVE  IInv'
<1> USE AdmissionAssumption
        DEF IInv, TypeOK, ControlInv, TicketsInv, OwnerInv, GroupInv, OrderInv,
            ScanInv, Tickets, RecordStates, GroupStates, Enrolling, Queued,
            Admitted, Dropping, InControl, Registered, States, NoEntry, disk, scan,
            Goto, Write, SetGuard
<1>1. CASE GroupExits(t)
  BY <1>1 DEF GroupExits
<1>2. CASE ProbeLease(t)
  BY <1>2 DEF ProbeLease
<1>3. CASE Inherit(t)
  BY <1>3 DEF Inherit
<1>4. CASE ProbeGuard(t)
  BY <1>4 DEF ProbeGuard
<1>5. CASE ProbeEnds(t)
  BY <1>5 DEF ProbeEnds
<1>6. CASE ClearOrphan(t)
  BY <1>6 DEF ClearOrphan
<1> QED
  BY <1>1, <1>2, <1>3, <1>4, <1>5, <1>6 DEF Children

\* So does a stuttering step.
LEMMA StutterStep == IInv /\ UNCHANGED vars => IInv'
  BY DEF IInv, TypeOK, ControlInv, TicketsInv, OwnerInv, GroupInv, OrderInv,
         ScanInv, vars, disk, scan

\* The initial states satisfy the invariant.
LEMMA Initially == Init => IInv
<1> SUFFICES ASSUME Init PROVE IInv
  OBVIOUS
<1>1. TypeOK
  <2>1. 0 \in 0 .. MaxTicket
    BY AdmissionAssumption
  <2>2. pc \in [Proc -> States] /\ seq \in [Proc -> 0 .. MaxTicket]
    BY <2>1 DEF Init, States
  <2>3. record \in [Tickets -> RecordStates] /\ group \in [Tickets -> GroupStates]
    BY DEF Init, RecordStates, GroupStates
  <2>4. todo \in SUBSET Tickets
    BY DEF Init
  <2> QED
    BY <2>1, <2>2, <2>3, <2>4, NoEntryTyped DEF Init, TypeOK
<1>2. ControlInv /\ TicketsInv
  BY AdmissionAssumption
  DEF Init, ControlInv, TicketsInv, InControl, Registered, Queued, Admitted, Dropping
<1>3. OwnerInv /\ GroupInv
  BY DEF Init, OwnerInv, GroupInv, Registered, Queued, Admitted, Dropping
<1>4. OrderInv /\ ScanInv
  BY DEF Init, OrderInv, ScanInv
<1> QED
  BY <1>1, <1>2, <1>3, <1>4 DEF IInv

\* Every step of the specification preserves the invariant.
LEMMA Inductive == IInv /\ [Next]_vars => IInv'
<1> SUFFICES ASSUME IInv, [Next]_vars PROVE IInv'
  OBVIOUS
<1>1. ASSUME NEW p \in Proc, Acquire(p) PROVE IInv'
  BY <1>1, AcquireStep
<1>2. ASSUME NEW p \in Proc, Supervise(p) PROVE IInv'
  BY <1>2, SuperviseStep
<1>3. ASSUME NEW p \in Proc, Drop(p) PROVE IInv'
  BY <1>3, DropStep
<1>4. ASSUME NEW p \in Proc, Cancel(p) \/ FileError(p) PROVE IInv'
  BY <1>4, RefuseStep DEF Cancel, FileError, Enrolling, Queued, InControl
<1>5. ASSUME NEW p \in Proc, Crash(p) PROVE IInv'
  BY <1>5, LoseHandlesStep
<1>6. ASSUME NEW t \in Tickets, Children(t) \/ ClearOrphan(t) PROVE IInv'
  BY <1>6, ChildrenStep
<1>7. CASE UNCHANGED vars
  BY <1>7, StutterStep
<1> USE AdmissionAssumption
        DEF IInv, TypeOK, ControlInv, TicketsInv, OwnerInv, GroupInv, OrderInv,
            ScanInv, Tickets, RecordStates, GroupStates, Enrolling, Queued,
            Admitted, Dropping, InControl, Registered, States, NoEntry, disk, scan,
            Goto, Write, SetGuard
<1>8. ASSUME NEW p \in Proc, Request(p) PROVE IInv'
  BY <1>8 DEF Request
<1>9. ASSUME NEW p \in Proc, Expire(p) PROVE IInv'
  BY <1>9 DEF Expire
<1>10. ASSUME NEW p \in Proc, Complete(p) PROVE IInv'
  BY <1>10 DEF Complete
<1>11. ASSUME NEW p \in Proc, Restart(p) PROVE IInv'
  BY <1>11 DEF Restart
<1> QED
  BY <1>1, <1>2, <1>3, <1>4, <1>5, <1>6, <1>7, <1>8, <1>9, <1>10, <1>11 DEF Next

(***************************************************************************)
(* The theorems.                                                           *)
(***************************************************************************)
\* The inductive invariant of coordination.rs holds in every reachable state.
THEOREM Invariance == Spec => []IInv
  BY Initially, Inductive, PTL DEF Spec

\* Every variable keeps its type, the ticket counter its bound.
THEOREM TypeCorrect == Spec => []TypeOK
<1>1. IInv => TypeOK
  BY DEF IInv
<1> QED
  BY <1>1, Invariance, PTL

\* Whatever works under a ticket is recorded as running on disk.
LEMMA IInvRecordsWork == IInv => WorkIsRecorded
  BY DEF IInv, OwnerInv, GroupInv, WorkIsRecorded, Working

\* Two reservations never work at the same time, a dead owner's children
\* included: only one record is running, and all work is recorded.
THEOREM NoOverlapTheorem == Spec => []NoOverlap
<1>1. IInv => NoOverlap
  <2> SUFFICES ASSUME IInv, NEW t \in Tickets, NEW u \in Tickets,
                      Working(t), Working(u)
               PROVE  t = u
    BY DEF NoOverlap
  <2>1. record[t] = "running" /\ record[u] = "running"
    BY IInvRecordsWork DEF WorkIsRecorded
  <2>2. ~(t < u) /\ ~(u < t)
    BY <2>1 DEF IInv, OrderInv
  <2> QED
    BY <2>2, AdmissionAssumption DEF Tickets
<1> QED
  BY <1>1, Invariance, PTL

\* Work, inherited admissions included, never outlives the running record.
THEOREM WorkIsRecordedTheorem == Spec => []WorkIsRecorded
  BY IInvRecordsWork, Invariance, PTL

\* A live owner holds its guard from registration to the end of its cleanup.
THEOREM LiveTicketGuardedTheorem == Spec => []LiveTicketGuarded
<1>1. IInv => LiveTicketGuarded
  BY DEF IInv, OwnerInv, LiveTicketGuarded
<1> QED
  BY <1>1, Invariance, PTL

\* No scan ever prunes the ticket of a live waiter.
THEOREM LiveWaiterKeepsTicketTheorem == Spec => []LiveWaiterKeepsTicket
<1>1. IInv => LiveWaiterKeepsTicket
  BY DEF IInv, OwnerInv, LiveWaiterKeepsTicket
<1> QED
  BY <1>1, Invariance, PTL

(***************************************************************************)
(* Admission implements the ticket lock AdmissionQueue: every step either  *)
(* moves one ticket forward or leaves every ticket where it was.           *)
(***************************************************************************)
\* The status of one ticket, by cases.
LEMMA StatusOf ==
  ASSUME TypeOK, NEW t \in Tickets
  PROVE  /\ record[t] = "running" => TicketStatus[t] = "owner"
         /\ record[t] \in {"torn", "waiting"} => TicketStatus[t] = "queued"
         /\ record[t] = "absent" /\ (t > counter \/ Drawing(t)) => TicketStatus[t] = "unused"
         /\ record[t] = "absent" /\ ~(t > counter \/ Drawing(t)) => TicketStatus[t] = "gone"
  BY DEF TypeOK, RecordStates, TicketStatus, LifeOf

\* Only the newest number can be in flight, and it has no record yet.
LEMMA DrawingIsNewest ==
  ASSUME IInv, NEW t \in Tickets, Drawing(t)
  PROVE  t = counter /\ record[t] = "absent"
  BY DEF IInv, TicketsInv, Drawing

\* Two states that agree on records, counter and numbers in flight agree on
\* the life of every ticket.
LEMMA SameStatus ==
  ASSUME UNCHANGED <<record, counter>>, \A t \in Tickets : Drawing(t)' <=> Drawing(t)
  PROVE  UNCHANGED TicketStatus
<1>1. \A t \in Tickets : LifeOf(t)' = LifeOf(t)
  BY DEF LifeOf
<1> QED
  BY <1>1 DEF TicketStatus

\* The mapping is a function of the tickets, so it may be compared pointwise.
LEMMA StatusMoves ==
  ASSUME NEW t \in Tickets, NEW v, TicketStatus'[t] = v,
         \A u \in Tickets : u # t => TicketStatus'[u] = TicketStatus[u]
  PROVE  TicketStatus' = [TicketStatus EXCEPT ![t] = v]
<1>1. TicketStatus = [u \in Tickets |-> TicketStatus[u]]
  BY DEF TicketStatus
<1>2. TicketStatus' = [u \in Tickets |-> TicketStatus'[u]]
  BY DEF TicketStatus
<1> QED
  BY <1>1, <1>2

\* A ticket whose record, number and flight do not change keeps its status.
LEMMA SameTicket ==
  ASSUME NEW u \in Tickets, record'[u] = record[u], u > counter' <=> u > counter,
         Drawing(u)' <=> Drawing(u)
  PROVE  TicketStatus'[u] = TicketStatus[u]
<1>1. LifeOf(u)' = LifeOf(u)
  BY DEF LifeOf
<1> QED
  BY <1>1 DEF TicketStatus

\* Which numbers are in flight depends on the processes in state "ticket" only.
LEMMA SameDrawing ==
  ASSUME NEW p \in Proc, pc[p] # "ticket", pc'[p] # "ticket",
         \A q \in Proc : q # p => pc'[q] = pc[q] /\ seq'[q] = seq[q]
  PROVE  \A t \in Tickets : Drawing(t)' <=> Drawing(t)
  BY DEF Drawing

\* A step of one process, not drawing a number, that leaves the files alone.
LEMMA QuietStep ==
  ASSUME NEW p \in Proc, UNCHANGED <<record, counter>>,
         pc[p] # "ticket", pc'[p] # "ticket",
         \A q \in Proc : q # p => pc'[q] = pc[q] /\ seq'[q] = seq[q]
  PROVE  UNCHANGED TicketStatus
  BY SameDrawing, SameStatus

\* A step of one process, not drawing a number, that rewrites one record.
LEMMA RewriteStep ==
  ASSUME IInv, NEW p \in Proc, NEW t \in Tickets, NEW s \in RecordStates,
         Write(t, s), UNCHANGED counter, pc[p] # "ticket", pc'[p] # "ticket",
         \A q \in Proc : q # p => pc'[q] = pc[q] /\ seq'[q] = seq[q]
  PROVE  /\ record'[t] = s
         /\ \A u \in Tickets : Drawing(u)' <=> Drawing(u)
         /\ \A u \in Tickets : u # t => TicketStatus'[u] = TicketStatus[u]
<1>1. record'[t] = s /\ \A u \in Tickets : u # t => record'[u] = record[u]
  BY DEF IInv, TypeOK, Write
<1>2. \A u \in Tickets : Drawing(u)' <=> Drawing(u)
  BY SameDrawing
<1> QED
  BY <1>1, <1>2, SameTicket

(***************************************************************************)
(* The steps that move a ticket.                                           *)
(***************************************************************************)
\* Drawing a number moves no ticket: it was unused and is now in flight.
LEMMA DrawStep ==
  ASSUME IInv, NEW p \in Proc, WriteCounter(p)
  PROVE  UNCHANGED TicketStatus
<1>1. PICK n \in Tickets : n = counter + 1
  BY AdmissionAssumption DEF IInv, TypeOK, TicketsInv, WriteCounter, Goto, Tickets
<1>2. /\ counter' = n /\ counter \in Nat /\ UNCHANGED record
      /\ pc[p] = "counted" /\ pc'[p] = "ticket" /\ seq'[p] = n
      /\ \A q \in Proc : q # p => pc'[q] = pc[q] /\ seq'[q] = seq[q]
  BY <1>1, AdmissionAssumption DEF IInv, TypeOK, WriteCounter, Goto
<1>3. record[n] = "absent"
  BY <1>1, <1>2 DEF IInv, TicketsInv
<1>4. Drawing(n)' /\ \A u \in Tickets : u # n => (Drawing(u)' <=> Drawing(u))
  BY <1>2 DEF Drawing
<1>5. ASSUME NEW u \in Tickets PROVE LifeOf(u)' = LifeOf(u)
  <2>1. CASE u = n
    BY <1>1, <1>2, <1>3, <1>4, <2>1 DEF LifeOf
  <2>2. CASE u # n
    <3>1. u > counter' <=> u > counter
      BY <1>1, <1>2, <2>2 DEF Tickets
    <3> QED
      BY <1>2, <1>4, <2>2, <3>1 DEF LifeOf
  <2> QED
    BY <2>1, <2>2
<1> QED
  BY <1>5 DEF TicketStatus

\* Every number below the one in flight is used, every number above is not.
LEMMA AroundTheNewest ==
  ASSUME IInv, NEW t \in Tickets, Drawing(t)
  PROVE  /\ TicketStatus[t] = "unused"
         /\ \A u \in Tickets : u < t => TicketStatus[u] # "unused"
         /\ \A u \in Tickets : u > t => TicketStatus[u] = "unused"
<1>1. t = counter /\ record[t] = "absent"
  BY DrawingIsNewest
<1>2. TicketStatus[t] = "unused"
  BY <1>1, StatusOf DEF IInv
<1>3. ASSUME NEW u \in Tickets, u < t PROVE TicketStatus[u] # "unused"
  <2>1. ~Drawing(u) /\ ~(u > counter)
    BY <1>1, <1>3, DrawingIsNewest, AdmissionAssumption DEF IInv, TypeOK, Tickets
  <2>2. record[u] \in RecordStates
    BY DEF IInv, TypeOK
  <2> QED
    BY <2>1, <2>2, StatusOf DEF IInv, RecordStates
<1>4. ASSUME NEW u \in Tickets, u > t PROVE TicketStatus[u] = "unused"
  BY <1>1, <1>4, StatusOf DEF IInv, TicketsInv
<1> QED
  BY <1>2, <1>3, <1>4

\* Opening the ticket's record puts it at the back of the queue.
LEMMA EnterStep ==
  ASSUME IInv, IInv', NEW p \in Proc, OpenTicket(p)
  PROVE  Queue!Next
<1>0. PICK t \in Tickets : t = seq[p]
  BY AdmissionAssumption DEF IInv, TypeOK, TicketsInv, OpenTicket, Goto, Tickets
<1>1. t \in Tickets /\ Drawing(t) /\ pc[p] = "ticket"
  BY <1>0 DEF OpenTicket, Goto, Drawing
<1>2. /\ pc'[p] = "register" /\ Write(t, "torn") /\ UNCHANGED counter
      /\ \A q \in Proc : q # p => pc'[q] = pc[q] /\ seq'[q] = seq[q]
  BY <1>0 DEF IInv, TypeOK, OpenTicket, Goto
<1>3. record'[t] = "torn" /\ \A u \in Tickets : u # t => record'[u] = record[u]
  BY <1>1, <1>2 DEF IInv, TypeOK, Write
<1>4. \A u \in Tickets : u # t => (Drawing(u)' <=> Drawing(u))
  BY <1>0, <1>2 DEF Drawing
<1>5. TicketStatus'[t] = "queued"
  <2>1. LifeOf(t)' = "queued"
    BY <1>3 DEF LifeOf
  <2> QED
    BY <1>1, <2>1 DEF TicketStatus
<1>6. \A u \in Tickets : u # t => TicketStatus'[u] = TicketStatus[u]
  BY <1>2, <1>3, <1>4, SameTicket
<1>7. TicketStatus' = [TicketStatus EXCEPT ![t] = "queued"]
  BY <1>1, <1>5, <1>6, StatusMoves
<1>8. Queue!Enter(t)
  BY <1>1, <1>7, AroundTheNewest DEF Queue!Enter, Queue!Become, Queue!Tickets, Tickets
<1> QED
  BY <1>1, <1>8 DEF Queue!Next, Queue!Tickets, Tickets

\* Whoever removes the record of a used number finishes that ticket.
LEMMA RemoveStep ==
  ASSUME IInv, NEW t \in Tickets, Write(t, "absent"), UNCHANGED counter,
         t <= counter, ~Drawing(t), \A u \in Tickets : Drawing(u)' <=> Drawing(u)
  PROVE  Queue!Next \/ UNCHANGED TicketStatus
<1>1. record'[t] = "absent" /\ \A u \in Tickets : u # t => record'[u] = record[u]
  BY DEF IInv, TypeOK, Write
<1>2. TicketStatus'[t] = "gone"
  <2>1. LifeOf(t)' = "gone"
    BY <1>1, AdmissionAssumption DEF LifeOf, IInv, TypeOK, Tickets
  <2> QED
    BY <2>1 DEF TicketStatus
<1>3. \A u \in Tickets : u # t => TicketStatus'[u] = TicketStatus[u]
  BY <1>1, SameTicket
<1>4. TicketStatus' = [TicketStatus EXCEPT ![t] = "gone"]
  BY <1>2, <1>3, StatusMoves
<1>5. CASE record[t] = "absent"
  <2>1. TicketStatus[t] = "gone"
    BY <1>5, StatusOf, AdmissionAssumption DEF IInv, TypeOK, Tickets
  <2> QED
    BY <1>4, <2>1 DEF TicketStatus
<1>6. CASE record[t] # "absent"
  <2>1. TicketStatus[t] \in {"queued", "owner"}
    BY <1>6, StatusOf DEF IInv, TypeOK, RecordStates
  <2>2. Queue!Leave(t)
    BY <1>4, <2>1 DEF Queue!Leave, Queue!Become
  <2> QED
    BY <2>2 DEF Queue!Next, Queue!Tickets, Tickets
<1> QED
  BY <1>5, <1>6

\* Admission is the abstract admission: every lower number is finished with.
LEMMA AdmitStep ==
  ASSUME IInv, NEW p \in Proc, Admit(p)
  PROVE  Queue!Next
<1>1. PICK t \in Tickets : t = seq[p]
  BY AdmissionAssumption
  DEF IInv, TypeOK, TicketsInv, Admit, Goto, Tickets, Registered, Queued
<1>2. /\ pc[p] = "admit" /\ pc'[p] = "held" /\ Write(t, "running") /\ UNCHANGED counter
      /\ \A q \in Proc : q # p => pc'[q] = pc[q] /\ seq'[q] = seq[q]
  BY <1>1 DEF IInv, TypeOK, Admit, Goto
<1>3. record'[t] = "running" /\ \A u \in Tickets : u # t => TicketStatus'[u] = TicketStatus[u]
  BY <1>2, RewriteStep DEF RecordStates
<1>4. TicketStatus'[t] = "owner"
  <2>1. LifeOf(t)' = "owner"
    BY <1>3 DEF LifeOf
  <2> QED
    BY <2>1 DEF TicketStatus
<1>5. TicketStatus[t] = "queued"
  BY <1>1, <1>2, StatusOf DEF IInv, OwnerInv
<1>6. ASSUME NEW u \in Tickets, u < t PROVE TicketStatus[u] = "gone"
  <2>1. record[u] = "absent"
    BY <1>1, <1>2, <1>6 DEF IInv, OrderInv
  <2>2. ~(u > counter) /\ ~Drawing(u)
    <3>1. t <= counter
      BY <1>1 DEF IInv, TicketsInv
    <3>2. ~Drawing(u)
      BY <3>1, <1>6, DrawingIsNewest, AdmissionAssumption DEF IInv, TypeOK, Tickets
    <3> QED
      BY <3>1, <3>2, <1>6, AdmissionAssumption DEF IInv, TypeOK, Tickets
  <2> QED
    BY <2>1, <2>2, StatusOf DEF IInv
<1>7. TicketStatus' = [TicketStatus EXCEPT ![t] = "owner"]
  BY <1>3, <1>4, StatusMoves
<1>8. Queue!Admit(t)
  BY <1>5, <1>6, <1>7 DEF Queue!Admit, Queue!Become, Queue!Tickets, Tickets
<1> QED
  BY <1>8 DEF Queue!Next, Queue!Tickets, Tickets

\* A process that leaves, by an error or a crash, loses the number it was
\* drawing and moves no other ticket.
LEMMA LeaveStep ==
  ASSUME IInv, NEW p \in Proc, UNCHANGED <<record, counter>>, pc'[p] # "ticket",
         \A q \in Proc : q # p => pc'[q] = pc[q] /\ seq'[q] = seq[q]
  PROVE  Queue!Next \/ UNCHANGED TicketStatus
<1>1. CASE pc[p] # "ticket"
  BY <1>1, QuietStep
<1>2. CASE pc[p] = "ticket"
  <2>1. PICK t \in Tickets : t = seq[p]
    BY <1>2, AdmissionAssumption DEF IInv, TypeOK, TicketsInv, Tickets
  <2>2. Drawing(t)
    BY <1>2, <2>1 DEF Drawing
  <2>3. ~Drawing(t)' /\ \A u \in Tickets : u # t => (Drawing(u)' <=> Drawing(u))
    <3>1. seq[p] # 0
      BY <2>1, AdmissionAssumption DEF Tickets
    <3>2. \A q \in Proc : q # p => seq[q] # t
      BY <2>1, <3>1 DEF IInv, TicketsInv
    <3> QED
      BY <1>2, <2>1, <3>2 DEF Drawing
  <2>4. TicketStatus'[t] = "gone"
    <3>1. t = counter /\ record[t] = "absent"
      BY <2>2, DrawingIsNewest
    <3>2. LifeOf(t)' = "gone"
      BY <2>3, <3>1 DEF LifeOf, Tickets
    <3> QED
      BY <3>2 DEF TicketStatus
  <2>5. \A u \in Tickets : u # t => TicketStatus'[u] = TicketStatus[u]
    BY <2>3, SameTicket
  <2>6. TicketStatus' = [TicketStatus EXCEPT ![t] = "gone"]
    BY <2>4, <2>5, StatusMoves
  <2>7. Queue!Lose(t)
    BY <2>2, <2>6, AroundTheNewest DEF Queue!Lose, Queue!Become, Queue!Tickets, Tickets
  <2> QED
    BY <2>7 DEF Queue!Next, Queue!Tickets, Tickets
<1> QED
  BY <1>1, <1>2

(***************************************************************************)
(* Every step of Admission, and the refinement.                            *)
(***************************************************************************)
\* What an action of one process does to the others: nothing.
LEMMA QueueStep ==
  ASSUME IInv, IInv', [Next]_vars
  PROVE  Queue!Next \/ UNCHANGED TicketStatus
<1> USE DEF IInv, TypeOK
<1>1. ASSUME NEW p \in Proc,
             \/ Request(p) \/ Complete(p) \/ Restart(p)
             \/ LockControl(p) \/ TruncateCounter(p) \/ OwnerAlive(p) \/ OwnerGone(p)
             \/ Wait(p) \/ WakeUp(p) \/ Abandon(p) \/ DropLock(p) \/ DropClose(p)
      PROVE  UNCHANGED TicketStatus
  <2>1. /\ UNCHANGED <<record, counter>> /\ pc[p] # "ticket" /\ pc'[p] # "ticket"
        /\ \A q \in Proc : q # p => pc'[q] = pc[q] /\ seq'[q] = seq[q]
    BY <1>1 DEF Request, Complete, Restart, LockControl, TruncateCounter,
       OwnerAlive, OwnerGone, Wait, WakeUp, Abandon, DropLock, DropClose, Goto, disk
  <2> QED
    BY <2>1, QuietStep
<1>2. ASSUME NEW p \in Proc,
             \/ ControlTimeout(p) \/ NoTicket(p) \/ OrphanFound(p) \/ QueueTimeout(p)
             \/ Cancel(p) \/ FileError(p) \/ Crash(p) \/ DropFails(p)
             \/ \E t \in Tickets : UnreadableTicket(p, t)
      PROVE  Queue!Next \/ UNCHANGED TicketStatus
  <2>1. /\ UNCHANGED <<record, counter>> /\ pc'[p] # "ticket"
        /\ \A q \in Proc : q # p => pc'[q] = pc[q] /\ seq'[q] = seq[q]
    BY <1>2 DEF ControlTimeout, NoTicket, OrphanFound, QueueTimeout, Cancel,
       FileError, UnreadableTicket, Refuse, Crash, DropFails, disk
  <2> QED
    BY <2>1, LeaveStep
<1>3. ASSUME NEW p \in Proc, WriteCounter(p) PROVE UNCHANGED TicketStatus
  BY <1>3, DrawStep
<1>4. ASSUME NEW p \in Proc, OpenTicket(p) PROVE Queue!Next
  BY <1>4, EnterStep
<1>5. ASSUME NEW p \in Proc, Admit(p) PROVE Queue!Next
  BY <1>5, AdmitStep
<1>6. ASSUME NEW p \in Proc, Register(p) \/ TruncateRecord(p)
      PROVE  UNCHANGED TicketStatus
  <2>1. PICK t \in Tickets, s \in {"waiting", "torn"} :
          /\ t = seq[p] /\ Write(t, s) /\ record[t] \in {"waiting", "torn"}
    BY <1>6, AdmissionAssumption
    DEF Register, TruncateRecord, Goto, OwnerInv, TicketsInv, Tickets, Registered, Queued
  <2>2. /\ UNCHANGED counter /\ pc[p] # "ticket" /\ pc'[p] # "ticket"
        /\ \A q \in Proc : q # p => pc'[q] = pc[q] /\ seq'[q] = seq[q]
    BY <1>6 DEF Register, TruncateRecord, Goto
  <2>3. record'[t] = s /\ \A u \in Tickets : u # t => TicketStatus'[u] = TicketStatus[u]
    BY <2>1, <2>2, RewriteStep DEF RecordStates
  <2>4. LifeOf(t)' = "queued"
    BY <2>1, <2>3 DEF LifeOf
  <2>5. TicketStatus'[t] = "queued"
    BY <2>4 DEF TicketStatus
  <2>6. TicketStatus[t] = "queued"
    BY <2>1, StatusOf
  <2>7. TicketStatus' = [TicketStatus EXCEPT ![t] = "queued"]
    BY <2>3, <2>5, StatusMoves
  <2> QED
    BY <2>6, <2>7 DEF TicketStatus
<1>7. ASSUME NEW p \in Proc, SkipDeadTicket(p) \/ DropRemove(p)
      PROVE  Queue!Next \/ UNCHANGED TicketStatus
  <2>1. /\ UNCHANGED counter /\ pc[p] # "ticket" /\ pc'[p] # "ticket"
        /\ \A q \in Proc : q # p => pc'[q] = pc[q] /\ seq'[q] = seq[q]
    BY <1>7 DEF SkipDeadTicket, DropRemove, Goto
  <2>2. PICK t \in Tickets : Write(t, "absent") /\ t <= counter
    <3>1. CASE SkipDeadTicket(p)
      <4>1. /\ entry.ticket \in Tickets /\ entry.ticket < seq[p] /\ seq[p] <= counter
            /\ Write(entry.ticket, "absent")
        BY <3>1 DEF SkipDeadTicket, Goto, ScanInv, TicketsInv
      <4> QED
        BY <4>1, AdmissionAssumption DEF Tickets
    <3>2. CASE DropRemove(p)
      BY <3>2, AdmissionAssumption
      DEF DropRemove, Goto, TicketsInv, Tickets, Registered, Dropping
    <3> QED
      BY <1>7, <3>1, <3>2
  <2>3. ~Drawing(t)
    <3>1. pc[p] \in InControl
      BY <1>7 DEF SkipDeadTicket, DropRemove, Goto, InControl
    <3>2. \A q \in Proc : pc[q] # "ticket"
      BY <2>1, <3>1 DEF ControlInv, InControl
    <3> QED
      BY <3>2 DEF Drawing
  <2> QED
    BY <2>1, <2>2, <2>3, SameDrawing, RemoveStep
<1>8. ASSUME NEW t \in Tickets, Children(t)
      PROVE  UNCHANGED TicketStatus
  <2>1. UNCHANGED <<record, counter, pc, seq>>
    BY <1>8 DEF Children, GroupExits, ProbeLease, Inherit, ProbeGuard, ProbeEnds, disk
  <2> QED
    BY <2>1, SameStatus DEF Drawing
<1>9. ASSUME NEW t \in Tickets, ClearOrphan(t)
      PROVE  Queue!Next \/ UNCHANGED TicketStatus
  <2>1. /\ Write(t, "absent") /\ UNCHANGED <<counter, pc, seq>> /\ record[t] = "running"
    BY <1>9 DEF ClearOrphan
  <2>2. t <= counter /\ ~Drawing(t)
    BY <2>1, DrawingIsNewest, AdmissionAssumption DEF TicketsInv, Tickets
  <2>3. \A u \in Tickets : Drawing(u)' <=> Drawing(u)
    BY <2>1 DEF Drawing
  <2> QED
    BY <2>1, <2>2, <2>3, RemoveStep
<1>10. ASSUME NEW p \in Proc,
              Supervise(p) \/ \E t \in Tickets : ReadTicket(p, t)
       PROVE  UNCHANGED TicketStatus
  <2>1. UNCHANGED <<record, counter>>
    BY <1>10 DEF Supervise, Launch, Spawn, SpawnFails, Reaped, SuperviseFails,
       ReadTicket, disk
  <2>2. pc[p] # "ticket" /\ pc'[p] # "ticket"
    BY <1>10 DEF Supervise, Launch, Spawn, SpawnFails, Reaped, SuperviseFails,
       ReadTicket, Goto
  <2>3. \A q \in Proc : q # p => pc'[q] = pc[q] /\ seq'[q] = seq[q]
    BY <1>10 DEF Supervise, Launch, Spawn, SpawnFails, Reaped, SuperviseFails,
       ReadTicket, Goto
  <2> QED
    BY <2>1, <2>2, <2>3, QuietStep
<1>11. ASSUME UNCHANGED vars \/ \E p \in Proc : Expire(p)
       PROVE  UNCHANGED TicketStatus
  <2>1. UNCHANGED <<record, counter, pc, seq>>
    BY <1>11 DEF vars, disk, Expire
  <2> QED
    BY <2>1, SameStatus DEF Drawing
<1> QED
  BY <1>1, <1>2, <1>3, <1>4, <1>5, <1>6, <1>7, <1>8, <1>9, <1>10, <1>11
  DEF Next, Acquire, Drop

\* Admission implements the abstract ticket lock: no newcomer overtakes a
\* waiter and nobody is admitted past an owner, alive or orphaned.
THEOREM Refinement == Spec => ImplementsQueue
<1>1. Init => Queue!Init
  <2> SUFFICES ASSUME Init PROVE TicketStatus = [t \in Tickets |-> "unused"]
    BY DEF Queue!Init, Queue!Tickets, Tickets
  <2>1. ASSUME NEW t \in Tickets PROVE LifeOf(t) = "unused"
    BY AdmissionAssumption DEF Init, LifeOf, Tickets
  <2> QED
    BY <2>1 DEF TicketStatus
<1>2. IInv /\ IInv' /\ [Next]_vars => [Queue!Next]_TicketStatus
  BY QueueStep
<1> QED
  BY <1>1, <1>2, Invariance, PTL DEF Spec, ImplementsQueue, Queue!Spec
=============================================================================
