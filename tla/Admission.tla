------------------------------ MODULE Admission ------------------------------
(***************************************************************************)
(* Cooperative FIFO admission: src/src/coordination.rs.                    *)
(*                                                                         *)
(* Processes share a directory holding a control lock (queue.lock), a      *)
(* counter (sequence) and, for each ticket t, a record (t.json) and a lock *)
(* its owner keeps for as long as it lives (t.guard).  Every step below is *)
(* at most one change of a shared file or lock, so a crash or a file error *)
(* may fall between any two of them.  A write is two steps, truncate and   *)
(* fill, because fs::write is not atomic.                                  *)
(***************************************************************************)
EXTENDS Naturals

CONSTANTS
  Proc,         \* processes that ask for admission
  MaxTicket,    \* the last sequence number; stands for u64::MAX
  Free,         \* a lock nobody holds
  Observer      \* a queued_pids scan or an inheriting child probing a guard

Tickets == 1 .. MaxTicket

ASSUME AdmissionAssumption ==
  /\ MaxTicket \in Nat \ {0}
  /\ Free \notin Proc /\ Observer \notin Proc /\ Free # Observer

VARIABLES
  control,      \* who holds queue.lock
  counter,      \* the number in the file sequence, 0 while it does not exist
  torn,         \* the counter file is truncated and not yet written
  record,       \* the state of each t.json
  guard,        \* who holds the lock on each t.guard
  group,        \* the process group launched under each reservation
  pc, seq, retain, expired,     \* locals of each process
  todo, entry, blocked          \* locals of the scan, held with control

disk == <<counter, torn, record>>
scan == <<todo, entry, blocked>>
vars == <<control, disk, guard, group, pc, seq, retain, expired, scan>>

RecordStates == {"absent", "torn", "waiting", "running"}
GroupStates  == {"none", "spawned", "probed", "inherited"}

NoEntry == [ticket |-> 0, running |-> FALSE]

\* Where a process is.  It holds queue.lock exactly in the InControl states.
Enrolling  == {"enroll", "count", "counted", "ticket", "register"}
Queued     == {"queue", "scan", "probe", "judge", "admit", "wait"}
Admitted   == {"held", "spawn", "supervise"}
Dropping   == {"drop", "remove", "close"}
InControl  == {"count", "counted", "ticket", "register", "scan", "probe",
               "judge", "admit", "remove", "close"}
Registered == Queued \cup Admitted \cup Dropping
States     == {"idle", "dead"} \cup Enrolling \cup Registered

TypeOK ==
  /\ control \in Proc \cup {Free}
  /\ counter \in 0 .. MaxTicket
  /\ torn \in BOOLEAN
  /\ record \in [Tickets -> RecordStates]
  /\ guard \in [Tickets -> Proc \cup {Free, Observer}]
  /\ group \in [Tickets -> GroupStates]
  /\ pc \in [Proc -> States]
  /\ seq \in [Proc -> 0 .. MaxTicket]
  /\ retain \in [Proc -> BOOLEAN]
  /\ expired \in [Proc -> BOOLEAN]
  /\ todo \in SUBSET Tickets
  /\ entry \in [ticket : 0 .. MaxTicket, running : BOOLEAN]
  /\ blocked \in BOOLEAN

Init ==
  /\ control = Free
  /\ counter = 0
  /\ torn = FALSE
  /\ record = [t \in Tickets |-> "absent"]
  /\ guard = [t \in Tickets |-> Free]
  /\ group = [t \in Tickets |-> "none"]
  /\ pc = [p \in Proc |-> "idle"]
  /\ seq = [p \in Proc |-> 0]
  /\ retain = [p \in Proc |-> FALSE]
  /\ expired = [p \in Proc |-> FALSE]
  /\ todo = {}
  /\ entry = NoEntry
  /\ blocked = FALSE

-----------------------------------------------------------------------------
Goto(p, from, to) == pc[p] = from /\ pc' = [pc EXCEPT ![p] = to]

Write(t, s) == record' = [record EXCEPT ![t] = s]

SetGuard(t, h) == guard' = [guard EXCEPT ![t] = h]

EndScan == todo' = {} /\ entry' = NoEntry /\ blocked' = FALSE

\* All file handles of a process close: the kernel drops its locks.
CloseAll(p) ==
  /\ control' = IF control = p THEN Free ELSE control
  /\ guard' = [t \in Tickets |-> IF guard[t] = p THEN Free ELSE guard[t]]
  /\ IF control = p THEN EndScan ELSE UNCHANGED scan

\* at_controlled returns Err.  The control handle closes before the
\* reservation is dropped, and only a registered reservation has a guard,
\* hence something to clean up.
Refuse(p) ==
  /\ IF pc[p] \in Registered
       THEN /\ pc' = [pc EXCEPT ![p] = "drop"]
            /\ control' = IF control = p THEN Free ELSE control
            /\ guard' = [t \in Tickets |->
                           IF guard[t] = p /\ t # seq[p] THEN Free ELSE guard[t]]
            /\ IF control = p THEN EndScan ELSE UNCHANGED scan
            /\ UNCHANGED seq
       ELSE /\ pc' = [pc EXCEPT ![p] = "idle"]
            /\ seq' = [seq EXCEPT ![p] = 0]
            /\ CloseAll(p)
  /\ UNCHANGED <<disk, group, retain, expired>>

-----------------------------------------------------------------------------
(* Faulty variants of actions below, which Next does not use: putting one  *)
(* in the place of its action must break the property it is named beside.  *)

\* NoOverlap: a dead owner's ticket is pruned even when it was running.
PruneAnyDeadTicket(p) ==
  /\ Goto(p, "judge", "scan")
  /\ Write(entry.ticket, "absent")
  /\ SetGuard(entry.ticket, Free)
  /\ entry' = NoEntry
  /\ UNCHANGED <<control, counter, torn, group, seq, retain, expired, todo, blocked>>

\* WorkIsRecorded: the leader's exit is taken for the whole group's.
ReapedByLeaderExit(p) ==
  /\ Goto(p, "supervise", "held")
  /\ retain' = [retain EXCEPT ![p] = FALSE]
  /\ UNCHANGED <<control, disk, guard, group, seq, expired, scan>>

\* ImplementsQueue: only running tickets are looked at, not earlier waiters.
ReadRunningTicket(p, t) ==
  /\ pc[p] = "scan"
  /\ t \in todo
  /\ record[t] # "torn"
  /\ todo' = todo \ {t}
  /\ IF record[t] # "running" \/ t >= seq[p]
       THEN UNCHANGED <<pc, entry>>
       ELSE /\ pc' = [pc EXCEPT ![p] = "probe"]
            /\ entry' = [ticket |-> t, running |-> TRUE]
  /\ UNCHANGED <<control, disk, guard, group, seq, retain, expired, blocked>>

\* RequestAnswered: the queue's own deadline is never looked at.
WakeUpAnyway(p) ==
  /\ Goto(p, "wait", "queue")
  /\ UNCHANGED <<control, disk, guard, group, seq, retain, expired, scan>>

-----------------------------------------------------------------------------
(* Acquiring a reservation: at_controlled and lock_controlled.             *)

Request(p) ==
  /\ Goto(p, "idle", "enroll")
  /\ expired' = [expired EXCEPT ![p] = FALSE]
  /\ UNCHANGED <<control, disk, guard, group, seq, retain, scan>>

\* Time passes: the admission deadline of a process is behind it.
Expire(p) ==
  /\ pc[p] \in Enrolling \cup Queued
  /\ expired' = [expired EXCEPT ![p] = TRUE]
  /\ UNCHANGED <<control, disk, guard, group, pc, seq, retain, scan>>

\* A successful try_lock of queue.lock; a queued process then lists *.json.
LockControl(p) ==
  /\ control = Free
  /\ control' = p
  /\ \/ Goto(p, "enroll", "count") /\ UNCHANGED scan
     \/ /\ Goto(p, "queue", "scan")
        /\ todo' = {t \in Tickets : record[t] # "absent"}
        /\ UNCHANGED <<entry, blocked>>
  /\ UNCHANGED <<disk, guard, group, seq, retain, expired>>

\* The control lock is busy and the deadline has passed.
ControlTimeout(p) ==
  /\ pc[p] \in {"enroll", "queue"}
  /\ control # Free
  /\ expired[p]
  /\ Refuse(p)

\* The caller's poll cancels the wait.
Cancel(p) == pc[p] \in {"enroll", "queue"} /\ Refuse(p)

\* The counter does not parse, or checked_add overflows.
NoTicket(p) ==
  /\ pc[p] = "count"
  /\ torn \/ counter = MaxTicket
  /\ Refuse(p)

TruncateCounter(p) ==
  /\ Goto(p, "count", "counted")
  /\ ~torn /\ counter < MaxTicket
  /\ torn' = TRUE
  /\ UNCHANGED <<control, counter, record, guard, group, seq, retain, expired, scan>>

WriteCounter(p) ==
  /\ Goto(p, "counted", "ticket")
  /\ counter' = counter + 1
  /\ torn' = FALSE
  /\ seq' = [seq EXCEPT ![p] = counter + 1]
  /\ UNCHANGED <<control, record, guard, group, retain, expired, scan>>

\* Lock the fresh guard, then create the record, still empty.
OpenTicket(p) ==
  /\ Goto(p, "ticket", "register")
  /\ guard[seq[p]] = Free
  /\ SetGuard(seq[p], p)
  /\ Write(seq[p], "torn")
  /\ UNCHANGED <<control, counter, torn, group, seq, retain, expired, scan>>

Register(p) ==
  /\ Goto(p, "register", "queue")
  /\ Write(seq[p], "waiting")
  /\ control' = Free
  /\ UNCHANGED <<counter, torn, guard, group, seq, retain, expired, scan>>

\* Next directory entry: gone, not ours to judge, or a lower ticket to probe.
ReadTicket(p, t) ==
  /\ pc[p] = "scan"
  /\ t \in todo
  /\ record[t] # "torn"
  /\ todo' = todo \ {t}
  /\ IF record[t] = "absent" \/ t >= seq[p]
       THEN UNCHANGED <<pc, entry>>
       ELSE /\ pc' = [pc EXCEPT ![p] = "probe"]
            /\ entry' = [ticket |-> t, running |-> record[t] = "running"]
  /\ UNCHANGED <<control, disk, guard, group, seq, retain, expired, blocked>>

\* A record that does not parse refuses whoever reads it.
UnreadableTicket(p, t) ==
  /\ pc[p] = "scan"
  /\ t \in todo
  /\ record[t] = "torn"
  /\ Refuse(p)

\* The guard is locked: its owner is taken to be alive.
OwnerAlive(p) ==
  /\ Goto(p, "probe", "scan")
  /\ guard[entry.ticket] # Free
  /\ blocked' = TRUE
  /\ entry' = NoEntry
  /\ UNCHANGED <<control, disk, guard, group, seq, retain, expired, todo>>

\* try_lock succeeds: nobody owns the ticket any more.
OwnerGone(p) ==
  /\ Goto(p, "probe", "judge")
  /\ guard[entry.ticket] = Free
  /\ SetGuard(entry.ticket, p)
  /\ UNCHANGED <<control, disk, group, seq, retain, expired, scan>>

\* A dead waiter is pruned; a running record that vanished meanwhile is
\* skipped.  The guard handle closes at the end of the iteration.
SkipDeadTicket(p) ==
  /\ Goto(p, "judge", "scan")
  /\ ~entry.running \/ record[entry.ticket] = "absent"
  /\ Write(entry.ticket, "absent")
  /\ SetGuard(entry.ticket, Free)
  /\ entry' = NoEntry
  /\ UNCHANGED <<control, counter, torn, group, seq, retain, expired, todo, blocked>>

\* Fail closed: the children of a running owner that died may still run.
OrphanFound(p) ==
  /\ pc[p] = "judge"
  /\ entry.running /\ record[entry.ticket] # "absent"
  /\ Refuse(p)

\* Every lower ticket has gone: rewrite our own record as running.
TruncateRecord(p) ==
  /\ Goto(p, "scan", "admit")
  /\ todo = {} /\ ~blocked
  /\ Write(seq[p], "torn")
  /\ UNCHANGED <<control, counter, torn, guard, group, seq, retain, expired, scan>>

Admit(p) ==
  /\ Goto(p, "admit", "held")
  /\ Write(seq[p], "running")
  /\ control' = Free
  /\ retain' = [retain EXCEPT ![p] = FALSE]
  /\ EndScan
  /\ UNCHANGED <<counter, torn, guard, group, seq, expired>>

Wait(p) ==
  /\ Goto(p, "scan", "wait")
  /\ todo = {} /\ blocked
  /\ control' = Free
  /\ EndScan
  /\ UNCHANGED <<disk, guard, group, seq, retain, expired>>

WakeUp(p) ==
  /\ Goto(p, "wait", "queue")
  /\ ~expired[p]
  /\ UNCHANGED <<control, disk, guard, group, seq, retain, expired, scan>>

QueueTimeout(p) == pc[p] = "wait" /\ expired[p] /\ Refuse(p)

-----------------------------------------------------------------------------
(* Using it: an admitted process works itself or supervises a child group. *)

\* retain_until_reaped comes before the spawn.
Launch(p) ==
  /\ Goto(p, "held", "spawn")
  /\ retain' = [retain EXCEPT ![p] = TRUE]
  /\ UNCHANGED <<control, disk, guard, group, seq, expired, scan>>

Spawn(p) ==
  /\ Goto(p, "spawn", "supervise")
  /\ group' = [group EXCEPT ![seq[p]] = "spawned"]
  /\ UNCHANGED <<control, disk, guard, seq, retain, expired, scan>>

\* A wrapper can fail after the child exists; then no handle proves cleanup.
SpawnFails(p) ==
  /\ Goto(p, "spawn", "drop")
  /\ \E g \in {"none", "spawned"} : group' = [group EXCEPT ![seq[p]] = g]
  /\ UNCHANGED <<control, disk, guard, seq, retain, expired, scan>>

\* The supervisor has seen the whole group empty.
Reaped(p) ==
  /\ Goto(p, "supervise", "held")
  /\ group[seq[p]] = "none"
  /\ retain' = [retain EXCEPT ![p] = FALSE]
  /\ UNCHANGED <<control, disk, guard, group, seq, expired, scan>>

\* Cleanup could not be verified: the launcher gives up, still retaining.
SuperviseFails(p) ==
  /\ Goto(p, "supervise", "drop")
  /\ UNCHANGED <<control, disk, guard, group, seq, retain, expired, scan>>

GroupExits(t) ==
  /\ group[t] # "none"
  /\ group' = [group EXCEPT ![t] = "none"]
  /\ UNCHANGED <<control, disk, guard, pc, seq, retain, expired, scan>>

\* A child asks for admission with the lease in its environment: its record
\* must be running and its guard held ...
ProbeLease(t) ==
  /\ group[t] = "spawned"
  /\ record[t] = "running" /\ guard[t] # Free
  /\ group' = [group EXCEPT ![t] = "probed"]
  /\ UNCHANGED <<control, disk, guard, pc, seq, retain, expired, scan>>

\* ... and then the owner must be found among its live ancestors.
Inherit(t) ==
  /\ group[t] = "probed"
  /\ group' = [group EXCEPT ![t] = IF \E p \in Proc : pc[p] \in Registered /\ seq[p] = t
                                     THEN "inherited" ELSE "spawned"]
  /\ UNCHANGED <<control, disk, guard, pc, seq, retain, expired, scan>>

\* queued_pids, or an inheriting child, holds a dead owner's guard briefly.
ProbeGuard(t) ==
  /\ record[t] \in {"waiting", "running"}
  /\ guard[t] = Free
  /\ SetGuard(t, Observer)
  /\ UNCHANGED <<control, disk, group, pc, seq, retain, expired, scan>>

ProbeEnds(t) ==
  /\ guard[t] = Observer
  /\ SetGuard(t, Free)
  /\ UNCHANGED <<control, disk, group, pc, seq, retain, expired, scan>>

-----------------------------------------------------------------------------
(* Dropping it: Drop for Reservation.                                      *)

Complete(p) ==
  /\ Goto(p, "held", "drop")
  /\ UNCHANGED <<control, disk, guard, group, seq, retain, expired, scan>>

\* Retained: nothing is cleaned up, the guard closes with the process's
\* handle and the record stays, so the next scan reports an orphan.
Abandon(p) ==
  /\ Goto(p, "drop", "idle")
  /\ retain[p]
  /\ SetGuard(seq[p], Free)
  /\ seq' = [seq EXCEPT ![p] = 0]
  /\ retain' = [retain EXCEPT ![p] = FALSE]
  /\ UNCHANGED <<control, disk, group, expired, scan>>

DropLock(p) ==
  /\ Goto(p, "drop", "remove")
  /\ ~retain[p] /\ control = Free
  /\ control' = p
  /\ UNCHANGED <<disk, guard, group, seq, retain, expired, scan>>

\* The record goes first, so that completion cannot look like an orphan.
DropRemove(p) ==
  /\ Goto(p, "remove", "close")
  /\ Write(seq[p], "absent")
  /\ UNCHANGED <<control, counter, torn, guard, group, seq, retain, expired, scan>>

DropClose(p) ==
  /\ Goto(p, "close", "idle")
  /\ SetGuard(seq[p], Free)
  /\ control' = Free
  /\ seq' = [seq EXCEPT ![p] = 0]
  /\ UNCHANGED <<disk, group, retain, expired, scan>>

\* The control lock does not open or stays busy for five seconds, or the
\* removal fails.
DropFails(p) ==
  /\ \/ pc[p] = "drop" /\ ~retain[p]
     \/ pc[p] = "remove"
  /\ pc' = [pc EXCEPT ![p] = "idle"]
  /\ seq' = [seq EXCEPT ![p] = 0]
  /\ CloseAll(p)
  /\ UNCHANGED <<disk, group, retain, expired>>

-----------------------------------------------------------------------------
(* Faults and the operator.                                                *)

\* A file operation under the control lock fails on the way to admission.
FileError(p) ==
  /\ pc[p] \in InControl \ {"remove", "close"}
  /\ Refuse(p)

\* The process is killed: its locks fall, its files stay, its children run.
Crash(p) ==
  /\ pc[p] \notin {"idle", "dead"}
  /\ pc' = [pc EXCEPT ![p] = "dead"]
  /\ seq' = [seq EXCEPT ![p] = 0]
  /\ retain' = [retain EXCEPT ![p] = FALSE]
  /\ CloseAll(p)
  /\ UNCHANGED <<disk, group, expired>>

Restart(p) ==
  /\ Goto(p, "dead", "idle")
  /\ UNCHANGED <<control, disk, guard, group, seq, retain, expired, scan>>

\* Someone verified that an orphan's work has stopped and removed its record.
ClearOrphan(t) ==
  /\ record[t] = "running" /\ guard[t] = Free /\ group[t] = "none"
  /\ Write(t, "absent")
  /\ UNCHANGED <<control, counter, torn, guard, group, pc, seq, retain, expired, scan>>

-----------------------------------------------------------------------------
Acquire(p) ==
  \/ LockControl(p) \/ ControlTimeout(p) \/ NoTicket(p)
  \/ TruncateCounter(p) \/ WriteCounter(p) \/ OpenTicket(p) \/ Register(p)
  \/ \E t \in Tickets : ReadTicket(p, t) \/ UnreadableTicket(p, t)
  \/ OwnerAlive(p) \/ OwnerGone(p) \/ SkipDeadTicket(p) \/ OrphanFound(p)
  \/ TruncateRecord(p) \/ Admit(p) \/ Wait(p) \/ WakeUp(p) \/ QueueTimeout(p)

Supervise(p) ==
  \/ Launch(p) \/ Spawn(p) \/ SpawnFails(p) \/ Reaped(p) \/ SuperviseFails(p)

Drop(p) ==
  \/ Abandon(p) \/ DropLock(p) \/ DropRemove(p) \/ DropClose(p) \/ DropFails(p)

Children(t) ==
  \/ GroupExits(t) \/ ProbeLease(t) \/ Inherit(t) \/ ProbeGuard(t) \/ ProbeEnds(t)

Next ==
  \/ \E p \in Proc :
       \/ Request(p) \/ Expire(p) \/ Cancel(p) \/ Complete(p)
       \/ Acquire(p) \/ Supervise(p) \/ Drop(p)
       \/ FileError(p) \/ Crash(p) \/ Restart(p)
  \/ \E t \in Tickets : Children(t) \/ ClearOrphan(t)

Spec == Init /\ [][Next]_vars

\* A live process keeps executing its own steps and its clock advances.
\* Nothing makes a holder finish, a child exit or a lock attempt succeed.
Fairness == \A p \in Proc :
  WF_vars(Acquire(p)) /\ WF_vars(Drop(p)) /\ WF_vars(Expire(p) /\ ~expired[p])

FairSpec == Spec /\ Fairness

-----------------------------------------------------------------------------
\* Work under ticket t: its owner is past admission, or its children run.
Working(t) ==
  \/ group[t] # "none"
  \/ \E p \in Proc : pc[p] \in Admitted /\ seq[p] = t

\* No two reservations are ever at work together, a crashed owner's children
\* included: "Running reservations left by a crashed owner fail closed".
NoOverlap == \A t, u \in Tickets : Working(t) /\ Working(u) => t = u

\* While its owner lives, a registered ticket has a locked guard: no live
\* waiter can be pruned and no completing owner looks like an orphan.
LiveTicketGuarded ==
  \A p \in Proc : pc[p] \in Registered => guard[seq[p]] = p

\* A live waiter's record stays on disk until the waiter itself acts: pruning
\* only ever takes the records of dead waiters.
LiveWaiterKeepsTicket ==
  \A p \in Proc : pc[p] \in Queued \ {"admit"} => record[seq[p]] = "waiting"

\* Whatever runs under a reservation stays recorded as running, so that every
\* later scan is stopped by it; in particular an inherited admission never
\* outlives the record it was granted on.
WorkIsRecorded == \A t \in Tickets : Working(t) => record[t] = "running"

\* The inductive invariant.  Its parts: control is held exactly by the process
\* in a critical section; tickets are drawn once, the newest being the one in
\* flight; guards and records follow their live owner; a reservation that may
\* have children is retained; a running record has nothing before it; and
\* whoever scans has accounted for every lower record it has passed.
ControlInv == \A p \in Proc : pc[p] \in InControl <=> control = p

TicketsInv ==
  /\ \A p \in Proc :
       /\ seq[p] # 0 <=> pc[p] \in {"ticket", "register"} \cup Registered
       /\ seq[p] <= counter
       /\ pc[p] = "counted" => counter < MaxTicket
       /\ pc[p] \in {"ticket", "register"} => seq[p] = counter
       /\ pc[p] = "ticket" => record[seq[p]] = "absent"
  /\ \A p, q \in Proc : seq[p] # 0 /\ seq[p] = seq[q] => p = q
  /\ \A t \in Tickets : t > counter => record[t] = "absent"

OwnerInv ==
  \A p \in Proc :
    /\ pc[p] \in {"register"} \cup Registered => guard[seq[p]] = p
    /\ pc[p] \in {"register", "admit"} => record[seq[p]] = "torn"
    /\ pc[p] \in Queued \ {"admit"} => record[seq[p]] = "waiting"
    /\ pc[p] \in Admitted => record[seq[p]] = "running"
    /\ pc[p] \in {"remove", "close"} => ~retain[p]
    /\ pc[p] \in {"spawn", "supervise"} => retain[p]
    /\ seq[p] # 0 /\ group[seq[p]] # "none" => retain[p] /\ pc[p] \in {"supervise", "drop"}

GroupInv == \A t \in Tickets : group[t] # "none" => record[t] = "running"

OrderInv ==
  /\ \A t, u \in Tickets : record[u] = "running" /\ t < u => record[t] = "absent"
  /\ \A p \in Proc : pc[p] = "admit" =>
       \A t \in Tickets : t < seq[p] => record[t] = "absent"

ScanInv ==
  \A p \in Proc :
    /\ pc[p] \in {"scan", "probe", "judge"} =>
         \A t \in Tickets : t < seq[p] /\ record[t] # "absent" =>
           t \in todo \/ blocked \/ (pc[p] # "scan" /\ t = entry.ticket)
    /\ pc[p] \in {"probe", "judge"} =>
         /\ entry.ticket \in Tickets /\ entry.ticket < seq[p]
         /\ record[entry.ticket] \in
              {IF entry.running THEN "running" ELSE "waiting", "absent"}
    /\ pc[p] = "judge" => guard[entry.ticket] = p

IInv ==
  /\ TypeOK /\ ControlInv /\ TicketsInv /\ OwnerInv /\ GroupInv
  /\ OrderInv /\ ScanInv

\* A ticket number is in flight between the counter and its record.
Drawing(t) == \E p \in Proc : pc[p] = "ticket" /\ seq[p] = t

\* The life of a ticket as the abstract ticket lock sees it: a record that does
\* not read is still queued, and a missing record belongs to a number not drawn
\* yet, in flight, or finished with.
LifeOf(t) ==
  CASE record[t] = "running" -> "owner"
    [] record[t] \in {"torn", "waiting"} -> "queued"
    [] record[t] = "absent" ->
         IF t > counter \/ Drawing(t) THEN "unused" ELSE "gone"

TicketStatus == [t \in Tickets |-> LifeOf(t)]

Queue == INSTANCE AdmissionQueue WITH status <- TicketStatus

\* Admission implements the abstract ticket lock: first come, first served, one
\* at a time, and nobody passes an orphan.
ImplementsQueue == Queue!Spec

\* Every request is answered: admitted, refused, or its process died.
RequestAnswered ==
  \A p \in Proc : pc[p] \in Enrolling \cup Queued ~> pc[p] \in {"held", "idle", "dead"}

\* "A dead waiter that never started a task can be pruned automatically"
\* (docs/cooperative-scheduling.md): killing it leaves a readable record, or
\* none, for the next scan.
DeadWaiterPrunable ==
  [][\A p \in Proc :
       pc[p] \in Enrolling \cup Queued /\ pc'[p] = "dead" /\ seq[p] # 0
         => record'[seq[p]] # "torn"]_vars
=============================================================================
