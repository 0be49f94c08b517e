--------------------------- MODULE ExclusiveLock ---------------------------
(***************************************************************************)
(* The cross-process benchmark lock: src/src/exclusive.rs.                 *)
(*                                                                         *)
(* An advisory file lock gives exclusion.  Beside it the holder publishes  *)
(* who it is in an .info file, replaced by temp file and rename, which its *)
(* main thread (update_benchmark, update_eta) and its heartbeat thread     *)
(* both rewrite under a mutex, and which anyone may read at any time.      *)
(***************************************************************************)
EXTENDS Naturals

CONSTANTS
  Proc,         \* the processes
  Free,         \* the lock when nobody holds it
  NoInfo,       \* a file that does not exist
  Partial,      \* a file cut off in the middle of a write
  MaxVersion    \* bound on the changes of a holder record

Record == [owner : Proc, version : 0 .. MaxVersion]

ASSUME ExclusiveLockAssumption ==
  /\ MaxVersion \in Nat
  /\ Free \notin Proc /\ NoInfo \notin Record /\ Partial \notin Record
  /\ NoInfo # Partial

VARIABLES
  holder,       \* who holds the file lock
  info, tmp,    \* the .info file and its .tmp file
  pc,           \* the main thread of each process
  beat,         \* its heartbeat thread
  stop,         \* the flag that ends it
  writer,       \* the thread of each process that is in write_holder
  file,         \* how far it is
  version,      \* the holder record in memory: which change it has reached
  stale         \* the last write failed, and the failure was ignored

threads == <<pc, beat, stop, writer, file>>
vars == <<holder, info, tmp, threads, version, stale>>

Holding == {"held", "join", "unlock"}

TypeOK ==
  /\ holder \in Proc \cup {Free}
  /\ info \in Record \cup {NoInfo, Partial}
  /\ tmp \in Record \cup {NoInfo, Partial}
  /\ pc \in [Proc -> {"idle", "try", "wait", "refused", "enter", "dead"} \cup Holding]
  /\ beat \in [Proc -> {"none", "sleep", "due"}]
  /\ stop \in [Proc -> BOOLEAN]
  /\ writer \in [Proc -> {"none", "main", "beat"}]
  /\ file \in [Proc -> {"closed", "open", "written"}]
  /\ version \in [Proc -> 0 .. MaxVersion]
  /\ stale \in [Proc -> BOOLEAN]

Init ==
  /\ holder = Free /\ info = NoInfo /\ tmp = NoInfo
  /\ pc = [p \in Proc |-> "idle"]
  /\ beat = [p \in Proc |-> "none"]
  /\ stop = [p \in Proc |-> FALSE]
  /\ writer = [p \in Proc |-> "none"]
  /\ file = [p \in Proc |-> "closed"]
  /\ version = [p \in Proc |-> 0]
  /\ stale = [p \in Proc |-> FALSE]

-----------------------------------------------------------------------------
Goto(p, from, to) == pc[p] = from /\ pc' = [pc EXCEPT ![p] = to]

\* A thread changes the record in memory and starts to write it out; it holds
\* the mutex, if there is one yet, until EndWrite.  At the bound it writes the
\* last version again.
BeginWrite(p, thread) ==
  /\ writer[p] = "none"
  /\ writer' = [writer EXCEPT ![p] = thread]
  /\ version' = [version EXCEPT ![p] = IF @ < MaxVersion THEN @ + 1 ELSE @]

EndWrite(p) ==
  /\ writer' = [writer EXCEPT ![p] = "none"]
  /\ file' = [file EXCEPT ![p] = "closed"]

-----------------------------------------------------------------------------
(* Faulty variants of actions below, which Next does not use.              *)

\* InfoIsHolders: a heartbeat publishes the record as it was before the mutex.
FillOutdated(p) ==
  /\ file[p] = "open"
  /\ tmp' = [owner |-> p, version |-> IF version[p] > 1 THEN version[p] - 1 ELSE 1]
  /\ file' = [file EXCEPT ![p] = "written"]
  /\ UNCHANGED <<holder, info, pc, beat, stop, writer, version, stale>>

\* DropReleases: the heartbeat thread never looks at the flag.
BeatStopsNever(p) ==
  /\ beat[p] = "sleep" /\ stop[p]
  /\ beat' = [beat EXCEPT ![p] = "due"]
  /\ UNCHANGED <<holder, info, tmp, pc, stop, writer, file, version, stale>>

-----------------------------------------------------------------------------
(* acquire and try_acquire.                                                *)

Acquire(p) ==
  /\ Goto(p, "idle", "wait")
  /\ UNCHANGED <<holder, info, tmp, beat, stop, writer, file, version, stale>>

TryAcquire(p) ==
  /\ Goto(p, "idle", "try")
  /\ UNCHANGED <<holder, info, tmp, beat, stop, writer, file, version, stale>>

\* try_lock succeeds; write_holder starts with the record of this run.
Lock(p) ==
  /\ pc[p] \in {"wait", "try"}
  /\ holder = Free
  /\ holder' = p
  /\ pc' = [pc EXCEPT ![p] = "enter"]
  /\ BeginWrite(p, "main")
  /\ UNCHANGED <<info, tmp, beat, stop, file, stale>>

\* try_lock reports WouldBlock: acquire polls on until its deadline, ...
WaitTimeout(p) ==
  /\ Goto(p, "wait", "idle")
  /\ holder # Free
  /\ UNCHANGED <<holder, info, tmp, beat, stop, writer, file, version, stale>>

\* ... try_acquire goes and reads who the holder is.
Refused(p) ==
  /\ Goto(p, "try", "refused")
  /\ holder # Free
  /\ UNCHANGED <<holder, info, tmp, beat, stop, writer, file, version, stale>>

ReadHolder(p) ==
  /\ Goto(p, "refused", "idle")
  /\ UNCHANGED <<holder, info, tmp, beat, stop, writer, file, version, stale>>

\* The holder record could not be published: Err, and the lock falls.
EnterFails(p) ==
  /\ Goto(p, "enter", "idle")
  /\ holder' = Free
  /\ EndWrite(p)
  /\ UNCHANGED <<info, tmp, beat, stop, version, stale>>

-----------------------------------------------------------------------------
(* write_holder: truncate the temp file, fill it, rename it.               *)

OpenTemp(p) ==
  /\ writer[p] # "none" /\ file[p] = "closed"
  /\ tmp' = Partial
  /\ file' = [file EXCEPT ![p] = "open"]
  /\ UNCHANGED <<holder, info, pc, beat, stop, writer, version, stale>>

FillTemp(p) ==
  /\ file[p] = "open"
  /\ tmp' = [owner |-> p, version |-> version[p]]
  /\ file' = [file EXCEPT ![p] = "written"]
  /\ UNCHANGED <<holder, info, pc, beat, stop, writer, version, stale>>

\* The rename publishes the record.  Of an entering process it is the end of
\* acquire, which starts the heartbeat thread, or fails to.
Publish(p) ==
  /\ file[p] = "written"
  /\ info' = tmp /\ tmp' = NoInfo
  /\ EndWrite(p)
  /\ stale' = [stale EXCEPT ![p] = FALSE]
  /\ IF pc[p] = "enter"
       THEN /\ pc' = [pc EXCEPT ![p] = "held"]
            /\ stop' = [stop EXCEPT ![p] = FALSE]
            /\ \E b \in {"sleep", "none"} : beat' = [beat EXCEPT ![p] = b]
       ELSE /\ beat' = [beat EXCEPT ![p] = IF writer[p] = "beat" THEN "sleep" ELSE @]
            /\ UNCHANGED <<pc, stop>>
  /\ UNCHANGED <<holder, version>>

\* Once the lock is held, a failed write is ignored.
WriteFails(p) ==
  /\ writer[p] # "none" /\ pc[p] # "enter"
  /\ EndWrite(p)
  /\ stale' = [stale EXCEPT ![p] = TRUE]
  /\ beat' = [beat EXCEPT ![p] = IF writer[p] = "beat" THEN "sleep" ELSE @]
  /\ UNCHANGED <<holder, info, tmp, pc, stop, version>>

-----------------------------------------------------------------------------
(* The holder's two threads.                                               *)

\* update_benchmark and update_eta: main waits for the mutex, then writes.
Update(p) ==
  /\ pc[p] = "held"
  /\ BeginWrite(p, "main")
  /\ UNCHANGED <<holder, info, tmp, pc, beat, stop, file, stale>>

\* The period is over and stop was not set when the heartbeat looked ...
BeatDue(p) ==
  /\ beat[p] = "sleep" /\ ~stop[p]
  /\ beat' = [beat EXCEPT ![p] = "due"]
  /\ UNCHANGED <<holder, info, tmp, pc, stop, writer, file, version, stale>>

\* ... it may be by the time the mutex is free.
Beat(p) ==
  /\ beat[p] = "due"
  /\ BeginWrite(p, "beat")
  /\ UNCHANGED <<holder, info, tmp, pc, beat, stop, file, stale>>

BeatStops(p) ==
  /\ beat[p] = "sleep" /\ stop[p]
  /\ beat' = [beat EXCEPT ![p] = "none"]
  /\ UNCHANGED <<holder, info, tmp, pc, stop, writer, file, version, stale>>

\* drop_lock: stop the heartbeat, join it, unlock.  The .info file stays.
DropLock(p) ==
  /\ Goto(p, "held", "join")
  /\ writer[p] # "main"
  /\ stop' = [stop EXCEPT ![p] = TRUE]
  /\ UNCHANGED <<holder, info, tmp, beat, writer, file, version, stale>>

Join(p) ==
  /\ Goto(p, "join", "unlock")
  /\ beat[p] = "none"
  /\ UNCHANGED <<holder, info, tmp, beat, stop, writer, file, version, stale>>

Unlock(p) ==
  /\ Goto(p, "unlock", "idle")
  /\ holder' = Free
  /\ stale' = [stale EXCEPT ![p] = FALSE]
  /\ UNCHANGED <<info, tmp, beat, stop, writer, file, version>>

-----------------------------------------------------------------------------
\* A killed process loses its threads and its lock wherever they are.
Crash(p) ==
  /\ pc[p] \notin {"idle", "dead"}
  /\ pc' = [pc EXCEPT ![p] = "dead"]
  /\ holder' = IF holder = p THEN Free ELSE holder
  /\ beat' = [beat EXCEPT ![p] = "none"]
  /\ EndWrite(p)
  /\ stale' = [stale EXCEPT ![p] = FALSE]
  /\ UNCHANGED <<info, tmp, stop, version>>

Restart(p) ==
  /\ Goto(p, "dead", "idle")
  /\ UNCHANGED <<holder, info, tmp, beat, stop, writer, file, version, stale>>

Write(p) == OpenTemp(p) \/ FillTemp(p) \/ Publish(p) \/ WriteFails(p) \/ EnterFails(p)

Heartbeat(p) == BeatDue(p) \/ Beat(p) \/ BeatStops(p)

Release(p) == Join(p) \/ Unlock(p)

Next == \E p \in Proc :
  \/ Acquire(p) \/ TryAcquire(p) \/ Lock(p) \/ WaitTimeout(p) \/ Refused(p)
  \/ ReadHolder(p) \/ Write(p) \/ Update(p) \/ Heartbeat(p) \/ DropLock(p)
  \/ Release(p) \/ Crash(p) \/ Restart(p)

Spec == Init /\ [][Next]_vars

\* Both threads of a live process run.
FairSpec ==
  Spec /\ \A p \in Proc : WF_vars(Write(p)) /\ WF_vars(Heartbeat(p)) /\ WF_vars(Release(p))

-----------------------------------------------------------------------------
\* "We hold the fs4 lock so we're the only writer": no thread of a process that
\* does not hold the lock is ever in write_holder, a late heartbeat included.
OnlyHolderWrites == \A p \in Proc : writer[p] # "none" => holder = p

\* "Peekers always see either the previous complete record or the new one":
\* whatever crashes, the published record is whole.
InfoWhole == info # Partial

\* From the end of acquire to the unlock, peekers are shown the holder itself,
\* with its latest change unless writing that failed.
InfoIsHolders ==
  \A p \in Proc : pc[p] \in Holding =>
    /\ info # NoInfo /\ info # Partial /\ info.owner = p
    /\ writer[p] = "none" /\ ~stale[p] => info.version = version[p]

\* The inductive invariant: the lock is held exactly between enter and unlock,
\* a thread in write_holder is the holder's, and the temp file is that writer's.
HolderInv ==
  \A p \in Proc :
    /\ pc[p] \in {"enter"} \cup Holding <=> holder = p
    /\ writer[p] = "main" => pc[p] \in {"enter", "held"}
    /\ writer[p] = "beat" => beat[p] = "due"
    /\ beat[p] # "none" => pc[p] \in {"held", "join"}
    /\ pc[p] = "enter" => writer[p] = "main"
    /\ file[p] # "closed" => writer[p] # "none"
    /\ file[p] = "written" => tmp = [owner |-> p, version |-> version[p]]

RecordInv == info \in Record => info.version <= version[info.owner]

IInv == TypeOK /\ HolderInv /\ RecordInv /\ InfoWhole /\ InfoIsHolders

\* Neither thread ever puts back an older record of the same holder.
NeverOlder ==
  [][info # NoInfo /\ info' # NoInfo /\ info'.owner = info.owner
       => info'.version >= info.version]_info

\* Dropping the lock releases it: the heartbeat notices stop, and no thread
\* waits for the other's mutex for ever.
DropReleases == \A p \in Proc : pc[p] = "join" ~> holder # p
=============================================================================
