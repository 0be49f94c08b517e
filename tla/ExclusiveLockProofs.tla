------------------------- MODULE ExclusiveLockProofs -------------------------
(***************************************************************************)
(* For every set of processes: only the holder writes the holder record,   *)
(* what is published is whole and the holder's own, and it never goes      *)
(* back to an older one.  And, for every set of attempts and any number of *)
(* changes: a fleet's complete packet is the truth of its run, and what    *)
(* compares is alike and untouched.                                        *)
(***************************************************************************)
EXTENDS ExclusiveLock, FleetRun, TLAPS

USE ExclusiveLockAssumption

(* Before any process moves the invariant holds.                           *)
LEMMA InitHolds == Init => IInv
<1> SUFFICES ASSUME Init PROVE IInv
  OBVIOUS
<1> USE DEF Init
<1>1. TypeOK
  <2>1. stop \in [Proc -> BOOLEAN]  BY Zenon
  <2>2. stale \in [Proc -> BOOLEAN]  BY Zenon
  <2>3. version \in [Proc -> 0 .. MaxVersion]  BY SMT
  <2>4. /\ beat \in [Proc -> {"none", "sleep", "due"}]
        /\ writer \in [Proc -> {"none", "main", "beat"}]
        /\ file \in [Proc -> {"closed", "open", "written"}]
    BY Zenon
  <2> QED  BY <2>1, <2>2, <2>3, <2>4, SMT DEF TypeOK
<1>2. HolderInv
  <2> SUFFICES ASSUME NEW p \in Proc
               PROVE  /\ pc[p] = "idle" /\ holder # p
                      /\ writer[p] = "none" /\ beat[p] = "none" /\ file[p] = "closed"
    BY Zenon DEF HolderInv, Holding
  <2> QED  BY Zenon
<1>3. RecordInv  BY SMT DEF RecordInv, Record
<1>4. InfoWhole /\ InfoIsHolders  BY SMT DEF InfoWhole, InfoIsHolders, Holding
<1> QED  BY <1>1, <1>2, <1>3, <1>4 DEF IInv

(* Every action of every process keeps it.                                 *)
LEMMA StepHolds == IInv /\ [Next]_vars => IInv'
<1> SUFFICES ASSUME IInv, [Next]_vars PROVE IInv'
  OBVIOUS
<1> USE DEF IInv, Goto, threads
<1>1. ASSUME NEW p \in Proc, Acquire(p) PROVE IInv'
  <2>1. TypeOK'  BY <1>1, SMT DEF Acquire, TypeOK, Holding, Record
  <2>2. HolderInv'  BY <1>1, SMT DEF Acquire, HolderInv, TypeOK, Holding
  <2>3. RecordInv'
    BY <1>1, SMT DEF Acquire, RecordInv, HolderInv, TypeOK, Record
  <2>4. InfoWhole'
    BY <1>1, SMT DEF Acquire, InfoWhole, HolderInv, TypeOK, Record
  <2>5. InfoIsHolders'
    BY <1>1, SMT DEF Acquire, InfoIsHolders, InfoWhole, HolderInv, TypeOK, Holding, Record
  <2> QED  BY <2>1, <2>2, <2>3, <2>4, <2>5
<1>2. ASSUME NEW p \in Proc, TryAcquire(p) PROVE IInv'
  <2>1. TypeOK'  BY <1>2, SMT DEF TryAcquire, TypeOK, Holding, Record
  <2>2. HolderInv'  BY <1>2, SMT DEF TryAcquire, HolderInv, TypeOK, Holding
  <2>3. RecordInv'
    BY <1>2, SMT DEF TryAcquire, RecordInv, HolderInv, TypeOK, Record
  <2>4. InfoWhole'
    BY <1>2, SMT DEF TryAcquire, InfoWhole, HolderInv, TypeOK, Record
  <2>5. InfoIsHolders'
    BY <1>2, SMT DEF TryAcquire, InfoIsHolders, InfoWhole, HolderInv, TypeOK, Holding, Record
  <2> QED  BY <2>1, <2>2, <2>3, <2>4, <2>5
<1>3. ASSUME NEW p \in Proc, Lock(p) PROVE IInv'
  <2>1. TypeOK'  BY <1>3, SMT DEF Lock, BeginWrite, TypeOK, Holding, Record
  <2>2. HolderInv'  BY <1>3, SMT DEF Lock, BeginWrite, HolderInv, TypeOK, Holding
  <2>3. RecordInv'
    BY <1>3, SMT DEF Lock, BeginWrite, RecordInv, HolderInv, TypeOK, Record
  <2>4. InfoWhole'
    BY <1>3, SMT DEF Lock, BeginWrite, InfoWhole, HolderInv, TypeOK, Record
  <2>5. InfoIsHolders'
    BY <1>3, SMT DEF Lock, BeginWrite, InfoIsHolders, InfoWhole, HolderInv, TypeOK, Holding, Record
  <2> QED  BY <2>1, <2>2, <2>3, <2>4, <2>5
<1>4. ASSUME NEW p \in Proc, WaitTimeout(p) PROVE IInv'
  <2>1. TypeOK'  BY <1>4, SMT DEF WaitTimeout, TypeOK, Holding, Record
  <2>2. HolderInv'  BY <1>4, SMT DEF WaitTimeout, HolderInv, TypeOK, Holding
  <2>3. RecordInv'
    BY <1>4, SMT DEF WaitTimeout, RecordInv, HolderInv, TypeOK, Record
  <2>4. InfoWhole'
    BY <1>4, SMT DEF WaitTimeout, InfoWhole, HolderInv, TypeOK, Record
  <2>5. InfoIsHolders'
    BY <1>4, SMT DEF WaitTimeout, InfoIsHolders, InfoWhole, HolderInv, TypeOK, Holding, Record
  <2> QED  BY <2>1, <2>2, <2>3, <2>4, <2>5
<1>5. ASSUME NEW p \in Proc, Refused(p) PROVE IInv'
  <2>1. TypeOK'  BY <1>5, SMT DEF Refused, TypeOK, Holding, Record
  <2>2. HolderInv'  BY <1>5, SMT DEF Refused, HolderInv, TypeOK, Holding
  <2>3. RecordInv'
    BY <1>5, SMT DEF Refused, RecordInv, HolderInv, TypeOK, Record
  <2>4. InfoWhole'
    BY <1>5, SMT DEF Refused, InfoWhole, HolderInv, TypeOK, Record
  <2>5. InfoIsHolders'
    BY <1>5, SMT DEF Refused, InfoIsHolders, InfoWhole, HolderInv, TypeOK, Holding, Record
  <2> QED  BY <2>1, <2>2, <2>3, <2>4, <2>5
<1>6. ASSUME NEW p \in Proc, ReadHolder(p) PROVE IInv'
  <2>1. TypeOK'  BY <1>6, SMT DEF ReadHolder, TypeOK, Holding, Record
  <2>2. HolderInv'  BY <1>6, SMT DEF ReadHolder, HolderInv, TypeOK, Holding
  <2>3. RecordInv'
    BY <1>6, SMT DEF ReadHolder, RecordInv, HolderInv, TypeOK, Record
  <2>4. InfoWhole'
    BY <1>6, SMT DEF ReadHolder, InfoWhole, HolderInv, TypeOK, Record
  <2>5. InfoIsHolders'
    BY <1>6, SMT DEF ReadHolder, InfoIsHolders, InfoWhole, HolderInv, TypeOK, Holding, Record
  <2> QED  BY <2>1, <2>2, <2>3, <2>4, <2>5
<1>7. ASSUME NEW p \in Proc, EnterFails(p) PROVE IInv'
  <2>1. TypeOK'  BY <1>7, SMT DEF EnterFails, EndWrite, TypeOK, Holding, Record
  <2>2. HolderInv'  BY <1>7, SMT DEF EnterFails, EndWrite, HolderInv, TypeOK, Holding
  <2>3. RecordInv'
    BY <1>7, SMT DEF EnterFails, EndWrite, RecordInv, HolderInv, TypeOK, Record
  <2>4. InfoWhole'
    BY <1>7, SMT DEF EnterFails, EndWrite, InfoWhole, HolderInv, TypeOK, Record
  <2>5. InfoIsHolders'
    BY <1>7, SMT DEF EnterFails, EndWrite, InfoIsHolders, InfoWhole, HolderInv, TypeOK, Holding, Record
  <2> QED  BY <2>1, <2>2, <2>3, <2>4, <2>5
<1>8. ASSUME NEW p \in Proc, OpenTemp(p) PROVE IInv'
  <2>1. TypeOK'  BY <1>8, SMT DEF OpenTemp, TypeOK, Holding, Record
  <2>2. HolderInv'  BY <1>8, SMT DEF OpenTemp, HolderInv, TypeOK, Holding
  <2>3. RecordInv'
    BY <1>8, SMT DEF OpenTemp, RecordInv, HolderInv, TypeOK, Record
  <2>4. InfoWhole'
    BY <1>8, SMT DEF OpenTemp, InfoWhole, HolderInv, TypeOK, Record
  <2>5. InfoIsHolders'
    BY <1>8, SMT DEF OpenTemp, InfoIsHolders, InfoWhole, HolderInv, TypeOK, Holding, Record
  <2> QED  BY <2>1, <2>2, <2>3, <2>4, <2>5
<1>9. ASSUME NEW p \in Proc, FillTemp(p) PROVE IInv'
  <2>1. TypeOK'  BY <1>9, SMT DEF FillTemp, TypeOK, Holding, Record
  <2>2. HolderInv'  BY <1>9, SMT DEF FillTemp, HolderInv, TypeOK, Holding
  <2>3. RecordInv'
    BY <1>9, SMT DEF FillTemp, RecordInv, HolderInv, TypeOK, Record
  <2>4. InfoWhole'
    BY <1>9, SMT DEF FillTemp, InfoWhole, HolderInv, TypeOK, Record
  <2>5. InfoIsHolders'
    BY <1>9, SMT DEF FillTemp, InfoIsHolders, InfoWhole, HolderInv, TypeOK, Holding, Record
  <2> QED  BY <2>1, <2>2, <2>3, <2>4, <2>5
<1>10. ASSUME NEW p \in Proc, Publish(p) PROVE IInv'
  <2>1. TypeOK'  
    <3>1. info' \in Record /\ tmp' = NoInfo
      BY <1>10, SMT DEF Publish, HolderInv, TypeOK, Record
    <3>2. stale' \in [Proc -> BOOLEAN] /\ stop' \in [Proc -> BOOLEAN]
      BY <1>10, Zenon DEF Publish, TypeOK
    <3>3. beat' \in [Proc -> {"none", "sleep", "due"}]
      BY <1>10, SMT DEF Publish, TypeOK
    <3>4. /\ writer' \in [Proc -> {"none", "main", "beat"}]
          /\ file' \in [Proc -> {"closed", "open", "written"}]
          /\ pc' \in [Proc -> {"idle", "try", "wait", "refused", "enter", "dead"} \cup Holding]
      BY <1>10, SMT DEF Publish, EndWrite, TypeOK, Holding
    <3>5. UNCHANGED <<holder, version>>  BY <1>10 DEF Publish
    <3> QED  BY <3>1, <3>2, <3>3, <3>4, <3>5 DEF TypeOK
  <2>2. HolderInv'  BY <1>10, SMT DEF Publish, EndWrite, HolderInv, TypeOK, Holding
  <2>3. RecordInv'
    BY <1>10, SMT DEF Publish, EndWrite, RecordInv, HolderInv, TypeOK, Record
  <2>4. InfoWhole'
    BY <1>10, SMT DEF Publish, EndWrite, InfoWhole, HolderInv, TypeOK, Record
  <2>5. InfoIsHolders'
    BY <1>10, SMT DEF Publish, EndWrite, InfoIsHolders, InfoWhole, HolderInv, TypeOK, Holding, Record
  <2> QED  BY <2>1, <2>2, <2>3, <2>4, <2>5
<1>11. ASSUME NEW p \in Proc, WriteFails(p) PROVE IInv'
  <2>1. TypeOK'  BY <1>11, SMT DEF WriteFails, EndWrite, TypeOK, Holding, Record
  <2>2. HolderInv'  BY <1>11, SMT DEF WriteFails, EndWrite, HolderInv, TypeOK, Holding
  <2>3. RecordInv'
    BY <1>11, SMT DEF WriteFails, EndWrite, RecordInv, HolderInv, TypeOK, Record
  <2>4. InfoWhole'
    BY <1>11, SMT DEF WriteFails, EndWrite, InfoWhole, HolderInv, TypeOK, Record
  <2>5. InfoIsHolders'
    BY <1>11, SMT DEF WriteFails, EndWrite, InfoIsHolders, InfoWhole, HolderInv, TypeOK, Holding, Record
  <2> QED  BY <2>1, <2>2, <2>3, <2>4, <2>5
<1>12. ASSUME NEW p \in Proc, Update(p) PROVE IInv'
  <2>1. TypeOK'  BY <1>12, SMT DEF Update, BeginWrite, TypeOK, Holding, Record
  <2>2. HolderInv'  BY <1>12, SMT DEF Update, BeginWrite, HolderInv, TypeOK, Holding
  <2>3. RecordInv'
    BY <1>12, SMT DEF Update, BeginWrite, RecordInv, HolderInv, TypeOK, Record
  <2>4. InfoWhole'
    BY <1>12, SMT DEF Update, BeginWrite, InfoWhole, HolderInv, TypeOK, Record
  <2>5. InfoIsHolders'
    BY <1>12, SMT DEF Update, BeginWrite, InfoIsHolders, InfoWhole, HolderInv, TypeOK, Holding, Record
  <2> QED  BY <2>1, <2>2, <2>3, <2>4, <2>5
<1>13. ASSUME NEW p \in Proc, BeatDue(p) PROVE IInv'
  <2>1. TypeOK'  BY <1>13, SMT DEF BeatDue, TypeOK, Holding, Record
  <2>2. HolderInv'  BY <1>13, SMT DEF BeatDue, HolderInv, TypeOK, Holding
  <2>3. RecordInv'
    BY <1>13, SMT DEF BeatDue, RecordInv, HolderInv, TypeOK, Record
  <2>4. InfoWhole'
    BY <1>13, SMT DEF BeatDue, InfoWhole, HolderInv, TypeOK, Record
  <2>5. InfoIsHolders'
    BY <1>13, SMT DEF BeatDue, InfoIsHolders, InfoWhole, HolderInv, TypeOK, Holding, Record
  <2> QED  BY <2>1, <2>2, <2>3, <2>4, <2>5
<1>14. ASSUME NEW p \in Proc, Beat(p) PROVE IInv'
  <2>1. TypeOK'  BY <1>14, SMT DEF Beat, BeginWrite, TypeOK, Holding, Record
  <2>2. HolderInv'  BY <1>14, SMT DEF Beat, BeginWrite, HolderInv, TypeOK, Holding
  <2>3. RecordInv'
    BY <1>14, SMT DEF Beat, BeginWrite, RecordInv, HolderInv, TypeOK, Record
  <2>4. InfoWhole'
    BY <1>14, SMT DEF Beat, BeginWrite, InfoWhole, HolderInv, TypeOK, Record
  <2>5. InfoIsHolders'
    BY <1>14, SMT DEF Beat, BeginWrite, InfoIsHolders, InfoWhole, HolderInv, TypeOK, Holding, Record
  <2> QED  BY <2>1, <2>2, <2>3, <2>4, <2>5
<1>15. ASSUME NEW p \in Proc, BeatStops(p) PROVE IInv'
  <2>1. TypeOK'  BY <1>15, SMT DEF BeatStops, TypeOK, Holding, Record
  <2>2. HolderInv'  BY <1>15, SMT DEF BeatStops, HolderInv, TypeOK, Holding
  <2>3. RecordInv'
    BY <1>15, SMT DEF BeatStops, RecordInv, HolderInv, TypeOK, Record
  <2>4. InfoWhole'
    BY <1>15, SMT DEF BeatStops, InfoWhole, HolderInv, TypeOK, Record
  <2>5. InfoIsHolders'
    BY <1>15, SMT DEF BeatStops, InfoIsHolders, InfoWhole, HolderInv, TypeOK, Holding, Record
  <2> QED  BY <2>1, <2>2, <2>3, <2>4, <2>5
<1>16. ASSUME NEW p \in Proc, DropLock(p) PROVE IInv'
  <2>1. TypeOK'  BY <1>16, SMT DEF DropLock, TypeOK, Holding, Record
  <2>2. HolderInv'  BY <1>16, SMT DEF DropLock, HolderInv, TypeOK, Holding
  <2>3. RecordInv'
    BY <1>16, SMT DEF DropLock, RecordInv, HolderInv, TypeOK, Record
  <2>4. InfoWhole'
    BY <1>16, SMT DEF DropLock, InfoWhole, HolderInv, TypeOK, Record
  <2>5. InfoIsHolders'
    BY <1>16, SMT DEF DropLock, InfoIsHolders, InfoWhole, HolderInv, TypeOK, Holding, Record
  <2> QED  BY <2>1, <2>2, <2>3, <2>4, <2>5
<1>17. ASSUME NEW p \in Proc, Join(p) PROVE IInv'
  <2>1. TypeOK'  BY <1>17, SMT DEF Join, TypeOK, Holding, Record
  <2>2. HolderInv'  BY <1>17, SMT DEF Join, HolderInv, TypeOK, Holding
  <2>3. RecordInv'
    BY <1>17, SMT DEF Join, RecordInv, HolderInv, TypeOK, Record
  <2>4. InfoWhole'
    BY <1>17, SMT DEF Join, InfoWhole, HolderInv, TypeOK, Record
  <2>5. InfoIsHolders'
    BY <1>17, SMT DEF Join, InfoIsHolders, InfoWhole, HolderInv, TypeOK, Holding, Record
  <2> QED  BY <2>1, <2>2, <2>3, <2>4, <2>5
<1>18. ASSUME NEW p \in Proc, Unlock(p) PROVE IInv'
  <2>1. TypeOK'  BY <1>18, SMT DEF Unlock, TypeOK, Holding, Record
  <2>2. HolderInv'  BY <1>18, SMT DEF Unlock, HolderInv, TypeOK, Holding
  <2>3. RecordInv'
    BY <1>18, SMT DEF Unlock, RecordInv, HolderInv, TypeOK, Record
  <2>4. InfoWhole'
    BY <1>18, SMT DEF Unlock, InfoWhole, HolderInv, TypeOK, Record
  <2>5. InfoIsHolders'
    BY <1>18, SMT DEF Unlock, InfoIsHolders, InfoWhole, HolderInv, TypeOK, Holding, Record
  <2> QED  BY <2>1, <2>2, <2>3, <2>4, <2>5
<1>19. ASSUME NEW p \in Proc, Crash(p) PROVE IInv'
  <2>1. TypeOK'  BY <1>19, SMT DEF Crash, EndWrite, TypeOK, Holding, Record
  <2>2. HolderInv'  BY <1>19, SMT DEF Crash, EndWrite, HolderInv, TypeOK, Holding
  <2>3. RecordInv'
    BY <1>19, SMT DEF Crash, EndWrite, RecordInv, HolderInv, TypeOK, Record
  <2>4. InfoWhole'
    BY <1>19, SMT DEF Crash, EndWrite, InfoWhole, HolderInv, TypeOK, Record
  <2>5. InfoIsHolders'
    BY <1>19, SMT DEF Crash, EndWrite, InfoIsHolders, InfoWhole, HolderInv, TypeOK, Holding, Record
  <2> QED  BY <2>1, <2>2, <2>3, <2>4, <2>5
<1>20. ASSUME NEW p \in Proc, Restart(p) PROVE IInv'
  <2>1. TypeOK'  BY <1>20, SMT DEF Restart, TypeOK, Holding, Record
  <2>2. HolderInv'  BY <1>20, SMT DEF Restart, HolderInv, TypeOK, Holding
  <2>3. RecordInv'
    BY <1>20, SMT DEF Restart, RecordInv, HolderInv, TypeOK, Record
  <2>4. InfoWhole'
    BY <1>20, SMT DEF Restart, InfoWhole, HolderInv, TypeOK, Record
  <2>5. InfoIsHolders'
    BY <1>20, SMT DEF Restart, InfoIsHolders, InfoWhole, HolderInv, TypeOK, Holding, Record
  <2> QED  BY <2>1, <2>2, <2>3, <2>4, <2>5
<1>21. CASE UNCHANGED vars
  BY <1>21, SMT DEF vars, TypeOK, HolderInv, RecordInv, InfoWhole, InfoIsHolders
<1> QED
  BY <1>1, <1>2, <1>3, <1>4, <1>5, <1>6, <1>7, <1>8, <1>9, <1>10, <1>11, <1>12, <1>13, <1>14, <1>15, <1>16, <1>17, <1>18, <1>19, <1>20, <1>21
     DEF Next, Write, Heartbeat, Release

(* The inductive invariant holds of every instance of the lock.            *)
THEOREM Invariance == Spec => []IInv
<1>1. Init => IInv  BY InitHolds
<1>2. IInv /\ [Next]_vars => IInv'  BY StepHolds
<1> QED  BY <1>1, <1>2, PTL DEF Spec

(* No thread writes the holder record of a lock its process does not hold. *)
THEOREM OnlyHolderWritesTheorem == Spec => []OnlyHolderWrites
<1>1. IInv => OnlyHolderWrites
  BY SMT DEF IInv, TypeOK, HolderInv, OnlyHolderWrites, Holding
<1> QED  BY <1>1, Invariance, PTL

(* Whoever peeks while the lock is held, after acquire returned, is shown    *)
(* the holder, and its latest change unless writing that failed.             *)
THEOREM InfoIsHoldersTheorem == Spec => []InfoIsHolders
<1>1. IInv => InfoIsHolders  BY DEF IInv
<1> QED  BY <1>1, Invariance, PTL

(* A published record is never replaced by an older one of its owner.      *)
THEOREM NeverOlderTheorem == Spec => NeverOlder
<1> DEFINE Forward == info # NoInfo /\ info' # NoInfo /\ info'.owner = info.owner
                        => info'.version >= info.version
<1>1. IInv /\ [Next]_vars => [Forward]_info
  <2> SUFFICES ASSUME IInv, Next, info' # info PROVE Forward
    BY DEF vars
  <2>1. PICK p \in Proc : Publish(p)
    BY SMT DEF Next, Acquire, TryAcquire, Lock, WaitTimeout, Refused, ReadHolder, Write,
               OpenTemp, FillTemp, WriteFails, EnterFails, Update, Heartbeat, BeatDue,
               Beat, BeatStops, DropLock, Release, Join, Unlock, Crash, Restart
  <2>2. info' = [owner |-> p, version |-> version[p]]
    BY <2>1, SMT DEF Publish, IInv, HolderInv
  <2>3. info \in Record \/ info = NoInfo  BY DEF IInv, TypeOK, InfoWhole
  <2> QED  BY <2>2, <2>3, SMT DEF IInv, RecordInv, Record, TypeOK
<1> QED  BY <1>1, Invariance, PTL DEF Spec, NeverOlder

(***************************************************************************)
(* The fleet.  What a complete packet says rests on order: the manifest is *)
(* written after the copy was compared, files and placement only move on,  *)
(* and the run is bracketed by what was recorded before it and what is     *)
(* found after it, unless all of the bundle was replaced in between.  That *)
(* two attempts are untouched rests on names that are never taken twice    *)
(* and on a child that is gone before a run is good.                       *)
(***************************************************************************)

\* The steps of the runner, and those at which it has what it identified.
Observing == {"verify", "identify", "admit", "resources", "launch", "running", "driver",
              "parser", "parsing", "done", "packet"}
Planned == Observing \ {"verify", "packet"}
Identified == Observing \ {"verify", "identify", "packet"}
Ran == {"driver", "parser", "parsing", "done"}

Status == {"incomplete", "complete"}
Records == {"driver", "resident_high_water", "requested_live_heap_peak"}

Receipt ==
  [status : Status, backend : Backend \cup {Nil}, bundle : Nat \cup {Nil},
   placement : Nat \cup {Nil},
   ran : [file : Nat, plan : Backend, placement : Nat] \cup {Nil}, correct : BOOLEAN,
   memory : SUBSET Records, artifacts : Nat \cup {Nil}, replaced : BOOLEAN]

FleetTypeOK ==
  /\ source \in Nat /\ placement \in Nat
  /\ step \in Observing \cup {"hash", "copy", "recheck", "idle", "end"}
  /\ step \notin {"running", "parsing"} => outcome = Nil
  /\ step \in Observing => name \in Attempt

BundleTypeOK  ==
  bundle \in [file : Nat \cup {Nil}, hash : Nat \cup {Nil}, manifest : BOOLEAN, plan : Backend]
OutcomeTypeOK == outcome \in Outcomes \cup {Nil}
OutputTypeOK  == output \in [Attempt -> Nat \cup {Nil}]
ReceiptTypeOK == step \in Observing => receipt \in Receipt
ChildTypeOK   == child # Nil => child \in [st : {"running", "ok", "failed"}, dir : Attempt]

\* A manifest is there before the first observation; what it names is what was
\* hashed, and the file has only moved on since.
BundleInv ==
  /\ step \in Observing \cup {"idle"} => bundle.manifest
  /\ bundle.manifest =>
       /\ step \notin {"hash", "copy", "recheck", "end"}
       /\ bundle.hash \in Nat /\ bundle.file \in Nat /\ bundle.hash <= bundle.file

\* What ran is what the receipt records.
Ranged(r) ==
  /\ r.ran.placement = r.placement
  /\ ~r.replaced => r.ran.file = r.bundle /\ r.ran.plan = r.backend

Honest(r) == Ranged(r) /\ r.correct /\ r.memory = Evidence[r.backend]

\* While a run relies on its bundle, that one is in place or was replaced.
InPlace ==
  /\ step = "identify" /\ ~receipt.replaced => receipt.backend = bundle.plan
  /\ step \in {"admit", "resources", "launch", "running"} /\ ~receipt.replaced =>
       receipt.bundle = bundle.hash /\ receipt.backend = bundle.plan

\* What ran is between what was recorded and what is there.
Bracketed ==
  step = "running" /\ outcome # "incomplete" =>
    /\ receipt.ran \in [file : Nat, plan : Backend, placement : Nat]
    /\ receipt.placement <= receipt.ran.placement /\ receipt.ran.placement <= placement
    /\ ~receipt.replaced =>
         /\ receipt.bundle <= receipt.ran.file /\ receipt.ran.file <= bundle.file
         /\ receipt.ran.plan = receipt.backend

RunInv ==
  /\ step \in Planned => receipt.backend \in Backend
  /\ step \in Identified =>
       /\ receipt.bundle \in Nat
       /\ receipt.placement \in Nat /\ receipt.placement <= placement
  /\ InPlace /\ Bracketed
  /\ step \in Ran => Ranged(receipt)
  /\ step \in Ran \ {"driver"} => receipt.correct
  /\ step = "done" => receipt.memory = Evidence[receipt.backend]
  /\ step = "packet" /\ receipt.status = "complete" => Honest(receipt)

\* What a good run supervised is gone.
Gone ==
  \/ step \in {"driver", "parser", "done"}
  \/ step \in {"running", "parsing"} /\ outcome = "ok"
  \/ step = "packet" /\ receipt.status = "complete"

Says(n) == packet[n] # Nil /\ packet[n].status = "complete"

AttemptInv ==
  /\ \A n \in Attempt :
       /\ output[n] = Nil => packet[n] = Nil
       /\ packet[n] = Nil => output[n] \in {Nil, 0, 1}
       /\ packet[n] # Nil => packet[n].artifacts \in {0, 1}
       /\ Says(n) => Honest(packet[n])
  /\ step \in Observing => packet[name] = Nil /\ output[name] # Nil
  /\ Gone => child = Nil
  /\ child # Nil => output[child.dir] # Nil /\ ~Says(child.dir)

FleetInv ==
  /\ FleetTypeOK /\ BundleTypeOK /\ OutcomeTypeOK /\ OutputTypeOK /\ ReceiptTypeOK /\ ChildTypeOK
  /\ BundleInv /\ RunInv /\ AttemptInv

(***************************************************************************)
(* What a step of the runner does to the receipt of its observation.       *)
(***************************************************************************)
Opens == step = "idle" /\ step' = "verify" /\ receipt' = NewReceipt
Leaves ==
  /\ step \in Observing \ {"packet"} /\ step' = "packet"
  /\ \E s \in Status : /\ receipt' = [receipt EXCEPT !.status = s]
                       /\ s = "complete" => step = "done"
Plans ==
  /\ step = "verify" /\ step' = "identify" /\ UNCHANGED machine
  /\ receipt' = [receipt EXCEPT !.backend = bundle.plan]
Identifies ==
  /\ step = "identify" /\ step' = "admit" /\ UNCHANGED machine
  /\ receipt' = [receipt EXCEPT !.bundle = bundle.hash, !.placement = placement]
Launches ==
  /\ step = "launch" /\ step' = "running" /\ UNCHANGED machine
  /\ receipt' = [receipt EXCEPT !.ran = Running]
Checks ==
  /\ step = "running" /\ step' = "driver" /\ receipt' = receipt
  /\ outcome = "ok" /\ placement = receipt.placement /\ bundle.file = bundle.hash
Reads ==
  /\ step = "driver" /\ step' = IF receipt.backend = "heaptrack" THEN "parser" ELSE "done"
  /\ receipt' = [receipt EXCEPT !.correct = TRUE,
        !.memory = IF receipt.backend = "heaptrack" THEN {} ELSE Evidence[receipt.backend]]
Parses ==
  /\ step = "parsing" /\ step' = "done" /\ outcome = "ok"
  /\ receipt' = [receipt EXCEPT !.memory = Evidence[receipt.backend]]
Replaces ==
  /\ Relied /\ step' = step /\ outcome' = outcome /\ placement' = placement
  /\ receipt' = [receipt EXCEPT !.replaced = TRUE]
Stays ==
  /\ step \in Observing /\ receipt' = receipt
  /\ \/ step' = step /\ (outcome' = outcome \/ outcome = Nil)
     \/ step = "admit" /\ step' = "resources"
     \/ step = "resources" /\ step' = "launch"
     \/ step = "launch" /\ step' = "running" /\ outcome' = "incomplete"
     \/ step = "parser" /\ step' = "parsing"

(* These are all: every step of an observation is one of them.             *)
LEMMA ReceiptEffects ==
  ASSUME FleetTypeOK, OutcomeTypeOK, [FleetNext]_fleetVars, step' \in Observing
  PROVE  \/ Opens \/ Leaves \/ Plans \/ Identifies \/ Launches \/ Checks \/ Reads \/ Parses
         \/ Replaces \/ Stays
<1> USE DEF machine, runner, files, FleetTypeOK, Observing
<1>0. ASSUME NEW s, s # "complete", Leave(s), step \in Observing \ {"packet"}
      PROVE  Leaves
  <2>1. "incomplete" \in Status /\ "incomplete" # "complete"  BY SMT DEF Status
  <2> QED  BY <1>0, <2>1, Zenon DEF Leave, Leaves
<1>b. {"verify", "identify", "admit", "resources", "running", "driver", "parsing", "done"}
        \subseteq Observing \ {"packet"}
  BY SMT
<1> HIDE DEF Observing
<1> USE DEF Stays
<1>1. CASE Bundling
  BY <1>1, SMT DEF Bundling, HashSource, Copy, Recheck, Observing
<1>2. CASE OpenRun  BY <1>2, SMT DEF OpenRun, Opens
<1>3. CASE VerifyBundle
  <2>1. CASE Leave("cancelled") \/ Leave("identity_mismatch") \/ Leave("invalid_plan")
    <3>1. step \in Observing \ {"packet"}  BY <1>3, <1>b DEF VerifyBundle
    <3> QED  BY <1>0, <2>1, <3>1
  <2> QED  BY <1>3, <2>1, SMT DEF VerifyBundle, PlanRefused, Plans
<1>17. CASE Identify
  <2>1. CASE Leave("unsupported_placement")
    <3>1. step \in Observing \ {"packet"}  BY <1>17, <1>b DEF Identify
    <3> QED  BY <1>0, <2>1, <3>1
  <2> QED  BY <1>17, <2>1, SMT DEF Identify, Identifies
<1>4. CASE Admit
  <2>1. CASE Leave("cancelled") \/ Leave("busy")
    <3>1. step \in Observing \ {"packet"}  BY <1>4, <1>b DEF Admit
    <3> QED  BY <1>0, <2>1, <3>1
  <2> QED  BY <1>4, <1>b, <2>1, SMT DEF Admit
<1>5. CASE AwaitResources
  <2>1. CASE Leave("cancelled") \/ Leave("busy") \/ Leave("unsupported")
    <3>1. step \in Observing \ {"packet"}  BY <1>5, <1>b DEF AwaitResources
    <3> QED  BY <1>0, <2>1, <3>1
  <2> QED  BY <1>5, <1>b, <2>1, SMT DEF AwaitResources
<1>6. CASE Launch  BY <1>6, SMT DEF Launch, Launches, Observing
<1>7. CASE Supervise  BY <1>7, SMT DEF Supervise
<1>8. CASE CheckRun
  <2>0. step \in Observing \ {"packet"}  BY <1>8, <1>b DEF CheckRun
  <2>1. CASE Leave("child_failed") \/ Leave("placement_changed") \/ Leave("identity_mismatch")
    BY <1>0, <2>0, <2>1
  <2>2. CASE outcome # Nil /\ Leave(outcome)
    <3>1. outcome # "complete"  BY <2>2, SMT DEF OutcomeTypeOK, Outcomes
    <3> QED  BY <1>0, <2>0, <2>2, <3>1
  <2> QED  BY <1>8, <1>b, <2>1, <2>2, SMT DEF CheckRun, Checks, Whole
<1>9. CASE ReadDriver
  <2>1. CASE Leave("wrong_output") \/ Leave("invalid_measurement") \/ Leave("incomplete")
    <3>1. step \in Observing \ {"packet"}  BY <1>9, <1>b DEF ReadDriver
    <3> QED  BY <1>0, <2>1, <3>1
  <2> QED  BY <1>9, <1>b, <2>1, SMT DEF ReadDriver, Reads, EvidenceOf
<1>10. CASE ReadStacks
  <2>0. step \in Observing \ {"packet"}  BY <1>10, <1>b DEF ReadStacks
  <2>1. CASE Leave("incomplete")  BY <1>0, <2>0, <2>1
  <2>2. CASE outcome # Nil /\ Leave(outcome)
    <3>1. outcome # "complete"  BY <2>2, SMT DEF OutcomeTypeOK, Outcomes
    <3> QED  BY <1>0, <2>0, <2>2, <3>1
  <2> QED  BY <1>10, <1>b, <2>1, <2>2, SMT DEF ReadStacks, Parses, EvidenceOf
<1>11. CASE Complete
  <2>1. "complete" \in Status  BY SMT DEF Status
  <2>2. step \in Observing \ {"packet"}  BY <1>11, <1>b DEF Complete
  <2>3. receipt' = [receipt EXCEPT !.status = "complete"] /\ step' = "packet" /\ step = "done"
    BY <1>11, Zenon DEF Complete, Leave
  <2> QED  BY <1>11, <2>1, <2>2, <2>3, Zenon DEF Complete, Leaves
<1>12. CASE WritePacket  BY <1>12, SMT DEF WritePacket, Observing
<1>13. CASE ChildExits \/ ChildWrites \/ Cancel \/ RemoveOrphan
  BY <1>13, SMT DEF ChildExits, ChildWrites, Cancel, RemoveOrphan
<1>14. CASE Change
  <2>1. step' = step /\ outcome' = outcome /\ step \in Observing  BY <1>14, Zenon DEF Change
  <2>2. \/ receipt' = receipt
        \/ /\ Relied /\ placement' = placement
           /\ receipt' = [receipt EXCEPT !.replaced = TRUE]
    <3>1. \/ UNCHANGED receipt
          \/ Redeploy /\ placement' = placement
      BY <1>14, Zenon DEF Change, Edit
    <3>2. Redeploy => \/ UNCHANGED receipt
                      \/ /\ Relied
                         /\ receipt' = [receipt EXCEPT !.replaced = TRUE]
      BY Zenon DEF Redeploy
    <3> QED  BY <3>1, <3>2, Zenon
  <2> QED  BY <2>1, <2>2, Zenon DEF Replaces
<1>15. CASE Kill  BY <1>15, SMT DEF Kill, Observing
<1>16. CASE UNCHANGED fleetVars  BY <1>16, SMT DEF fleetVars
<1> QED
  BY <1>1, <1>2, <1>3, <1>4, <1>5, <1>6, <1>7, <1>8, <1>9, <1>10, <1>11, <1>12, <1>13, <1>14, <1>15,
     <1>16, <1>17, Zenon
     DEF FleetNext, Runner

(* The memory records that an observation ends with.                       *)
LEMMA EvidenceSays == \A b \in Backend : Evidence[b] \in SUBSET Records
<1> SUFFICES ASSUME NEW b \in Backend PROVE Evidence[b] \in SUBSET Records
  OBVIOUS
<1>1. b \in {"wall", "driver", "os_peak", "heaptrack"}  BY FleetRunAssumption
<1> QED  BY <1>1, SMT DEF Evidence, Records

(* Every step keeps the type of the receipt.                               *)
LEMMA ReceiptTypeStep ==
  ASSUME FleetTypeOK, BundleTypeOK, OutcomeTypeOK, BundleInv, ReceiptTypeOK, RunInv,
         [FleetNext]_fleetVars
  PROVE  ReceiptTypeOK'
<1> SUFFICES ASSUME step' \in Observing PROVE receipt' \in Receipt
  BY DEF ReceiptTypeOK
<1>1. step \in Observing => receipt \in Receipt  BY DEF ReceiptTypeOK
<1>2. bundle.hash \in Nat \cup {Nil} /\ placement \in Nat /\ bundle.plan \in Backend
  BY DEF BundleTypeOK, FleetTypeOK
<1>3. step \in Observing => bundle.file \in Nat
  BY DEF BundleInv
<1>4. /\ "launch" \in Observing /\ "verify" \in Observing /\ "driver" \in Observing
      /\ "parsing" \in Observing /\ "identify" \in Observing
      /\ step \in {"driver", "parsing"} => step \in Planned
  BY SMT DEF Observing, Planned
<1>5. step \in Planned => Evidence[receipt.backend] \in SUBSET Records
  BY EvidenceSays DEF RunInv
<1>6. CASE Opens
  <2>1. "incomplete" \in Status  BY SMT DEF Status
  <2> QED  BY <1>2, <1>6, <2>1, SMT DEF Opens, NewReceipt, Receipt
<1>7. ASSUME NEW s \in Status, step \in Observing, receipt' = [receipt EXCEPT !.status = s]
      PROVE  receipt' \in Receipt
  BY <1>1, <1>7, SMT DEF Receipt
<1>8. ASSUME NEW b \in Nat \cup {Nil}, NEW p \in Nat, step = "identify",
             receipt' = [receipt EXCEPT !.bundle = b, !.placement = p]
      PROVE  receipt' \in Receipt
  <2>1. receipt \in Receipt  BY <1>1, <1>4, <1>8
  <2> DEFINE q == [receipt EXCEPT !.bundle = b]
  <2>2. q \in Receipt  BY <2>1, SMT DEF Receipt
  <2>3. receipt' = [q EXCEPT !.placement = p]  BY <1>8, <2>1, SMT DEF Receipt
  <2> HIDE DEF q
  <2> QED  BY <2>2, <2>3, SMT DEF Receipt
<1>9. CASE Launches
  <2>1. receipt \in Receipt /\ Running \in [file : Nat, plan : Backend, placement : Nat]
    BY <1>1, <1>2, <1>3, <1>4, <1>9, SMT DEF Launches, Running
  <2> QED  BY <1>9, <2>1, SMT DEF Launches, Receipt
<1>10. ASSUME NEW m \in SUBSET Records, step = "driver",
              receipt' = [receipt EXCEPT !.correct = TRUE, !.memory = m]
       PROVE  receipt' \in Receipt
  <2>1. receipt \in Receipt  BY <1>1, <1>4, <1>10
  <2> DEFINE q == [receipt EXCEPT !.correct = TRUE]
  <2>2. q \in Receipt  BY <2>1, Zenon DEF Receipt
  <2>3. receipt' = [q EXCEPT !.memory = m]  BY <1>10, <2>1, SMT DEF Receipt
  <2> HIDE DEF q
  <2> QED  BY <2>2, <2>3, SMT DEF Receipt
<1>11. CASE Parses
  <2>1. receipt \in Receipt  BY <1>1, <1>4, <1>11 DEF Parses
  <2>2. Evidence[receipt.backend] \in SUBSET Records  BY <1>4, <1>5, <1>11 DEF Parses
  <2> QED  BY <1>11, <2>1, <2>2, SMT DEF Parses, Receipt
<1>12. CASE Reads
  <2>1. {} \in SUBSET Records  OBVIOUS
  <2>2. CASE receipt.backend = "heaptrack"
    BY <1>10, <1>12, <2>1, <2>2, Zenon DEF Reads
  <2>3. CASE receipt.backend # "heaptrack"
    <3>1. Evidence[receipt.backend] \in SUBSET Records  BY <1>4, <1>5, <1>12 DEF Reads
    <3> QED  BY <1>10, <1>12, <2>3, <3>1, Zenon DEF Reads
  <2> QED  BY <2>2, <2>3
<1>13. CASE Checks \/ Stays  BY <1>1, <1>13, SMT DEF Checks, Stays, Observing
<1>14. CASE Leaves  BY <1>7, <1>14, Zenon DEF Leaves
<1>15. CASE Identifies  BY <1>2, <1>8, <1>15, Zenon DEF Identifies
<1>16. CASE Plans
  <2>1. receipt \in Receipt  BY <1>1, <1>4, <1>16 DEF Plans
  <2> QED  BY <1>2, <1>16, <2>1, SMT DEF Plans, Receipt
<1>17. CASE Replaces
  <2>1. receipt \in Receipt  BY <1>1, <1>17, SMT DEF Replaces, Relied, Observing
  <2> QED  BY <1>17, <2>1, Zenon DEF Replaces, Receipt
<1> QED
  BY <1>6, <1>9, <1>11, <1>12, <1>13, <1>14, <1>15, <1>16, <1>17, ReceiptEffects, Zenon

(* What a step does to the bundle.                                         *)
LEMMA BundleEffects ==
  ASSUME FleetTypeOK, BundleTypeOK, [FleetNext]_fleetVars
  PROVE  \/ UNCHANGED bundle
         \/ step = "hash" /\ step' = "copy" /\ bundle' = [bundle EXCEPT !.hash = source]
         \/ step = "copy" /\ step' = "recheck" /\ bundle' = [bundle EXCEPT !.file = source]
         \/ /\ step = "recheck" /\ step' = "idle" /\ bundle.file = bundle.hash
            /\ source = bundle.hash /\ bundle' = [bundle EXCEPT !.manifest = TRUE]
         \/ /\ bundle.manifest /\ UNCHANGED step
            /\ bundle' = [bundle EXCEPT !.file = bundle.file + 1]
         \/ /\ bundle.manifest /\ UNCHANGED step
            /\ \E b \in Backend : bundle' = [bundle EXCEPT
                    !.file = bundle.file + 1, !.hash = bundle.file + 1, !.plan = b]
            /\ Relied => receipt' = [receipt EXCEPT !.replaced = TRUE]
<1>1. CASE Bundling
  BY <1>1, Zenon DEF Bundling, HashSource, Copy, Recheck
<1>2. CASE Change  BY <1>2, Zenon DEF Change, Edit, Redeploy
<1>3. CASE OpenRun \/ VerifyBundle \/ Identify \/ Admit \/ AwaitResources \/ Launch \/ Supervise \/ CheckRun
  BY <1>3, Zenon DEF OpenRun, VerifyBundle, Identify, Admit, AwaitResources, Launch, Supervise, CheckRun, machine
<1>4. CASE ReadDriver \/ ReadStacks \/ Complete \/ WritePacket
  BY <1>4, Zenon DEF ReadDriver, ReadStacks, Complete, WritePacket, machine
<1>5. CASE ChildExits \/ ChildWrites \/ Cancel \/ Kill \/ RemoveOrphan
  BY <1>5, Zenon DEF ChildExits, ChildWrites, Cancel, Kill, RemoveOrphan, machine
<1>6. CASE UNCHANGED fleetVars  BY <1>6, Zenon DEF fleetVars, machine
<1> QED  BY <1>1, <1>2, <1>3, <1>4, <1>5, <1>6, Zenon DEF FleetNext, Runner

(* Every step keeps the type of the bundle, and what its manifest names.   *)
LEMMA BundleStep ==
  ASSUME FleetTypeOK, BundleTypeOK, BundleInv, ReceiptTypeOK, [FleetNext]_fleetVars
  PROVE  /\ BundleTypeOK'
         /\ bundle.manifest => bundle'.manifest /\ bundle.file <= bundle'.file
         /\ bundle.manifest => \/ bundle'.hash = bundle.hash /\ bundle'.plan = bundle.plan
                               \/ step' = step /\ (Relied => receipt'.replaced)
         /\ bundle'.manifest /\ ~bundle.manifest => step' = "idle"
         /\ bundle'.manifest => bundle'.hash \in Nat /\ bundle'.file \in Nat
                                /\ bundle'.hash <= bundle'.file
<1> USE DEF BundleTypeOK, BundleInv, FleetTypeOK, Observing
<1>1. CASE UNCHANGED bundle  BY <1>1, SMT
<1>2. CASE step = "hash" /\ bundle' = [bundle EXCEPT !.hash = source]  BY <1>2, SMT
<1>3. CASE step = "copy" /\ bundle' = [bundle EXCEPT !.file = source]  BY <1>3, SMT
<1>4. CASE /\ step = "recheck" /\ step' = "idle" /\ bundle.file = bundle.hash
           /\ source = bundle.hash /\ bundle' = [bundle EXCEPT !.manifest = TRUE]
  <2>1. bundle'.hash = bundle.hash /\ bundle'.file = bundle.file /\ bundle'.manifest = TRUE
    BY <1>4, Zenon
  <2>2. BundleTypeOK' /\ bundle'.plan = bundle.plan  BY <1>4, Zenon
  <2>3. bundle.hash \in Nat  BY <1>4
  <2> QED  BY <1>4, <2>1, <2>2, <2>3, SMT
<1>5. CASE bundle.manifest /\ UNCHANGED step /\ bundle' = [bundle EXCEPT !.file = bundle.file + 1]
  <2>1. bundle.file \in Nat /\ bundle.hash \in Nat /\ bundle.hash <= bundle.file  BY <1>5
  <2>2. bundle.file + 1 \in Nat  BY <2>1, SMT
  <2>3. bundle'.hash = bundle.hash /\ bundle'.file = bundle.file + 1 /\ bundle'.manifest = bundle.manifest
    BY <1>5, Zenon
  <2>4. BundleTypeOK'  BY <1>5, <2>2, SMT
  <2>5. bundle'.plan = bundle.plan  BY <1>5, Zenon
  <2> QED  BY <1>5, <2>1, <2>3, <2>4, <2>5, SMT
<1>6. CASE /\ bundle.manifest /\ UNCHANGED step
           /\ \E b \in Backend : bundle' = [bundle EXCEPT
                   !.file = bundle.file + 1, !.hash = bundle.file + 1, !.plan = b]
           /\ Relied => receipt' = [receipt EXCEPT !.replaced = TRUE]
  <2>1. bundle.file \in Nat /\ bundle.file + 1 \in Nat /\ bundle.file <= bundle.file + 1
    <3>1. bundle.file \in Nat  BY <1>6
    <3> QED  BY <3>1, SMT
  <2>2. PICK b \in Backend : bundle' = [bundle EXCEPT
          !.file = bundle.file + 1, !.hash = bundle.file + 1, !.plan = b]
    BY <1>6
  <2>3. /\ bundle'.file = bundle.file + 1 /\ bundle'.hash = bundle.file + 1
        /\ bundle'.manifest = bundle.manifest /\ BundleTypeOK'
    <3>1. bundle.file + 1 \in Nat \cup {Nil}  BY <2>1
    <3>2. bundle \in [file : Nat \cup {Nil}, hash : Nat \cup {Nil}, manifest : BOOLEAN, plan : Backend]
      OBVIOUS
    <3> HIDE DEF BundleTypeOK
    <3>3. bundle' = [file |-> bundle.file + 1, hash |-> bundle.file + 1,
                     manifest |-> bundle.manifest, plan |-> b]
      BY <2>2, <3>2, Zenon
    <3>4. bundle.manifest \in BOOLEAN  BY <3>2, Zenon
    <3>5. BundleTypeOK'  BY <3>1, <3>3, <3>4, Zenon DEF BundleTypeOK
    <3> QED  BY <3>3, <3>5, Zenon
  <2>4. Relied => receipt'.replaced
    <3>1. Relied => receipt \in Receipt  BY SMT DEF Relied, ReceiptTypeOK
    <3> QED  BY <1>6, <3>1, Zenon DEF Receipt
  <2>5. bundle'.file \in Nat /\ bundle'.hash \in Nat /\ bundle'.hash <= bundle'.file
        /\ bundle.file <= bundle'.file
    BY <2>1, <2>3, SMT
  <2> QED  BY <1>6, <2>3, <2>4, <2>5, Zenon
<1> QED  BY <1>1, <1>2, <1>3, <1>4, <1>5, <1>6, BundleEffects, Zenon

(* An observation follows a manifest, and is followed by nothing but the next. *)
LEMMA StepOrder ==
  ASSUME FleetTypeOK, [FleetNext]_fleetVars
  PROVE  /\ step' \in Observing => step \in Observing \cup {"idle"}
         /\ step' = "idle" => step \in Observing \cup {"idle"} \cup {"recheck"}
         /\ step \in Observing \cup {"idle"} => step' \in Observing \cup {"idle"}
<1> USE FleetRunAssumption DEF machine, runner, files, FleetTypeOK, Observing
<1>1. CASE HashSource \/ Copy \/ Recheck
  BY <1>1, SMT DEF HashSource, Copy, Recheck
<1>2. CASE OpenRun
  BY <1>2, SMT DEF OpenRun, CreateDirectory
<1>3. CASE VerifyBundle
  BY <1>3, SMT DEF VerifyBundle, Leave, PlanRefused
<1>4. CASE Admit \/ Identify
  BY <1>4, SMT DEF Admit, Identify, Leave
<1>5. CASE AwaitResources
  BY <1>5, SMT DEF AwaitResources, Leave
<1>6. CASE Launch
  BY <1>6, SMT DEF Launch
<1>7. CASE Supervise
  BY <1>7, SMT DEF Supervise
<1>8. CASE CheckRun
  BY <1>8, SMT DEF CheckRun, Leave
<1>9. CASE ReadDriver
  BY <1>9, SMT DEF ReadDriver, Leave
<1>10. CASE ReadStacks
  BY <1>10, SMT DEF ReadStacks, Leave
<1>11. CASE Complete
  BY <1>11, SMT DEF Complete, Leave
<1>12. CASE WritePacket
  BY <1>12, SMT DEF WritePacket
<1>13. CASE ChildExits \/ ChildWrites \/ Cancel
  BY <1>13, SMT DEF ChildExits, ChildWrites, Cancel
<1>14. CASE Change
  BY <1>14, SMT DEF Change
<1>15. CASE Kill \/ RemoveOrphan
  BY <1>15, SMT DEF Kill, RemoveOrphan
<1>16. CASE UNCHANGED fleetVars
  BY <1>16, SMT DEF fleetVars
<1> QED
  BY <1>1, <1>2, <1>3, <1>4, <1>5, <1>6, <1>7, <1>8, <1>9, <1>10, <1>11, <1>12, <1>13, <1>14, <1>15, <1>16, Zenon
     DEF FleetNext, Bundling, Runner

(* Every step keeps the types.                                             *)
LEMMA FleetTypeStep ==
  ASSUME FleetTypeOK, [FleetNext]_fleetVars
  PROVE  FleetTypeOK' /\ placement <= placement'
<1> USE FleetRunAssumption DEF machine, runner, files, FleetTypeOK, Observing
<1>1. CASE HashSource \/ Copy \/ Recheck
  BY <1>1, SMT DEF HashSource, Copy, Recheck
<1>2. CASE OpenRun
  BY <1>2, SMT DEF OpenRun, CreateDirectory
<1>3. CASE VerifyBundle
  BY <1>3, SMT DEF VerifyBundle, Leave, PlanRefused
<1>4. CASE Admit \/ Identify
  BY <1>4, SMT DEF Admit, Identify, Leave
<1>5. CASE AwaitResources
  BY <1>5, SMT DEF AwaitResources, Leave
<1>6. CASE Launch
  BY <1>6, SMT DEF Launch
<1>7. CASE Supervise
  BY <1>7, SMT DEF Supervise
<1>8. CASE CheckRun
  BY <1>8, SMT DEF CheckRun, Leave
<1>9. CASE ReadDriver
  BY <1>9, SMT DEF ReadDriver, Leave
<1>10. CASE ReadStacks
  BY <1>10, SMT DEF ReadStacks, Leave
<1>11. CASE Complete
  BY <1>11, SMT DEF Complete, Leave
<1>12. CASE WritePacket
  BY <1>12, SMT DEF WritePacket
<1>13. CASE ChildExits \/ ChildWrites \/ Cancel
  BY <1>13, SMT DEF ChildExits, ChildWrites, Cancel
<1>14. CASE Change
  BY <1>14, SMT DEF Change
<1>15. CASE Kill \/ RemoveOrphan
  BY <1>15, SMT DEF Kill, RemoveOrphan
<1>16. CASE UNCHANGED fleetVars
  BY <1>16, SMT DEF fleetVars
<1> QED
  BY <1>1, <1>2, <1>3, <1>4, <1>5, <1>6, <1>7, <1>8, <1>9, <1>10, <1>11, <1>12, <1>13, <1>14, <1>15, <1>16, Zenon
     DEF FleetNext, Bundling, Runner

(* Every step keeps the type of the outcome.                               *)
LEMMA OutcomeTypeStep ==
  ASSUME OutcomeTypeOK, [FleetNext]_fleetVars
  PROVE  OutcomeTypeOK'
<1> USE DEF machine, runner, files
<1>1. CASE Bundling \/ OpenRun \/ VerifyBundle \/ Identify \/ Admit \/ AwaitResources
  BY <1>1, Zenon DEF OutcomeTypeOK, Bundling, HashSource, Copy, Recheck, OpenRun, VerifyBundle,
     Identify, Admit, AwaitResources
<1>2. CASE Launch \/ Supervise
  BY <1>2, SMT DEF OutcomeTypeOK, Outcomes, Launch, Supervise
<1>3. CASE CheckRun \/ ReadStacks \/ Kill
  BY <1>3, Zenon DEF OutcomeTypeOK, CheckRun, ReadStacks, Kill
<1>4. CASE ReadDriver \/ Complete \/ WritePacket
  BY <1>4, Zenon DEF OutcomeTypeOK, ReadDriver, Complete, WritePacket
<1>5. CASE ChildExits \/ ChildWrites \/ Change \/ Cancel \/ RemoveOrphan
  BY <1>5, Zenon DEF OutcomeTypeOK, ChildExits, ChildWrites, Change, Cancel, RemoveOrphan
<1>6. CASE UNCHANGED fleetVars  BY <1>6, Zenon DEF OutcomeTypeOK, fleetVars
<1> QED
  BY <1>1, <1>2, <1>3, <1>4, <1>5, <1>6, Zenon DEF FleetNext, Runner

(* Only a bundle whose copy was compared is ready for an observation.      *)
LEMMA RecheckSays ==
  ASSUME FleetTypeOK, BundleTypeOK, [FleetNext]_fleetVars, step = "recheck", step' = "idle"
  PROVE  bundle'.manifest
<1>1. CASE Recheck
  <2>1. bundle' = [bundle EXCEPT !.manifest = TRUE]  BY <1>1, SMT DEF Recheck
  <2> QED  BY <2>1, Zenon DEF BundleTypeOK
<1>2. CASE ~Recheck
  <2> USE DEF machine, runner
  <2>1. ~(HashSource \/ Copy \/ OpenRun)  BY SMT DEF HashSource, Copy, OpenRun
  <2>2. ~Runner
    BY SMT DEF Runner, VerifyBundle, Identify, Admit, AwaitResources, Launch, Supervise, CheckRun,
       ReadDriver, ReadStacks, Complete, WritePacket
  <2>3. ~(ChildExits \/ ChildWrites \/ Change \/ Cancel \/ Kill \/ RemoveOrphan)
    BY SMT DEF ChildExits, ChildWrites, Change, Cancel, Kill, RemoveOrphan
  <2>4. ~UNCHANGED fleetVars  BY SMT DEF fleetVars
  <2> QED  BY <1>2, <2>1, <2>2, <2>3, <2>4, Zenon DEF FleetNext, Bundling
<1> QED  BY <1>1, <1>2

(* A bundle is observed behind its manifest, which names what was hashed.  *)
LEMMA BundleInvStep ==
  ASSUME FleetTypeOK, BundleTypeOK, BundleInv, ReceiptTypeOK, [FleetNext]_fleetVars
  PROVE  BundleInv'
<1>1. step' \in Observing \cup {"idle"} => bundle'.manifest
  <2>1. step \in Observing \cup {"idle"} => bundle'.manifest
    BY BundleStep, Zenon DEF BundleInv
  <2>2. step' \in Observing \cup {"idle"} =>
          step \in Observing \cup {"idle"} \/ (step = "recheck" /\ step' = "idle")
    BY StepOrder, SMT DEF Observing
  <2> QED  BY <2>1, <2>2, RecheckSays, Zenon
<1>2. bundle'.manifest => step' \in Observing \cup {"idle"}
  <2>1. bundle.manifest => step \in Observing \cup {"idle"}
    BY SMT DEF BundleInv, FleetTypeOK, Observing
  <2>2. bundle'.manifest => bundle.manifest \/ step' = "idle"
    BY BundleStep, Zenon
  <2>3. step \in Observing \cup {"idle"} => step' \in Observing \cup {"idle"}
    BY StepOrder, Zenon
  <2>4. "idle" \in Observing \cup {"idle"}  OBVIOUS
  <2> QED  BY <2>1, <2>2, <2>3, <2>4, Zenon
<1>3. bundle'.manifest => bundle'.hash \in Nat /\ bundle'.file \in Nat /\ bundle'.hash <= bundle'.file
  BY BundleStep, Zenon
<1>4. step' \in Observing \cup {"idle"} => step' \notin {"hash", "copy", "recheck", "end"}
  BY SMT DEF Observing
<1> QED  BY <1>1, <1>2, <1>3, <1>4, Zenon DEF BundleInv

(* What a run recorded before its child brackets what is found after it.   *)
LEMMA RunStep ==
  ASSUME FleetTypeOK, BundleTypeOK, OutcomeTypeOK, ReceiptTypeOK, BundleInv, RunInv,
         [FleetNext]_fleetVars
  PROVE  RunInv'
<1> USE DEF Observing, Planned, Identified, Ran
<1>0. /\ bundle.manifest => bundle.file <= bundle'.file
      /\ bundle.manifest => \/ bundle'.hash = bundle.hash /\ bundle'.plan = bundle.plan
                            \/ step' = step /\ (Relied => receipt'.replaced)
      /\ placement <= placement' /\ placement' \in Nat /\ placement \in Nat
      /\ bundle.plan \in Backend
  BY BundleStep, FleetTypeStep, Zenon DEF FleetTypeOK, BundleTypeOK
<1>1. /\ step \in Observing => receipt \in Receipt /\ bundle.manifest
      /\ bundle.manifest => bundle.hash \in Nat /\ bundle.file \in Nat /\ bundle.hash <= bundle.file
  BY Zenon DEF ReceiptTypeOK, BundleInv
<1>2. step' \in Observing => bundle'.file \in Nat
  BY BundleInvStep, Zenon DEF BundleInv
<1> HIDE DEF Observing, Planned, Identified, Ran
<1>3. CASE step' \notin Observing
  BY <1>3, SMT DEF RunInv, InPlace, Bracketed, Observing, Planned, Identified, Ran
<1>4. CASE Opens
  <2>1. step' = "verify"  BY <1>4 DEF Opens
  <2> QED  BY <2>1, SMT DEF RunInv, InPlace, Bracketed, Observing, Planned, Identified, Ran
<1>5. CASE Leaves
  <2>1. receipt \in Receipt  BY <1>1, <1>5 DEF Leaves
  <2>2. PICK s \in Status : receipt' = [receipt EXCEPT !.status = s] /\ (s = "complete" => step = "done")
    BY <1>5 DEF Leaves
  <2>3. /\ receipt'.status = s /\ receipt'.bundle = receipt.bundle
        /\ receipt'.backend = receipt.backend /\ receipt'.placement = receipt.placement
        /\ receipt'.ran = receipt.ran /\ receipt'.correct = receipt.correct
        /\ receipt'.memory = receipt.memory /\ receipt'.replaced = receipt.replaced
    BY <2>1, <2>2, SMT DEF Receipt
  <2>4. s = "complete" => Honest(receipt)
    <3>1. step = "done" => step \in Ran /\ step \in Ran \ {"driver"}
      BY SMT DEF Ran
    <3> QED  BY <2>2, <3>1, Zenon DEF RunInv, Honest
  <2>5. step' = "packet" /\ step' \notin Planned /\ step' \notin Identified /\ step' \notin Ran
    BY <1>5, SMT DEF Leaves, Planned, Identified, Observing, Ran
  <2>6. s = "complete" => Honest(receipt)'
    BY <2>3, <2>4, Zenon DEF Honest, Ranged
  <2> QED  BY <2>3, <2>5, <2>6, SMT DEF RunInv, InPlace, Bracketed
<1>6. CASE Plans
  <2>1. receipt \in Receipt /\ bundle.manifest  BY <1>1, <1>6, SMT DEF Plans, Observing
  <2>2. receipt'.backend = bundle.plan /\ step' = "identify" /\ bundle' = bundle
    BY <1>6, <2>1, Zenon DEF Plans, Receipt, machine
  <2> QED
    BY <1>0, <2>2, SMT DEF RunInv, InPlace, Bracketed, Planned, Identified, Observing, Ran
<1>7. CASE Identifies
  <2>1. receipt \in Receipt /\ bundle.manifest /\ receipt.backend \in Backend
        /\ (~receipt.replaced => receipt.backend = bundle.plan)
    BY <1>1, <1>7, SMT DEF Identifies, Observing, Planned, RunInv, InPlace
  <2>2. /\ receipt'.bundle = bundle.hash /\ receipt'.placement = placement
        /\ receipt'.backend = receipt.backend /\ receipt'.replaced = receipt.replaced
    BY <1>7, <2>1, Zenon DEF Identifies, Receipt
  <2>3. step' = "admit" /\ bundle' = bundle /\ placement' = placement
    BY <1>7 DEF Identifies, machine
  <2> QED
    BY <1>0, <1>1, <2>1, <2>2, <2>3, SMT
       DEF RunInv, InPlace, Bracketed, Planned, Identified, Observing, Ran
<1>8. CASE Launches
  <2>1. /\ receipt \in Receipt /\ bundle.manifest /\ receipt.backend \in Backend
        /\ receipt.bundle \in Nat /\ receipt.placement \in Nat /\ receipt.placement <= placement
        /\ ~receipt.replaced => receipt.bundle = bundle.hash /\ receipt.backend = bundle.plan
    BY <1>1, <1>8, SMT DEF Launches, Observing, Planned, Identified, RunInv, InPlace
  <2>2. /\ receipt'.ran = Running /\ receipt'.bundle = receipt.bundle
        /\ receipt'.backend = receipt.backend /\ receipt'.placement = receipt.placement
        /\ receipt'.replaced = receipt.replaced
    BY <1>8, <2>1, Zenon DEF Launches, Receipt
  <2>3. step' = "running" /\ bundle' = bundle /\ placement' = placement
    BY <1>8 DEF Launches, machine
  <2>4. /\ Running \in [file : Nat, plan : Backend, placement : Nat]
        /\ Running.file = bundle.file /\ Running.plan = bundle.plan /\ Running.placement = placement
    BY <1>0, <1>1, <2>1, SMT DEF Running
  <2>5. Bracketed'  BY <1>0, <1>1, <2>1, <2>2, <2>3, <2>4, SMT DEF Bracketed
  <2>6. InPlace'  BY <2>1, <2>2, <2>3, Zenon DEF InPlace
  <2> QED
    BY <2>1, <2>2, <2>3, <2>5, <2>6, SMT DEF RunInv, Planned, Identified, Observing, Ran
<1>9. CASE Checks
  <2>1. /\ receipt \in Receipt /\ bundle.manifest /\ receipt.backend \in Backend
        /\ receipt.bundle \in Nat /\ receipt.placement \in Nat /\ receipt.placement <= placement
        /\ ~receipt.replaced => receipt.bundle = bundle.hash /\ receipt.backend = bundle.plan
        /\ Bracketed /\ outcome # "incomplete" /\ step = "running"
    BY <1>1, <1>9, SMT DEF Checks, Observing, Planned, Identified, RunInv, InPlace
  <2>2. /\ receipt.ran.placement \in Nat /\ receipt.ran.file \in Nat
        /\ receipt.placement <= receipt.ran.placement /\ receipt.ran.placement <= placement
        /\ ~receipt.replaced =>
             /\ receipt.bundle <= receipt.ran.file /\ receipt.ran.file <= bundle.file
             /\ receipt.ran.plan = receipt.backend
    BY <2>1, Zenon DEF Bracketed
  <2>3. receipt.placement = placement /\ bundle.file = bundle.hash
    BY <1>9 DEF Checks
  <2>4. Ranged(receipt)
    <3>1. receipt.ran.placement = receipt.placement  BY <1>0, <2>1, <2>2, <2>3, SMT
    <3>2. ~receipt.replaced => receipt.ran.file = receipt.bundle
      BY <1>1, <2>1, <2>2, <2>3, SMT
    <3> QED  BY <2>2, <3>1, <3>2 DEF Ranged
  <2>5. step' = "driver" /\ receipt' = receipt  BY <1>9 DEF Checks
  <2>6. Ranged(receipt)'  BY <2>4, <2>5, Zenon DEF Ranged
  <2> QED
    BY <1>0, <2>1, <2>5, <2>6, SMT
       DEF RunInv, InPlace, Bracketed, Planned, Identified, Observing, Ran
<1>10. CASE Reads
  <2>1. /\ receipt \in Receipt /\ bundle.manifest /\ receipt.backend \in Backend
        /\ receipt.bundle \in Nat /\ receipt.placement \in Nat /\ receipt.placement <= placement
        /\ Ranged(receipt)
    BY <1>1, <1>10, SMT DEF Reads, Observing, Planned, Identified, Ran, RunInv
  <2>2. /\ receipt'.correct = TRUE
        /\ receipt'.memory = IF receipt.backend = "heaptrack" THEN {} ELSE Evidence[receipt.backend]
        /\ receipt'.bundle = receipt.bundle /\ receipt'.ran = receipt.ran
        /\ receipt'.backend = receipt.backend /\ receipt'.placement = receipt.placement
        /\ receipt'.replaced = receipt.replaced
    BY <1>10, <2>1, SMT DEF Reads, Receipt
  <2>3. step' = "done" => receipt'.memory = Evidence[receipt.backend]
    <3>1. step' = "done" => receipt.backend # "heaptrack"  BY <1>10, SMT DEF Reads
    <3> QED  BY <2>2, <3>1, Zenon
  <2>4. step' \in {"parser", "done"}  BY <1>10, SMT DEF Reads
  <2>5. receipt'.placement \in Nat /\ receipt'.placement <= placement'
    BY <1>0, <2>1, <2>2, SMT
  <2>6. Ranged(receipt)'  BY <2>1, <2>2, Zenon DEF Ranged
  <2>7. InPlace' /\ Bracketed' /\ step' # "packet"  BY <2>4, SMT DEF InPlace, Bracketed
  <2> QED  BY <2>1, <2>2, <2>3, <2>5, <2>6, <2>7, Zenon DEF RunInv
<1>11. CASE Parses
  <2>1. /\ receipt \in Receipt /\ bundle.manifest /\ receipt.backend \in Backend
        /\ receipt.bundle \in Nat /\ receipt.placement \in Nat /\ receipt.placement <= placement
        /\ Ranged(receipt) /\ receipt.correct
    BY <1>1, <1>11, SMT DEF Parses, Observing, Planned, Identified, Ran, RunInv
  <2>2. receipt'.correct = receipt.correct
    BY <1>11, <2>1, Zenon DEF Parses, Receipt
  <2>3. /\ receipt'.memory = Evidence[receipt.backend]
        /\ receipt'.bundle = receipt.bundle /\ receipt'.ran = receipt.ran
        /\ receipt'.backend = receipt.backend /\ receipt'.placement = receipt.placement
        /\ receipt'.replaced = receipt.replaced
    BY <1>11, <2>1, SMT DEF Parses, Receipt
  <2>4. step' = "done"  BY <1>11 DEF Parses
  <2>5. receipt'.placement \in Nat /\ receipt'.placement <= placement'
    BY <1>0, <2>1, <2>3, SMT
  <2>6. Ranged(receipt)'  BY <2>1, <2>3, Zenon DEF Ranged
  <2>7. InPlace' /\ Bracketed' /\ step' # "packet"  BY <2>4, SMT DEF InPlace, Bracketed
  <2> QED  BY <2>1, <2>2, <2>3, <2>5, <2>6, <2>7, Zenon DEF RunInv
<1>12. CASE Replaces
  <2>1. step \in {"identify", "admit", "resources", "launch", "running"} /\ step \in Observing
    BY <1>12, SMT DEF Replaces, Relied, Observing
  <2>2. receipt \in Receipt  BY <1>1, <2>1
  <2>3. /\ receipt'.replaced = TRUE
        /\ receipt'.bundle = receipt.bundle /\ receipt'.ran = receipt.ran
        /\ receipt'.backend = receipt.backend /\ receipt'.placement = receipt.placement
    BY <1>12, <2>2, Zenon DEF Replaces, Receipt
  <2>4. step' = step /\ outcome' = outcome /\ placement' = placement  BY <1>12 DEF Replaces
  <2>5. InPlace' /\ Bracketed'
    <3>1. InPlace'  BY <2>3 DEF InPlace
    <3>2. Bracketed'  BY <2>3, <2>4, Zenon DEF RunInv, Bracketed
    <3> QED  BY <3>1, <3>2
  <2>6. step' \notin Ran /\ step' # "packet" /\ step' # "done"  BY <2>1, <2>4, SMT DEF Ran
  <2> QED  BY <2>3, <2>4, <2>5, <2>6, Zenon DEF RunInv
<1>13. CASE Stays
  <2>1. /\ receipt \in Receipt /\ bundle.manifest /\ receipt' = receipt /\ step \in Observing
        /\ bundle.file <= bundle'.file
        /\ bundle'.file \in Nat \/ step' \notin Observing
    BY <1>0, <1>1, <1>2, <1>13, Zenon DEF Stays
  <2>2. (step' \in Identified => step \in Identified) /\ (step' \in Planned => step \in Planned)
    BY <1>13, SMT DEF Stays, Identified, Planned, Observing
  <2>3. step' = "running" /\ outcome' # "incomplete" => step = "running" /\ outcome # "incomplete"
    BY <1>13, FleetRunAssumption, SMT DEF Stays
  <2>4. (step' \in Ran => step \in Ran) /\ (step' \in Ran \ {"driver"} => step \in Ran \ {"driver"})
    BY <1>13, SMT DEF Stays, Ran
  <2>5. (step' = "done" => step = "done") /\ (step' = "packet" => step = "packet")
    BY <1>13, SMT DEF Stays
  <2>6. step' \in Identified =>
          /\ receipt'.bundle \in Nat
          /\ receipt'.placement \in Nat /\ receipt'.placement <= placement'
    <3>1. step' \in Identified =>
            receipt.bundle \in Nat /\ receipt.placement \in Nat /\ receipt.placement <= placement
      BY <2>2 DEF RunInv
    <3> QED  BY <1>0, <2>1, <3>1, SMT
  <2>7. InPlace'
    <3>1. CASE bundle'.hash = bundle.hash /\ bundle'.plan = bundle.plan
      <4>1. (step' = "identify" => step = "identify")
            /\ (step' \in {"admit", "resources", "launch", "running"}
                 => step \in {"admit", "resources", "launch", "running"})
        BY <1>13, SMT DEF Stays
      <4> QED  BY <2>1, <3>1, <4>1, Zenon DEF RunInv, InPlace
    <3>2. CASE step' = step /\ (Relied => receipt'.replaced)
      BY <3>2, SMT DEF Relied, InPlace
    <3> QED  BY <1>0, <2>1, <3>1, <3>2
  <2>8. Bracketed'
    <3>1. SUFFICES ASSUME step' = "running", outcome' # "incomplete"
                   PROVE  /\ receipt'.ran \in [file : Nat, plan : Backend, placement : Nat]
                          /\ receipt'.placement <= receipt'.ran.placement
                          /\ receipt'.ran.placement <= placement'
                          /\ ~receipt'.replaced =>
                               /\ receipt'.bundle <= receipt'.ran.file
                               /\ receipt'.ran.file <= bundle'.file
                               /\ receipt'.ran.plan = receipt'.backend
      BY DEF Bracketed
    <3>2. /\ receipt.ran \in [file : Nat, plan : Backend, placement : Nat]
          /\ receipt.placement <= receipt.ran.placement /\ receipt.ran.placement <= placement
          /\ ~receipt.replaced =>
               /\ receipt.bundle <= receipt.ran.file /\ receipt.ran.file <= bundle.file
               /\ receipt.ran.plan = receipt.backend
      BY <2>3, <3>1, Zenon DEF RunInv, Bracketed
    <3>3. step' \in Observing  BY <3>1, SMT DEF Observing
    <3>4. /\ receipt.ran.file \in Nat /\ receipt.ran.placement \in Nat
          /\ bundle.file \in Nat /\ bundle'.file \in Nat
      BY <1>1, <2>1, <3>2, <3>3
    <3>5. receipt.ran.placement <= placement'  BY <1>0, <3>2, <3>4, SMT
    <3>6. receipt.ran.file <= bundle.file => receipt.ran.file <= bundle'.file
      BY <2>1, <3>4, SMT
    <3> QED  BY <2>1, <3>2, <3>5, <3>6, Zenon
  <2>9. /\ step' \in Ran => Ranged(receipt)'
        /\ step' \in Ran \ {"driver"} => receipt'.correct
        /\ step' = "done" => receipt'.memory = Evidence[receipt'.backend]
        /\ step' = "packet" /\ receipt'.status = "complete" => Honest(receipt)'
    BY <2>1, <2>4, <2>5, Zenon DEF RunInv, Ranged, Honest
  <2>10. step' \in Planned => receipt'.backend \in Backend
    BY <2>1, <2>2, Zenon DEF RunInv
  <2> QED  BY <2>6, <2>7, <2>8, <2>9, <2>10, Zenon DEF RunInv
<1> QED
  BY <1>3, <1>4, <1>5, <1>6, <1>7, <1>8, <1>9, <1>10, <1>11, <1>12, <1>13, ReceiptEffects, Zenon

(* How a step changes what the attempts' directories and packets hold.     *)
LEMMA AttemptEffects ==
  ASSUME FleetTypeOK, [FleetNext]_fleetVars
  PROVE  /\ \/ UNCHANGED output
            \/ /\ step = "idle" /\ step' = "verify" /\ name' \in Attempt
               /\ output[name'] = Nil /\ output' = [output EXCEPT ![name'] = 0]
            \/ /\ child # Nil /\ output[child.dir] = 0 /\ step' = step
               /\ output' = [output EXCEPT ![child.dir] = 1]
            \/ /\ step' = step
               /\ \E n \in Attempt : /\ packet[n] # Nil
                                     /\ output' = [output EXCEPT ![n] = output[n] + 10]
         /\ \/ UNCHANGED packet
            \/ /\ step = "packet" /\ step' = "idle" /\ UNCHANGED <<output, child>>
               /\ packet' = [packet EXCEPT ![name] =
                               [receipt EXCEPT !.artifacts = output[name]]]
         /\ step \in Observing /\ step' \in Observing => name' = name
         /\ step \notin Observing /\ step' \in Observing =>
              /\ name' \in Attempt /\ output[name'] = Nil
              /\ output' = [output EXCEPT ![name'] = 0]
<1> USE DEF machine, runner, files
<1>1. CASE Bundling
  BY <1>1, SMT DEF Bundling, HashSource, Copy, Recheck, Observing
<1>2. CASE OpenRun  BY <1>2, SMT DEF OpenRun, CreateDirectory, Observing
<1>3. CASE VerifyBundle \/ Identify \/ Admit \/ AwaitResources \/ Launch \/ Supervise \/ CheckRun
  <2>1. UNCHANGED <<output, packet, name>>
    BY <1>3, Zenon DEF VerifyBundle, Identify, Admit, AwaitResources, Launch, Supervise, CheckRun
  <2>2. step \in Observing
    BY <1>3, SMT DEF VerifyBundle, Identify, Admit, AwaitResources, Launch, Supervise, CheckRun, Observing
  <2> QED  BY <2>1, <2>2
<1>4. CASE ReadDriver \/ ReadStacks \/ Complete
  <2>1. UNCHANGED <<output, packet, name>>
    BY <1>4, Zenon DEF ReadDriver, ReadStacks, Complete
  <2>2. step \in Observing
    BY <1>4, SMT DEF ReadDriver, ReadStacks, Complete, Observing
  <2> QED  BY <2>1, <2>2
<1>5. CASE WritePacket  BY <1>5, SMT DEF WritePacket, Observing
<1>6. CASE ChildExits \/ ChildWrites \/ Cancel \/ RemoveOrphan
  BY <1>6, SMT DEF ChildExits, ChildWrites, Cancel, RemoveOrphan
<1>7. CASE Change  BY <1>7, SMT DEF Change
<1>8. CASE Kill  BY <1>8, SMT DEF Kill, Observing
<1>9. CASE UNCHANGED fleetVars  BY <1>9, SMT DEF fleetVars
<1> QED
  BY <1>1, <1>2, <1>3, <1>4, <1>5, <1>6, <1>7, <1>8, <1>9, Zenon DEF FleetNext, Runner

(* How a step changes the child: it is started in the run's directory, it  *)
(* exits, or it is gone.  A run that went well is one whose child is gone. *)
LEMMA ChildEffects ==
  ASSUME FleetTypeOK, [FleetNext]_fleetVars
  PROVE  /\ \/ UNCHANGED child
            \/ child' = Nil
            \/ /\ step \in Observing /\ step' \in {"running", "parsing"} /\ outcome' = Nil
               /\ step \in {"launch", "parser"}
               /\ UNCHANGED <<name, packet, output>>
               /\ child' = [st |-> "running", dir |-> name]
            \/ /\ child # Nil /\ UNCHANGED <<step, packet, output>>
               /\ \E st \in {"ok", "failed"} : child' = [child EXCEPT !.st = st]
               /\ UNCHANGED <<outcome, receipt>>
         /\ outcome' = "ok" /\ outcome # "ok" => child' = Nil
<1> USE FleetRunAssumption DEF machine, runner, files
<1>1. CASE Bundling
  BY <1>1, Zenon DEF Bundling, HashSource, Copy, Recheck
<1>2. CASE OpenRun \/ VerifyBundle \/ Identify \/ Admit \/ AwaitResources
  BY <1>2, Zenon DEF OpenRun, VerifyBundle, Identify, Admit, AwaitResources
<1>3. CASE Launch
  BY <1>3, SMT DEF Launch, FleetTypeOK, Observing
<1>4. CASE Supervise  BY <1>4, SMT DEF Supervise
<1>5. CASE CheckRun \/ ReadStacks \/ Kill
  <2>1. child' = child /\ outcome' = Nil  BY <1>5, Zenon DEF CheckRun, ReadStacks, Kill
  <2> QED  BY <2>1, SMT
<1>6. CASE ReadDriver \/ Complete \/ WritePacket
  BY <1>6, Zenon DEF ReadDriver, Complete, WritePacket
<1>7. CASE ChildExits  BY <1>7, Zenon DEF ChildExits
<1>8. CASE ChildWrites \/ Change \/ Cancel \/ RemoveOrphan
  BY <1>8, Zenon DEF ChildWrites, Change, Cancel, RemoveOrphan
<1>9. CASE UNCHANGED fleetVars  BY <1>9, Zenon DEF fleetVars
<1> QED
  BY <1>1, <1>2, <1>3, <1>4, <1>5, <1>6, <1>7, <1>8, <1>9, Zenon DEF FleetNext, Runner

(* Every step keeps the types of the directories and of the child.         *)
LEMMA OutputTypeStep ==
  ASSUME FleetTypeOK, OutputTypeOK, ChildTypeOK, AttemptInv, [FleetNext]_fleetVars
  PROVE  OutputTypeOK' /\ ChildTypeOK'
<1>1. OutputTypeOK'
  <2> USE DEF OutputTypeOK
  <2>1. CASE UNCHANGED output  BY <2>1
  <2>2. CASE name' \in Attempt /\ output' = [output EXCEPT ![name'] = 0]  BY <2>2, SMT
  <2>3. CASE child # Nil /\ output' = [output EXCEPT ![child.dir] = 1]
    BY <2>3, SMT DEF ChildTypeOK
  <2>4. ASSUME NEW n \in Attempt, packet[n] # Nil, output' = [output EXCEPT ![n] = output[n] + 10]
        PROVE  OutputTypeOK'
    <3>1. output[n] \in Nat  BY <2>4, SMT DEF AttemptInv
    <3> QED  BY <2>4, <3>1, SMT
  <2> QED  BY <2>1, <2>2, <2>3, <2>4, AttemptEffects, Zenon
<1>2. ChildTypeOK'
  <2> USE DEF ChildTypeOK
  <2>1. CASE UNCHANGED child \/ child' = Nil  BY <2>1
  <2>2. CASE step \in Observing /\ child' = [st |-> "running", dir |-> name]
    BY <2>2, SMT DEF FleetTypeOK
  <2>3. ASSUME NEW st \in {"ok", "failed"}, child # Nil, child' = [child EXCEPT !.st = st]
        PROVE  ChildTypeOK'
    BY <2>3, SMT
  <2> QED  BY <2>1, <2>2, <2>3, ChildEffects, Zenon
<1> QED  BY <1>1, <1>2

(* A run that is going well has seen its child go.                         *)
LEMMA GoneStep ==
  ASSUME FleetTypeOK, OutcomeTypeOK, ReceiptTypeOK, Gone => child = Nil, [FleetNext]_fleetVars,
         Gone'
  PROVE  child' = Nil
<1>1. step' \in Observing  BY SMT DEF Gone, Observing
<1>2. Gone \/ child' = Nil
  <2>1. CASE Opens  BY <2>1, SMT DEF Opens, Gone, NewReceipt
  <2>2. CASE Leaves
    <3>1. PICK s \in Status : receipt' = [receipt EXCEPT !.status = s] /\ (s = "complete" => step = "done")
      BY <2>2 DEF Leaves
    <3>2. receipt \in Receipt  BY <2>2 DEF Leaves, ReceiptTypeOK
    <3>3. receipt'.status = s  BY <3>1, <3>2, SMT DEF Receipt
    <3> QED  BY <2>2, <3>1, <3>3, SMT DEF Leaves, Gone
  <2>3. CASE Plans \/ Identifies  BY <2>3, SMT DEF Plans, Identifies, Gone
  <2>7. CASE Replaces  BY <2>7, SMT DEF Replaces, Relied, Gone
  <2>4. CASE Launches
    <3>1. outcome = Nil  BY <2>4, SMT DEF Launches, FleetTypeOK
    <3>2. outcome' = "ok"  BY <2>4, SMT DEF Launches, Gone
    <3> QED  BY <3>1, <3>2, ChildEffects, FleetRunAssumption, Zenon
  <2>5. CASE Checks \/ Reads \/ Parses  BY <2>5, SMT DEF Checks, Reads, Parses, Gone
  <2>6. CASE Stays
    <3>1. CASE outcome' = "ok" /\ outcome # "ok"  BY <3>1, ChildEffects, Zenon
    <3>2. CASE outcome' # "ok" \/ outcome = "ok"
      <4>1. step \notin {"running", "parsing"} => outcome # "ok"
        BY FleetRunAssumption, SMT DEF FleetTypeOK
      <4> QED  BY <2>6, <3>2, <4>1, SMT DEF Stays, Gone
    <3> QED  BY <3>1, <3>2
  <2> QED  BY <1>1, <2>1, <2>2, <2>3, <2>4, <2>5, <2>6, <2>7, ReceiptEffects, Zenon
<1>3. CASE child = Nil
  <2>1. ~(step' \in {"running", "parsing"} /\ outcome' = Nil)
    BY FleetRunAssumption, SMT DEF Gone
  <2> QED  BY <1>3, <2>1, ChildEffects, Zenon
<1> QED  BY <1>2, <1>3

(* An attempt's name is taken once, its packet is written once, and only a *)
(* run's own child writes beside it.                                       *)
LEMMA AttemptStep ==
  ASSUME FleetTypeOK, OutcomeTypeOK, OutputTypeOK, ReceiptTypeOK, ChildTypeOK, RunInv,
         AttemptInv, [FleetNext]_fleetVars
  PROVE  AttemptInv'
<1>1. step \in Observing => packet[name] = Nil /\ output[name] # Nil /\ name \in Attempt
  BY Zenon DEF AttemptInv, FleetTypeOK
<1>2. ASSUME NEW n \in Attempt
      PROVE  /\ output[n] # Nil => output'[n] # Nil
             /\ packet[n] = Nil /\ output[n] # Nil => output'[n] \in {0, 1}
             /\ output[n] = Nil => output'[n] \in {Nil, 0}
  <2> USE FleetRunAssumption DEF OutputTypeOK
  <2>0. output[n] \in Nat \cup {Nil} /\ (packet[n] = Nil => output[n] \in {Nil, 0, 1})
    BY DEF AttemptInv
  <2>1. CASE UNCHANGED output  BY <2>0, <2>1, SMT
  <2>2. CASE name' \in Attempt /\ output[name'] = Nil /\ output' = [output EXCEPT ![name'] = 0]
    BY <2>0, <2>2, SMT
  <2>3. CASE child # Nil /\ output[child.dir] = 0 /\ output' = [output EXCEPT ![child.dir] = 1]
    BY <2>0, <2>3, SMT
  <2>4. ASSUME NEW m \in Attempt, packet[m] # Nil, output' = [output EXCEPT ![m] = output[m] + 10]
        PROVE  /\ output[n] # Nil => output'[n] # Nil
               /\ packet[n] = Nil /\ output[n] # Nil => output'[n] \in {0, 1}
               /\ output[n] = Nil => output'[n] \in {Nil, 0}
    <3>1. output[m] # Nil  BY <2>4 DEF AttemptInv
    <3>2. output[m] \in Nat  BY <3>1
    <3> QED  BY <2>0, <2>4, <3>1, <3>2, SMT
  <2> QED  BY <2>1, <2>2, <2>3, <2>4, AttemptEffects, Zenon
<1> DEFINE Written == [receipt EXCEPT !.artifacts = output[name]]
           Writing == /\ step = "packet" /\ step' = "idle" /\ UNCHANGED <<output, child>>
                      /\ packet' = [packet EXCEPT ![name] = Written]
<1>3. Writing => /\ Written.artifacts = output[name] /\ Written.status = receipt.status
                 /\ Honest(receipt) => Honest(Written)
  <2> SUFFICES ASSUME Writing
               PROVE  /\ Written.artifacts = output[name] /\ Written.status = receipt.status
                      /\ Honest(receipt) => Honest(Written)
    OBVIOUS
  <2>1. receipt \in Receipt  BY SMT DEF ReceiptTypeOK, Observing
  <2>2. /\ Written.artifacts = output[name] /\ Written.status = receipt.status
        /\ Written.ran = receipt.ran /\ Written.bundle = receipt.bundle
        /\ Written.placement = receipt.placement /\ Written.backend = receipt.backend
        /\ Written.memory = receipt.memory /\ Written.replaced = receipt.replaced
    BY <2>1, SMT DEF Receipt
  <2>3. Written.correct = receipt.correct  BY <2>1, Zenon DEF Receipt
  <2> HIDE DEF Written
  <2> QED  BY <2>2, <2>3, Zenon DEF Honest, Ranged
<1>4. Writing \/ UNCHANGED packet  BY AttemptEffects, Zenon
<1>5. Writing => step \in Observing /\ step' \notin Observing  BY SMT DEF Observing
<1>6. ASSUME Writing, NEW n \in Attempt
      PROVE  packet'[n] = packet[n] \/ (n = name /\ packet'[n] = Written)
  <2> HIDE DEF Written
  <2> QED  BY <1>6, SMT
<1> HIDE DEF Written, Writing
<1>7. ASSUME NEW n \in Attempt
      PROVE  /\ output'[n] = Nil => packet'[n] = Nil
             /\ packet'[n] = Nil => output'[n] \in {Nil, 0, 1}
             /\ packet'[n] # Nil => packet'[n].artifacts \in {0, 1}
             /\ Says(n)' => Honest(packet[n])'
  <2>0. /\ output[n] = Nil => packet[n] = Nil
        /\ packet[n] = Nil => output[n] \in {Nil, 0, 1}
        /\ packet[n] # Nil => packet[n].artifacts \in {0, 1}
        /\ Says(n) => Honest(packet[n])
    BY Zenon DEF AttemptInv
  <2>a. packet[n] = Nil => output'[n] \in {Nil, 0, 1}  BY <1>2, <2>0, SMT
  <2>1. CASE packet'[n] = packet[n]
    <3>1. Says(n)' => Honest(packet[n])'  BY <2>0, <2>1, Zenon DEF Says, Honest, Ranged
    <3>2. output'[n] = Nil => packet'[n] = Nil  BY <1>2, <2>0, <2>1, Zenon
    <3> QED  BY <2>0, <2>a, <2>1, <3>1, <3>2, Zenon
  <2>2. CASE Writing /\ n = name /\ packet'[n] = Written
    <3>1. packet[n] = Nil /\ output[n] # Nil  BY <1>1, <1>5, <2>2
    <3>2. output[n] \in {0, 1}  BY <2>0, <3>1, SMT
    <3>3. Says(n)' => Honest(packet[n])'
      <4>1. receipt.status = "complete" => Honest(receipt)
        BY <2>2, Zenon DEF RunInv, Writing
      <4>2. Says(n)' => Honest(Written)
        BY <1>3, <2>2, <4>1, Zenon DEF Says
      <4> QED  BY <2>2, <4>2, Zenon DEF Honest, Ranged
    <3>4. packet'[n].artifacts \in {0, 1}  BY <1>3, <2>2, <3>2
    <3>5. output'[n] # Nil  BY <1>2, <3>1
    <3> QED  BY <2>2, <2>a, <3>1, <3>3, <3>4, <3>5, Zenon
  <2>3. UNCHANGED packet => packet'[n] = packet[n]  OBVIOUS
  <2> QED  BY <1>4, <1>6, <2>1, <2>2, <2>3, Zenon
<1>8. step' \in Observing => packet'[name'] = Nil /\ output'[name'] # Nil
  <2> SUFFICES ASSUME step' \in Observing PROVE packet'[name'] = Nil /\ output'[name'] # Nil
    OBVIOUS
  <2>0. UNCHANGED packet  BY <1>4, <1>5
  <2>1. CASE step \in Observing
    <3>1. name' = name  BY <2>1, AttemptEffects, Zenon
    <3> QED  BY <1>1, <1>2, <2>0, <2>1, <3>1, Zenon
  <2>2. CASE step \notin Observing
    <3>1. name' \in Attempt /\ output[name'] = Nil /\ output' = [output EXCEPT ![name'] = 0]
      BY <2>2, AttemptEffects, Zenon
    <3>2. output'[name'] = 0  BY <3>1, SMT DEF OutputTypeOK
    <3>3. packet[name'] = Nil  BY <3>1, Zenon DEF AttemptInv
    <3> QED  BY <2>0, <3>2, <3>3, FleetRunAssumption, SMT
  <2> QED  BY <2>1, <2>2
<1>9. Gone' => child' = Nil
  <2>1. Gone => child = Nil  BY DEF AttemptInv
  <2> QED  BY <2>1, GoneStep
<1>10. child' # Nil => output'[child'.dir] # Nil /\ ~Says(child.dir)'
  <2> SUFFICES ASSUME child' # Nil PROVE output'[child'.dir] # Nil /\ ~Says(child.dir)'
    OBVIOUS
  <2>1. CASE child # Nil /\ child'.dir = child.dir
    <3>1. child.dir \in Attempt /\ output[child.dir] # Nil /\ ~Says(child.dir)
      BY <2>1, SMT DEF ChildTypeOK, AttemptInv
    <3>2. output'[child'.dir] # Nil  BY <1>2, <2>1, <3>1, Zenon
    <3>3. ~Says(child.dir)'
      <4>1. CASE UNCHANGED packet  BY <2>1, <3>1, <4>1, Zenon DEF Says
      <4>2. CASE Writing
        <5>1. ~Gone  BY <2>1, Zenon DEF AttemptInv
        <5>2. Written.status # "complete"
          BY <1>3, <4>2, <5>1, Zenon DEF Writing, Gone
        <5> QED  BY <1>6, <2>1, <3>1, <4>2, <5>2, Zenon DEF Says
      <4> QED  BY <1>4, <4>1, <4>2
    <3> QED  BY <3>2, <3>3
  <2>2. CASE step \in Observing /\ UNCHANGED <<name, packet, output>>
             /\ child' = [st |-> "running", dir |-> name]
    <3>1. child'.dir = name  BY <2>2
    <3> QED  BY <1>1, <2>2, <3>1, Zenon DEF Says
  <2>3. ASSUME NEW st \in {"ok", "failed"}, child # Nil, child' = [child EXCEPT !.st = st]
        PROVE  child'.dir = child.dir
    BY <2>3, SMT DEF ChildTypeOK
  <2> QED  BY <2>1, <2>2, <2>3, ChildEffects, Zenon
<1> QED  BY <1>7, <1>8, <1>9, <1>10, Zenon DEF AttemptInv

(* Before anything is bundled the invariant holds.                         *)
LEMMA FleetInitInv == FleetInit => FleetInv
<1> SUFFICES ASSUME FleetInit PROVE FleetInv  OBVIOUS
<1>1. BundleTypeOK /\ bundle.manifest = FALSE
  BY Zenon DEF FleetInit, BundleTypeOK
<1> QED
  BY <1>1, FleetRunAssumption, SMT
     DEF FleetInit, FleetInv, FleetTypeOK, OutcomeTypeOK, OutputTypeOK, ReceiptTypeOK,
         ChildTypeOK, BundleInv, RunInv, InPlace, Bracketed, AttemptInv, Observing, Planned,
         Identified, Ran, Gone, Says

(* The fleet's invariant is inductive.                                     *)
THEOREM FleetInvariance == FleetSpec => []FleetInv
<1>1. FleetInv /\ [FleetNext]_fleetVars => FleetInv'
  <2> SUFFICES ASSUME FleetInv, [FleetNext]_fleetVars PROVE FleetInv'
    OBVIOUS
  <2> USE DEF FleetInv
  <2>1. FleetTypeOK'  BY FleetTypeStep
  <2>2. BundleTypeOK' /\ BundleInv'  BY BundleStep, BundleInvStep
  <2>3. OutcomeTypeOK'  BY OutcomeTypeStep
  <2>4. OutputTypeOK' /\ ChildTypeOK'  BY OutputTypeStep
  <2>5. ReceiptTypeOK'  BY ReceiptTypeStep
  <2>6. RunInv'  BY RunStep
  <2>7. AttemptInv'  BY AttemptStep
  <2> QED  BY <2>1, <2>2, <2>3, <2>4, <2>5, <2>6, <2>7
<1> QED  BY <1>1, FleetInitInv, PTL DEF FleetSpec

(* A packet that says "complete" tells the truth of its run: where it ran, *)
(* that its output was right, and the memory records of the recorded       *)
(* plan; and, unless the bundle was replaced as a whole between the two    *)
(* verifications, that the file and the plan of the recorded manifest ran. *)
THEOREM PacketTheorem == FleetSpec => []PacketIsHonest
<1>1. FleetInv => PacketIsHonest
  BY Zenon DEF FleetInv, AttemptInv, PacketIsHonest, Says, Honest, Ranged
<1> QED  BY <1>1, FleetInvariance, PTL

(* Two attempts that compare ran at one placement, and nobody has touched  *)
(* them since: no operator, and no process that outlived its run.          *)
THEOREM DiffTheorem == FleetSpec => []DiffIsLikeWithLike
<1>1. FleetInv => DiffIsLikeWithLike
  <2> SUFFICES ASSUME FleetInv, NEW m \in Attempt, NEW n \in Attempt, Comparable(m, n)
               PROVE  /\ packet[m].ran.placement = packet[n].ran.placement
                      /\ \A k \in {m, n} : output[k] < 10 /\ ~(child # Nil /\ child.dir = k)
    BY DEF DiffIsLikeWithLike
  <2>1. \A k \in {m, n} : /\ packet[k] # Nil /\ packet[k].artifacts = output[k]
                          /\ packet[k].status = "complete"
    BY Zenon DEF Comparable, Read
  <2>2. \A k \in {m, n} : k \in Attempt /\ Says(k)  BY <2>1, Zenon DEF Says
  <2>3. \A k \in {m, n} : packet[k].ran.placement = packet[k].placement
    BY <2>2, Zenon DEF FleetInv, AttemptInv, Honest, Ranged
  <2>4. packet[m].ran.placement = packet[n].ran.placement
    <3>1. packet[m].placement = packet[n].placement  BY Zenon DEF Comparable
    <3>2. /\ packet[m].ran.placement = packet[m].placement
          /\ packet[n].ran.placement = packet[n].placement
      BY <2>3
    <3> QED  BY <3>1, <3>2, SMT
  <2>5. \A k \in {m, n} : output[k] \in {0, 1}
    BY <2>1, <2>2, Zenon DEF FleetInv, AttemptInv
  <2>6. \A k \in {m, n} : ~(child # Nil /\ child.dir = k)
    BY <2>2, Zenon DEF FleetInv, AttemptInv
  <2> QED  BY <2>4, <2>5, <2>6, SMT
<1> QED  BY <1>1, FleetInvariance, PTL
=============================================================================
