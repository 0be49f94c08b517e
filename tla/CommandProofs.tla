---------------------------- MODULE CommandProofs ----------------------------
(***************************************************************************)
(* The commands on runs, the self-compare and the nice task with its       *)
(* supervisor, for any number of clients, runs, seconds, commits, commands *)
(* and revisions, and every set of workers and budget: what the registry   *)
(* records of a run is never wrong about its process and never taken back, *)
(* what a user is told is true, what is compared was asked for, and what   *)
(* is supervised keeps its reservation on record while anything of it      *)
(* runs.                                                                   *)
(***************************************************************************)
EXTENDS JobCommands, SelfCompare, NiceTask, TLAPS

USE RunRegistryAssumption

(***************************************************************************)
(* The run registry.                                                       *)
(***************************************************************************)
ProcessStates == {"none", "running", "signalled", "exited", "recycled"}
Doings    == {"idle", "dead", "read", "check", "truncate", "fill", "act",
              "unlink", "launch"}
Ops       == ListOps \cup {"load", "wait", "kill", "none"}

DiskType ==
  /\ record \in [Id -> Run \cup {Absent, Torn}]
  /\ results \subseteq Id
  /\ written \subseteq Child \X Status

ProcessType ==
  /\ second \in 0 .. MaxSecond /\ commit \in 0 .. MaxCommit
  /\ process \in [Child -> ProcessStates] /\ owner \in [Child -> Id \cup {NoId}]
  /\ \A k \in Child : process[k] # "none" => owner[k] \in Id

ControlType ==
  /\ doing \in [Client -> Doings] /\ op \in [Client -> Ops]
  /\ phase \in [Client -> {"scan", "act", "launch"}]
  /\ todo \in [Client -> SUBSET Id]
  /\ hash \in [Client -> 0 .. MaxCommit]

Held == [id : Id, run : Run \cup {Absent}]

MemoryType ==
  /\ view \in [Client -> [Id -> Run \cup {Absent}]]
  /\ cur \in [Client -> Held]

RegistryType == DiskType /\ ProcessType /\ ControlType /\ MemoryType

Ended(k) == process[k] \in {"exited", "recycled"}

\* A record in hand or on disk is of a child that runs under its id, and right
\* about the end of its process.
Sound(r, i) ==
  r \in Run =>
    /\ process[r.child] # "none" /\ owner[r.child] = i
    /\ r.status \in {"completed", "failed"} => Ended(r.child)

RecordsSound ==
  /\ \A i \in Id : Sound(record[i], i)
  /\ \A c \in Client, i \in Id : Sound(view[c][i], i)
  /\ \A c \in Client : Sound(cur[c].run, cur[c].id)

\* What a client is about to save or to kill is a record that it has read.
InHandOf(c) ==
  /\ doing[c] \in {"check", "truncate", "fill"} => cur[c].run \in Run
  /\ doing[c] \in {"idle", "dead", "read", "check"} => phase[c] = "scan"
  /\ doing[c] \in {"act", "unlink"} => phase[c] = "act"
  /\ phase[c] = "act" /\ op[c] \in KillOps =>
       \A i \in todo[c] : view[c][i].status = "running"

InHand == \A c \in Client : InHandOf(c)

\* Only the launch of a run saves it as running, before anybody knows of it.
Unwritten(k) == \A s \in Status : <<k, s>> \notin written

OnlyLaunchers ==
  /\ \A k \in Child : process[k] = "none" => Unwritten(k)
  /\ \A c \in Client :
       doing[c] \in {"truncate", "fill"} /\ cur[c].run.status = "running" =>
         /\ phase[c] = "launch"
         /\ Unwritten(cur[c].run.child)
         /\ \A i \in Id : record[i].child # cur[c].run.child
         /\ \A d \in Client, i \in Id : view[d][i].child # cur[c].run.child
         /\ \A d \in Client \ {c} : cur[d].run.child # cur[c].run.child

RegistryInv == RegistryType /\ RecordsSound /\ InHand /\ OnlyLaunchers /\ NeverRevived

\* Nothing in hand is a record like any other.
LEMMA HeldFacts ==
  /\ NoView \in [Id -> Run \cup {Absent}]
  /\ \A c \in Client : NoCur(c) \in Held
  /\ \A r \in Run, s \in Status : [r EXCEPT !.status = s] \in Run
  /\ \A r \in Run : r.status \in Status /\ r.child \in Child
  /\ Absent \notin Run /\ Torn \notin Run
<1>1. NoView \in [Id -> Run \cup {Absent}]  BY DEF NoView
<1>2. \A c \in Client : NoCur(c) \in Held  BY DEF NoCur, Id, Held
<1>3. /\ \A r \in Run, s \in Status : [r EXCEPT !.status = s] \in Run
      /\ \A r \in Run : r.status \in Status /\ r.child \in Child
  BY DEF Run
<1>4. Absent \notin Run /\ Torn \notin Run  BY DEF Run, Absent, Torn
<1> QED  BY <1>1, <1>2, <1>3, <1>4

\* What a client forgets when a call is over.
LEMMA LeaveType ==
  ASSUME ControlType, MemoryType, NEW c \in Client, NEW d \in Doings, Leave(c, d)
  PROVE  ControlType' /\ MemoryType'
<1>1. ControlType'  BY DEF ControlType, Leave, Ops
<1>2. view' \in [Client -> [Id -> Run \cup {Absent}]]  BY HeldFacts DEF MemoryType, Leave
<1>3. cur' \in [Client -> Held]  BY HeldFacts DEF MemoryType, Leave
<1> QED  BY <1>1, <1>2, <1>3 DEF MemoryType

\* A record joins the view.
LEMMA KeepType ==
  ASSUME ControlType, MemoryType, NEW c \in Client, Keep(c)
  PROVE  ControlType' /\ MemoryType'
<1>1. ControlType'  BY DEF ControlType, Keep, Doings
<1>2. cur[c].id \in Id /\ cur[c].run \in Run \cup {Absent}  BY DEF MemoryType, Held
<1>3. [view[c] EXCEPT ![cur[c].id] = cur[c].run] \in [Id -> Run \cup {Absent}]
  BY <1>2 DEF MemoryType
<1>4. view' \in [Client -> [Id -> Run \cup {Absent}]]  BY <1>3 DEF MemoryType, Keep
<1>5. cur' \in [Client -> Held]  BY HeldFacts DEF MemoryType, Keep, Discard
<1> QED  BY <1>1, <1>4, <1>5 DEF MemoryType

\* What a save writes, and where its caller goes on.
LEMMA FillSaves ==
  ASSUME InHand, NEW c \in Client, Fill(c)
  PROVE  /\ cur[c].run \in Run
         /\ record' = [record EXCEPT ![cur[c].id] = cur[c].run]
         /\ written' = written \cup {<<cur[c].run.child, cur[c].run.status>>}
         /\ phase[c] = "scan" => Keep(c)
         /\ phase[c] = "act" =>
              /\ doing' = [doing EXCEPT ![c] = "act"] /\ Discard(c)
              /\ UNCHANGED <<op, phase, todo, view, hash>>
         /\ phase[c] = "launch" => Finish(c)
         /\ UNCHANGED <<second, commit, results, children>>
<1>1. cur[c].run \in Run  BY DEF InHand, InHandOf, Fill
<1>2. phase[c] = "scan" => Keep(c)  BY Zenon DEF Fill
<1>3. phase[c] = "act" =>
        /\ doing' = [doing EXCEPT ![c] = "act"] /\ Discard(c)
        /\ UNCHANGED <<op, phase, todo, view, hash>>
  BY Zenon DEF Fill, Goto
<1>4. phase[c] = "launch" => Finish(c)  BY Zenon DEF Fill
<1> QED  BY <1>1, <1>2, <1>3, <1>4, Zenon DEF Fill

\* What is selected, from what was read.
LEMMA Selects ==
  ASSUME NEW c \in Client, Select(c), RegistryType
  PROVE  /\ \E s \in SUBSET Id :
              /\ todo' = [todo EXCEPT ![c] = s]
              /\ op[c] \in KillOps => \A i \in s : view[c][i].status = "running"
              /\ view' = [view EXCEPT ![c] = [i \in Id |-> IF i \in s THEN view[c][i] ELSE Absent]]
         /\ doing' = [doing EXCEPT ![c] = "act"]
         /\ phase' = [phase EXCEPT ![c] = "act"]
         /\ \E n \in 0 .. MaxCommit : hash' = [hash EXCEPT ![c] = n]
         /\ UNCHANGED <<second, commit, record, results, children, op, cur, written>>
<1> DEFINE running == {i \in Id : view[c][i].status = "running"}
           stale   == {i \in running : view[c][i].commit # hash[c]}
           ended   == {i \in Id : view[c][i].status \in Terminal}
<1>1. PICK s \in SUBSET Id :
        /\ todo' = [todo EXCEPT ![c] = s]
        /\ op[c] \in KillOps => s \in SUBSET running
  <2>1. op[c] \in {"kill", "stale", "spawn", "cleanup"}  BY Zenon DEF Select, KillOps
  <2>2. CASE op[c] = "kill"
    <3>1. todo' = [todo EXCEPT ![c] = running]  BY <2>2, Zenon DEF Select
    <3> QED  BY <3>1, Zenon
  <2>3. CASE op[c] \in {"stale", "spawn"}
    <3>1. todo' = [todo EXCEPT ![c] = stale]  BY <2>3, Zenon DEF Select
    <3> QED  BY <3>1, Zenon
  <2>4. CASE op[c] = "cleanup"
    <3>1. PICK old \in SUBSET ended : todo' = [todo EXCEPT ![c] = old]
      BY <2>4, Zenon DEF Select
    <3>2. op[c] \notin KillOps  BY <2>4 DEF KillOps
    <3>3. old \in SUBSET Id  BY <3>1
    <3> QED  BY <3>1, <3>2, <3>3, Zenon
  <2> QED  BY <2>1, <2>2, <2>3, <2>4
<1>2. todo'[c] = s  BY <1>1 DEF RegistryType, ControlType
<1>3. view' = [view EXCEPT ![c] = [i \in Id |-> IF i \in s THEN view[c][i] ELSE Absent]]
  BY <1>2 DEF Select, RegistryType, MemoryType
<1>4. op[c] \in KillOps => \A i \in s : view[c][i].status = "running"
  BY <1>1
<1>5. /\ doing' = [doing EXCEPT ![c] = "act"] /\ phase' = [phase EXCEPT ![c] = "act"]
      /\ UNCHANGED <<second, commit, record, results, children, op, cur, written>>
  BY Zenon DEF Select, Goto
<1>6. \E n \in 0 .. MaxCommit : hash' = [hash EXCEPT ![c] = n]
  <2>1. hash[c] \in 0 .. MaxCommit /\ 0 \in 0 .. MaxCommit  BY DEF RegistryType, ControlType
  <2> QED  BY <2>1, Zenon DEF Select
<1> QED  BY <1>1, <1>3, <1>4, <1>5, <1>6, Zenon

\* Every step of the registry keeps the types of its parts.
LEMMA RegistryTypeStep ==
  RegistryType /\ InHand /\ [RegistryNext]_registryVars => RegistryType'
<1> SUFFICES ASSUME RegistryType, InHand, [RegistryNext]_registryVars PROVE RegistryType'
  OBVIOUS
<1>0. DiskType /\ ProcessType /\ ControlType /\ MemoryType  BY DEF RegistryType
<1>1. ASSUME NEW c \in Client, Begin(c) PROVE RegistryType'
  <2>1. ControlType'
    <3>1. op' \in [Client -> Ops] /\ doing' \in [Client -> Doings]
      BY <1>0, <1>1 DEF ControlType, Begin, ListOps, Ops, Doings
    <3>2. todo' \in [Client -> SUBSET Id] /\ phase' \in [Client -> {"scan", "act", "launch"}]
      BY <1>0, <1>1 DEF ControlType, Begin
    <3>3. hash' \in [Client -> 0 .. MaxCommit]
      <4>1. commit \in 0 .. MaxCommit /\ 0 \in 0 .. MaxCommit  BY <1>0 DEF ProcessType
      <4> QED  BY <1>0, <1>1, <4>1 DEF ControlType, Begin
    <3> QED  BY <3>1, <3>2, <3>3 DEF ControlType
  <2>2. DiskType' /\ ProcessType' /\ MemoryType'
    BY <1>0, <1>1 DEF Begin, DiskType, ProcessType, MemoryType, children
  <2> QED  BY <2>1, <2>2 DEF RegistryType
<1>2. ASSUME NEW c \in Client,
             ReadFails(c) \/ ListDone(c) \/ Report(c) \/ WaitTimeout(c)
               \/ LaunchFails(c) \/ ClientDies(c)
      PROVE  RegistryType'
  <2>1. PICK d \in Doings : Leave(c, d)
    BY <1>2 DEF ReadFails, ListDone, Report, WaitTimeout, LaunchFails, ClientDies,
                Finish, Doings
  <2>2. DiskType' /\ ProcessType'
    BY <1>0, <1>2 DEF ReadFails, ListDone, Report, WaitTimeout, LaunchFails,
                      ClientDies, DiskType, ProcessType, children
  <2> QED  BY <1>0, <2>1, <2>2, LeaveType DEF RegistryType
<1>3. ASSUME NEW c \in Client, NEW i \in Id, Read(c, i) PROVE RegistryType'
  <2>0. DiskType' /\ ProcessType'
    BY <1>0, <1>3 DEF Read, DiskType, ProcessType, children
  <2>1. CASE record[i] \in Run
    <3>1. [id |-> i, run |-> record[i]] \in Held  BY <2>1 DEF Held
    <3>2. MemoryType'  BY <1>0, <1>3, <2>1, <3>1 DEF Read, MemoryType
    <3>3. ControlType'  BY <1>0, <1>3, <2>1 DEF Read, Goto, ControlType, Doings
    <3> QED  BY <2>0, <3>2, <3>3 DEF RegistryType
  <2>2. CASE record[i] \notin Run /\ op[c] \in ListOps
    BY <1>0, <1>3, <2>0, <2>2 DEF Read, RegistryType, ControlType, MemoryType
  <2>3. CASE record[i] \notin Run /\ op[c] \notin ListOps
    <3>1. Leave(c, "idle")  BY <1>3, <2>3 DEF Read, Finish
    <3> QED  BY <1>0, <2>0, <3>1, LeaveType DEF RegistryType, Doings
  <2> QED  BY <2>1, <2>2, <2>3
<1>4. ASSUME NEW c \in Client, Agrees(c) PROVE RegistryType'
  <2>1. DiskType' /\ ProcessType'
    BY <1>0, <1>4 DEF Agrees, DiskType, ProcessType, children
  <2> QED  BY <1>0, <1>4, <2>1, KeepType DEF Agrees, RegistryType
<1>5. ASSUME NEW c \in Client, Reconcile(c) PROVE RegistryType'
  <2>1. PICK s \in Status : cur' = [cur EXCEPT ![c].run.status = s]
    BY <1>5, Zenon DEF Reconcile, Status
  <2>2. cur[c].run \in Run /\ cur[c].id \in Id
    BY <1>0, <1>5 DEF Reconcile, InHand, InHandOf, Goto, MemoryType, Held
  <2>3. [cur[c] EXCEPT !.run.status = s] \in Held
    BY <1>0, <2>2, HeldFacts DEF Held, MemoryType
  <2>4. MemoryType'  BY <1>0, <1>5, <2>1, <2>3 DEF Reconcile, MemoryType
  <2>5. ControlType'  BY <1>0, <1>5 DEF Reconcile, Goto, ControlType, Doings
  <2>6. DiskType' /\ ProcessType'
    BY <1>0, <1>5 DEF Reconcile, DiskType, ProcessType, children
  <2> QED  BY <2>4, <2>5, <2>6 DEF RegistryType
<1>6. ASSUME NEW c \in Client, Truncate(c) PROVE RegistryType'
  <2>1. DiskType' /\ ProcessType'
    BY <1>0, <1>6 DEF Truncate, DiskType, ProcessType, children
  <2>2. ControlType' /\ MemoryType'
    BY <1>0, <1>6 DEF Truncate, Goto, ControlType, MemoryType, Doings
  <2> QED  BY <2>1, <2>2 DEF RegistryType
<1>7. ASSUME NEW c \in Client, Fill(c) PROVE RegistryType'
  <2>1. DiskType' /\ ProcessType'
    BY <1>0, <1>7, FillSaves, HeldFacts DEF DiskType, ProcessType, children
  <2>2. ControlType' /\ MemoryType'
    <3>1. CASE phase[c] = "scan"  BY <1>0, <1>7, <3>1, FillSaves, KeepType
    <3>2. CASE phase[c] = "act"
      <4>1. ControlType'  BY <1>0, <1>7, <3>2, FillSaves DEF ControlType, Doings
      <4>2. MemoryType'  BY <1>0, <1>7, <3>2, FillSaves, HeldFacts DEF MemoryType, Discard
      <4> QED  BY <4>1, <4>2
    <3>3. CASE phase[c] = "launch"
      BY <1>0, <1>7, <3>3, FillSaves, LeaveType DEF Finish, Doings
    <3> QED  BY <1>0, <3>1, <3>2, <3>3 DEF ControlType
  <2> QED  BY <2>1, <2>2 DEF RegistryType
<1>8. ASSUME NEW c \in Client, SaveFails(c) PROVE RegistryType'
  <2>1. DiskType' /\ ProcessType'
    BY <1>0, <1>8 DEF SaveFails, DiskType, ProcessType, children
  <2>2. ControlType' /\ MemoryType'
    <3>1. CASE phase[c] = "scan"  BY <1>0, <1>8, <3>1, KeepType DEF SaveFails
    <3>2. CASE phase[c] # "scan"
      BY <1>0, <1>8, <3>2, LeaveType DEF SaveFails, Finish, Doings
    <3> QED  BY <3>1, <3>2
  <2> QED  BY <2>1, <2>2 DEF RegistryType
<1>9. ASSUME NEW c \in Client, PollAgain(c) PROVE RegistryType'
  <2>1. DiskType' /\ ProcessType'
    BY <1>0, <1>9 DEF PollAgain, DiskType, ProcessType, children
  <2>2. ControlType'  BY <1>0, <1>9 DEF PollAgain, ControlType
  <2>3. MemoryType'  BY <1>0, <1>9, HeldFacts DEF PollAgain, MemoryType
  <2> QED  BY <2>1, <2>2, <2>3 DEF RegistryType
<1>10. ASSUME NEW c \in Client, Select(c) PROVE RegistryType'
  <2>1. PICK s \in SUBSET Id :
          /\ todo' = [todo EXCEPT ![c] = s]
          /\ view' = [view EXCEPT ![c] = [i \in Id |-> IF i \in s THEN view[c][i] ELSE Absent]]
    BY <1>10, Selects
  <2>2. DiskType' /\ ProcessType'
    BY <1>0, <1>10, Selects DEF DiskType, ProcessType, children
  <2>3. ControlType'  BY <1>0, <1>10, <2>1, Selects DEF ControlType, Doings
  <2>4. MemoryType'  BY <1>0, <1>10, <2>1, Selects DEF MemoryType
  <2> QED  BY <2>2, <2>3, <2>4 DEF RegistryType
<1>11. ASSUME NEW c \in Client, NEW i \in Id, Signal(c, i) PROVE RegistryType'
  <2>1. view[c][i] \in Run
    BY <1>0, <1>11 DEF Signal, Goto, InHand, InHandOf, MemoryType, Absent
  <2>2. [id |-> i, run |-> [view[c][i] EXCEPT !.status = "killed"]] \in Held
    BY <2>1, HeldFacts DEF Held, Status
  <2>3. MemoryType'  BY <1>0, <1>11, <2>2 DEF Signal, MemoryType
  <2>4. ControlType'  BY <1>0, <1>11 DEF Signal, Goto, ControlType, Doings
  <2>5. DiskType' /\ ProcessType'
    BY <1>0, <1>11 DEF Signal, DiskType, ProcessType, ProcessStates
  <2> QED  BY <2>3, <2>4, <2>5 DEF RegistryType
<1>12. ASSUME NEW c \in Client, NEW i \in Id, NotSignalled(c, i) \/ RemoveRecord(c, i)
       PROVE  RegistryType'
  <2>1. DiskType' /\ ProcessType'
    BY <1>0, <1>12 DEF NotSignalled, RemoveRecord, DiskType, ProcessType, children
  <2>2. ControlType'
    BY <1>0, <1>12 DEF NotSignalled, RemoveRecord, Goto, ControlType, Doings
  <2>3. [id |-> i, run |-> Absent] \in Held  BY DEF Held
  <2>4. MemoryType'
    BY <1>0, <1>12, <2>3 DEF NotSignalled, RemoveRecord, MemoryType
  <2> QED  BY <2>1, <2>2, <2>4 DEF RegistryType
<1>13. ASSUME NEW c \in Client, RemoveResult(c) PROVE RegistryType'
  <2>1. DiskType' /\ ProcessType'
    BY <1>0, <1>13 DEF RemoveResult, DiskType, ProcessType, children
  <2>2. ControlType'  BY <1>0, <1>13 DEF RemoveResult, Goto, ControlType, Doings
  <2>3. MemoryType'  BY <1>0, <1>13, HeldFacts DEF RemoveResult, Discard, MemoryType
  <2> QED  BY <2>1, <2>2, <2>3 DEF RegistryType
<1>14. ASSUME NEW c \in Client, ActDone(c) PROVE RegistryType'
  <2>1. DiskType' /\ ProcessType'
    BY <1>0, <1>14 DEF ActDone, DiskType, ProcessType, children
  <2>2. ControlType' /\ MemoryType'
    <3>1. CASE op[c] = "spawn"
      BY <1>0, <1>14, <3>1, HeldFacts DEF ActDone, Goto, ControlType, MemoryType, Doings
    <3>2. CASE op[c] # "spawn"
      BY <1>0, <1>14, <3>2, LeaveType DEF ActDone, Finish, Doings
    <3> QED  BY <3>1, <3>2
  <2> QED  BY <2>1, <2>2 DEF RegistryType
<1>15. ASSUME NEW c \in Client, NEW k \in Child, Launch(c, k) PROVE RegistryType'
  <2>1. /\ second' \in 0 .. MaxSecond /\ hash[c] \in 0 .. MaxCommit
        /\ 0 \in 0 .. MaxCommit
    BY <1>0, <1>15 DEF Launch, ProcessType, ControlType
  <2>2. <<second', c>> \in Id  BY <2>1 DEF Id
  <2>3. [status |-> "running", child |-> k, commit |-> hash[c]] \in Run
    BY <2>1 DEF Run, Status
  <2>4. DiskType' /\ ProcessType'
    BY <1>0, <1>15, <2>1, <2>2 DEF Launch, DiskType, ProcessType, ProcessStates
  <2>5. ControlType'  BY <1>0, <1>15, <2>1 DEF Launch, Goto, ControlType, Doings
  <2>6. MemoryType'  BY <1>0, <1>15, <2>2, <2>3 DEF Launch, MemoryType, Held
  <2> QED  BY <2>4, <2>5, <2>6 DEF RegistryType
<1>16. ASSUME NEW k \in Child, SaveResult(k) \/ Exit(k) \/ Recycle(k) \/ Recycled(k)
       PROVE  RegistryType'
  <2>1. ControlType' /\ MemoryType'
    BY <1>0, <1>16 DEF SaveResult, Exit, Recycle, Recycled, client, ControlType, MemoryType
  <2>2. ProcessType'
    BY <1>0, <1>16 DEF SaveResult, Exit, Recycle, Recycled, children, ProcessType, ProcessStates
  <2>3. DiskType'
    <3>1. ASSUME SaveResult(k) PROVE owner[k] \in Id
      BY <1>0, <3>1 DEF SaveResult, ProcessType
    <3> QED  BY <1>0, <1>16, <3>1 DEF SaveResult, Exit, Recycle, Recycled, DiskType
  <2> QED  BY <2>1, <2>2, <2>3 DEF RegistryType
<1>17. CASE Commit
  BY <1>0, <1>17 DEF Commit, client, children, RegistryType, DiskType, ProcessType,
                     ControlType, MemoryType
<1>18. CASE UNCHANGED registryVars
  BY <1>0, <1>18 DEF registryVars, client, children, RegistryType, DiskType,
                     ProcessType, ControlType, MemoryType
<1> QED
  BY <1>1, <1>2, <1>3, <1>4, <1>5, <1>6, <1>7, <1>8, <1>9, <1>10, <1>11, <1>12,
     <1>13, <1>14, <1>15, <1>16, <1>17, <1>18
     DEF RegistryNext

(***************************************************************************)
(* What a step of a client may do, seen from the records: everything but a *)
(* launch only copies records, or finishes them.                           *)
(***************************************************************************)
Apart(c) ==
  \A d \in Client \ {c} :
    /\ view'[d] = view[d] /\ cur'[d] = cur[d] /\ doing'[d] = doing[d]
    /\ op'[d] = op[d] /\ phase'[d] = phase[d] /\ todo'[d] = todo[d]

Copies(c) ==
  \A i \in Id :
    \/ view'[c][i] \in {view[c][i], Absent}
    \/ i = cur[c].id /\ view'[c][i] = cur[c].run

Takes(c) ==
  \/ cur'[c] = cur[c]
  \/ cur'[c].run = Absent
  \/ \E i \in Id : cur'[c] = [id |-> i, run |-> record[i]]
  \/ \E s \in {"completed", "failed"} :
       /\ cur[c].run.status = "running" /\ ~Alive(cur[c].run.child)
       /\ s = "completed" => cur[c].id \in results
       /\ cur'[c] = [cur[c] EXCEPT !.run.status = s]
  \/ \E i \in Id :
       /\ view[c][i].status = "running"
       /\ cur'[c] = [id |-> i, run |-> [view[c][i] EXCEPT !.status = "killed"]]

Writes(c) ==
  \/ record' = record /\ written' = written
  \/ /\ written' = written
     /\ \E i \in Id, r \in {Torn, Absent} : record' = [record EXCEPT ![i] = r]
  \/ /\ doing[c] = "fill" /\ doing'[c] \notin {"truncate", "fill"}
     /\ record' = [record EXCEPT ![cur[c].id] = cur[c].run]
     /\ written' = written \cup {<<cur[c].run.child, cur[c].run.status>>}

\* Nobody else's process comes or goes; one may be signalled.
Spares ==
  /\ owner' = owner
  /\ \A k \in Child :
       \/ process'[k] = process[k]
       \/ process[k] = "running" /\ process'[k] = "signalled"

\* A client goes on to save what it has read as running only if it has launched it.
Saving(c) ==
  doing'[c] \in {"truncate", "fill"} =>
    \/ cur'[c].run.status # "running"
    \/ /\ doing[c] = "truncate" /\ phase'[c] = phase[c]
       /\ cur'[c] = cur[c] /\ view'[c] = view[c]

Effects(c) ==
  /\ Apart(c) /\ Copies(c) /\ Takes(c) /\ Writes(c) /\ Spares /\ Saving(c)
  /\ InHandOf(c)'

ClientStep(c) ==
  \/ Begin(c) \/ ReadFails(c) \/ Agrees(c) \/ Reconcile(c) \/ Truncate(c) \/ Fill(c)
  \/ SaveFails(c) \/ ListDone(c) \/ Report(c) \/ PollAgain(c) \/ WaitTimeout(c)
  \/ Select(c) \/ RemoveResult(c) \/ ActDone(c) \/ LaunchFails(c) \/ ClientDies(c)
  \/ \E i \in Id : Read(c, i) \/ Signal(c, i) \/ NotSignalled(c, i) \/ RemoveRecord(c, i)

\* A client that leaves its command forgets what it has read, and touches
\* nothing else.
LEMMA LeaveEffects ==
  ASSUME ControlType, MemoryType, NEW c \in Client, NEW d \in {"idle", "dead"}, Leave(c, d)
  PROVE  Apart(c) /\ Copies(c) /\ Takes(c) /\ Saving(c) /\ InHandOf(c)'
<1>1. Apart(c)  BY DEF ControlType, MemoryType, Leave, Apart
<1>2. Copies(c)  BY DEF MemoryType, Leave, Copies, NoView
<1>3. doing'[c] = d  BY DEF ControlType, Leave
<1>4. Takes(c)  BY DEF MemoryType, Leave, Takes, NoCur
<1>5. phase'[c] = "scan"  BY DEF ControlType, Leave
<1> QED  BY <1>1, <1>2, <1>3, <1>4, <1>5 DEF Saving, InHandOf

\* A client that keeps a record goes on reading.
LEMMA KeepEffects ==
  ASSUME ControlType, MemoryType, NEW c \in Client, Keep(c), phase[c] = "scan"
  PROVE  Apart(c) /\ Copies(c) /\ Takes(c) /\ Saving(c) /\ InHandOf(c)'
<1>1. Apart(c)  BY DEF ControlType, MemoryType, Keep, Discard, Apart
<1>2. Copies(c)  BY DEF MemoryType, Held, Keep, Copies
<1>3. doing'[c] = "read"  BY DEF ControlType, Keep
<1>4. Takes(c)  BY DEF MemoryType, Keep, Discard, Takes, NoCur
<1>5. phase'[c] = "scan"  BY DEF Keep
<1> QED  BY <1>1, <1>2, <1>3, <1>4, <1>5 DEF Saving, InHandOf

\* What a step of a client may do: to its own memory, to one record, to no
\* process.
LEMMA ClientEffects ==
  ASSUME RegistryType, InHand, NEW c \in Client, ClientStep(c)
  PROVE  Effects(c)
<1>0. DiskType /\ ProcessType /\ ControlType /\ MemoryType  BY DEF RegistryType
<1>1. CASE Begin(c)
  <2>1. Apart(c)  BY <1>0, <1>1 DEF Begin, Goto, ControlType, MemoryType, Apart
  <2>2. Copies(c)  BY <1>0, <1>1 DEF Begin, MemoryType, Copies
  <2>3. Takes(c)  BY <1>0, <1>1 DEF Begin, MemoryType, Takes
  <2>4. Writes(c) /\ Spares  BY <1>0, <1>1 DEF Begin, Writes, Spares, children, ProcessType
  <2>5. Saving(c) /\ InHandOf(c)'  BY <1>0, <1>1 DEF Begin, Goto, ControlType, MemoryType, Saving, InHandOf, InHand
  <2> QED  BY <2>1, <2>2, <2>3, <2>4, <2>5 DEF Effects
<1>2. CASE ReadFails(c) \/ ListDone(c) \/ Report(c) \/ WaitTimeout(c)
          \/ LaunchFails(c) \/ ClientDies(c)
  <2>1. PICK d \in {"idle", "dead"} : Leave(c, d)
    BY <1>2 DEF ReadFails, ListDone, Report, WaitTimeout, LaunchFails, ClientDies, Finish
  <2>2. Writes(c) /\ Spares
    BY <1>0, <1>2 DEF ReadFails, ListDone, Report, WaitTimeout, LaunchFails,
                      ClientDies, Writes, Spares, children
  <2> QED  BY <1>0, <2>1, <2>2, LeaveEffects DEF Effects
<1>3. ASSUME NEW i \in Id, Read(c, i) PROVE Effects(c)
  <2>1. Writes(c) /\ Spares  BY <1>3 DEF Read, Writes, Spares, children
  <2>2. CASE record[i] \in Run
    <3>1. Apart(c)  BY <1>0, <1>3, <2>2 DEF Read, Goto, ControlType, MemoryType, Apart
    <3>2. Copies(c)  BY <1>0, <1>3, <2>2 DEF Read, MemoryType, Copies
    <3>3. cur'[c] = [id |-> i, run |-> record[i]] /\ doing'[c] = "check"
      BY <1>0, <1>3, <2>2 DEF Read, Goto, ControlType, MemoryType
    <3>4. Takes(c)  BY <3>3 DEF Takes
    <3>5. Saving(c) /\ InHandOf(c)'
      BY <1>3, <2>2, <3>3 DEF Read, Saving, InHandOf, InHand
    <3> QED  BY <2>1, <3>1, <3>2, <3>4, <3>5 DEF Effects
  <2>3. CASE record[i] \notin Run /\ op[c] \in ListOps
    <3>1. Apart(c) /\ Copies(c) /\ Takes(c)
      BY <1>0, <1>3, <2>3 DEF Read, ControlType, Apart, Copies, Takes
    <3>2. Saving(c) /\ InHandOf(c)'  BY <1>3, <2>3 DEF Read, Saving, InHandOf, InHand
    <3> QED  BY <2>1, <3>1, <3>2 DEF Effects
  <2>4. CASE record[i] \notin Run /\ op[c] \notin ListOps
    <3>1. Leave(c, "idle")  BY <1>3, <2>4 DEF Read, Finish
    <3> QED  BY <1>0, <2>1, <3>1, LeaveEffects DEF Effects
  <2> QED  BY <2>2, <2>3, <2>4
<1>4. CASE Agrees(c)
  <2>1. Writes(c) /\ Spares  BY <1>4 DEF Agrees, Writes, Spares, children
  <2>2. phase[c] = "scan"  BY <1>4 DEF Agrees, InHand, InHandOf
  <2> QED  BY <1>0, <1>4, <2>1, <2>2, KeepEffects DEF Agrees, Effects
<1>5. CASE Reconcile(c)
  <2>1. PICK s \in {"completed", "failed"} :
          /\ cur' = [cur EXCEPT ![c].run.status = s]
          /\ s = "completed" => cur[c].id \in results
    <3>1. CASE cur[c].id \in results  BY <1>5, <3>1, Zenon DEF Reconcile
    <3>2. CASE cur[c].id \notin results
      <4>1. cur' = [cur EXCEPT ![c].run.status = "failed"]
        BY <1>5, <3>2, Zenon DEF Reconcile
      <4> QED  BY <4>1
    <3> QED  BY <3>1, <3>2
  <2>2. cur'[c] = [cur[c] EXCEPT !.run.status = s]  BY <1>0, <2>1 DEF MemoryType
  <2>3. Apart(c)  BY <1>0, <1>5, <2>1 DEF Reconcile, Goto, ControlType, MemoryType, Apart
  <2>4. Copies(c)  BY <1>5 DEF Reconcile, Copies
  <2>5. Takes(c)  BY <1>5, <2>1, <2>2, Zenon DEF Reconcile, Takes
  <2>6. cur[c].run \in Run  BY <1>5 DEF Reconcile, Goto, InHand, InHandOf
  <2>7. cur'[c].run = [cur[c].run EXCEPT !.status = s]
    BY <1>0, <2>2 DEF MemoryType, Held
  <2>8. cur'[c].run \in Run /\ cur'[c].run.status = s
    BY <2>6, <2>7, HeldFacts DEF Run, Status
  <2>9. doing'[c] = "truncate"  BY <1>0, <1>5 DEF Reconcile, Goto, ControlType
  <2>10. Saving(c) /\ InHandOf(c)'
    BY <1>5, <2>8, <2>9 DEF Reconcile, Goto, Saving, InHandOf, InHand
  <2>11. Writes(c) /\ Spares  BY <1>5 DEF Reconcile, Writes, Spares, children
  <2> QED  BY <2>3, <2>4, <2>5, <2>10, <2>11 DEF Effects
<1>6. CASE Truncate(c)
  <2>1. Apart(c)  BY <1>0, <1>6 DEF Truncate, Goto, ControlType, Apart
  <2>2. Copies(c) /\ Takes(c)  BY <1>6 DEF Truncate, Copies, Takes
  <2>3. Writes(c) /\ Spares
    BY <1>0, <1>6 DEF Truncate, Writes, Spares, children, MemoryType, Held
  <2>4. Saving(c) /\ InHandOf(c)'
    BY <1>0, <1>6 DEF Truncate, Goto, ControlType, Saving, InHandOf, InHand
  <2> QED  BY <2>1, <2>2, <2>3, <2>4 DEF Effects
<1>7. CASE Fill(c)
  <2>1. Spares  BY <1>7, FillSaves DEF Spares, children
  <2>2. Apart(c) /\ Copies(c) /\ Takes(c) /\ Saving(c) /\ InHandOf(c)' /\ doing'[c] \notin {"truncate", "fill"}
    <3>1. CASE phase[c] = "scan"
      <4>1. doing'[c] = "read"  BY <1>0, <1>7, <3>1, FillSaves DEF Keep, ControlType
      <4> QED  BY <1>0, <1>7, <3>1, <4>1, FillSaves, KeepEffects
    <3>2. CASE phase[c] = "act"
      <4>1. /\ doing' = [doing EXCEPT ![c] = "act"] /\ cur' = [cur EXCEPT ![c] = NoCur(c)]
            /\ UNCHANGED <<op, phase, todo, view, hash>>
        BY <1>7, <3>2, FillSaves DEF Discard
      <4>2. Apart(c)  BY <1>0, <4>1 DEF ControlType, MemoryType, Apart
      <4>3. Copies(c) /\ Takes(c)  BY <1>0, <4>1 DEF MemoryType, Copies, Takes, NoCur
      <4>4. doing'[c] = "act"  BY <1>0, <4>1 DEF ControlType
      <4>5. InHandOf(c)'  BY <3>2, <4>1, <4>4 DEF InHand, InHandOf
      <4> QED  BY <4>1, <4>2, <4>3, <4>4, <4>5 DEF Saving, InHandOf
    <3>3. CASE phase[c] = "launch"
      <4>1. Leave(c, "idle")  BY <1>7, <3>3, FillSaves DEF Finish
      <4>2. doing'[c] = "idle"  BY <1>0, <4>1 DEF Leave, ControlType
      <4> QED  BY <1>0, <4>1, <4>2, LeaveEffects
    <3> QED  BY <1>0, <3>1, <3>2, <3>3 DEF ControlType
  <2>3. Writes(c)  BY <1>7, <2>2, FillSaves DEF Writes, Fill
  <2> QED  BY <2>1, <2>2, <2>3 DEF Effects
<1>8. CASE SaveFails(c)
  <2>1. Writes(c) /\ Spares  BY <1>8 DEF SaveFails, Writes, Spares, children
  <2>2. CASE phase[c] = "scan"
    BY <1>0, <1>8, <2>1, <2>2, KeepEffects DEF SaveFails, Effects
  <2>3. CASE phase[c] # "scan"
    BY <1>0, <1>8, <2>1, <2>3, LeaveEffects DEF SaveFails, Finish, Effects
  <2> QED  BY <2>2, <2>3
<1>9. CASE PollAgain(c)
  <2>1. Apart(c)  BY <1>0, <1>9 DEF PollAgain, ControlType, MemoryType, Apart
  <2>2. Copies(c) /\ Takes(c)
    BY <1>0, <1>9 DEF PollAgain, MemoryType, Copies, Takes, NoView
  <2>3. Writes(c) /\ Spares  BY <1>9 DEF PollAgain, Writes, Spares, children
  <2>4. Saving(c) /\ InHandOf(c)'
    BY <1>0, <1>9 DEF PollAgain, KillOps, Saving, InHandOf, InHand
  <2> QED  BY <2>1, <2>2, <2>3, <2>4 DEF Effects
<1>10. CASE Select(c)
  <2>1. PICK s \in SUBSET Id :
          /\ todo' = [todo EXCEPT ![c] = s]
          /\ op[c] \in KillOps => \A i \in s : view[c][i].status = "running"
          /\ view' = [view EXCEPT ![c] = [i \in Id |-> IF i \in s THEN view[c][i] ELSE Absent]]
    BY <1>10, Selects
  <2>2. /\ doing' = [doing EXCEPT ![c] = "act"] /\ phase' = [phase EXCEPT ![c] = "act"]
        /\ UNCHANGED <<record, children, op, cur, written>>
    BY <1>10, Selects
  <2>3. Apart(c)  BY <1>0, <2>1, <2>2 DEF ControlType, MemoryType, Apart
  <2>4. \A i \in Id : view'[c][i] = IF i \in s THEN view[c][i] ELSE Absent
    BY <1>0, <2>1 DEF MemoryType
  <2>5. Copies(c) /\ Takes(c)  BY <2>2, <2>4 DEF Copies, Takes
  <2>6. Writes(c) /\ Spares  BY <2>2 DEF Writes, Spares, children
  <2>7. doing'[c] = "act" /\ phase'[c] = "act" /\ op'[c] = op[c] /\ todo'[c] = s
    BY <1>0, <2>1, <2>2 DEF ControlType
  <2>8. Saving(c) /\ InHandOf(c)'  BY <2>1, <2>4, <2>7 DEF Saving, InHandOf
  <2> QED  BY <2>3, <2>5, <2>6, <2>8 DEF Effects
<1>11. ASSUME NEW i \in Id, Signal(c, i) PROVE Effects(c)
  <2>1. /\ view[c][i].status = "running" /\ view[c][i] \in Run
        /\ doing'[c] = "truncate"
    BY <1>0, <1>11 DEF Signal, Goto, InHand, InHandOf, MemoryType, Absent, ControlType
  <2>2. cur'[c] = [id |-> i, run |-> [view[c][i] EXCEPT !.status = "killed"]]
    BY <1>0, <1>11 DEF Signal, MemoryType
  <2>3. cur'[c].run \in Run /\ cur'[c].run.status = "killed"
    BY <2>1, <2>2, HeldFacts DEF Run, Status
  <2>4. Apart(c)  BY <1>0, <1>11 DEF Signal, Goto, ControlType, MemoryType, Apart
  <2>5. Copies(c) /\ Takes(c)  BY <1>11, <2>1, <2>2 DEF Signal, Copies, Takes
  <2>6. Writes(c)  BY <1>11 DEF Signal, Writes
  <2>7. Spares  BY <1>0, <1>11 DEF Signal, Spares, ProcessType
  <2>8. Saving(c) /\ InHandOf(c)'
    BY <1>0, <1>11, <2>1, <2>3 DEF Signal, ControlType, Saving, InHand, InHandOf
  <2> QED  BY <2>4, <2>5, <2>6, <2>7, <2>8 DEF Effects
<1>12. ASSUME NEW i \in Id, NotSignalled(c, i) PROVE Effects(c)
  <2>1. Apart(c)  BY <1>0, <1>12 DEF NotSignalled, ControlType, Apart
  <2>2. Copies(c) /\ Takes(c)  BY <1>12 DEF NotSignalled, Copies, Takes
  <2>3. Writes(c) /\ Spares  BY <1>12 DEF NotSignalled, Writes, Spares, children
  <2>4. Saving(c) /\ InHandOf(c)'
    BY <1>0, <1>12 DEF NotSignalled, ControlType, Saving, InHandOf, InHand
  <2> QED  BY <2>1, <2>2, <2>3, <2>4 DEF Effects
<1>13. ASSUME NEW i \in Id, RemoveRecord(c, i) PROVE Effects(c)
  <2>1. Apart(c)  BY <1>0, <1>13 DEF RemoveRecord, Goto, ControlType, MemoryType, Apart
  <2>2. Copies(c) /\ Takes(c)
    BY <1>0, <1>13 DEF RemoveRecord, MemoryType, Copies, Takes
  <2>3. Writes(c) /\ Spares  BY <1>13 DEF RemoveRecord, Writes, Spares, children
  <2>4. Saving(c) /\ InHandOf(c)'
    BY <1>0, <1>13 DEF RemoveRecord, KillOps, Goto, ControlType, Saving, InHandOf, InHand
  <2> QED  BY <2>1, <2>2, <2>3, <2>4 DEF Effects
<1>14. CASE RemoveResult(c)
  <2>1. Apart(c)  BY <1>0, <1>14 DEF RemoveResult, Discard, Goto, ControlType, MemoryType, Apart
  <2>2. Copies(c) /\ Takes(c)
    BY <1>0, <1>14 DEF RemoveResult, Discard, MemoryType, Copies, Takes, NoCur
  <2>3. Writes(c) /\ Spares  BY <1>14 DEF RemoveResult, Writes, Spares, children
  <2>4. doing'[c] = "act"  BY <1>0, <1>14 DEF RemoveResult, Goto, ControlType
  <2>5. phase[c] = "act"  BY <1>14 DEF RemoveResult, Goto, InHand, InHandOf
  <2>6. Saving(c) /\ InHandOf(c)'
    BY <1>14, <2>4, <2>5 DEF RemoveResult, Saving, InHandOf, InHand
  <2> QED  BY <2>1, <2>2, <2>3, <2>6 DEF Effects
<1>15. CASE ActDone(c)
  <2>1. Writes(c) /\ Spares  BY <1>15 DEF ActDone, Writes, Spares, children
  <2>2. CASE op[c] = "spawn"
    <3>1. Apart(c)  BY <1>0, <1>15, <2>2 DEF ActDone, Goto, ControlType, MemoryType, Apart
    <3>2. Copies(c) /\ Takes(c)
      BY <1>0, <1>15, <2>2 DEF ActDone, MemoryType, Copies, Takes, NoView
    <3>3. Saving(c) /\ InHandOf(c)'
      BY <1>0, <1>15, <2>2 DEF ActDone, Goto, ControlType, Saving, InHandOf
    <3> QED  BY <2>1, <3>1, <3>2, <3>3 DEF Effects
  <2>3. CASE op[c] # "spawn"
    BY <1>0, <1>15, <2>1, <2>3, LeaveEffects DEF ActDone, Finish, Effects
  <2> QED  BY <2>2, <2>3
<1> QED
  BY <1>1, <1>2, <1>3, <1>4, <1>5, <1>6, <1>7, <1>8, <1>9, <1>10, <1>11, <1>12,
     <1>13, <1>14, <1>15 DEF ClientStep

\* Whatever happens to the processes, no record becomes wrong by it.
Outlives ==
  /\ \A k \in Child : process[k] # "none" => process'[k] # "none" /\ owner'[k] = owner[k]
  /\ \A k \in Child : Ended(k) => Ended(k)'

\* A sound record stays sound when processes only end.
LEMMA SoundStays ==
  ASSUME Outlives, NEW r, NEW i \in Id, Sound(r, i)
  PROVE  Sound(r, i)'
  BY HeldFacts DEF Outlives, Sound

\* A step that spares the processes only lets them end.
LEMMA SparesOutlives == ProcessType /\ Spares => Outlives
  BY DEF Spares, Outlives, Ended, ProcessType

\* No step of a client makes a record wrong about its process.
LEMMA ClientSound ==
  ASSUME RegistryType, RecordsSound, NEW c \in Client, Effects(c), RegistryType'
  PROVE  RecordsSound'
<1>0. Outlives  BY SparesOutlives DEF Effects, RegistryType
<1>1. ASSUME NEW i \in Id PROVE Sound(record[i], i)'
  <2>1. \/ record'[i] \in {record[i], Torn, Absent}
        \/ i = cur[c].id /\ record'[i] = cur[c].run
    BY DEF Effects, Writes, RegistryType, DiskType
  <2>2. CASE record'[i] = record[i]
    BY <1>0, <2>2, SoundStays DEF RecordsSound
  <2>3. CASE record'[i] \in {Torn, Absent}
    BY <2>3, HeldFacts DEF Sound
  <2>4. CASE i = cur[c].id /\ record'[i] = cur[c].run
    <3>1. Sound(cur[c].run, i)  BY <2>4 DEF RecordsSound
    <3> QED  BY <1>0, <2>4, <3>1, SoundStays
  <2> QED  BY <2>1, <2>2, <2>3, <2>4
<1>2. ASSUME NEW d \in Client, NEW i \in Id PROVE Sound(view[d][i], i)'
  <2>1. \/ view'[d][i] \in {view[d][i], Absent}
        \/ i = cur[c].id /\ view'[d][i] = cur[c].run
    BY DEF Effects, Apart, Copies
  <2>2. CASE view'[d][i] = view[d][i]
    BY <1>0, <2>2, SoundStays DEF RecordsSound
  <2>3. CASE view'[d][i] = Absent
    BY <2>3, HeldFacts DEF Sound
  <2>4. CASE i = cur[c].id /\ view'[d][i] = cur[c].run
    <3>1. Sound(cur[c].run, i)  BY <2>4 DEF RecordsSound
    <3> QED  BY <1>0, <2>4, <3>1, SoundStays
  <2> QED  BY <2>1, <2>2, <2>3, <2>4
<1>3. ASSUME NEW d \in Client PROVE Sound(cur[d].run, cur[d].id)'
  <2>0. cur[d].id \in Id /\ cur'[d].id \in Id
    BY DEF RegistryType, MemoryType, Held
  <2>1. CASE cur'[d] = cur[d]
    BY <1>0, <2>0, <2>1, SoundStays DEF RecordsSound
  <2>2. CASE cur'[d].run = Absent
    BY <2>2, HeldFacts DEF Sound
  <2>3. ASSUME NEW i \in Id, cur'[d] = [id |-> i, run |-> record[i]]
        PROVE  Sound(cur[d].run, cur[d].id)'
    BY <1>0, <2>3, SoundStays DEF RecordsSound
  <2>4. ASSUME NEW s \in {"completed", "failed"}, d = c,
               cur[c].run.status = "running", ~Alive(cur[c].run.child),
               cur'[c] = [cur[c] EXCEPT !.run.status = s]
        PROVE  Sound(cur[d].run, cur[d].id)'
    <3>1. cur[c].run \in Run
      BY <2>4 DEF RegistryType, MemoryType, Held, Absent
    <3>2. cur'[c].id = cur[c].id /\ cur'[c].run = [cur[c].run EXCEPT !.status = s]
      BY <2>4 DEF RegistryType, MemoryType, Held
    <3>3. cur'[c].run.child = cur[c].run.child /\ cur[c].run.child \in Child
      BY <3>1, <3>2 DEF Run
    <3>4. process[cur[c].run.child] # "none" /\ owner[cur[c].run.child] = cur[c].id
      BY <3>1 DEF RecordsSound, Sound
    <3>5. Ended(cur[c].run.child)
      BY <2>4, <3>3, <3>4 DEF Alive, Ended, RegistryType, ProcessType, ProcessStates
    <3> QED  BY <1>0, <2>4, <3>2, <3>3, <3>4, <3>5 DEF Sound, Outlives
  <2>5. ASSUME NEW i \in Id, d = c, view[c][i].status = "running",
               cur'[c] = [id |-> i, run |-> [view[c][i] EXCEPT !.status = "killed"]]
        PROVE  Sound(cur[d].run, cur[d].id)'
    <3>1. view[c][i] \in Run  BY <2>5 DEF RegistryType, MemoryType, Absent
    <3>2. /\ cur'[c].run.child = view[c][i].child /\ view[c][i].child \in Child
          /\ cur'[c].run.status = "killed" /\ cur'[c].id = i
      BY <2>5, <3>1 DEF Run
    <3>3. process[view[c][i].child] # "none" /\ owner[view[c][i].child] = i
      BY <3>1 DEF RecordsSound, Sound
    <3> QED  BY <1>0, <2>5, <3>2, <3>3 DEF Sound, Outlives
  <2> QED  BY <2>1, <2>2, <2>3, <2>4, <2>5 DEF Effects, Apart, Takes
<1> QED  BY <1>1, <1>2, <1>3 DEF RecordsSound

\* No step of a client takes back what a record says of an end.
LEMMA ClientUnrevived ==
  ASSUME RegistryInv, RegistryType', NEW c \in Client, Effects(c)
  PROVE  OnlyLaunchers' /\ NeverRevived'
<1>0. RegistryType /\ RecordsSound /\ InHand /\ OnlyLaunchers /\ NeverRevived
  BY DEF RegistryInv
<1>1. ASSUME NEW k \in Child, process'[k] = "none" PROVE Unwritten(k)'
  <2>1. process[k] = "none"  BY <1>1 DEF Effects, Spares
  <2>2. doing[c] = "fill" => cur[c].run.child # k
    BY <1>0, <2>1 DEF InHand, InHandOf, RecordsSound, Sound
  <2> QED  BY <1>0, <2>1, <2>2 DEF Effects, Writes, Unwritten, OnlyLaunchers
<1>2. ASSUME NEW d \in Client, doing'[d] \in {"truncate", "fill"},
             cur'[d].run.status = "running"
      PROVE  /\ phase'[d] = "launch" /\ Unwritten(cur[d].run.child)'
             /\ \A i \in Id : record'[i].child # cur'[d].run.child
             /\ \A e \in Client, i \in Id : view'[e][i].child # cur'[d].run.child
             /\ \A e \in Client \ {d} : cur'[e].run.child # cur'[d].run.child
  <2> DEFINE k == cur[d].run.child
  <2>1. /\ cur'[d] = cur[d] /\ doing[d] \in {"truncate", "fill"}
        /\ phase'[d] = phase[d] /\ (d = c => doing[c] = "truncate")
    BY <1>2 DEF Effects, Apart, Saving
  <2>2. /\ phase[d] = "launch" /\ Unwritten(k)
        /\ \A i \in Id : record[i].child # k
        /\ \A e \in Client, i \in Id : view[e][i].child # k
        /\ \A e \in Client \ {d} : cur[e].run.child # k
    BY <1>0, <1>2, <2>1 DEF OnlyLaunchers
  <2>3. k \in Child /\ k # NoChild
    BY <1>0, <2>1, HeldFacts DEF InHand, InHandOf
  <2>4. doing[c] = "fill" => cur[c].run.child # k
    BY <2>1, <2>2
  <2>5. Unwritten(k)'  BY <2>1, <2>2, <2>4 DEF Effects, Writes, Unwritten
  <2>6. \A i \in Id : record'[i].child # k
    BY <1>0, <2>2, <2>3, <2>4 DEF Effects, Writes, RegistryType, DiskType, Torn, Absent
  <2>7. ASSUME NEW e \in Client, NEW i \in Id PROVE view'[e][i].child # k
    <3>1. CASE e # c \/ d = c
      BY <1>2, <2>1, <2>2, <3>1 DEF Effects, Apart, Saving
    <3>2. CASE e = c /\ d # c
      <4>1. cur[c].run.child # k  BY <2>2, <3>2
      <4> QED  BY <2>2, <2>3, <3>2, <4>1 DEF Effects, Copies, Absent
    <3> QED  BY <3>1, <3>2
  <2>8. ASSUME NEW e \in Client \ {d} PROVE cur'[e].run.child # k
    <3>1. CASE cur'[e] = cur[e]  BY <2>2, <3>1
    <3>2. CASE cur'[e].run = Absent  BY <2>3, <3>2 DEF Absent
    <3>3. ASSUME NEW i \in Id, cur'[e] = [id |-> i, run |-> record[i]]
          PROVE  cur'[e].run.child # k
      BY <2>2, <3>3
    <3>4. ASSUME e = c, NEW s \in {"completed", "failed"}, cur[c].run.status = "running",
                 cur'[c] = [cur[c] EXCEPT !.run.status = s]
          PROVE  cur'[e].run.child # k
      <4>1. cur[c].run \in Run
        BY <1>0, <3>4 DEF RegistryType, MemoryType, Held, Absent
      <4>2. cur'[c].run = [cur[c].run EXCEPT !.status = s]
        BY <1>0, <3>4 DEF RegistryType, MemoryType, Held
      <4>3. cur'[c].run.child = cur[c].run.child  BY <4>1, <4>2 DEF Run
      <4> QED  BY <2>2, <3>4, <4>3
    <3>5. ASSUME e = c, NEW i \in Id, view[c][i].status = "running",
                 cur'[c] = [id |-> i, run |-> [view[c][i] EXCEPT !.status = "killed"]]
          PROVE  cur'[e].run.child # k
      <4>1. view[c][i] \in Run
        BY <1>0, <3>5 DEF RegistryType, MemoryType, Absent
      <4>2. cur'[c].run.child = view[c][i].child  BY <3>5, <4>1 DEF Run
      <4> QED  BY <2>2, <3>5, <4>2
    <3> QED  BY <3>1, <3>2, <3>3, <3>4, <3>5 DEF Effects, Apart, Takes
  <2> QED  BY <2>1, <2>2, <2>5, <2>6, <2>7, <2>8
<1>3. OnlyLaunchers'  BY <1>1, <1>2 DEF OnlyLaunchers
<1>4. ASSUME NEW i \in Id, record'[i].status = "running", NEW s \in Terminal
      PROVE  <<record'[i].child, s>> \notin written'
  <2>1. CASE doing[c] = "fill" /\ record' = [record EXCEPT ![cur[c].id] = cur[c].run]
             /\ written' = written \cup {<<cur[c].run.child, cur[c].run.status>>}
    <3>1. cur[c].run \in Run /\ cur[c].id \in Id
      BY <1>0, <2>1 DEF InHand, InHandOf, RegistryType, MemoryType, Held
    <3>2. CASE i = cur[c].id
      <4>1. record'[i] = cur[c].run
        BY <1>0, <2>1, <3>1, <3>2 DEF RegistryType, DiskType
      <4>2. Unwritten(cur[c].run.child)
        BY <1>0, <1>4, <2>1, <4>1 DEF OnlyLaunchers
      <4>3. s \in Status /\ s # "running"  BY DEF Terminal
      <4> QED  BY <1>4, <2>1, <4>1, <4>2, <4>3 DEF Unwritten
    <3>3. CASE i # cur[c].id
      <4>1. record'[i] = record[i]
        BY <1>0, <2>1, <3>3 DEF RegistryType, DiskType
      <4>2. record[i] \in Run
        BY <1>0, <1>4, <4>1 DEF RegistryType, DiskType, Torn, Absent
      <4>3. record[i].child # cur[c].run.child
        BY <1>0, <3>1, <3>3, <4>2 DEF RecordsSound, Sound
      <4>4. <<record[i].child, s>> \notin written
        BY <1>0, <1>4, <4>1 DEF NeverRevived
      <4> QED  BY <2>1, <4>1, <4>3, <4>4
    <3> QED  BY <3>2, <3>3
  <2>2. CASE written' = written /\ (record'[i] = record[i] \/ record'[i] \in {Torn, Absent})
    BY <1>0, <1>4, <2>2 DEF NeverRevived, Torn, Absent
  <2> QED
    BY <1>0, <2>1, <2>2 DEF Effects, Writes, RegistryType, DiskType
<1> QED  BY <1>3, <1>4 DEF NeverRevived

\* Every step of a client keeps the invariant of the registry.
LEMMA ClientKeeps ==
  ASSUME RegistryInv, RegistryType', NEW c \in Client, ClientStep(c)
  PROVE  RegistryInv'
<1>1. Effects(c)  BY ClientEffects DEF RegistryInv
<1>2. ASSUME NEW d \in Client \ {c} PROVE InHandOf(d)'
  BY <1>1 DEF RegistryInv, InHand, InHandOf, Effects, Apart
<1>3. InHand'  BY <1>1, <1>2 DEF InHand, Effects
<1> QED  BY <1>1, <1>3, ClientSound, ClientUnrevived DEF RegistryInv

\* A launch brings a child that nobody knows.
LEMMA LaunchKeeps ==
  ASSUME RegistryInv, RegistryType', NEW c \in Client, NEW k \in Child, Launch(c, k)
  PROVE  RegistryInv'
<1>0. /\ RegistryType /\ RecordsSound /\ InHand /\ OnlyLaunchers /\ NeverRevived
      /\ ProcessType /\ ControlType /\ MemoryType /\ DiskType
  BY DEF RegistryInv, RegistryType
<1>1. /\ process[k] = "none" /\ process'[k] = "running"
      /\ \A q \in Child \ {k} : process'[q] = process[q] /\ owner'[q] = owner[q]
  BY <1>0 DEF Launch, ProcessType
<1>2. Outlives  BY <1>1 DEF Outlives, Ended
<1>3. /\ cur'[c] = [id |-> owner'[k],
                     run |-> [status |-> "running", child |-> k, commit |-> hash[c]]]
      /\ \A d \in Client \ {c} : cur'[d] = cur[d]
  BY <1>0 DEF Launch, MemoryType, ProcessType
<1>4. /\ doing'[c] = "truncate" /\ phase'[c] = "launch"
      /\ \A d \in Client \ {c} : doing'[d] = doing[d] /\ phase'[d] = phase[d]
      /\ UNCHANGED <<record, op, todo, view, written>>
  BY <1>0 DEF Launch, Goto, ControlType
<1>5. /\ \A i \in Id : record[i].child # k
      /\ \A d \in Client, i \in Id : view[d][i].child # k
      /\ \A d \in Client : cur[d].run.child # k
  <2>1. NoChild # k  OBVIOUS
  <2>2. \A r, i : r \in Run /\ Sound(r, i) => r.child # k  BY <1>1 DEF Sound
  <2> QED  BY <1>0, <2>1, <2>2
           DEF RecordsSound, DiskType, MemoryType, Held, Torn, Absent
<1>6. cur'[c].run \in Run
  BY <1>0, <1>3 DEF Run, Status, ControlType
<1>7. RecordsSound'
  <2>1. ASSUME NEW i \in Id PROVE Sound(record[i], i)'
    BY <1>0, <1>2, <1>4, SoundStays DEF RecordsSound
  <2>2. ASSUME NEW d \in Client, NEW i \in Id PROVE Sound(view[d][i], i)'
    BY <1>0, <1>2, <1>4, SoundStays DEF RecordsSound
  <2>3. ASSUME NEW d \in Client \ {c} PROVE Sound(cur[d].run, cur[d].id)'
    <3>1. cur[d].id \in Id  BY <1>0 DEF MemoryType, Held
    <3> QED  BY <1>0, <1>2, <1>3, <3>1, SoundStays DEF RecordsSound
  <2>4. Sound(cur[c].run, cur[c].id)'  BY <1>1, <1>3 DEF Sound
  <2> QED  BY <2>1, <2>2, <2>3, <2>4 DEF RecordsSound
<1>8. InHand'
  BY <1>0, <1>3, <1>4, <1>6 DEF InHand, InHandOf
<1>9. OnlyLaunchers'
  <2>1. \A q \in Child : process'[q] = "none" => Unwritten(q)'
    BY <1>0, <1>1, <1>4 DEF OnlyLaunchers, Unwritten
  <2>2. Unwritten(k)'  BY <1>0, <1>1, <1>4 DEF OnlyLaunchers, Unwritten
  <2>3. ASSUME NEW d \in Client, doing'[d] \in {"truncate", "fill"},
               cur'[d].run.status = "running"
        PROVE  /\ phase'[d] = "launch" /\ Unwritten(cur[d].run.child)'
               /\ \A i \in Id : record'[i].child # cur'[d].run.child
               /\ \A e \in Client, i \in Id : view'[e][i].child # cur'[d].run.child
               /\ \A e \in Client \ {d} : cur'[e].run.child # cur'[d].run.child
    <3>1. CASE d = c
      <4>1. cur'[d].run.child = k  BY <1>3, <3>1
      <4> QED  BY <1>3, <1>4, <1>5, <2>2, <3>1, <4>1
    <3>2. CASE d # c
      <4>1. /\ phase[d] = "launch" /\ Unwritten(cur[d].run.child)
            /\ \A i \in Id : record[i].child # cur[d].run.child
            /\ \A e \in Client, i \in Id : view[e][i].child # cur[d].run.child
            /\ \A e \in Client \ {d} : cur[e].run.child # cur[d].run.child
        BY <1>0, <1>3, <1>4, <2>3, <3>2 DEF OnlyLaunchers
      <4>2. cur'[c].run.child # cur[d].run.child  BY <1>3, <1>5
      <4> QED  BY <1>3, <1>4, <3>2, <4>1, <4>2 DEF Unwritten
    <3> QED  BY <3>1, <3>2
  <2> QED  BY <2>1, <2>3 DEF OnlyLaunchers
<1>10. NeverRevived'  BY <1>0, <1>4 DEF NeverRevived
<1> QED  BY <1>7, <1>8, <1>9, <1>10 DEF RegistryInv

\* The other steps do not touch the records, and a process that has ended stays so.
LEMMA SurroundingsKeep ==
  ASSUME RegistryInv, RegistryType', UNCHANGED <<record, client, written>>,
         \/ \E k \in Child : SaveResult(k) \/ Exit(k) \/ Recycle(k) \/ Recycled(k)
         \/ Commit \/ UNCHANGED registryVars
  PROVE  RegistryInv'
<1>0. /\ RegistryType /\ RecordsSound /\ InHand /\ OnlyLaunchers /\ NeverRevived
      /\ ProcessType /\ MemoryType
  BY DEF RegistryInv, RegistryType
<1>1. Outlives /\ \A k \in Child : process'[k] = "none" => process[k] = "none"
  <2>1. ASSUME NEW k \in Child, Exit(k) \/ Recycle(k) \/ Recycled(k) \/ SaveResult(k)
        PROVE  Outlives /\ \A q \in Child : process'[q] = "none" => process[q] = "none"
    BY <1>0, <2>1 DEF Exit, Recycle, Recycled, SaveResult, children, ProcessType, Outlives, Ended
  <2>2. CASE Commit \/ UNCHANGED registryVars
    BY <2>2 DEF Commit, registryVars, children, Outlives, Ended
  <2> QED  BY <2>1, <2>2
<1>2. RecordsSound'
  <2>1. UNCHANGED <<record, view, cur>>  BY DEF client
  <2>2. \A d \in Client : cur[d].id \in Id  BY <1>0 DEF MemoryType, Held
  <2> QED  BY <1>0, <1>1, <2>1, <2>2, SoundStays DEF RecordsSound
<1>3. InHand' /\ NeverRevived'
  BY <1>0 DEF client, InHand, InHandOf, NeverRevived
<1>4. OnlyLaunchers'
  BY <1>0, <1>1 DEF client, OnlyLaunchers, Unwritten
<1> QED  BY <1>2, <1>3, <1>4 DEF RegistryInv

\* An empty registry is sound.
LEMMA RegistryInit1 == RegistryInit => RegistryInv
<1> SUFFICES ASSUME RegistryInit PROVE RegistryInv
  OBVIOUS
<1>1. DiskType /\ ProcessType
  BY DEF RegistryInit, DiskType, ProcessType, ProcessStates
<1>2. ControlType  BY DEF RegistryInit, ControlType, Doings, Ops
<1>3. MemoryType  BY HeldFacts DEF RegistryInit, MemoryType
<1>4. RecordsSound  BY HeldFacts DEF RegistryInit, RecordsSound, Sound, NoView, NoCur
<1>5. InHand  BY DEF RegistryInit, InHand, InHandOf
<1>6. OnlyLaunchers  BY DEF RegistryInit, OnlyLaunchers, Unwritten
<1>7. NeverRevived  BY DEF RegistryInit, NeverRevived
<1> QED  BY <1>1, <1>2, <1>3, <1>4, <1>5, <1>6, <1>7 DEF RegistryInv, RegistryType

\* Every step of clients and processes keeps the invariant of the registry.
LEMMA RegistryStep == RegistryInv /\ [RegistryNext]_registryVars => RegistryInv'
<1> SUFFICES ASSUME RegistryInv, [RegistryNext]_registryVars PROVE RegistryInv'
  OBVIOUS
<1>1. RegistryType'  BY RegistryTypeStep DEF RegistryInv
<1>2. ASSUME NEW c \in Client, ClientStep(c) PROVE RegistryInv'
  BY <1>1, <1>2, ClientKeeps
<1>3. ASSUME NEW c \in Client, NEW k \in Child, Launch(c, k) PROVE RegistryInv'
  BY <1>1, <1>3, LaunchKeeps
<1>4. ASSUME NEW k \in Child, SaveResult(k) \/ Exit(k) \/ Recycle(k) \/ Recycled(k)
      PROVE  RegistryInv'
  <2>1. UNCHANGED <<record, client, written>>
    BY <1>4 DEF SaveResult, Exit, Recycle, Recycled
  <2> QED  BY <1>1, <1>4, <2>1, SurroundingsKeep
<1>5. CASE Commit \/ UNCHANGED registryVars
  <2>1. UNCHANGED <<record, client, written>>  BY <1>5 DEF Commit, registryVars
  <2> QED  BY <1>1, <1>5, <2>1, SurroundingsKeep
<1> QED  BY <1>2, <1>3, <1>4, <1>5 DEF RegistryNext, ClientStep

\* The registry keeps its invariant, whoever uses it.
THEOREM RegistryInvariance == RegistrySpec => []RegistryInv
<1> QED  BY RegistryInit1, RegistryStep, PTL DEF RegistrySpec

\* A record that says completed or failed is of a process that has ended, however
\* old the view was from which it was written.
THEOREM FinishedIsDeadTheorem == RegistrySpec => []FinishedIsDead
<1>1. RegistryInv => FinishedIsDead
  BY DEF RegistryInv, RegistryType, DiskType, RecordsSound, Sound, Ended, FinishedIsDead,
         Absent, Torn
<1> QED  BY <1>1, RegistryInvariance, PTL

\* A run that was recorded as over is never recorded as running again.
THEOREM NeverRevivedTheorem == RegistrySpec => []NeverRevived
<1>1. RegistryInv => NeverRevived  BY DEF RegistryInv
<1> QED  BY <1>1, RegistryInvariance, PTL

(***************************************************************************)
(* The commands.                                                           *)
(***************************************************************************)
Asked == {"list_runs", "run_status", "kill_run", "kill_stale", "spawn_bench", "run",
          "get_results", "get_latest", "wait_for_results", "clean_runs"}
Cmds  == Asked \cup {Nothing, "gone", "reap", "finish", "latest"}
Outs  == {Nothing, "done", "error"} \cup Telling
Readers == {"finish", "wait_for_results", "get_results", "latest", "run_status"}

FrontType ==
  /\ front \in [Client -> [cmd : Cmds, id : Id \cup {NoId}, out : Outs]]
  /\ saved \subseteq Child

\* A command and the call that it makes go together.
Tracks(c) ==
  /\ doing[c] \in {"idle", "dead"} => op[c] = "none"
  /\ op[c] = "spawn" => front[c].cmd \in {"run", "spawn_bench"}
  /\ op[c] \in {"load", "wait"} => front[c].cmd \in Readers /\ front[c].id \in Id
  /\ doing[c] = "launch" => op[c] = "spawn" /\ phase[c] = "act"
  /\ phase[c] = "launch" => op[c] = "spawn" /\ doing[c] \in {"truncate", "fill"}
  /\ front[c].cmd \in {"run", "reap", "finish"} => c \in Cli
  /\ front[c].cmd = "spawn_bench" => c \notin Cli
  /\ front[c].cmd \notin {Nothing, "gone"} => front[c].out = Nothing
  /\ \/ front[c].cmd \in {"reap", "finish"}
     \/ front[c].cmd = "run" /\ phase[c] = "launch"
     => \E t \in 0 .. MaxSecond : front[c].id = <<t, c>>

\* A command line launches one run at most, so that its id is that run's alone.
OwnRuns ==
  /\ \A c \in Cli : front[c].cmd \in {Nothing, "run"} /\ phase[c] # "launch" =>
       \A k \in Child, t \in 0 .. MaxSecond : owner[k] # <<t, c>>
  /\ \A c \in Cli, t \in 0 .. MaxSecond, j, k \in Child :
       owner[j] = <<t, c>> /\ owner[k] = <<t, c>> => j = k

\* Results are there, and a run is called completed, when it has saved some.
HasSaved(i) == \E k \in saved : owner[k] = i

CompletedHasSaved ==
  /\ \A k \in saved : process[k] # "none"
  /\ \A i \in results : HasSaved(i)
  /\ \A i \in Id : record[i].status = "completed" => HasSaved(i)
  /\ \A c \in Client, i \in Id : view[c][i].status = "completed" => HasSaved(i)
  /\ \A c \in Client : cur[c].run.status = "completed" => HasSaved(cur[c].id)

\* What one client is told.
TellsTrue(c) ==
  front[c].out \in Telling =>
    /\ OfRun(front[c].id) \cap saved # {}
    /\ front[c].out = "awaited" => OfRun(front[c].id) \cap Stopped # {}
    /\ front[c].out = "success" => OfRun(front[c].id) \cap Stopped \cap saved # {}

JobsInv ==
  /\ RegistryInv /\ FrontType /\ (\A c \in Client : Tracks(c))
  /\ OwnRuns /\ CompletedHasSaved /\ AnswerIsTrue

\* Which call a client is in, and whether it has launched its run.
Controls(c) ==
  /\ results' \subseteq results
  /\ doing'[c] \in {"idle", "dead"} => op'[c] = "none" /\ phase'[c] = "scan"
  /\ \/ doing[c] = "idle"
     \/ doing'[c] \in {"idle", "dead"}
     \/ op'[c] = op[c]
  /\ doing'[c] = "launch" => op'[c] = "spawn" /\ phase'[c] = "act"
  /\ phase'[c] = "launch" => phase[c] = "launch" /\ doing'[c] \in {"truncate", "fill"}
  /\ phase[c] = "launch" => doing'[c] \in {"idle", "dead"} \/ phase'[c] = "launch"

\* A client that leaves its command is where the next one begins.
LEMMA LeaveControls ==
  ASSUME ControlType, NEW c \in Client, NEW d \in {"idle", "dead"}, Leave(c, d),
         results' \subseteq results
  PROVE  Controls(c)
<1>1. doing'[c] = d /\ op'[c] = "none" /\ phase'[c] = "scan"  BY DEF ControlType, Leave
<1> QED  BY <1>1 DEF Controls

\* How a step moves a client through its command.
LEMMA ClientControls ==
  ASSUME RegistryType, InHand, NEW c \in Client, Tracks(c), ClientStep(c)
  PROVE  Controls(c)
<1>0. DiskType /\ ProcessType /\ ControlType /\ MemoryType  BY DEF RegistryType
<1>1. CASE Begin(c)
  <2>1. doing'[c] = "read" /\ phase'[c] = "scan" /\ phase[c] = "scan" /\ doing[c] = "idle"
        /\ results' = results
    BY <1>0, <1>1 DEF Begin, InHand, InHandOf, ControlType
  <2> QED  BY <2>1 DEF Controls
<1>2. CASE ReadFails(c) \/ ListDone(c) \/ Report(c) \/ WaitTimeout(c)
          \/ LaunchFails(c) \/ ClientDies(c)
  <2>1. PICK d \in {"idle", "dead"} : Leave(c, d)
    BY <1>2 DEF ReadFails, ListDone, Report, WaitTimeout, LaunchFails, ClientDies, Finish
  <2>2. results' = results
    BY <1>2 DEF ReadFails, ListDone, Report, WaitTimeout, LaunchFails, ClientDies
  <2> QED  BY <1>0, <2>1, <2>2, LeaveControls
<1>3. ASSUME NEW i \in Id, Read(c, i) PROVE Controls(c)
  <2>1. phase[c] = "scan" /\ results' = results
    BY <1>3 DEF Read, InHand, InHandOf
  <2>2. CASE record[i] \in Run
    BY <1>0, <1>3, <2>1, <2>2 DEF Read, Goto, ControlType, Controls
  <2>3. CASE record[i] \notin Run /\ op[c] \in ListOps
    BY <1>0, <1>3, <2>1, <2>3 DEF Read, ControlType, Controls
  <2>4. CASE record[i] \notin Run /\ op[c] \notin ListOps
    <3>1. Leave(c, "idle")  BY <1>3, <2>4 DEF Read, Finish
    <3> QED  BY <1>0, <2>1, <3>1, LeaveControls
  <2> QED  BY <2>2, <2>3, <2>4
<1>4. CASE Agrees(c)
  BY <1>0, <1>4 DEF Agrees, Keep, InHand, InHandOf, ControlType, Controls
<1>5. CASE Reconcile(c) \/ Truncate(c)
  BY <1>0, <1>5 DEF Reconcile, Truncate, Goto, InHand, InHandOf, ControlType, Controls
<1>6. CASE Fill(c)
  <2>1. results' = results /\ phase[c] \in {"scan", "act", "launch"} /\ doing[c] = "fill"
    BY <1>0, <1>6 DEF Fill, ControlType
  <2>2. CASE phase[c] = "scan"
    BY <1>0, <1>6, <2>1, <2>2, FillSaves DEF Keep, ControlType, Controls
  <2>3. CASE phase[c] = "act"
    BY <1>0, <1>6, <2>1, <2>3, FillSaves DEF ControlType, Controls
  <2>4. CASE phase[c] = "launch"
    BY <1>0, <1>6, <2>1, <2>4, FillSaves, LeaveControls DEF Finish
  <2> QED  BY <2>1, <2>2, <2>3, <2>4
<1>7. CASE SaveFails(c)
  <2>1. CASE phase[c] = "scan"
    BY <1>0, <1>7, <2>1 DEF SaveFails, Keep, ControlType, Controls
  <2>2. CASE phase[c] # "scan"
    BY <1>0, <1>7, <2>2, LeaveControls DEF SaveFails, Finish
  <2> QED  BY <2>1, <2>2
<1>8. CASE PollAgain(c) \/ RemoveResult(c)
          \/ \E i \in Id : Signal(c, i) \/ NotSignalled(c, i) \/ RemoveRecord(c, i)
  BY <1>0, <1>8 DEF PollAgain, RemoveResult, Signal, NotSignalled, RemoveRecord, Goto,
                    InHand, InHandOf, ControlType, Controls
<1>9. CASE Select(c)
  <2>1. doing[c] = "read"  BY <1>9, Zenon DEF Select, Goto
  <2>2. /\ doing'[c] = "act" /\ phase'[c] = "act" /\ op'[c] = op[c] /\ results' = results
    BY <1>0, <1>9, Selects DEF ControlType
  <2> QED  BY <2>1, <2>2 DEF Controls, InHand, InHandOf
<1>10. CASE ActDone(c)
  <2>1. doing[c] = "act" /\ phase[c] = "act" /\ results' = results
    BY <1>10 DEF ActDone, InHand, InHandOf
  <2>2. CASE op[c] = "spawn"
    BY <1>0, <1>10, <2>1, <2>2 DEF ActDone, Goto, ControlType, Controls
  <2>3. CASE op[c] # "spawn"
    BY <1>0, <1>10, <2>1, <2>3, LeaveControls DEF ActDone, Finish
  <2> QED  BY <2>2, <2>3
<1> QED
  BY <1>1, <1>2, <1>3, <1>4, <1>5, <1>6, <1>7, <1>8, <1>9, <1>10 DEF ClientStep

\* What a command is about, what it was about before, and what its answer rests on.
Fronts(c) ==
  /\ \A d \in Client \ {c} : front'[d] = front[d]
  /\ Tracks(c)'
  /\ c \in Cli /\ front'[c].cmd \in {Nothing, "run"} /\ phase'[c] # "launch" =>
       front[c].cmd \in {Nothing, "run"} /\ phase[c] # "launch"
  /\ front'[c].out = "success" =>
       /\ front'[c].id = front[c].id
       /\ \/ front[c].out = "success"
          \/ /\ front[c].cmd = "finish" /\ front[c].id \in Id
             /\ view[c][front[c].id].status = "completed"
  /\ front'[c].out = "awaited" =>
       /\ front'[c].id = front[c].id
       /\ \/ front[c].out = "awaited"
          \/ /\ front[c].id \in Id \cap results
             /\ view[c][front[c].id].status = "completed"
  /\ front'[c].out = "shown" =>
       /\ front'[c].id = front[c].id
       /\ front[c].out = "shown" \/ front[c].id \in results

\* A step of a command is one of the registry, or waits for the child.
CommandMoves(c) ==
  \/ ClientStep(c)
  \/ \E k \in Child : Launch(c, k)
  \/ UNCHANGED registryVars

\* The registry call that a command starts with.
LEMMA CallFacts ==
  \A t \in DOMAIN Call :
    /\ t \in Asked
    /\ Call[t] = "spawn" => t \in {"run", "spawn_bench"}
    /\ Call[t] \in {"load", "wait"} => t \in Readers
    /\ t = "run" => t \in OnCommandLine /\ t \notin OnServer
    /\ t = "spawn_bench" => t \in OnServer /\ t \notin OnCommandLine
  BY DEF Call, Asked, Readers, OnServer, OnCommandLine

\* Answering changes the client's own front, and ends the command.
LEMMA AnswerFacts ==
  ASSUME FrontType, NEW c \in Client, NEW out \in Outs \ {Nothing}, Answer(c, out)
  PROVE  /\ \A d \in Client \ {c} : front'[d] = front[d]
         /\ front'[c].out = out
         /\ front'[c].cmd \in {Nothing, "gone"} /\ (c \in Cli => front'[c].cmd = "gone")
         /\ out \in Telling => front'[c].id = front[c].id
         /\ front' \in [Client -> [cmd : Cmds, id : Id \cup {NoId}, out : Outs]]
<1> DEFINE new == [cmd |-> IF c \in Cli THEN "gone" ELSE Nothing, out |-> out,
                   id  |-> IF out \in Telling THEN front[c].id ELSE NoId]
<1>1. front' = [front EXCEPT ![c] = new]  BY Zenon DEF Answer
<1>2. new \in [cmd : Cmds, id : Id \cup {NoId}, out : Outs]  BY DEF FrontType, Cmds
<1>3. front'[c] = new /\ \A d \in Client \ {c} : front'[d] = front[d]
  BY <1>1 DEF FrontType
<1>4. front' \in [Client -> [cmd : Cmds, id : Id \cup {NoId}, out : Outs]]
  BY <1>1, <1>2 DEF FrontType
<1> QED  BY <1>3, <1>4 DEF Nothing

\* A command that is over makes no call.
LEMMA OverFronts ==
  ASSUME FrontType, NEW c \in Client, NEW out \in Outs \ {Nothing}, Answer(c, out),
         op'[c] = "none", phase'[c] = "scan", doing'[c] \in {"idle", "dead"}, saved' = saved,
         out = "success" => /\ front[c].cmd = "finish" /\ front[c].id \in Id
                            /\ view[c][front[c].id].status = "completed",
         out = "awaited" => /\ front[c].id \in Id \cap results
                            /\ view[c][front[c].id].status = "completed",
         out = "shown" => front[c].id \in results
  PROVE  Fronts(c) /\ FrontType'
<1>1. Tracks(c)'  BY AnswerFacts DEF Tracks, Nothing
<1> QED  BY <1>1, AnswerFacts DEF Fronts, Nothing, Telling, FrontType

CommandStep(c) ==
  \/ Ask(c) \/ Proceed(c) \/ Fails(c) \/ Killed(c) \/ Cleaned(c)
  \/ SpawnedDetached(c) \/ SpawnedToWait(c) \/ Listed(c) \/ FoundLatest(c)
  \/ Reap(c) \/ Again(c) \/ Reported(c) \/ Dies(c)

\* A step of a command saves no results of a child.
LEMMA CommandSteps ==
  ASSUME NEW c \in Client, CommandStep(c)
  PROVE  CommandMoves(c) /\ saved' = saved
<1>1. Fallible(c) => ClientStep(c)
  BY Zenon DEF Fallible, ClientStep
<1> QED
  BY <1>1 DEF CommandStep, CommandMoves, Ask, Proceed, Fails, Fallible, Killed, Cleaned,
     SpawnedDetached, SpawnedToWait, Listed, FoundLatest, Reap, Again, Reported, Dies,
     ClientStep

\* What a command asks, and how it goes on.
LEMMA AskFronts ==
  ASSUME RegistryType, InHand, FrontType, NEW c \in Client, Tracks(c), Ask(c)
  PROVE  Fronts(c) /\ FrontType'
<1>1. PICK tool \in IF c \in Cli THEN OnCommandLine ELSE OnServer :
        /\ Begin(c) /\ op'[c] = Call[tool]
        /\ front' = [front EXCEPT ![c] = [NoFront EXCEPT !.cmd = tool,
             !.id = IF op'[c] \in ListOps THEN NoId ELSE CHOOSE i \in todo'[c] : TRUE]]
  BY Zenon DEF Ask
<1>2. tool \in DOMAIN Call  BY <1>1 DEF OnCommandLine, OnServer
<1>3. /\ doing[c] = "idle" /\ doing'[c] = "read" /\ phase'[c] = "scan" /\ phase[c] = "scan"
      /\ op'[c] # "none" /\ saved' = saved
  BY <1>1 DEF Ask, Begin, RegistryType, ControlType, InHand, InHandOf, ListOps
<1>4. op'[c] \notin ListOps => \E i \in Id : todo'[c] = {i}
  BY <1>1 DEF Begin, RegistryType, ControlType
<1> DEFINE about == IF op'[c] \in ListOps THEN NoId ELSE CHOOSE i \in todo'[c] : TRUE
<1>5. about \in Id \cup {NoId} /\ (op'[c] \in {"load", "wait"} => about \in Id)
  BY <1>4 DEF ListOps
<1>6. front' = [front EXCEPT ![c] = [NoFront EXCEPT !.cmd = tool, !.id = about]]
  BY <1>1, Zenon
<1> DEFINE new == [NoFront EXCEPT !.cmd = tool, !.id = about]
<1>7. /\ new.cmd = tool /\ new.id = about /\ new.out = Nothing
      /\ new \in [cmd : Cmds, id : Id \cup {NoId}, out : Outs]
  <2>1. tool \in Cmds /\ Nothing \in Outs  BY <1>2, CallFacts DEF Cmds, Outs
  <2> QED  BY <1>5, <2>1 DEF NoFront
<1> HIDE DEF new, about
<1>8. /\ front'[c] = new /\ \A d \in Client \ {c} : front'[d] = front[d]
      /\ FrontType'
  BY <1>3, <1>6, <1>7 DEF FrontType, new
<1>9. Tracks(c)'
  <2>1. front'[c].cmd = tool /\ front'[c].id = about /\ front'[c].out = Nothing  BY <1>7, <1>8
  <2>2. tool \in Asked /\ (tool = "run" => c \in Cli) /\ (tool = "spawn_bench" => c \notin Cli)
    BY <1>1, <1>2, CallFacts
  <2>3. /\ op'[c] = "spawn" => tool \in {"run", "spawn_bench"}
        /\ op'[c] \in {"load", "wait"} => tool \in Readers /\ about \in Id
    BY <1>1, <1>2, <1>5, CallFacts
  <2>4. tool \notin {"reap", "finish"}  BY <2>2 DEF Asked
  <2> QED  BY <1>3, <2>1, <2>2, <2>3, <2>4 DEF Tracks
<1>10. front[c].cmd = Nothing  BY DEF Ask
<1> QED  BY <1>1, <1>2, <1>3, <1>7, <1>8, <1>9, <1>10, CallFacts DEF Fronts, Nothing

\* A step in the course of a command is the launch or keeps the call and the phase.
LEMMA ProceedSteps ==
  ASSUME RegistryType, InHand, NEW c \in Client, Tracks(c), Proceed(c)
  PROVE  \/ \E k \in Child : Launch(c, k) /\ doing[c] = "launch"
         \/ /\ ClientStep(c) /\ front' = front
            /\ doing[c] # "idle" /\ doing'[c] \notin {"idle", "dead"}
<1>0. ControlType /\ MemoryType  BY DEF RegistryType
<1>1. ASSUME NEW k \in Child, Launch(c, k) PROVE doing[c] = "launch"
  BY <1>1 DEF Launch, Goto
<1>2. CASE LaunchFails(c)
  <2>1. doing'[c] = "idle"  BY <1>0, <1>2 DEF LaunchFails, Finish, Leave, ControlType
  <2> QED  BY <2>1 DEF Proceed
<1>3. CASE \/ ReadFails(c) \/ SaveFails(c) \/ WaitTimeout(c) \/ \E i \in Id : Read(c, i)
           \/ Agrees(c) \/ Reconcile(c) \/ Truncate(c) \/ PollAgain(c)
           \/ RemoveResult(c)
           \/ \E i \in Id : Signal(c, i) \/ NotSignalled(c, i) \/ RemoveRecord(c, i)
  <2>1. doing[c] \notin {"idle", "launch"} /\ doing'[c] # "dead"
    BY <1>0, <1>3 DEF ReadFails, SaveFails, WaitTimeout, Read, Agrees, Reconcile, Truncate,
       PollAgain, RemoveResult, Signal, NotSignalled, RemoveRecord, Goto, Finish, Leave, Keep,
       ControlType
  <2>2. ClientStep(c)  BY <1>3, Zenon DEF ClientStep
  <2> QED  BY <2>1, <2>2, Zenon DEF Proceed
<1>4. CASE Fill(c)
  <2>1. doing[c] = "fill" /\ phase[c] \in {"scan", "act", "launch"}
    BY <1>0, <1>4 DEF Fill, ControlType
  <2>2. doing'[c] # "dead"
    BY <1>0, <1>4, <2>1, FillSaves DEF Keep, Finish, Leave, ControlType
  <2>3. ClientStep(c)  BY <1>4, Zenon DEF ClientStep
  <2> QED  BY <2>1, <2>2, <2>3 DEF Proceed
<1>5. CASE Select(c)
  <2>1. doing[c] = "read"  BY <1>5, Zenon DEF Select, Goto
  <2>2. doing'[c] = "act"  BY <1>0, <1>5, Selects DEF ControlType
  <2>3. ClientStep(c)  BY <1>5, Zenon DEF ClientStep
  <2> QED  BY <2>1, <2>2, <2>3 DEF Proceed
<1>6. CASE ActDone(c)
  <2>1. doing[c] = "act" /\ doing'[c] # "dead"
    BY <1>0, <1>6 DEF ActDone, Goto, Finish, Leave, ControlType
  <2>2. ClientStep(c)  BY <1>6, Zenon DEF ClientStep
  <2> QED  BY <2>1, <2>2 DEF Proceed
<1> QED
  BY <1>1, <1>2, <1>3, <1>4, <1>5, <1>6, Zenon DEF Proceed, Fallible

\* What a command knows of its run is kept while the command proceeds.
LEMMA ProceedFronts ==
  ASSUME RegistryType, RegistryType', InHand, FrontType, NEW c \in Client, Tracks(c), Proceed(c)
  PROVE  Fronts(c) /\ FrontType'
<1>0. saved' = saved  BY DEF Proceed
<1>1. ASSUME NEW k \in Child, Launch(c, k), doing[c] = "launch" PROVE Fronts(c) /\ FrontType'
  <2>1. /\ op'[c] = "spawn" /\ doing'[c] = "truncate" /\ phase'[c] = "launch"
        /\ op[c] = "spawn"
    BY <1>1 DEF Launch, Goto, RegistryType, ControlType, Tracks
  <2>2. cur'[c].id = <<second', c>> /\ second' \in 0 .. MaxSecond /\ <<second', c>> \in Id
    <3>1. second' \in 0 .. MaxSecond  BY DEF RegistryType, ProcessType
    <3>2. cur'[c].id = <<second', c>>  BY <1>1 DEF Launch, RegistryType, MemoryType
    <3> QED  BY <3>1, <3>2 DEF Id
  <2>3. front' = [front EXCEPT ![c].id = cur'[c].id]
    BY <1>1, Zenon DEF Proceed
  <2>4. /\ front'[c].cmd = front[c].cmd /\ front'[c].out = front[c].out
        /\ front'[c].id = <<second', c>>
        /\ \A d \in Client \ {c} : front'[d] = front[d]
    BY <2>2, <2>3 DEF FrontType
  <2>5. FrontType'  BY <1>0, <2>2, <2>3 DEF FrontType
  <2>6. front[c].cmd \in {"run", "spawn_bench"} /\ front[c].out = Nothing
    BY <2>1 DEF Tracks, Nothing
  <2>7. Tracks(c)'  BY <2>1, <2>2, <2>4, <2>6 DEF Tracks
  <2> QED  BY <2>1, <2>4, <2>5, <2>6, <2>7 DEF Fronts, Nothing
<1>2. CASE ClientStep(c) /\ front' = front /\ doing[c] # "idle"
             /\ doing'[c] \notin {"idle", "dead"}
  <2>1. /\ op'[c] = op[c] /\ (phase'[c] = "launch" <=> phase[c] = "launch")
        /\ doing'[c] = "launch" => op'[c] = "spawn" /\ phase'[c] = "act"
        /\ phase'[c] = "launch" => doing'[c] \in {"truncate", "fill"}
    BY <1>2, ClientControls DEF Controls
  <2>2. Tracks(c)'  BY <1>2, <2>1 DEF Tracks
  <2>3. FrontType'  BY <1>0, <1>2 DEF FrontType
  <2>4. front'[c].out = "success" => front[c].out = "success"  BY <1>2
  <2> QED  BY <1>2, <2>1, <2>2, <2>3 DEF Fronts
<1> QED  BY <1>1, <1>2, ProceedSteps

\* The answers that say nothing of a run.
LEMMA AnsweredFronts ==
  ASSUME RegistryType, InHand, FrontType, NEW c \in Client, Tracks(c),
         Fails(c) \/ Killed(c) \/ Cleaned(c) \/ SpawnedDetached(c) \/ Listed(c)
  PROVE  Fronts(c) /\ FrontType'
<1>1. ClientStep(c)
  <2>1. Fallible(c) => ClientStep(c)  BY Zenon DEF Fallible, ClientStep
  <2> QED
    BY <2>1, Zenon DEF Fails, Killed, Cleaned, SpawnedDetached, Listed, ClientStep
<1>2. doing'[c] = "idle"
  <2>1. Leave(c, "idle") => doing'[c] = "idle"  BY DEF Leave, RegistryType, ControlType
  <2> QED  BY <2>1 DEF Fails, Killed, Cleaned, SpawnedDetached, Listed, ListDone, Finish
<1>3. op'[c] = "none" /\ phase'[c] = "scan"
  BY <1>1, <1>2, ClientControls DEF Controls
<1>4. saved' = saved /\ (Answer(c, "error") \/ Answer(c, "done"))
  BY Zenon DEF Fails, Killed, Cleaned, SpawnedDetached, Listed
<1>5. "error" \in Outs \ {Nothing} /\ "done" \in Outs \ {Nothing}  BY DEF Outs, Nothing
<1>6. ASSUME NEW out \in {"error", "done"}, Answer(c, out) PROVE Fronts(c) /\ FrontType'
  BY <1>2, <1>3, <1>4, <1>5, <1>6, OverFronts
<1> QED  BY <1>4, <1>6

\* What a run has been launched for goes on with the id that was launched.
LEMMA WaitingFronts ==
  ASSUME RegistryType, InHand, FrontType, NEW c \in Client, Tracks(c),
         SpawnedToWait(c) \/ Reap(c)
  PROVE  Fronts(c) /\ FrontType'
<1>1. CASE SpawnedToWait(c)
  <2>1. Fill(c) /\ doing'[c] = "idle" /\ front[c].cmd = "run" /\ saved' = saved
        /\ front' = [front EXCEPT ![c].cmd = "reap"]
    BY <1>1, Zenon DEF SpawnedToWait
  <2>2. op'[c] = "none" /\ phase'[c] = "scan"
    BY <2>1, ClientControls DEF ClientStep, Controls
  <2>3. phase[c] = "launch"
    <3>1. doing[c] = "fill" /\ phase[c] \in {"scan", "act", "launch"}
      BY <2>1 DEF Fill, RegistryType, ControlType
    <3>2. phase[c] = "scan" => doing'[c] = "read"
      BY <2>1, FillSaves DEF Keep, RegistryType, ControlType
    <3>3. phase[c] = "act" => doing'[c] = "act"
      BY <2>1, FillSaves DEF RegistryType, ControlType
    <3> QED  BY <2>1, <3>1, <3>2, <3>3
  <2>4. /\ front'[c].cmd = "reap" /\ front'[c].id = front[c].id /\ front'[c].out = front[c].out
        /\ \A d \in Client \ {c} : front'[d] = front[d]
    BY <2>1 DEF FrontType
  <2>5. FrontType'  BY <2>1 DEF FrontType, Cmds
  <2>6. front[c].out = Nothing /\ c \in Cli
        /\ \E t \in 0 .. MaxSecond : front[c].id = <<t, c>>
    BY <2>1, <2>3 DEF Tracks, Nothing
  <2>7. Tracks(c)'  BY <2>1, <2>2, <2>4, <2>6 DEF Tracks
  <2> QED  BY <2>1, <2>4, <2>5, <2>6, <2>7 DEF Fronts, Nothing
<1>2. CASE Reap(c)
  <2>1. /\ front[c].cmd = "reap" /\ UNCHANGED <<registryVars, saved>>
        /\ front' = [front EXCEPT ![c].cmd = "finish"]
    BY <1>2, Zenon DEF Reap
  <2>2. UNCHANGED <<doing, op, phase, saved>>  BY <2>1 DEF registryVars, client
  <2>3. /\ front'[c].cmd = "finish" /\ front'[c].id = front[c].id
        /\ front'[c].out = front[c].out
        /\ \A d \in Client \ {c} : front'[d] = front[d]
    BY <2>1 DEF FrontType
  <2>4. FrontType'  BY <2>1 DEF FrontType, Cmds
  <2>5. front[c].out = Nothing /\ c \in Cli
        /\ \E t \in 0 .. MaxSecond : front[c].id = <<t, c>>
    BY <2>1 DEF Tracks, Nothing
  <2>6. op[c] \notin {"load", "wait", "spawn"}  BY <2>1 DEF Tracks, Readers
  <2>7. Tracks(c)'  BY <2>2, <2>3, <2>5, <2>6 DEF Tracks
  <2> QED  BY <2>2, <2>3, <2>4, <2>5, <2>7 DEF Fronts, Nothing
<1> QED  BY <1>1, <1>2

\* What a command answers about the latest run is what it has found.
LEMMA LatestFronts ==
  ASSUME RegistryType, InHand, FrontType, NEW c \in Client, Tracks(c), FoundLatest(c)
  PROVE  Fronts(c) /\ FrontType'
<1>1. ListDone(c) /\ front[c].cmd = "get_latest" /\ saved' = saved
  BY DEF FoundLatest
<1>2. op'[c] = "none" /\ phase'[c] = "scan" /\ doing'[c] = "idle"
  BY <1>1 DEF ListDone, Finish, Leave, RegistryType, ControlType
<1>3. ASSUME Answer(c, "error") PROVE Fronts(c) /\ FrontType'
  <2>1. "error" \in Outs \ {Nothing}  BY DEF Outs, Nothing
  <2> QED  BY <1>1, <1>2, <1>3, <2>1, OverFronts
<1>4. ASSUME NEW i \in Latest(view[c]),
             front' = [front EXCEPT ![c].cmd = "latest", ![c].id = i]
      PROVE  Fronts(c) /\ FrontType'
  <2>1. i \in Id  BY DEF Latest
  <2>2. /\ front'[c].cmd = "latest" /\ front'[c].id = i /\ front'[c].out = front[c].out
        /\ \A d \in Client \ {c} : front'[d] = front[d]
    BY <1>4, SMTT(20) DEF FrontType
  <2>3. FrontType'  BY <1>1, <1>4, <2>1 DEF FrontType, Cmds
  <2>4. front[c].out = Nothing  BY <1>1 DEF Tracks, Nothing
  <2>5. Tracks(c)'  BY <1>2, <2>2, <2>4 DEF Tracks
  <2> QED  BY <2>2, <2>3, <2>4, <2>5 DEF Fronts, Nothing
<1> QED  BY <1>3, <1>4, Zenon DEF FoundLatest

\* The second call is a reading one, about the run that the command has in hand.
LEMMA AgainFronts ==
  ASSUME RegistryType, InHand, FrontType, NEW c \in Client, Tracks(c), Again(c)
  PROVE  Fronts(c) /\ FrontType'
<1>1. doing[c] = "idle" /\ front[c].cmd \in {"finish", "latest"} /\ saved' = saved
  BY DEF Again
<1>2. op[c] = "none" /\ phase[c] = "scan" /\ front[c].out = Nothing
      /\ (front[c].cmd = "finish" => c \in Cli /\ \E t \in 0 .. MaxSecond : front[c].id = <<t, c>>)
  BY <1>1 DEF Tracks, InHand, InHandOf, Nothing
<1>3. CASE Answer(c, "error") /\ UNCHANGED registryVars
  <2>1. UNCHANGED <<doing, op, phase>>  BY <1>3 DEF registryVars, client
  <2>2. "error" \in Outs \ {Nothing}  BY DEF Outs, Nothing
  <2> QED  BY <1>1, <1>2, <1>3, <2>1, <2>2, OverFronts
<1>4. CASE /\ Begin(c) /\ todo'[c] = {front[c].id} /\ front' = front
           /\ op'[c] = IF front[c].cmd = "finish" THEN "wait" ELSE "load"
  <2>1. doing'[c] = "read" /\ phase'[c] = "scan"
    BY <1>2, <1>4 DEF Begin, RegistryType, ControlType
  <2>2. front[c].id \in Id
    <3>1. \E i \in Id : todo'[c] = {i}
      BY <1>4 DEF Begin, ListOps, RegistryType, ControlType
    <3> QED  BY <1>4, <3>1
  <2>3. Tracks(c)'  BY <1>1, <1>2, <1>4, <2>1, <2>2 DEF Tracks, Readers
  <2>4. FrontType'  BY <1>1, <1>4 DEF FrontType
  <2> QED  BY <1>1, <1>2, <1>4, <2>3, <2>4 DEF Fronts, Nothing
<1> QED  BY <1>3, <1>4, Zenon DEF Again

\* Success is told of a completed run, and results are shown that are there.
LEMMA ReportedFronts ==
  ASSUME RegistryType, InHand, FrontType, NEW c \in Client, Tracks(c), Reported(c)
  PROVE  Fronts(c) /\ FrontType'
<1>1. Report(c) /\ saved' = saved  BY DEF Reported
<1>2. op'[c] = "none" /\ phase'[c] = "scan" /\ doing'[c] = "idle"
  BY <1>1 DEF Report, Finish, Leave, RegistryType, ControlType
<1>3. op[c] \in {"load", "wait"}  BY <1>1 DEF Report
<1>4. front[c].cmd \in Readers /\ front[c].id \in Id  BY <1>3 DEF Tracks
<1> DEFINE i == front[c].id
           status == view[c][i].status
           there == i \in results
<1>5. CASE front[c].cmd = "finish"
  <2>1. Answer(c, RunExit(status))  BY <1>5, Zenon DEF Reported
  <2>2. RunExit(status) \in {"success", "error"}
        /\ (RunExit(status) = "success" => status = "completed")
    BY DEF RunExit
  <2>3. RunExit(status) \in Outs \ {Nothing} /\ RunExit(status) \notin {"shown", "awaited"}
    BY <2>2 DEF Outs, Telling, Nothing
  <2> QED  BY <1>1, <1>2, <1>4, <1>5, <2>1, <2>2, <2>3, OverFronts
<1>6. CASE front[c].cmd # "finish"
  <2>1. PICK out \in {"awaited", "shown", "error", "done"} :
          /\ Answer(c, out) /\ (out \in {"awaited", "shown"} => there)
          /\ (out = "awaited" => status = "completed")
    <3>1. CASE front[c].cmd = "wait_for_results"
      <4>1. Answer(c, Waited(status, there))  BY <3>1, Zenon DEF Reported
      <4> QED  BY <4>1, Zenon DEF Waited
    <3>2. CASE front[c].cmd \in {"get_results", "latest"}
      <4>1. Answer(c, Shown(there))
        <5>1. front[c].cmd # "finish" /\ front[c].cmd # "wait_for_results"  BY <3>2
        <5> QED  BY <3>2, <5>1, Zenon DEF Reported
      <4> QED  BY <4>1, Zenon DEF Shown
    <3>3. CASE front[c].cmd = "run_status"
      <4>1. Answer(c, "done")
        <5>1. /\ front[c].cmd # "finish" /\ front[c].cmd # "wait_for_results"
              /\ front[c].cmd \notin {"get_results", "latest"}
          BY <3>3
        <5> QED  BY <3>3, <5>1, Zenon DEF Reported
      <4> QED  BY <4>1
    <3> QED  BY <1>4, <1>6, <3>1, <3>2, <3>3 DEF Readers
  <2>2. out \in Outs \ {Nothing} /\ out # "success"  BY DEF Outs, Telling, Nothing
  <2> QED  BY <1>1, <1>2, <1>4, <2>1, <2>2, OverFronts
<1> QED  BY <1>5, <1>6

\* A command whose client dies has answered nothing more.
LEMMA DiesFronts ==
  ASSUME RegistryType, InHand, FrontType, NEW c \in Client, Tracks(c), Dies(c)
  PROVE  Fronts(c) /\ FrontType'
<1>1. ClientDies(c) /\ saved' = saved
      /\ front' = [front EXCEPT ![c] = [NoFront EXCEPT !.cmd = "gone"]]
  BY Zenon DEF Dies
<1>2. op'[c] = "none" /\ phase'[c] = "scan" /\ doing'[c] = "dead"
  BY <1>1 DEF ClientDies, Leave, RegistryType, ControlType
<1> DEFINE new == [NoFront EXCEPT !.cmd = "gone"]
<1>3. /\ new.cmd = "gone" /\ new.out = Nothing
      /\ new \in [cmd : Cmds, id : Id \cup {NoId}, out : Outs]
  BY DEF NoFront, Cmds, Outs
<1> HIDE DEF new
<1>4. front'[c] = new /\ (\A d \in Client \ {c} : front'[d] = front[d]) /\ FrontType'
  BY <1>1, <1>3 DEF FrontType, new
<1>5. Tracks(c)'  BY <1>2, <1>3, <1>4 DEF Tracks
<1> QED  BY <1>3, <1>4, <1>5 DEF Fronts, Nothing

\* Every step of a command keeps what it knows and what it answers.
LEMMA CommandFronts ==
  ASSUME RegistryType, RegistryType', InHand, FrontType, NEW c \in Client, Tracks(c),
         CommandStep(c)
  PROVE  Fronts(c) /\ FrontType'
BY AskFronts, ProceedFronts, AnsweredFronts, WaitingFronts, LatestFronts, AgainFronts,
   ReportedFronts, DiesFronts, Zenon DEF CommandStep

(***************************************************************************)
(* What follows of the ids, the results and the answers.                   *)
(***************************************************************************)

\* A process keeps the id that it was launched under, and its end.
LEMMA OwnersStay ==
  ASSUME ProcessType, NEW c \in Client,
         \/ Spares
         \/ \E k \in Child : Launch(c, k)
         \/ \E k \in Child : SaveResult(k) \/ Exit(k) \/ Recycle(k) \/ Recycled(k)
         \/ Commit \/ UNCHANGED registryVars
  PROVE  \A k \in Child : process[k] # "none" =>
           owner'[k] = owner[k] /\ process'[k] # "none" /\ (Ended(k) => Ended(k)')
<1>1. ASSUME Spares PROVE \A k \in Child : process[k] # "none" =>
           owner'[k] = owner[k] /\ process'[k] # "none" /\ (Ended(k) => Ended(k)')
  BY <1>1 DEF Spares, Ended
<1>2. ASSUME NEW j \in Child, Launch(c, j) PROVE \A k \in Child : process[k] # "none" =>
           owner'[k] = owner[k] /\ process'[k] # "none" /\ (Ended(k) => Ended(k)')
  BY <1>2 DEF Launch, ProcessType, Ended
<1>3. ASSUME NEW j \in Child, SaveResult(j) \/ Exit(j) \/ Recycle(j) \/ Recycled(j)
      PROVE  \A k \in Child : process[k] # "none" =>
           owner'[k] = owner[k] /\ process'[k] # "none" /\ (Ended(k) => Ended(k)')
  BY <1>3 DEF SaveResult, Exit, Recycle, Recycled, children, ProcessType, Ended
<1>4. CASE Commit \/ UNCHANGED registryVars
  BY <1>4 DEF Commit, registryVars, children, Ended
<1> QED  BY <1>1, <1>2, <1>3, <1>4

\* A command line that has not launched its run yet launches the only one of its id.
LEMMA OwnRunsStep ==
  ASSUME RegistryType, RegistryType', InHand, OwnRuns, NEW c \in Client, Tracks(c), Fronts(c),
         CommandMoves(c)
  PROVE  OwnRuns'
<1>1. ASSUME ClientStep(c) \/ UNCHANGED registryVars
      PROVE  /\ owner' = owner
             /\ \A d \in Client \ {c} : phase'[d] = phase[d]
  <2>1. CASE ClientStep(c)  BY <2>1, ClientEffects DEF Effects, Apart, Spares
  <2>2. CASE UNCHANGED registryVars  BY <2>2 DEF registryVars, children, client
  <2> QED  BY <1>1, <2>1, <2>2
<1>2. CASE ClientStep(c) \/ UNCHANGED registryVars
  <2>1. \A d \in Cli : front'[d].cmd \in {Nothing, "run"} /\ phase'[d] # "launch" =>
          front[d].cmd \in {Nothing, "run"} /\ phase[d] # "launch"
    BY <1>1, <1>2, JobCommandsAssumption DEF Fronts
  <2> QED  BY <1>1, <1>2, <2>1 DEF OwnRuns
<1>3. ASSUME NEW j \in Child, Launch(c, j) PROVE OwnRuns'
  <2>1. /\ owner' = [owner EXCEPT ![j] = <<second', c>>] /\ phase'[c] = "launch"
        /\ \A d \in Client \ {c} : phase'[d] = phase[d] /\ front'[d] = front[d]
        /\ doing[c] = "launch"
    BY <1>3 DEF Launch, Goto, RegistryType, ControlType, Fronts
  <2>2. /\ owner'[j] = <<second', c>>
        /\ \A k \in Child \ {j} : owner'[k] = owner[k]
    BY <2>1 DEF RegistryType, ProcessType
  <2>3. c \in Cli => \A k \in Child, t \in 0 .. MaxSecond : owner[k] # <<t, c>>
    BY <2>1 DEF Tracks, OwnRuns
  <2>4. ASSUME NEW d \in Cli, front'[d].cmd \in {Nothing, "run"}, phase'[d] # "launch",
               NEW k \in Child, NEW t \in 0 .. MaxSecond
        PROVE  owner'[k] # <<t, d>>
    <3>1. d # c /\ d \in Client  BY <2>1, <2>4, JobCommandsAssumption
    <3>2. owner[k] # <<t, d>>  BY <2>1, <2>4, <3>1 DEF OwnRuns
    <3> QED  BY <2>2, <3>1, <3>2
  <2>5. ASSUME NEW d \in Cli, NEW t \in 0 .. MaxSecond, NEW k \in Child, NEW q \in Child,
               owner'[k] = <<t, d>>, owner'[q] = <<t, d>>
        PROVE  k = q
    <3>1. CASE d = c  BY <2>2, <2>3, <2>5, <3>1
    <3>2. CASE d # c  BY <2>2, <2>5, <3>2 DEF OwnRuns
    <3> QED  BY <3>1, <3>2
  <2> QED  BY <2>4, <2>5 DEF OwnRuns
<1> QED  BY <1>2, <1>3 DEF CommandMoves

\* Results stay those of a child that has saved some.
LEMMA SavedStep ==
  ASSUME RegistryType, RegistryType', InHand, CompletedHasSaved, NEW c \in Client,
         Tracks(c), CommandMoves(c), saved' = saved, FrontType
  PROVE  CompletedHasSaved'
<1>0. ProcessType /\ MemoryType /\ DiskType  BY DEF RegistryType
<1>1. \A k \in Child : process[k] # "none" => owner'[k] = owner[k] /\ process'[k] # "none"
  <2>1. ClientStep(c) => Spares  BY ClientEffects DEF Effects
  <2> QED  BY <1>0, <2>1, OwnersStay DEF CommandMoves
<1>2. \A i \in Id : HasSaved(i) => HasSaved(i)'
  BY <1>1 DEF HasSaved, CompletedHasSaved, FrontType
<1>3. \A k \in saved' : process'[k] # "none"
  BY <1>1 DEF CompletedHasSaved, FrontType
<1>4. CASE ClientStep(c)
  <2>1. Effects(c) /\ results' \subseteq results
    BY <1>4, ClientEffects, ClientControls DEF Controls
  <2>2. \A d \in Client : cur[d].id \in Id /\ cur[d].run \in Run \cup {Absent}
    BY <1>0 DEF MemoryType, Held
  <2>3. \A i \in results' : HasSaved(i)'
    BY <1>0, <1>2, <2>1 DEF CompletedHasSaved, DiskType
  <2>4. ASSUME NEW i \in Id, record'[i].status = "completed" PROVE HasSaved(i)'
    <3>1. CASE record'[i] = record[i]  BY <1>2, <2>4, <3>1 DEF CompletedHasSaved
    <3>2. CASE record'[i] \in {Torn, Absent}  BY <2>4, <3>2 DEF Torn, Absent
    <3>3. CASE i = cur[c].id /\ record'[i] = cur[c].run
      BY <1>2, <2>4, <3>3 DEF CompletedHasSaved
    <3> QED  BY <1>0, <2>1, <2>2, <3>1, <3>2, <3>3 DEF Effects, Writes, DiskType
  <2>5. ASSUME NEW d \in Client, NEW i \in Id, view'[d][i].status = "completed"
        PROVE  HasSaved(i)'
    <3>1. CASE view'[d][i] = view[d][i]  BY <1>2, <2>5, <3>1 DEF CompletedHasSaved
    <3>2. CASE view'[d][i] = Absent  BY <2>5, <3>2 DEF Absent
    <3>3. CASE i = cur[c].id /\ view'[d][i] = cur[c].run
      BY <1>2, <2>5, <3>3 DEF CompletedHasSaved
    <3> QED  BY <2>1, <3>1, <3>2, <3>3 DEF Effects, Apart, Copies
  <2>6. ASSUME NEW d \in Client, cur'[d].run.status = "completed"
        PROVE  HasSaved(cur[d].id)'
    <3>1. CASE cur'[d] = cur[d]  BY <1>2, <2>2, <2>6, <3>1 DEF CompletedHasSaved
    <3>2. CASE cur'[d].run = Absent  BY <2>6, <3>2 DEF Absent
    <3>3. ASSUME NEW i \in Id, cur'[d] = [id |-> i, run |-> record[i]]
          PROVE  HasSaved(cur[d].id)'
      <4>1. record[i].status = "completed" /\ cur'[d].id = i  BY <2>6, <3>3
      <4> QED  BY <1>2, <4>1 DEF CompletedHasSaved
    <3>4. ASSUME d = c, NEW s \in {"completed", "failed"},
                 s = "completed" => cur[c].id \in results, cur[c].run.status = "running",
                 cur'[c] = [cur[c] EXCEPT !.run.status = s]
          PROVE  HasSaved(cur[d].id)'
      <4>1. cur[c].run \in Run  BY <2>2, <3>4 DEF Absent
      <4>2. cur'[c].id = cur[c].id /\ cur'[c].run = [cur[c].run EXCEPT !.status = s]
        BY <1>0, <3>4 DEF MemoryType, Held
      <4>3. cur'[c].run.status = s  BY <4>1, <4>2 DEF Run
      <4> QED  BY <1>2, <2>2, <2>6, <3>4, <4>2, <4>3 DEF CompletedHasSaved
    <3>5. ASSUME d = c, NEW i \in Id, view[c][i].status = "running",
                 cur'[c] = [id |-> i, run |-> [view[c][i] EXCEPT !.status = "killed"]]
          PROVE  HasSaved(cur[d].id)'
      <4>1. view[c][i] \in Run  BY <1>0, <3>5 DEF MemoryType, Absent
      <4>2. cur'[c].run.status = "killed"  BY <3>5, <4>1 DEF Run
      <4> QED  BY <2>6, <3>5, <4>2
    <3> QED  BY <2>1, <3>1, <3>2, <3>3, <3>4, <3>5 DEF Effects, Apart, Takes
  <2> QED  BY <1>3, <2>3, <2>4, <2>5, <2>6 DEF CompletedHasSaved
<1>5. ASSUME NEW k \in Child, Launch(c, k) PROVE CompletedHasSaved'
  <2>1. /\ UNCHANGED <<record, results, view>>
        /\ cur'[c].run.status = "running" /\ \A d \in Client \ {c} : cur'[d] = cur[d]
    BY <1>0, <1>5 DEF Launch, MemoryType
  <2>2. \A d \in Client : cur[d].id \in Id  BY <1>0 DEF MemoryType, Held
  <2>3. \A i \in results' : HasSaved(i)'
    BY <1>0, <1>2, <2>1 DEF CompletedHasSaved, DiskType
  <2>4. \A d \in Client : cur'[d].run.status = "completed" => HasSaved(cur[d].id)'
    BY <1>2, <2>1, <2>2 DEF CompletedHasSaved
  <2> QED  BY <1>2, <1>3, <2>1, <2>3, <2>4 DEF CompletedHasSaved
<1>6. CASE UNCHANGED registryVars
  <2>1. UNCHANGED <<record, results, view, cur, owner, process>>
    BY <1>6 DEF registryVars, client, children
  <2> QED  BY <2>1 DEF CompletedHasSaved, HasSaved
<1> QED  BY <1>4, <1>5, <1>6 DEF CommandMoves

\* The runs of an id stay, and so do those of its processes that are over.
LEMMA AnswersStay ==
  ASSUME \A k \in Child : process[k] # "none" =>
           owner'[k] = owner[k] /\ process'[k] # "none" /\ (Ended(k) => Ended(k)'),
         \A k \in saved : k \in Child /\ process[k] # "none",
         saved \subseteq saved', AnswerIsTrue,
         NEW c \in Client, front'[c].out = front[c].out, front'[c].id = front[c].id
  PROVE  TellsTrue(c)'
<1>0. PICK i : i = front[c].id  OBVIOUS
<1>1. OfRun(i) \cap saved \subseteq OfRun(i)' \cap saved'  BY DEF OfRun
<1>2. OfRun(i) \cap Stopped \subseteq OfRun(i)' \cap Stopped'
  <2> SUFFICES ASSUME NEW k \in Child, owner[k] = i, Ended(k)
               PROVE  owner'[k] = i /\ Ended(k)'
    BY DEF OfRun, Stopped, Ended
  <2>1. process[k] # "none"  BY DEF Ended
  <2> QED  BY <2>1
<1>3. OfRun(front[c].id)' = OfRun(i)'  BY <1>0 DEF OfRun
<1>4. TellsTrue(c)  BY DEF AnswerIsTrue, TellsTrue
<1>5. front[c].out \in Telling =>
        /\ OfRun(i) \cap saved # {}
        /\ front[c].out = "awaited" => OfRun(i) \cap Stopped # {}
        /\ front[c].out = "success" => OfRun(i) \cap Stopped \cap saved # {}
  BY <1>0, <1>4, Zenon DEF TellsTrue
<1>6. front[c].out \in Telling =>
        /\ OfRun(i)' \cap saved' # {}
        /\ front[c].out = "awaited" => OfRun(i)' \cap Stopped' # {}
        /\ front[c].out = "success" => OfRun(i)' \cap Stopped' \cap saved' # {}
  BY <1>1, <1>2, <1>5
<1> QED  BY <1>3, <1>6 DEF TellsTrue

\* Success is told of the only run of the id, which is over; results are
\* returned of a completed record, whose process is; and results that are
\* shown have been saved under the id.
LEMMA AnswerStep ==
  ASSUME RegistryInv, RegistryType', FrontType, CompletedHasSaved, OwnRuns, AnswerIsTrue,
         NEW c \in Client, Tracks(c), Fronts(c), CommandMoves(c), saved' = saved
  PROVE  AnswerIsTrue'
<1>0. ProcessType /\ MemoryType /\ InHand /\ RegistryType /\ RecordsSound
  BY DEF RegistryInv, RegistryType
<1>1. \A k \in Child : process[k] # "none" =>
        owner'[k] = owner[k] /\ process'[k] # "none" /\ (Ended(k) => Ended(k)')
  <2>1. ClientStep(c) => Spares  BY <1>0, ClientEffects DEF Effects
  <2> QED  BY <1>0, <2>1, OwnersStay DEF CommandMoves
<1>2. \A k \in saved : k \in Child /\ process[k] # "none"
  BY DEF CompletedHasSaved, FrontType
<1>3. ASSUME NEW d \in Client, front'[d].out = front[d].out, front'[d].id = front[d].id
      PROVE  TellsTrue(d)'
  BY <1>1, <1>2, <1>3, AnswersStay
<1>i. PICK i : i = front[c].id  OBVIOUS
<1>4. i \in results => \E k \in saved : k \in OfRun(i)'
  <2>1. i \in results => \E k \in saved : owner[k] = i  BY DEF CompletedHasSaved, HasSaved
  <2> QED  BY <1>1, <1>2, <2>1 DEF OfRun
<1>5. i \in Id /\ view[c][i].status = "completed" =>
        \E j \in Child : owner[j] = i /\ Ended(j) /\ j \in OfRun(i)' \cap Stopped'
  <2> SUFFICES ASSUME i \in Id, view[c][i].status = "completed"
               PROVE  \E j \in Child : owner[j] = i /\ Ended(j) /\ j \in OfRun(i)' \cap Stopped'
    OBVIOUS
  <2>1. view[c][i] \in Run  BY <1>0 DEF MemoryType, Absent
  <2>0. PICK j : j = view[c][i].child  OBVIOUS
  <2>2. Sound(view[c][i], i)  BY <1>0 DEF RecordsSound
  <2>3. j \in Child  BY <2>0, <2>1, HeldFacts
  <2>4. owner[j] = i /\ Ended(j)  BY <2>0, <2>1, <2>2, <2>3 DEF Sound
  <2>5. process[j] # "none"  BY <2>4 DEF Ended
  <2>6. owner'[j] = i /\ Ended(j)'  BY <1>1, <2>3, <2>4, <2>5
  <2> QED  BY <2>3, <2>4, <2>6 DEF OfRun, Stopped, Ended
<1>6. ASSUME front'[c].out = "shown", front'[c].id = i, i \in results
      PROVE  TellsTrue(c)'
  <2>1. OfRun(front[c].id)' = OfRun(i)'  BY <1>6 DEF OfRun
  <2> QED  BY <1>4, <1>6, <2>1 DEF TellsTrue
<1>7. ASSUME front'[c].out = "awaited", front'[c].id = i, i \in Id \cap results,
             view[c][i].status = "completed"
      PROVE  TellsTrue(c)'
  <2>1. OfRun(front[c].id)' = OfRun(i)'  BY <1>7 DEF OfRun
  <2> QED  BY <1>4, <1>5, <1>7, <2>1 DEF TellsTrue
<1>8. ASSUME front'[c].out = "success", front'[c].id = i, front[c].cmd = "finish",
             i \in Id, view[c][i].status = "completed"
      PROVE  TellsTrue(c)'
  <2>1. PICK t \in 0 .. MaxSecond : i = <<t, c>>  BY <1>i, <1>8 DEF Tracks
  <2>2. c \in Cli  BY <1>8 DEF Tracks
  <2>3. PICK k \in saved : owner[k] = i  BY <1>8 DEF CompletedHasSaved, HasSaved
  <2>4. PICK j \in Child : owner[j] = i /\ Ended(j) /\ j \in OfRun(i)' \cap Stopped'
    BY <1>5, <1>8
  <2>5. j = k  BY <1>2, <2>1, <2>2, <2>3, <2>4 DEF OwnRuns
  <2>6. j \in OfRun(i)' \cap Stopped' \cap saved'  BY <2>3, <2>4, <2>5
  <2>7. OfRun(front[c].id)' = OfRun(i)'  BY <1>8 DEF OfRun
  <2> QED  BY <1>8, <2>6, <2>7 DEF TellsTrue
<1>9. TellsTrue(c)'
  <2>1. CASE front'[c].out \notin Telling  BY <2>1 DEF TellsTrue
  <2>2. CASE front'[c].out = "success"  BY <1>i, <1>3, <1>8, <2>2 DEF Fronts
  <2>3. CASE front'[c].out = "awaited"  BY <1>i, <1>3, <1>7, <2>3 DEF Fronts
  <2>4. CASE front'[c].out = "shown"  BY <1>i, <1>3, <1>6, <2>4 DEF Fronts
  <2> QED  BY <2>1, <2>2, <2>3, <2>4 DEF Telling
<1>10. ASSUME NEW d \in Client \ {c} PROVE TellsTrue(d)'  BY <1>3 DEF Fronts
<1>11. \A d \in Client : TellsTrue(d)'  BY <1>9, <1>10
<1> QED  BY <1>11, Zenon DEF AnswerIsTrue, TellsTrue

\* Children and the surroundings leave the commands alone.
LEMMA OthersKeep ==
  ASSUME JobsInv, RegistryInv',
         \/ \E k \in Child : Saves(k)
         \/ Surroundings
         \/ UNCHANGED <<registryVars, frontVars>>
  PROVE  JobsInv'
<1>0. /\ RegistryType /\ ProcessType /\ DiskType /\ MemoryType /\ FrontType
      /\ CompletedHasSaved /\ OwnRuns /\ AnswerIsTrue
  BY DEF JobsInv, RegistryInv, RegistryType
<1>1. /\ UNCHANGED <<record, client, owner, front>>
      /\ \A k \in Child : process[k] # "none" => process'[k] # "none" /\ (Ended(k) => Ended(k)')
  <2>1. ASSUME NEW k \in Child, SaveResult(k) \/ Exit(k) \/ Recycle(k) \/ Recycled(k)
        PROVE  /\ UNCHANGED <<record, client, owner>>
               /\ \A j \in Child : process[j] # "none" =>
                    process'[j] # "none" /\ (Ended(j) => Ended(j)')
    BY <1>0, <2>1 DEF SaveResult, Exit, Recycle, Recycled, children, ProcessType, Ended
  <2>2. ASSUME Commit \/ UNCHANGED registryVars
        PROVE  UNCHANGED <<record, client, owner, process>>
    BY <2>2 DEF Commit, registryVars, children
  <2> QED  BY <2>1, <2>2 DEF Ended, Saves, Surroundings, frontVars
<1>2. \/ saved' = saved /\ results' = results
      \/ \E k \in Child : /\ process[k] # "none" /\ saved' = saved \cup {k}
                          /\ results' = results \cup {owner[k]}
  BY DEF Saves, SaveResult, Surroundings, Commit, Exit, Recycle, Recycled, frontVars,
         registryVars
<1>3. saved \subseteq saved' /\ saved' \subseteq Child  BY <1>0, <1>2 DEF FrontType
<1>4. FrontType' /\ \A c \in Client : Tracks(c)'
  BY <1>0, <1>1, <1>3 DEF JobsInv, FrontType, Tracks, client
<1>5. OwnRuns'  BY <1>0, <1>1 DEF OwnRuns, client
<1>6. CompletedHasSaved'
  <2>1. \A k \in saved' : process'[k] # "none"
    BY <1>0, <1>1, <1>2 DEF CompletedHasSaved, FrontType
  <2>2. \A i : HasSaved(i) => HasSaved(i)'  BY <1>1, <1>3 DEF HasSaved
  <2>3. \A i \in results' : HasSaved(i)'
    BY <1>0, <1>1, <1>2, <2>2 DEF CompletedHasSaved, HasSaved
  <2>4. UNCHANGED <<record, view, cur>>  BY <1>1 DEF client
  <2> QED  BY <1>0, <2>1, <2>2, <2>3, <2>4 DEF CompletedHasSaved
<1>7. AnswerIsTrue'
  <2>1. \A k \in Child : process[k] # "none" =>
          owner'[k] = owner[k] /\ process'[k] # "none" /\ (Ended(k) => Ended(k)')
    BY <1>1
  <2>2. \A k \in saved : k \in Child /\ process[k] # "none"
    BY <1>0 DEF CompletedHasSaved, FrontType
  <2>3. ASSUME NEW c \in Client PROVE TellsTrue(c)'
    BY <1>0, <1>1, <1>3, <2>1, <2>2, AnswersStay
  <2> QED  BY <2>3, Zenon DEF AnswerIsTrue, TellsTrue
<1> QED  BY <1>4, <1>5, <1>6, <1>7 DEF JobsInv

\* Every step of the commands is one that the registry allows.
LEMMA JobsAreRegistrySteps ==
  [JobsNext]_<<registryVars, frontVars>> => [RegistryNext]_registryVars
<1> SUFFICES ASSUME [JobsNext]_<<registryVars, frontVars>> PROVE [RegistryNext]_registryVars
  OBVIOUS
<1>1. ASSUME NEW c \in Client, CommandStep(c) PROVE [RegistryNext]_registryVars
  <2>1. CommandMoves(c)  BY <1>1, CommandSteps
  <2> QED  BY <2>1 DEF CommandMoves, ClientStep, RegistryNext
<1>2. CASE \/ \E k \in Child : Saves(k)
           \/ Surroundings
           \/ UNCHANGED <<registryVars, frontVars>>
  BY <1>2 DEF Saves, Surroundings, RegistryNext
<1> QED  BY <1>1, <1>2 DEF JobsNext, CommandStep

\* The commands start with an empty registry and no answers.
LEMMA JobsInit1 == JobsInit => JobsInv
<1> SUFFICES ASSUME JobsInit PROVE JobsInv
  OBVIOUS
<1>1. RegistryInv  BY RegistryInit1 DEF JobsInit
<1>2. FrontType
  BY DEF JobsInit, FrontType, NoFront, Cmds, Outs
<1>3. \A c \in Client : Tracks(c)
  BY DEF JobsInit, RegistryInit, Tracks, NoFront, Nothing
<1>4. OwnRuns  BY DEF JobsInit, RegistryInit, OwnRuns, NoId
<1>5. CompletedHasSaved
  BY DEF JobsInit, RegistryInit, CompletedHasSaved, NoView, NoCur, Absent
<1>6. AnswerIsTrue  BY DEF JobsInit, NoFront, Nothing, Telling, AnswerIsTrue
<1> QED  BY <1>1, <1>2, <1>3, <1>4, <1>5, <1>6 DEF JobsInv

\* Every step of the commands keeps their invariant.
LEMMA JobsStep ==
  JobsInv /\ [JobsNext]_<<registryVars, frontVars>> => JobsInv'
<1> SUFFICES ASSUME JobsInv, [JobsNext]_<<registryVars, frontVars>> PROVE JobsInv'
  OBVIOUS
<1>1. RegistryInv'  BY JobsAreRegistrySteps, RegistryStep DEF JobsInv
<1>2. ASSUME NEW c \in Client, CommandStep(c) PROVE JobsInv'
  <2>1. RegistryType /\ RegistryType' /\ InHand /\ FrontType /\ Tracks(c)
    BY <1>1 DEF JobsInv, RegistryInv
  <2>2. Fronts(c) /\ FrontType'  BY <1>2, <2>1, CommandFronts
  <2>3. CommandMoves(c) /\ saved' = saved  BY <1>2, CommandSteps
  <2>4. OwnRuns' /\ CompletedHasSaved' /\ AnswerIsTrue'
    BY <2>1, <2>2, <2>3, OwnRunsStep, SavedStep, AnswerStep DEF JobsInv
  <2>5. \A d \in Client : Tracks(d)'
    <3>1. ASSUME NEW d \in Client \ {c}
          PROVE  op'[d] = op[d] /\ doing'[d] = doing[d] /\ phase'[d] = phase[d]
      <4>1. ClientStep(c) => Apart(c)  BY <2>1, ClientEffects DEF Effects
      <4>2. CASE ClientStep(c)  BY <4>1, <4>2 DEF Apart
      <4>3. ASSUME NEW k \in Child, Launch(c, k)
            PROVE  op'[d] = op[d] /\ doing'[d] = doing[d] /\ phase'[d] = phase[d]
        BY <2>1, <4>3 DEF Launch, Goto, RegistryType, ControlType
      <4>4. CASE UNCHANGED registryVars  BY <4>4 DEF registryVars, client
      <4> QED  BY <2>3, <4>2, <4>3, <4>4 DEF CommandMoves
    <3>2. ASSUME NEW d \in Client \ {c} PROVE Tracks(d)'
      <4>1. front'[d] = front[d]  BY <2>2 DEF Fronts
      <4>2. Tracks(d)  BY DEF JobsInv
      <4> QED  BY <3>1, <4>1, <4>2 DEF Tracks
    <3> QED  BY <2>2, <3>2 DEF Fronts
  <2> QED  BY <1>1, <2>2, <2>4, <2>5 DEF JobsInv
<1>3. CASE \/ \E k \in Child : Saves(k)
           \/ Surroundings
           \/ UNCHANGED <<registryVars, frontVars>>
  BY <1>1, <1>3, OthersKeep
<1> QED  BY <1>2, <1>3 DEF JobsNext, CommandStep

\* The commands keep the invariant of the registry, and theirs.
THEOREM JobsInvariance == JobsSpec => []JobsInv
<1> QED  BY JobsInit1, JobsStep, PTL DEF JobsSpec

\* The commands use the registry as it is meant to be used: what holds of the
\* registry with any clients holds with these.
THEOREM JobsUseTheRegistry == JobsSpec => RegistrySpec
<1>1. JobsInit => RegistryInit  BY DEF JobsInit
<1> QED  BY <1>1, JobsAreRegistrySteps, PTL DEF JobsSpec, RegistrySpec

\* What a user is told is true: success and shown results are of a run that has
\* saved results, and success of one whose process is over.
THEOREM AnswerIsTrueTheorem == JobsSpec => []AnswerIsTrue
<1>1. JobsInv => AnswerIsTrue  BY DEF JobsInv
<1> QED  BY <1>1, JobsInvariance, PTL

(***************************************************************************)
(* The self-compare.                                                       *)
(***************************************************************************)
CompareSpec == CompareInit /\ [][CompareNext]_compareVars

Stages == {"resolve", "prune", "add", "baseline", "built", "candidate", "measured",
           "cleanup", "compare", "end"}
Sources == SUBSET (Ref \cup {Working})

CompareType ==
  /\ tree \subseteq Ref
  /\ at \in [Command -> Stages]
  /\ want \in [Command -> Ref]
  /\ evidence \in [Command -> [Side -> SUBSET [by : Command, source : Sources]]]
  /\ build \in [Command -> [side : Side \cup {"none"}, read : Sources]]
  /\ code \in [Command -> {"running", "error", "killed"} \cup Verdicts]
  /\ disturbed \subseteq Command

\* A build is of the side that its command has come to, unless that was killed.
BuildsInTurn(c) ==
  /\ build[c].side = "none" => build[c] = NoBuild
  /\ build[c].side = "baseline" => at[c] \in {"built", "end"}
  /\ build[c].side = "candidate" => at[c] \in {"measured", "end"}

\* What a baseline finds and has read is its reference, if nobody disturbs it.
OnItsBaseline(c) == at[c] \in {"baseline", "built"} \/ build[c].side = "baseline"

ReadsItsOwn(c) ==
  /\ OnItsBaseline(c) /\ c \notin disturbed => tree = {want[c]}
  /\ build[c].side = "candidate" => build[c].read \subseteq {Working}
  /\ build[c].side = "baseline" /\ c \notin disturbed => build[c].read \subseteq {want[c]}

EvidenceOfItsOwn(c) ==
  /\ code[c] \in Verdicts => \A s \in Side : evidence[c][s] # {}
  /\ \A s \in Side : \A r \in evidence[c][s] :
       /\ r.by = c
       /\ s = "candidate" => r.source = {Working}
       /\ s = "baseline" /\ c \notin disturbed => r.source = {want[c]}

CompareInv ==
  CompareType /\ \A c \in Command : BuildsInTurn(c) /\ ReadsItsOwn(c) /\ EvidenceOfItsOwn(c)

\* A command leaves the builds and the evidence of the others alone, and spoils
\* a baseline only where that shows.
Disturbs(c) ==
  /\ want' = want /\ disturbed \subseteq disturbed'
  /\ \A d \in Command \ {c} :
       /\ at'[d] = at[d] /\ code'[d] = code[d]
       /\ build'[d] = build[d] /\ evidence'[d] = evidence[d]
       /\ OnItsBaseline(d) /\ d \notin disturbed' => tree' = tree

CompareStep(c) ==
  \/ ResolveReference(c) \/ PruneWorktree(c) \/ AddWorktree(c)
  \/ (\E s \in Side : RunBench(c, s)) \/ Compile(c) \/ Measure(c) \/ BuildEnds(c)
  \/ Built(c) \/ RemoveWorktree(c) \/ CompareResults(c) \/ KillCommand(c)

\* Every step of a self-compare keeps its types.
LEMMA CompareTypeStep ==
  ASSUME CompareType, NEW c \in Command, BuildsInTurn(c), CompareStep(c)
  PROVE  CompareType'
<1>1. CASE ResolveReference(c)
  BY <1>1 DEF CompareType, ResolveReference, To, Unknown, ExitWith, Stages
<1>2. CASE PruneWorktree(c) \/ AddWorktree(c) \/ RemoveWorktree(c)
  <2>1. tree' \subseteq Ref /\ disturbed' \subseteq Command
    BY <1>2 DEF CompareType, PruneWorktree, AddWorktree, RemoveWorktree, Touch
  <2>2. at' \in [Command -> Stages] /\ UNCHANGED <<want, evidence, build>>
    BY <1>2 DEF CompareType, PruneWorktree, AddWorktree, RemoveWorktree, To, ExitWith, Stages
  <2>3. code' \in [Command -> {"running", "error", "killed"} \cup Verdicts]
    BY <1>2 DEF CompareType, PruneWorktree, AddWorktree, RemoveWorktree, ExitWith
  <2> QED  BY <2>1, <2>2, <2>3 DEF CompareType
<1>3. ASSUME NEW s \in Side, RunBench(c, s) PROVE CompareType'
  <2>1. [side |-> s, read |-> {}] \in [side : Side \cup {"none"}, read : Sources]
    BY DEF Sources
  <2>2. build' \in [Command -> [side : Side \cup {"none"}, read : Sources]]
    BY <1>3, <2>1 DEF CompareType, RunBench
  <2> QED  BY <1>3, <2>2 DEF CompareType, RunBench, Stages
<1>4. CASE Compile(c)
  <2> DEFINE source == IF build[c].side = "candidate" THEN {Working} ELSE tree
  <2>1. build' = [build EXCEPT ![c].read = @ \cup source]  BY <1>4, Zenon DEF Compile
  <2>2. source \in Sources  BY DEF CompareType, Sources
  <2>3. build[c].read \cup source \in Sources  BY <2>2 DEF CompareType, Sources
  <2> HIDE DEF source
  <2>4. build' \in [Command -> [side : Side \cup {"none"}, read : Sources]]
    BY <2>1, <2>3 DEF CompareType
  <2> QED  BY <1>4, <2>4 DEF Compile, CompareType
<1>5. CASE Measure(c)
  <2>1. build[c].side \in Side
    BY <1>5 DEF Measure, BuildsInTurn, NoBuild, CompareType
  <2>2. [by |-> c, source |-> build[c].read] \in [by : Command, source : Sources]
    BY DEF CompareType
  <2> QED  BY <1>5, <2>1, <2>2 DEF CompareType, Measure
<1>6. CASE BuildEnds(c)
  <2>1. NoBuild \in [side : Side \cup {"none"}, read : Sources]  BY DEF NoBuild, Sources
  <2> QED  BY <1>6, <2>1 DEF CompareType, BuildEnds
<1>7. CASE Built(c) \/ CompareResults(c) \/ KillCommand(c)
  BY <1>7, ZenonT(60) DEF CompareType, Built, CompareResults, KillCommand, To, ExitWith, Stages
<1> QED  BY <1>1, <1>2, <1>3, <1>4, <1>5, <1>6, <1>7 DEF CompareStep

\* What a step of one self-compare does to the builds of another it records.
LEMMA CompareDisturbs ==
  ASSUME CompareType, NEW c \in Command, CompareStep(c),
         \A d \in Command : ReadsItsOwn(d)
  PROVE  Disturbs(c)
<1>1. CASE ResolveReference(c)
  BY <1>1 DEF CompareType, ResolveReference, To, Unknown, ExitWith, Disturbs
<1>2. CASE PruneWorktree(c) \/ AddWorktree(c) \/ RemoveWorktree(c)
  BY <1>2, ZenonT(60) DEF CompareType, PruneWorktree, AddWorktree, RemoveWorktree, To, ExitWith,
     Touch, ReadsItsOwn, OnItsBaseline, Disturbs
<1>3. ASSUME NEW s \in Side, RunBench(c, s) PROVE Disturbs(c)
  BY <1>3 DEF CompareType, RunBench, Disturbs
<1>4. CASE Compile(c) \/ Measure(c) \/ BuildEnds(c)
  BY <1>4 DEF CompareType, Compile, Measure, BuildEnds, Disturbs
<1>5. CASE Built(c) \/ CompareResults(c) \/ KillCommand(c)
  BY <1>5 DEF CompareType, Built, CompareResults, KillCommand, To, ExitWith, Disturbs
<1> QED  BY <1>1, <1>2, <1>3, <1>4, <1>5 DEF CompareStep

\* Only a built or a measured side has a build, and what a killed command left.
LEMMA CompareKeepsOwn ==
  ASSUME CompareType, NEW c \in Command, CompareStep(c), Disturbs(c),
         BuildsInTurn(c), ReadsItsOwn(c), EvidenceOfItsOwn(c)
  PROVE  BuildsInTurn(c)' /\ ReadsItsOwn(c)' /\ EvidenceOfItsOwn(c)'
<1>0. at[c] \notin {"built", "measured", "end"} => build[c] = NoBuild
  BY DEF BuildsInTurn, CompareType, Side
<1>2. CASE ResolveReference(c) \/ PruneWorktree(c) \/ RemoveWorktree(c) \/ Built(c)
  <2>1. /\ at[c] \notin {"baseline", "end"} /\ at'[c] \notin {"baseline", "built"}
        /\ code'[c] \notin Verdicts \/ code' = code
        /\ build' = build /\ evidence' = evidence /\ want' = want
        /\ build[c] = NoBuild
    BY <1>0, <1>2 DEF ResolveReference, PruneWorktree, RemoveWorktree, Built, To, Unknown,
       ExitWith, CompareType, Verdicts, BuildsInTurn
  <2> QED
    BY <1>0, <2>1 DEF BuildsInTurn, ReadsItsOwn, OnItsBaseline, EvidenceOfItsOwn, Disturbs,
       NoBuild, Side
<1>3. CASE AddWorktree(c)
  <2>1. /\ at[c] = "add" /\ build' = build /\ evidence' = evidence /\ want' = want
        /\ \/ at'[c] = "baseline" /\ tree' = {want[c]}
           \/ at'[c] = "end"
        /\ code'[c] \notin Verdicts \/ code' = code
    BY <1>0, <1>3 DEF AddWorktree, To, ExitWith, CompareType, Verdicts
  <2>2. build[c] = NoBuild  BY <1>0, <2>1
  <2> QED
    BY <1>0, <2>1, <2>2 DEF BuildsInTurn, ReadsItsOwn, OnItsBaseline, EvidenceOfItsOwn,
       Disturbs, NoBuild, Side
<1>4. ASSUME NEW s \in Side, RunBench(c, s)
      PROVE  BuildsInTurn(c)' /\ ReadsItsOwn(c)' /\ EvidenceOfItsOwn(c)'
  <2>1. /\ at[c] = s /\ at'[c] = IF s = "baseline" THEN "built" ELSE "measured"
        /\ build'[c] = build[c] \/ build'[c] = [side |-> s, read |-> {}]
        /\ UNCHANGED <<tree, want, evidence, code, disturbed>>
    BY <1>0, <1>4 DEF RunBench, CompareType
  <2>2. build[c] = NoBuild  BY <1>0, <2>1 DEF Side
  <2> QED
    BY <1>0, <2>1, <2>2 DEF BuildsInTurn, ReadsItsOwn, OnItsBaseline, EvidenceOfItsOwn,
       NoBuild, Side
<1>5. CASE Compile(c)
  <2> DEFINE source == IF build[c].side = "candidate" THEN {Working} ELSE tree
  <2>1. build' = [build EXCEPT ![c].read = @ \cup source]  BY <1>5, Zenon DEF Compile
  <2>2. /\ build'[c].side = build[c].side /\ build'[c].read = build[c].read \cup source
        /\ build[c] # NoBuild /\ UNCHANGED <<tree, at, want, evidence, code, disturbed>>
    BY <1>0, <1>5, <2>1 DEF Compile, CompareType
  <2>3. build[c].side \in Side  BY <1>0, <2>2 DEF BuildsInTurn, CompareType
  <2> QED
    BY <1>0, <2>2, <2>3 DEF BuildsInTurn, ReadsItsOwn, OnItsBaseline, EvidenceOfItsOwn, Side
<1>6. CASE Measure(c)
  <2> DEFINE s == build[c].side
             new == [by |-> c, source |-> build[c].read]
  <2>1. s \in Side /\ build[c].read # {}
    BY <1>0, <1>6 DEF Measure, BuildsInTurn, CompareType, NoBuild
  <2>2. /\ UNCHANGED <<tree, at, want, build, code, disturbed>>
        /\ \A x \in Side : evidence'[c][x] = IF x = s THEN {new} ELSE evidence[c][x]
    BY <1>0, <1>6, <2>1 DEF Measure, CompareType
  <2>3. /\ s = "candidate" => build[c].read = {Working}
        /\ s = "baseline" /\ c \notin disturbed => build[c].read = {want[c]}
    BY <1>0, <2>1 DEF ReadsItsOwn
  <2>4. EvidenceOfItsOwn(c)'
    <3>1. code'[c] \in Verdicts => \A x \in Side : evidence'[c][x] # {}
      BY <2>2 DEF EvidenceOfItsOwn
    <3>2. ASSUME NEW x \in Side, NEW r \in evidence'[c][x]
          PROVE  /\ r.by = c
                 /\ x = "candidate" => r.source = {Working}
                 /\ x = "baseline" /\ c \notin disturbed' => r.source = {want'[c]}
      <4>1. CASE x = s
        <5>1. r = new  BY <2>2, <3>2, <4>1
        <5>2. r.by = c /\ r.source = build[c].read  BY <5>1
        <5> QED  BY <2>2, <2>3, <4>1, <5>2
      <4>2. CASE x # s  BY <2>2, <3>2, <4>2 DEF EvidenceOfItsOwn
      <4> QED  BY <4>1, <4>2
    <3> QED  BY <3>1, <3>2 DEF EvidenceOfItsOwn
  <2>5. BuildsInTurn(c)' /\ ReadsItsOwn(c)'
    BY <1>0, <2>2 DEF BuildsInTurn, ReadsItsOwn, OnItsBaseline
  <2> QED  BY <2>4, <2>5
<1>7. CASE BuildEnds(c)
  <2>1. build'[c] = NoBuild /\ UNCHANGED <<tree, at, want, evidence, code, disturbed>>
    BY <1>0, <1>7 DEF BuildEnds, CompareType
  <2> QED
    BY <1>0, <2>1 DEF BuildsInTurn, ReadsItsOwn, OnItsBaseline, EvidenceOfItsOwn, NoBuild
<1>8. CASE CompareResults(c) \/ KillCommand(c)
  <2>1. /\ at'[c] = "end" /\ UNCHANGED <<tree, want, evidence, build, disturbed>>
        /\ code'[c] \in Verdicts => \A s \in Side : evidence[c][s] # {}
    BY <1>0, <1>8 DEF CompareResults, KillCommand, ExitWith, CompareType, Verdicts
  <2> QED
    BY <1>0, <2>1 DEF BuildsInTurn, ReadsItsOwn, OnItsBaseline, EvidenceOfItsOwn
<1> QED
  BY <1>2, <1>3, <1>4, <1>5, <1>6, <1>7, <1>8 DEF CompareStep

\* Every step of a self-compare keeps what each has built, read and measured.
LEMMA CompareKeeps ==
  ASSUME CompareInv, CompareType', NEW c \in Command, CompareStep(c)
  PROVE  CompareInv'
<1>0. /\ CompareType /\ BuildsInTurn(c) /\ ReadsItsOwn(c) /\ EvidenceOfItsOwn(c)
      /\ Disturbs(c)
  BY CompareDisturbs DEF CompareInv
<1>1. ASSUME NEW d \in Command \ {c}
      PROVE  BuildsInTurn(d)' /\ ReadsItsOwn(d)' /\ EvidenceOfItsOwn(d)'
  <2>1. BuildsInTurn(d) /\ ReadsItsOwn(d) /\ EvidenceOfItsOwn(d)  BY DEF CompareInv
  <2> QED  BY <1>0, <2>1 DEF Disturbs, BuildsInTurn, ReadsItsOwn, OnItsBaseline, EvidenceOfItsOwn
<1>2. BuildsInTurn(c)' /\ ReadsItsOwn(c)' /\ EvidenceOfItsOwn(c)'
  BY <1>0, CompareKeepsOwn
<1> QED  BY <1>1, <1>2 DEF CompareInv

\* Self-compares keep the invariant, however many there are of one project.
THEOREM CompareInvariance == CompareSpec => []CompareInv
<1>1. CompareInit => CompareInv
  <2> SUFFICES ASSUME CompareInit PROVE CompareInv
    OBVIOUS
  <2>1. CompareType
    BY DEF CompareInit, CompareType, Stages, NoBuild, Sources
  <2> QED
    BY <2>1 DEF CompareInit, CompareInv, BuildsInTurn, ReadsItsOwn, OnItsBaseline,
       EvidenceOfItsOwn, NoBuild, Verdicts
<1>2. CompareInv /\ [CompareNext]_compareVars => CompareInv'
  <2> SUFFICES ASSUME CompareInv, [CompareNext]_compareVars PROVE CompareInv'
    OBVIOUS
  <2>1. ASSUME NEW c \in Command, CompareStep(c) PROVE CompareInv'
    <3>1. CompareType'  BY <2>1, CompareTypeStep DEF CompareInv
    <3> QED  BY <2>1, <3>1, CompareKeeps
  <2>2. CASE UNCHANGED compareVars
    BY <2>2 DEF compareVars, CompareInv, CompareType, BuildsInTurn, ReadsItsOwn,
       OnItsBaseline, EvidenceOfItsOwn
  <2> QED  BY <2>1, <2>2 DEF CompareNext, CompareStep
<1> QED  BY <1>1, <1>2, PTL DEF CompareSpec

\* A verdict is on results of the command's own two runs, the candidate of the
\* working tree and the baseline of the revision that was asked for, unless
\* another command has been at the worktree meanwhile.
THEOREM ComparesAsAskedTheorem == CompareSpec => []ComparesAsAsked
<1>1. CompareInv => ComparesAsAsked
  <2> SUFFICES ASSUME CompareInv, NEW c \in Command, code[c] \in Verdicts, NEW s \in Side
               PROVE  \E r \in evidence[c][s] :
                        /\ r.by = c
                        /\ s = "candidate" => r.source = {Working}
                        /\ s = "baseline" /\ c \notin disturbed => r.source = {want[c]}
    BY DEF ComparesAsAsked
  <2> QED  BY DEF CompareInv, EvidenceOfItsOwn
<1> QED  BY <1>1, CompareInvariance, PTL

(***************************************************************************)
(* The supervisor and a nice task: for every set of workers, budget and    *)
(* clock bound the lifecycle stamps bracket the exit, the launcher keeps   *)
(* the contract that Admission relies on, and the reservation of a nice    *)
(* task is on record while anything of it runs.                            *)
(***************************************************************************)
USE SupervisorAssumption DEF Never

(* The initial state satisfies the inductive invariant. *)
LEMMA SupervisorInit == Init => IInv
<1> SUFFICES ASSUME Init PROVE IInv
  OBVIOUS
<1> USE DEF Init, GroupActive, Executing
<1>1. TypeOK
  <2>1. step \in Steps /\ result \in Results  BY SMT DEF Steps, Results
  <2>2. now \in 0 .. MaxTime /\ Never \in 0 .. Never  BY SMT
  <2>3. workers \subseteq Worker  BY SMT
  <2>4. retain \in BOOLEAN /\ doomed \in BOOLEAN  BY Zenon
  <2>5. strays \subseteq Worker  BY SMT
  <2> QED  BY <2>1, <2>2, <2>3, <2>4, <2>5 DEF TypeOK
<1>2. LaunchInv  BY SMT DEF LaunchInv
<1>3. ClockInv  BY SMT DEF ClockInv
<1>4. LifecycleBounds  BY SMT DEF LifecycleBounds
<1> QED  BY <1>1, <1>2, <1>3, <1>4 DEF IInv

(* Every step of the launcher, of its child's processes and of the clock    *)
(* keeps the inductive invariant.                                           *)
LEMMA SupervisorStep == IInv /\ [Next]_vars => IInv'
<1> SUFFICES ASSUME IInv, [Next]_vars PROVE IInv'
  OBVIOUS
<1> USE DEF IInv, TypeOK, LaunchInv, ClockInv, LifecycleBounds, Steps, Results,
            GroupActive, Executing, Return, procs, times
<1>1. CASE Start  BY <1>1, SMT DEF Start
<1>2. CASE Spawn  BY <1>2, SMT DEF Spawn
<1>3. CASE SpawnFails  BY <1>3, SMT DEF SpawnFails
<1>4. CASE Stop  BY <1>4, SMT DEF Stop
<1>5. CASE Continue  BY <1>5, SMT DEF Continue
<1>6. CASE StillAlive  BY <1>6, SMT DEF StillAlive
<1>7. CASE ExitSeen  BY <1>7, SMT DEF ExitSeen
<1>8. CASE KillResidual  BY <1>8, SMT DEF KillResidual
<1>9. CASE KillGroup  BY <1>9, SMT DEF KillGroup
<1>10. CASE ReapLeader  BY <1>10, SMT DEF ReapLeader
<1>11. CASE GroupEmpty
  <2>1. TypeOK'  BY <1>11, SMT DEF GroupEmpty
  <2>2. LaunchInv'  BY <1>11, SMT DEF GroupEmpty
  <2>3. ClockInv'  BY <1>11, SMT DEF GroupEmpty
  <2>4. LifecycleBounds'  BY <1>11, SMT DEF GroupEmpty
  <2> HIDE DEF TypeOK, LaunchInv, ClockInv, LifecycleBounds
  <2> QED  BY <2>1, <2>2, <2>3, <2>4 DEF IInv
<1>12. CASE ScopeDone
  <2>1. ~Executing  BY <1>12, Zenon DEF ScopeDone
  <2>2. step = "scope" /\ step' = "done" /\ retain' = FALSE
    BY <1>12, Zenon DEF ScopeDone
  <2>3. UNCHANGED <<result, procs, now, exitTime, times>>
    BY <1>12, Zenon DEF ScopeDone
  <2>4. step' \in Steps /\ retain' \in BOOLEAN  BY <2>2, Zenon
  <2>5. TypeOK'  BY <2>4, <2>3, SMT
  <2>6. LaunchInv'  BY <2>1, <2>2, <2>3, SMT
  <2>7. ClockInv'  BY <2>2, <2>3, SMT
  <2>8. LifecycleBounds'  BY <2>2, <2>3, SMT
  <2> HIDE DEF TypeOK, LaunchInv, ClockInv, LifecycleBounds
  <2> QED  BY <2>5, <2>6, <2>7, <2>8 DEF IInv
<1>13. CASE CannotVerify  BY <1>13, SMT DEF CannotVerify
<1>14. CASE ChildError  BY <1>14, SMT DEF ChildError
<1>15. CASE LeaderExits
  <2>1. TypeOK'  BY <1>15, SMT DEF LeaderExits
  <2>2. LaunchInv'  BY <1>15, SMT DEF LeaderExits
  <2>3. ClockInv'  BY <1>15, SMT DEF LeaderExits
  <2>4. LifecycleBounds'  BY <1>15, SMT DEF LeaderExits
  <2> HIDE DEF TypeOK, LaunchInv, ClockInv, LifecycleBounds
  <2> QED  BY <2>1, <2>2, <2>3, <2>4 DEF IInv
<1>17. ASSUME NEW w \in Worker, Fork(w) \/ WorkerExits(w) \/ Detach(w) \/ StrayExits(w) PROVE IInv'
  <2>1. TypeOK'  BY <1>17, SMT DEF Fork, WorkerExits, Detach, StrayExits
  <2>2. LaunchInv'  BY <1>17, SMT DEF Fork, WorkerExits, Detach, StrayExits
  <2>3. ClockInv'  BY <1>17, SMT DEF Fork, WorkerExits, Detach, StrayExits
  <2>4. LifecycleBounds'  BY <1>17, SMT DEF Fork, WorkerExits, Detach, StrayExits
  <2> HIDE DEF TypeOK, LaunchInv, ClockInv, LifecycleBounds
  <2> QED  BY <2>1, <2>2, <2>3, <2>4 DEF IInv
<1>18. CASE Tick  BY <1>18, SMT DEF Tick
<1>19. CASE UNCHANGED vars  BY <1>19, SMT DEF vars
<1> QED
  BY <1>1, <1>2, <1>3, <1>4, <1>5, <1>6, <1>7, <1>8, <1>9, <1>10, <1>11, <1>12,
     <1>13, <1>14, <1>15, <1>17, <1>18, <1>19
     DEF Next, Launcher, Processes, Finished

(* The invariant of the run, for every instance: while anything the launcher *)
(* started may run, the reservation is retained.                             *)
THEOREM SupervisorInvariance == Spec => []IInv
<1>1. Init => IInv  BY SupervisorInit
<1>2. IInv /\ [Next]_vars => IInv'  BY SupervisorStep
<1> QED  BY <1>1, <1>2, PTL DEF Spec

(* The stamps the supervisor reports bracket the leader's real exit, and a   *)
(* killed leader has no observed exit.                                       *)
THEOREM LifecycleTheorem == Spec => []LifecycleBounds
<1>1. IInv => LifecycleBounds  BY DEF IInv
<1> QED  BY <1>1, SupervisorInvariance, PTL

-----------------------------------------------------------------------------
(* The launch contract.                                                    *)

(* The phase of the contract at each step of the launcher.                  *)
LEMMA PhaseOf ==
  /\ step = "ready" => Phase = "held"
  /\ step = "spawn" => Phase = "spawn"
  /\ step \in Steps \ {"ready", "spawn", "done"} => Phase = "supervise"
  /\ step = "done" /\ retain => Phase = "drop"
  /\ step = "done" /\ ~retain => Phase = "held"
BY Zenon DEF Phase, Steps

(* The same after a transition.                                             *)
LEMMA NextPhase ==
  /\ step' = "spawn" => Phase' = "spawn"
  /\ step' \in Steps \ {"ready", "spawn", "done"} => Phase' = "supervise"
  /\ step' = "done" /\ retain' => Phase' = "drop"
  /\ step' = "done" /\ ~retain' => Phase' = "held"
BY Zenon DEF Phase, Steps

(* What is executing changes only with the processes themselves.           *)
LEMMA SameProcs == UNCHANGED procs => Executing' = Executing
BY Zenon DEF procs, Executing, GroupActive

(* The launcher starts holding, with nothing launched.                     *)
LEMMA InitRefines == Init => Contract!Init
BY PhaseOf, Zenon DEF Init, Contract!Init, Executing, GroupActive

(* Every step of the supervisor is a step of the contract or a stutter.    *)
LEMMA StepRefines ==
  IInv /\ IInv' /\ [Next]_vars => [Contract!Next]_<<Phase, retain, Executing>>
<1> SUFFICES ASSUME IInv, IInv', [Next]_vars
             PROVE  [Contract!Next]_<<Phase, retain, Executing>>
  OBVIOUS
<1> DEFINE Stutter == UNCHANGED <<Phase, retain, Executing>>
<1>0. LaunchInv /\ LaunchInv'  BY DEF IInv
<1>1. CASE Start
  <2>1. Contract!Launch
    BY <1>1, PhaseOf, NextPhase, SameProcs, Zenon DEF Start, Contract!Launch
  <2> QED  BY <2>1 DEF Contract!Next
<1>2. CASE Spawn
  <2>1. Executing'  BY <1>2, Zenon DEF Spawn, Executing, GroupActive
  <2>2. Contract!Spawn
    BY <1>2, <2>1, PhaseOf, NextPhase, Zenon DEF Spawn, Contract!Spawn, Steps
  <2> QED  BY <2>2 DEF Contract!Next
<1>3. CASE SpawnFails
  <2>1. Executing' \in BOOLEAN  BY Zenon DEF Executing
  <2>2. Contract!SpawnFails
    BY <1>0, <1>3, <2>1, PhaseOf, NextPhase, Zenon
    DEF SpawnFails, Return, Contract!SpawnFails, LaunchInv
  <2> QED  BY <2>2 DEF Contract!Next
<1>4. CASE Stop \/ Continue \/ StillAlive \/ ExitSeen \/ KillResidual
           \/ KillGroup \/ ReapLeader \/ GroupEmpty
  <2>1. /\ step \in Steps \ {"ready", "spawn", "done"}
        /\ step' \in Steps \ {"ready", "spawn", "done"}
    BY <1>4, SMT DEF Stop, Continue, StillAlive, ExitSeen, KillResidual,
                     KillGroup, ReapLeader, GroupEmpty, Steps
  <2>2. Phase' = Phase  BY <2>1, PhaseOf, NextPhase, Zenon
  <2>3. Executing' = Executing
    BY <1>4, SameProcs, Zenon
    DEF Stop, Continue, StillAlive, ExitSeen, KillResidual, KillGroup,
        ReapLeader, GroupEmpty, Executing, GroupActive
  <2>4. retain' = retain
    BY <1>4, Zenon DEF Stop, Continue, StillAlive, ExitSeen, KillResidual,
                       KillGroup, ReapLeader, GroupEmpty
  <2> QED  BY <2>2, <2>3, <2>4
<1>5. CASE ScopeDone
  <2>1. Phase = "supervise" /\ Phase' = "held" /\ Executing' = Executing
    BY <1>5, PhaseOf, NextPhase, SameProcs, Zenon DEF ScopeDone, Steps
  <2>2. ~Executing  BY <1>0, <1>5, Zenon DEF LaunchInv, ScopeDone, Executing
  <2>3. Contract!Reaped  BY <1>5, <2>1, <2>2, Zenon DEF ScopeDone, Contract!Reaped
  <2> QED  BY <2>3 DEF Contract!Next
<1>6. CASE CannotVerify \/ ChildError
  <2>1. step \in Steps \ {"ready", "spawn", "done"} /\ step' = "done"
    BY <1>6, Zenon DEF CannotVerify, ChildError, Return, Steps
  <2>2. retain /\ retain' = retain /\ Executing' = Executing
    BY <1>0, <1>6, <2>1, SameProcs, Zenon
    DEF CannotVerify, ChildError, LaunchInv, Steps
  <2>3. Contract!SuperviseFails
    BY <2>1, <2>2, PhaseOf, NextPhase, Zenon DEF Contract!SuperviseFails
  <2> QED  BY <2>3 DEF Contract!Next
<1>7. CASE Processes
  <2>1. UNCHANGED <<step, retain>> /\ Executing
    BY <1>7, Zenon
    DEF Processes, LeaderExits, Fork, WorkerExits, Detach, StrayExits,
        Executing, GroupActive
  <2>2. Phase' = Phase  BY <2>1, Zenon DEF Phase
  <2>3. Executing' \in BOOLEAN /\ Executing \in BOOLEAN  BY Zenon DEF Executing
  <2>4. CASE Executing'
    BY <2>1, <2>2, <2>4, <2>3, Zenon
  <2>5. CASE ~Executing'
    <3>1. Contract!ChildrenExit
      BY <2>1, <2>2, <2>3, <2>5, Zenon DEF Contract!ChildrenExit
    <3> QED  BY <3>1 DEF Contract!Next
  <2> QED  BY <2>4, <2>5
<1>8. CASE Tick \/ Finished \/ UNCHANGED vars
  <2>1. UNCHANGED <<step, retain, procs>>
    BY <1>8, Zenon DEF Tick, Finished, vars
  <2>2. Phase' = Phase  BY <2>1, Zenon DEF Phase
  <2> QED  BY <2>1, <2>2, SameProcs
<1> QED
  BY <1>1, <1>2, <1>3, <1>4, <1>5, <1>6, <1>7, <1>8 DEF Next, Launcher

(* The supervisor keeps the launch contract: whatever way it returns, the    *)
(* reservation is given back only once nothing it started executes.          *)
THEOREM ContractTheorem == Spec => ImplementsContract
<1>1. Init => Contract!Init  BY InitRefines
<1>2. IInv /\ IInv' /\ [Next]_vars => [Contract!Next]_<<Phase, retain, Executing>>
  BY StepRefines
<1> QED
  BY <1>1, <1>2, SupervisorInvariance, PTL DEF Spec, ImplementsContract, Contract!Spec

-----------------------------------------------------------------------------
(* A nice task.                                                            *)

(* The task is not started before the machine is, a reservation is held     *)
(* until then and while it runs, and one that is dropped had nothing to     *)
(* retain it: the launcher never started, or has seen everything gone.      *)
NiceInv ==
  /\ IInv
  /\ stage \in {"check", "admit", "resources", "ceiling", "run", "exit"}
  /\ stage \in {"check", "admit", "resources", "ceiling"} => step = "ready"
  /\ stage \in {"resources", "ceiling", "run"} => ticket = "held"
  /\ ticket = None => step = "ready" \/ (step = "done" /\ ~retain)
  /\ niceCode = "refused" => stage = "exit" /\ step = "ready"

(* A nice command moves its processes and the clock as the supervisor does. *)
LEMMA NiceSupervises == [NiceNext]_allVars => [Next]_vars
BY Zenon DEF NiceNext, NiceCommand, CheckArguments, Reserve, FindsQuiet, GivesUp, CheckCeiling,
   Supervise, TaskEnds, SupervisionFails, KillNice, WaitingEnds, Others, Over, Next, allVars

(* While the task is not there to be run, or is over, its launcher rests.   *)
LEMMA NiceStep == NiceInv /\ [NiceNext]_allVars => NiceInv'
<1> SUFFICES ASSUME NiceInv, [NiceNext]_allVars PROVE NiceInv'
  OBVIOUS
<1>1. IInv'  BY NiceSupervises, SupervisorStep DEF NiceInv
<1>2. step = "ready" => ~retain  BY DEF NiceInv, IInv, LaunchInv
<1>3. CASE CheckArguments \/ Reserve \/ FindsQuiet \/ GivesUp \/ CheckCeiling
  <2>1. UNCHANGED <<step, retain>> /\ stage \in {"check", "admit", "resources", "ceiling"}
    BY <1>3, Zenon DEF CheckArguments, Reserve, FindsQuiet, GivesUp, CheckCeiling, vars
  <2>2. /\ stage' \in {"admit", "resources", "ceiling", "run", "exit"}
        /\ stage' \in {"resources", "ceiling", "run"} => ticket' = "held"
        /\ niceCode' = "refused" => stage' = "exit" \/ niceCode = "refused"
    BY <1>3 DEF CheckArguments, Reserve, FindsQuiet, GivesUp, CheckCeiling, ExitNice, NiceInv
  <2> QED  BY <1>1, <2>1, <2>2 DEF NiceInv
<1>4. CASE Supervise \/ SupervisionFails
  <2>1. UNCHANGED niceVars /\ stage = "run"
    BY <1>4, Zenon DEF Supervise, SupervisionFails
  <2> QED  BY <1>1, <2>1 DEF NiceInv, niceVars, None
<1>5. CASE TaskEnds
  <2>1. /\ step = "done" /\ UNCHANGED <<step, retain>> /\ stage' = "exit"
        /\ niceCode' \in {"its own", "signalled", "failed"}
        /\ ticket' = IF retain THEN "left" ELSE None
    BY <1>5, Zenon DEF TaskEnds, ExitNice, Drop, vars
  <2>2. retain => ticket' # None  BY <2>1 DEF None
  <2> QED  BY <1>1, <2>1, <2>2, Zenon DEF NiceInv
<1>6. CASE KillNice
  <2>1. /\ UNCHANGED <<step, retain>> /\ stage' = "exit" /\ niceCode' = "killed"
        /\ ticket' = IF ticket = "held" THEN "left" ELSE ticket
    BY <1>6, Zenon DEF KillNice, ExitNice, vars
  <2>2. ticket' = None => ticket = None  BY <2>1 DEF None
  <2> QED  BY <1>1, <2>1, <2>2, Zenon DEF NiceInv
<1>7. CASE WaitingEnds \/ Others \/ Over \/ UNCHANGED allVars
  <2>1. UNCHANGED <<step, retain, stage, ticket, niceCode>>
    BY <1>7, Zenon DEF WaitingEnds, Others, Over, Processes, LeaderExits, Fork, WorkerExits,
       Detach, StrayExits, Tick, allVars, vars, niceVars
  <2> QED  BY <1>1, <2>1, Zenon DEF NiceInv
<1> QED  BY <1>3, <1>4, <1>5, <1>6, <1>7 DEF NiceNext, NiceCommand

(* The invariant of a nice command, and of the supervisor under it.         *)
THEOREM NiceInvariance == NiceSpec => []NiceInv
<1>1. NiceInit => NiceInv
  <2> SUFFICES ASSUME NiceInit PROVE NiceInv
    OBVIOUS
  <2>1. IInv  BY SupervisorInit DEF NiceInit
  <2> QED  BY <2>1 DEF NiceInit, Init, NiceInv, None
<1> QED  BY <1>1, NiceStep, PTL DEF NiceSpec

(* While anything runs that a nice task has started, its reservation is on   *)
(* record, and what was refused has not run: on every early return, when the *)
(* command is killed, and for a descendant that has left its group.          *)
THEOREM NiceTheorem == NiceSpec => []NiceIsReserved
<1>1. NiceInv => NiceIsReserved
  BY Zenon DEF NiceInv, IInv, LaunchInv, NiceIsReserved
<1> QED  BY <1>1, NiceInvariance, PTL

(* A nice command supervises as the supervisor is specified to: its stamps   *)
(* bracket the exit, and it keeps the contract of a launcher.                *)
THEOREM NiceSupervisesTheorem == NiceSpec => Spec
<1>1. NiceInit => Init  BY DEF NiceInit
<1> QED  BY <1>1, NiceSupervises, PTL DEF NiceSpec, Spec
=============================================================================
