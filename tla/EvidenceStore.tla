--------------------------- MODULE EvidenceStore ---------------------------
(***************************************************************************)
(* Results on disk: src/src/storage.rs, src/src/baseline.rs, and the calls *)
(* that src/src/engine.rs and src/src/lib.rs make of them.                 *)
(*                                                                         *)
(* A packet is stored once, in an object named by its hash; references to  *)
(* it are small files put in place by rename.  A run keeps a checkpoint    *)
(* until its own packet is published.  The aggregate of several processes  *)
(* has none, and may become the baseline.                                  *)
(* No lock is taken: whoever finds an object there checks its hash.        *)
(***************************************************************************)
EXTENDS Naturals

CONSTANTS
  Client,        \* processes: benchmark runs and the data command
  Packet,        \* results: one for each run there may be, and others
  Aggregate,     \* packets that sum up independent processes
  Foreign,       \* packets that come from files outside of the store
  NonInferior,   \* external: the pairs <<baseline, candidate>> that assessment passes
  None           \* no packet

ASSUME EvidenceStoreAssumption ==
  /\ Aggregate \subseteq Packet /\ Foreign \subseteq Packet
  /\ NonInferior \subseteq Packet \X Packet
  /\ None \notin Packet

VARIABLES
  object,       \* what is readable under each packet's hash
  durable,      \* the packets whose object is synced
  attempt,      \* the runs, by their packet, that have a checkpoint
  reference,    \* the packets that a run reference names
  version,      \* the packets that the baseline's history names
  baseline,     \* the packet that the baseline's name refers to
  step,         \* what each client does next
  goal,         \* why it persists a packet
  packet,       \* the packet in hand
  started,      \* history: runs checkpointed, and aggregates made
  named,        \* history: packets that were the baseline
  outage        \* history: the machine has lost power

files   == <<object, durable, attempt, reference, version, baseline>>
clients == <<step, goal, packet>>
history == <<started, named, outage>>
vars == <<files, clients, history>>

TypeOK ==
  /\ object \in [Packet -> {"absent", "partial", "whole"}]
  /\ durable \subseteq {p \in Packet : object[p] = "whole"}
  /\ attempt \subseteq started /\ started \subseteq Packet
  /\ reference \subseteq Packet /\ version \subseteq Packet
  /\ named \subseteq Packet
  /\ baseline \in Packet \cup {None}
  /\ step \in [Client -> {"idle", "run", "open", "write", "sync", "verify", "publish",
                          "retire", "post", "version", "name", "compare"}]
  /\ goal \in [Client -> {"none", "run", "aggregate", "tool", "save", "update"}]
  /\ packet \in [Client -> Packet \cup {None}]
  /\ outage \in BOOLEAN

Init ==
  /\ object = [p \in Packet |-> "absent"]
  /\ durable = {} /\ attempt = {} /\ reference = {} /\ version = {}
  /\ baseline = None
  /\ step = [c \in Client |-> "idle"]
  /\ goal = [c \in Client |-> "none"]
  /\ packet = [c \in Client |-> None]
  /\ started = {} /\ named = {} /\ outage = FALSE

-----------------------------------------------------------------------------
Goto(c, from, to) == step[c] = from /\ step' = [step EXCEPT ![c] = to]

\* The process ends, of its own or with an error.
Leave(c) ==
  /\ step' = [step EXCEPT ![c] = "idle"]
  /\ goal' = [goal EXCEPT ![c] = "none"]
  /\ packet' = [packet EXCEPT ![c] = None]

Hold(c, g, p) ==
  /\ goal' = [goal EXCEPT ![c] = g]
  /\ packet' = [packet EXCEPT ![c] = p]

-----------------------------------------------------------------------------
(* Faulty variants of some steps, which the invariants must tell apart.    *)

\* The object's data is left to the operating system.
SyncNothing(c) ==
  /\ Goto(c, "sync", "publish")
  /\ UNCHANGED <<files, goal, packet, history>>

-----------------------------------------------------------------------------
(* A run and its checkpoint.                                               *)

\* A run starts with a pending checkpoint; each has a packet of its own.
StartRun(c, p) ==
  /\ Goto(c, "idle", "run")
  /\ p \notin started \cup Foreign \cup Aggregate
  /\ Hold(c, "run", p)
  /\ attempt' = attempt \cup {p}
  /\ started' = started \cup {p}
  /\ UNCHANGED <<object, durable, reference, version, baseline, named, outage>>

\* The last group is done: its checkpoint replaces the ones before.
FinishRun(c) ==
  /\ Goto(c, "run", "open")
  /\ UNCHANGED <<files, goal, packet, history>>

\* run_processes_planned has put the results of its processes together.
Sum(c, p) ==
  /\ Goto(c, "idle", "open")
  /\ p \in Aggregate \ (started \cup Foreign)
  /\ Hold(c, "aggregate", p)
  /\ started' = started \cup {p}
  /\ UNCHANGED <<files, named, outage>>

\* snapshot and reanalyze persist a packet they have loaded.
UseTool(c, p) ==
  /\ Goto(c, "idle", "open")
  /\ p \in Foreign \/ object[p] = "whole"
  /\ Hold(c, "tool", p)
  /\ UNCHANGED <<files, history>>

\* A single process cannot confirm: it is refused as a baseline.
Retire(c) ==
  /\ step[c] = "retire"
  /\ attempt' = attempt \ {packet[c]}
  /\ Leave(c)
  /\ UNCHANGED <<object, durable, reference, version, baseline, history>>

-----------------------------------------------------------------------------
(* persist_at.                                                             *)

Create(c) ==
  /\ Goto(c, "open", "write")
  /\ object[packet[c]] = "absent"
  /\ object' = [object EXCEPT ![packet[c]] = "partial"]
  /\ UNCHANGED <<durable, attempt, reference, version, baseline, goal, packet, history>>

Exists(c) ==
  /\ Goto(c, "open", "verify")
  /\ object[packet[c]] # "absent"
  /\ UNCHANGED <<files, goal, packet, history>>

Write(c) ==
  /\ Goto(c, "write", "sync")
  /\ object' = [object EXCEPT ![packet[c]] = "whole"]
  /\ UNCHANGED <<durable, attempt, reference, version, baseline, goal, packet, history>>

Sync(c) ==
  /\ Goto(c, "sync", "publish")
  /\ durable' = durable \cup {packet[c]}
  /\ UNCHANGED <<object, attempt, reference, version, baseline, goal, packet, history>>

\* Otherwise the object is incomplete, and the call fails.
Verify(c) ==
  /\ Goto(c, "verify", "publish")
  /\ object[packet[c]] = "whole"
  /\ UNCHANGED <<files, goal, packet, history>>

Publish(c) ==
  /\ step[c] = "publish"
  /\ reference' = reference \cup {packet[c]}
  /\ CASE goal[c] = "run"  -> Goto(c, "publish", "retire") /\ UNCHANGED <<goal, packet>>
       [] goal[c] = "tool" -> Leave(c)
       [] goal[c] = "aggregate" -> Goto(c, "publish", "post") /\ UNCHANGED <<goal, packet>>
       [] OTHER -> Goto(c, "publish", "version") /\ UNCHANGED <<goal, packet>>
  /\ UNCHANGED <<object, durable, attempt, version, baseline, history>>

-----------------------------------------------------------------------------
(* Baselines.                                                              *)

\* postprocess_result: the aggregate becomes the baseline outright ...
SaveBaseline(c) ==
  /\ Goto(c, "post", "open")
  /\ Hold(c, "save", packet[c])
  /\ UNCHANGED <<files, history>>

\* ... or, with or without that, once it is assessed against the one there is.
UpdateBaseline(c) ==
  /\ step[c] \in {"post", "compare"} /\ step' = [step EXCEPT ![c] = "open"]
  /\ baseline # None /\ object[baseline] = "whole"
  /\ <<baseline, packet[c]>> \in NonInferior
  /\ Hold(c, "update", packet[c])
  /\ UNCHANGED <<files, history>>

\* save_reference, save_baseline: the version's file, then the name's.
AddVersion(c) ==
  /\ Goto(c, "version", "name")
  /\ version' = version \cup {packet[c]}
  /\ UNCHANGED <<object, durable, attempt, reference, baseline, goal, packet, history>>

NameBaseline(c) ==
  /\ step[c] = "name"
  /\ baseline' = packet[c]
  /\ named' = named \cup {packet[c]}
  /\ IF goal[c] = "update"
       THEN Leave(c)
       ELSE Goto(c, "name", "compare") /\ UNCHANGED <<goal, packet>>
  /\ UNCHANGED <<object, durable, attempt, reference, version, started, outage>>

\* delete_baseline, prune_baselines.
DeleteBaseline ==
  /\ baseline # None
  /\ baseline' = None
  /\ UNCHANGED <<object, durable, attempt, reference, version, clients, history>>

-----------------------------------------------------------------------------
(* Failures.                                                               *)

\* A step fails, the process is killed, or there is no more to do.
End(c) ==
  /\ step[c] # "idle"
  /\ Leave(c)
  /\ UNCHANGED <<files, history>>

\* Whatever was not synced may be gone in part or altogether; directories are
\* journaled in order.
PowerLoss ==
  /\ outage' = TRUE
  /\ \E o \in [Packet -> {"absent", "partial", "whole"}] :
       /\ \A p \in Packet : CASE object[p] = "absent"  -> o[p] = "absent"
                              [] object[p] = "partial" -> o[p] # "whole"
                              [] object[p] = "whole"   -> p \in durable => o[p] = "whole"
       /\ object' = o
       /\ durable' = {p \in Packet : o[p] = "whole"}
  /\ step' = [c \in Client |-> "idle"]
  /\ goal' = [c \in Client |-> "none"]
  /\ packet' = [c \in Client |-> None]
  /\ UNCHANGED <<attempt, reference, version, baseline, started, named>>

-----------------------------------------------------------------------------
Next ==
  \/ \E c \in Client :
       \/ FinishRun(c) \/ Retire(c)
       \/ Create(c) \/ Exists(c) \/ Write(c) \/ Sync(c) \/ Verify(c) \/ Publish(c)
       \/ SaveBaseline(c) \/ UpdateBaseline(c) \/ AddVersion(c) \/ NameBaseline(c)
       \/ End(c)
       \/ \E p \in Packet : StartRun(c, p) \/ Sum(c, p) \/ UseTool(c, p)
  \/ DeleteBaseline \/ PowerLoss

Spec == Init /\ [][Next]_vars

-----------------------------------------------------------------------------
\* "Interrupted object creation cannot become a successful reference": while the
\* machine stays up, what a reference of any kind names is there as a whole,
\* whoever dies or fails while storing the same packet.
ReferenceResolves ==
  ~outage => \A p \in reference \cup version \cup ({baseline} \ {None}) : object[p] = "whole"

\* A run that was once checkpointed leaves evidence: its checkpoint, or its
\* reference and a whole object, which survive even a loss of power.
EvidenceKept ==
  \A p \in started \ Aggregate : p \in attempt \/ (p \in reference /\ object[p] = "whole")

\* "Earlier versions remain": all that the name ever referred to is in its history.
VersionsRemain == named \subseteq version

-----------------------------------------------------------------------------
(* What makes these inductive.                                             *)

\* Every client knows what it has done so far, and creates an object alone.
Progress ==
  /\ \A c \in Client :
       LET p == packet[c] IN
         /\ step[c] # "idle" => p \in Packet /\ goal[c] # "none"
         /\ step[c] = "write" => object[p] = "partial"
         /\ step[c] \in {"sync", "publish", "version", "name"} => object[p] = "whole"
         /\ step[c] \in {"version", "name", "compare"} => goal[c] \in {"save", "update"}
         /\ step[c] = "name" => p \in version
  /\ \A c, d \in Client :
       step[c] = "write" /\ step[d] = "write" /\ packet[c] = packet[d] => c = d

\* Nobody else has a run's packet before the run has stored it whole.
Own(c) ==
  LET p == packet[c] IN
    /\ goal[c] = "run" => p \in started \ (Foreign \cup Aggregate)
    /\ goal[c] = "run" /\ step[c] \in {"run", "open"} => object[p] = "absent"
    /\ goal[c] = "run" => step[c] # "verify"
    /\ goal[c] = "run" /\ step[c] = "publish" => p \in durable
    /\ goal[c] = "run" /\ step[c] = "retire" => p \in reference \cap durable
    /\ step[c] \in {"run", "retire"} => goal[c] = "run"
    /\ goal[c] = "aggregate" => p \in Aggregate \cap started
    /\ step[c] = "post" => goal[c] = "aggregate" /\ object[p] = "whole"
    /\ goal[c] \in {"tool", "save", "update"} /\ p \notin Foreign => object[p] = "whole"

OwnPacket ==
  /\ \A p \in Packet : object[p] # "absent" => p \in started \cup Foreign
  /\ \A c \in Client : Own(c)
  /\ \A c, d \in Client : goal[c] = "run" /\ goal[d] = "run" /\ packet[c] = packet[d] => c = d

EvidenceDurable == \A p \in started \ Aggregate : p \in attempt \/ p \in reference \cap durable

IInv ==
  /\ TypeOK
  /\ Progress
  /\ OwnPacket
  /\ EvidenceDurable
  /\ VersionsRemain
  /\ ReferenceResolves
=============================================================================
