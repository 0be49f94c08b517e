----------------------------- MODULE Placement -----------------------------
(***************************************************************************)
(* Where a benchmark may run: src/src/platform/placement.rs and            *)
(* src/src/platform/affinity.rs, for the Linux build.                      *)
(*                                                                         *)
(* The hardware is a function from CPUs to kinds of core, the operating    *)
(* system's boundary (the cpuset) a set of CPUs.  The code reads both and  *)
(* either refuses the run or certifies a placement.  Everything here is a  *)
(* pure operator; Engine supplies the changing machine.                    *)
(***************************************************************************)
EXTENDS Naturals, FiniteSets

CONSTANTS
  Cpu,      \* the logical CPUs that are online
  Kind,     \* the names that classification gives to cores
  Rank,     \* the performance rank of each kind, None when it has none
  None      \* no value

ASSUME PlacementAssumption ==
  /\ None \notin Nat /\ None \notin Kind
  /\ Rank \in [Kind -> Nat \cup {None}]

Policy == {"auto", "performance", "efficiency", "unrestricted"}
Mask == (SUBSET Cpu) \ {{}}

\* What a run records of where it ran.
Place ==
  [status : {"unrestricted", "uniform_hardware", "enforced_uniform"},
   class : Kind \cup {None}, kind : {"unknown", "asymmetric", "homogeneous"},
   effective : SUBSET Cpu, enforcement : {"none", "cpuset"},
   threadAsked : (SUBSET Cpu) \cup {None}, threadEffective : (SUBSET Cpu) \cup {None}]

(***************************************************************************)
(* Topology.                                                               *)
(***************************************************************************)

\* One class for each kind that was seen; what could not be classified makes
\* the topology unknown, with the classes that were found still listed.
GroupClasses(entry, incomplete) ==
  LET classes == {[name |-> n, cpus |-> {c \in DOMAIN entry : entry[c] = n}] :
                    n \in {entry[c] : c \in DOMAIN entry}}
  IN [classes |-> classes,
      kind |-> IF incomplete \/ classes = {} THEN "unknown"
               ELSE IF Cardinality(classes) > 1 THEN "asymmetric"
               ELSE "homogeneous"]

\* A kind is published by the kernel for the CPUs in `published`; each of the
\* others must be visited with a pin, and only those inside the boundary can.
LinuxTopology(core, published, boundary) ==
  LET seen == {c \in Cpu : core[c] # None /\ (c \in published \/ c \in boundary)}
  IN GroupClasses([c \in seen |-> core[c]], seen # Cpu)

ClassFor(topology, cpus) ==
  {class \in topology.classes : cpus # {} /\ cpus \subseteq class.cpus}

\* The CPUs of the one class of highest, or lowest, rank: no set at all when
\* the topology, the ranking or the choice is not complete.
Select(topology, policy) ==
  LET ranks == {Rank[class.name] : class \in topology.classes}
      best  == IF policy = "performance"
               THEN {class \in topology.classes :
                       \A r \in ranks : Rank[class.name] >= r}
               ELSE {class \in topology.classes :
                       \A r \in ranks : Rank[class.name] <= r}
  IN IF topology.kind = "unknown" \/ topology.classes = {} \/ None \in ranks
       THEN {}
       ELSE IF Cardinality(best) # 1 THEN {}
       ELSE {class.cpus : class \in best}

(***************************************************************************)
(* Placement.                                                              *)
(***************************************************************************)

Placed(status, class, kind, enforced) ==
  [status |-> status, class |-> class, kind |-> kind, effective |-> enforced,
   enforcement |-> IF enforced = {} THEN "none" ELSE "cpuset",
   threadAsked |-> None, threadEffective |-> None]

\* The placement that is certified for a policy and a requested set, as a set
\* that is empty when the run is refused.  `enforced` is empty when no cpuset
\* controller could be read.
Resolve(topology, policy, requested, enforced) ==
  LET class == ClassFor(topology, enforced) IN
  IF policy = "unrestricted"
    THEN IF requested # None THEN {}
         ELSE {Placed("unrestricted", None, topology.kind, enforced)}
  ELSE IF topology.kind = "homogeneous" /\ policy = "auto" /\ requested = None
    THEN {Placed("uniform_hardware", c.name, topology.kind, enforced) :
            c \in topology.classes}
  ELSE IF /\ requested \in {None, enforced}
          /\ \/ policy = "auto"
             \/ \E cpus \in Select(topology, policy) : enforced \subseteq cpus
    THEN {Placed("enforced_uniform", c.name, topology.kind, enforced) :
            c \in class}
  ELSE {}

\* What the command line or the environment says comes before the program.
Configured(given, program) == IF given # None THEN given ELSE program

Start(core, published, given, suite, requested, enforced) ==
  Resolve(LinuxTopology(core, published, enforced),
          Configured(given, Configured(suite, "auto")), requested, enforced)

\* A certified boundary is compared with the system's each time; the other
\* placements promise nothing to compare.
Verify(place, enforced) ==
  place.status = "enforced_uniform" => enforced = place.effective

VerifyThread(place, mask) ==
  place.threadEffective = None \/ mask = place.threadEffective

ProcessCompatible(p, q) ==
  /\ p.status = q.status /\ p.class = q.class /\ p.kind = q.kind
  /\ p.effective = q.effective /\ p.enforcement = q.enforcement

Compatible(p, q) ==
  /\ ProcessCompatible(p, q)
  /\ p.threadAsked = q.threadAsked
  /\ p.threadEffective = q.threadEffective

SelectObserverAnywhere(place, original, pin) ==
  IF place.status = "unrestricted" \/ pin = None \/ place.effective \ pin = {}
  THEN None ELSE place.effective \ pin

\* The CPUs for the resource observer: inside the boundary and the mask the
\* coordinator was launched with, outside the pin.  None: it inherits.
SelectObserver(place, original, pin) ==
  LET spare == (place.effective \cap original) \ pin
  IN IF \/ place.status = "unrestricted"
        \/ place.enforcement = "none"
        \/ pin = None
        \/ spare = {}
       THEN None
       ELSE spare

(***************************************************************************)
(* Thread masks.  The kernel keeps what a thread last asked for and runs   *)
(* it on the part of it inside the boundary, on all of the boundary when   *)
(* nothing is left.                                                        *)
(***************************************************************************)
CurrentAffinity(asked, boundary) ==
  IF asked \cap boundary = {} THEN boundary ELSE asked \cap boundary

\* A pin must be applied whole; the mask that was read before goes back when
\* it was applied in part.
PinApplies(pin, boundary) == pin # {} /\ pin \subseteq boundary

\* A scope that ends asks for the mask it found; a mask with no CPU left is
\* refused by the system and the thread keeps the one it has.
Restored(asked, found, boundary) ==
  IF found \cap boundary = {} THEN asked ELSE found
=============================================================================
