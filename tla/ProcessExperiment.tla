--------------------------- MODULE ProcessExperiment ---------------------------
(***************************************************************************)
(* Confirmation by independent processes: run_processes_planned,           *)
(* aggregate_results and postprocess_result of src/src/lib.rs, with the    *)
(* inference of inference.rs and the baselines of baseline.rs.             *)
(*                                                                         *)
(* The supervisor runs the same program N times, one child at a time and   *)
(* under one deadline, keeps a manifest of the attempts, loads what each   *)
(* child has saved, aggregates it, and decides from the aggregate and from *)
(* a saved baseline what the process exits with and whether the baseline   *)
(* is replaced.  Latencies are logarithms, as small integers; an estimate  *)
(* of their differences is a fraction of integers, so that the intervals   *)
(* of the code are compared with the margin exactly.                       *)
(***************************************************************************)
EXTENDS Integers, Sequences, FiniteSets, FiniteSetsExt, SequencesExt, Totals

CONSTANTS
  Request,     \* what command line and environment ask for, of which arms
  Latency,     \* the log latencies that a process may measure, by arm
  Condition,   \* placements that a process may have, with what may be wrong
  Verified,    \* the ones that certify one class of cores
  Margin, Gain,\* what the margin makes of a log difference, upwards and downwards
  Floor,       \* the resolution of the timer, of both sides of a difference
  Saved,       \* the named baselines that may be there
  None,        \* no value
  MaxRebuilds  \* bound on the rebuilds of the program

ASSUME ProcessExperimentAssumption ==
  /\ Margin \in Nat /\ Gain \in Nat /\ Floor \in Nat /\ MaxRebuilds \in Nat
  /\ None \notin Int
  /\ \A q \in Request : q.processes \in Nat /\ q.arms \in Seq(DOMAIN Latency)
                         /\ q.critical # {} /\ q.critical \subseteq Nat \ {0}
  /\ \A a \in DOMAIN Latency : Latency[a] \subseteq Int
  /\ \A b \in Saved :
       /\ b.replicates \in Seq(ToSet(b.replicates))
       /\ \A k \in DOMAIN b.replicates, a \in ToSet(b.arms) :
            b.replicates[k].mean[a] \in Int

VARIABLES
  request,               \* what is asked for
  binary,                \* the build at the program's path
  pc, i,                 \* where the supervisor is, and at which attempt
  ticket, retain,        \* the reservation: its record, and its local flag
  manifest, file, store, \* experiment.json, child results, evidence
  child, status,         \* the child process, and what the poll returned
  late,                  \* the deadline of the experiment has passed
  results, aggregate,    \* what was loaded, and what came of it
  baseline, control,     \* the named baseline, and the one that was there
  exit                   \* what the supervisor exited with

world == <<request, control>>
disk  == <<manifest, file, store, baseline>>
lease == <<ticket, retain>>
local == <<results, aggregate>>
vars  == <<world, binary, pc, i, lease, disk, child, status, late,
           local, exit>>

Confirming == request.mode # "iterate"
inventory == request.arms
Index == 1 .. request.processes
Sane == "none"   \* the flaw of a packet without one

Valid ==
  /\ request.processes > 0
  /\ Confirming => request.processes >= 3 /\ request.workload

Init ==
  /\ request \in Request
  /\ binary = 0
  /\ pc = "start" /\ i = 1 /\ ticket = "none" /\ retain = FALSE
  /\ manifest = None /\ file = [k \in Index |-> None] /\ store = {}
  /\ child = None /\ status = None /\ late = FALSE
  /\ results = <<>> /\ aggregate = None
  /\ baseline \in Saved \cup {None} /\ control = baseline
  /\ exit = None

(***************************************************************************)
(* Inference.                                                              *)
(***************************************************************************)

\* Placement is compared before populations are.
Compatible(a, b) == a.place = b.place

\* Why a packet cannot confirm: every check of `issues` in one conjunction.
Confirmable(r) ==
  /\ r.mode # "iterate" /\ r.independent
  /\ Len(r.replicates) = r.planned /\ r.planned >= 3
  /\ r.flaw = Sane /\ r.arms # <<>>
  /\ \A k, m \in DOMAIN r.replicates :
       k # m => r.replicates[k].run # r.replicates[m].run
  /\ \A k \in DOMAIN r.replicates :
       LET p == r.replicates[k] IN
       /\ p.arms = r.arms /\ p.mode = r.mode /\ p.planned = r.planned
       /\ p.binary = r.binary
       /\ Compatible(p, r) /\ p.place \in Verified
       /\ p.flaw = Sane

\* Every pair of a suite, the earlier arm as the base.
Pairs(arms) == {<<arms[m], arms[n]>> : m, n \in DOMAIN arms} \ {<<a, a>> : a \in ToSet(arms)}
Ordered(arms) == {p \in Pairs(arms) : \E m, n \in DOMAIN arms :
                     m < n /\ p = <<arms[m], arms[n]>>}

Column(r, a) == [k \in DOMAIN r.replicates |-> r.replicates[k].mean[a]]

\* n (n - 1) times the variance of n values.
Spread(values) ==
  Len(values) * Total(Squares(values)) - Total(values) * Total(values)

\* Estimates of a difference: it is sum / n, and the square of n times its
\* standard error is spread / over.  Of two arms of the same processes ...
Paired(r, a, b) ==
  LET d == [k \in DOMAIN r.replicates |->
              r.replicates[k].mean[b] - r.replicates[k].mean[a]]
  IN [n |-> Len(d), sum |-> Total(d), spread |-> Spread(d), over |-> Len(d) - 1]

\* ... and of one arm in two populations, after Welch.
Independent(old, new, a) ==
  LET b == Column(old, a)
      c == Column(new, a)
      m == Len(b)
      n == Len(c)
  IN [n |-> m * n, sum |-> m * Total(c) - n * Total(b),
      spread |-> n * n * (n - 1) * Spread(b) + m * m * (m - 1) * Spread(c),
      over |-> (m - 1) * (n - 1)]

\* Half the interval is t standard errors, or the resolution if that is more;
\* q is ten times the square of t.  Whether n times that is at most w, or less.
Reaches(e, q, w) == e.n * Floor <= w /\ q * e.spread <= 10 * e.over * w * w
Clears(e, q, w)  == e.n * Floor < w /\ q * e.spread < 10 * e.over * w * w

ClassifyOneSided(e, q) ==
  IF Clears(e, q, e.sum - e.n * Margin) THEN "regression"
  ELSE IF Clears(e, q, -(e.sum + e.n * Gain)) THEN "improvement"
  ELSE IF Reaches(e, q, e.sum + e.n * Gain) THEN "equivalent"
  ELSE "inconclusive"

\* The ends of the interval against the margin.
Classify(e, q) ==
  LET below == Reaches(e, q, e.n * Margin - e.sum) IN
  IF Clears(e, q, e.sum - e.n * Margin) THEN "regression"
  ELSE IF Clears(e, q, -(e.sum + e.n * Gain)) THEN "improvement"
  ELSE IF Reaches(e, q, e.sum + e.n * Gain) /\ below THEN "equivalent"
  ELSE IF below THEN "non_inferior"
  ELSE "inconclusive"

\* The differences of one population have one number of degrees of freedom.
Confirm(r, q) ==
  IF ~Confirmable(r) THEN {}
  ELSE {[pair |-> p, verdict |-> Classify(Paired(r, p[1], p[2]), q)] :
          p \in Ordered(r.arms)}

(***************************************************************************)
(* Aggregation.                                                            *)
(***************************************************************************)

\* Best keeps the fastest run of each arm, Mean and Median describe all runs.
Describe(runs, a) ==
  LET values == [k \in DOMAIN runs |-> runs[k].mean[a]]
      sorted == SortSeq(values, <)
  IN CASE request.policy = "best"   -> sorted[1]
       [] request.policy = "mean"   -> Total(values) \div Len(values)
       [] request.policy = "median" -> sorted[(Len(values) + 1) \div 2]

\* What cannot be aggregated at all: a panic, and nothing is persisted.
Mixable(runs) ==
  \A k \in DOMAIN runs :
    Compatible(runs[1], runs[k]) /\ runs[k].arms = runs[1].arms

Combine(runs) ==
  IF Len(runs) = 1 THEN runs[1]
  ELSE [runs[1] EXCEPT
         !.run  = <<"aggregate">>,
         !.mean = [a \in ToSet(runs[1].arms) |-> Describe(runs, a)],
         !.flaw = IF \A k \in DOMAIN runs : runs[k].flaw # "unreliable"
                  THEN Sane ELSE "unreliable",
         !.replicates = runs]

\* The contract of the experiment replaces the one of the first child; the
\* digest of the binary stays the first child's.
Aggregated(runs) ==
  [Combine(runs) EXCEPT !.independent = TRUE, !.mode = request.mode,
                        !.planned = request.processes]

(***************************************************************************)
(* The supervisor and its reservation.                                     *)
(***************************************************************************)

\* A reservation that is dropped takes its record away unless it is retained;
\* a process that exits without dropping it leaves the record to be found.
Drop == ticket' = IF retain THEN "orphan" ELSE "none"
Abandon == ticket' = IF ticket = "none" THEN "none" ELSE "orphan"

Exits(code) == exit' = code /\ pc' = "exited"
Panic == Exits(101) /\ Drop /\ UNCHANGED retain

Start ==
  /\ pc = "start"
  /\ \/ /\ ~Valid /\ Exits(2)
     \/ /\ Valid /\ Confirming /\ request.policy # "mean" /\ Exits(101)
     \/ /\ Valid /\ (Confirming => request.policy = "mean")
        /\ pc' = "admit" /\ UNCHANGED exit
  /\ UNCHANGED <<world, binary, i, lease, disk, child, status, late,
                 local>>

Admit ==
  /\ pc = "admit"
  /\ \/ /\ ticket' = "held" /\ pc' = "plan" /\ UNCHANGED <<exit, retain>>
     \/ Panic
  /\ UNCHANGED <<world, binary, i, disk, child, status, late, local>>

\* A manifest that cannot be written stops the experiment.
Write(next, m) ==
  \/ manifest' = m /\ pc' = next /\ UNCHANGED <<exit, lease>>
  \/ Panic /\ UNCHANGED manifest

PlanAttempts ==
  /\ pc = "plan"
  /\ Write("launch", [status |-> "running", binary |-> binary, evidence |-> None,
                      attempt |-> [k \in Index |-> "planned"]])
  /\ UNCHANGED <<world, binary, i, file, store, baseline, child, status,
                 late, local>>

\* The reservation is retained before anything is launched.
Prepare ==
  /\ pc = "launch"
  /\ \/ retain' = TRUE /\ pc' = "record" /\ UNCHANGED <<exit, ticket>>
     \/ Panic
  /\ UNCHANGED <<world, binary, i, disk, child, status, late, local>>

RecordRunning ==
  /\ pc = "record"
  /\ Write("spawn", [manifest EXCEPT !.attempt[i] = "running"])
  /\ UNCHANGED <<world, binary, i, file, store, baseline, child, status,
                 late, local>>

Spawn ==
  /\ pc = "spawn"
  /\ \/ /\ child' = [at |-> i, binary |-> binary, st |-> "running"]
        /\ pc' = "poll" /\ UNCHANGED status
     \/ /\ status' = "error" /\ pc' = "outcome" /\ UNCHANGED child
  /\ UNCHANGED <<world, binary, i, lease, disk, late, local, exit>>

PollForever ==
  /\ pc = "poll" /\ child.st \in {"ok", "failed"}
  /\ status' = child.st /\ child' = None
  /\ retain' = FALSE /\ pc' = "outcome"
  /\ UNCHANGED <<world, binary, i, ticket, disk, late, local, exit>>

\* An exit counts however late it is seen.  A child that is killed at the
\* deadline has been waited for; one that could not be killed is left alone.
Poll ==
  /\ pc = "poll" /\ pc' = "outcome"
  /\ \/ /\ child.st \in {"ok", "failed"}
        /\ status' = child.st /\ child' = None /\ retain' = FALSE
     \/ /\ child.st = "running" /\ late
        /\ status' = "error" /\ child' \in {None, child}
        /\ UNCHANGED retain
  /\ UNCHANGED <<world, binary, i, ticket, disk, late, local, exit>>

\* A child that cannot be watched is left to itself too.
WatchFails ==
  /\ pc = "poll" /\ pc' = "outcome" /\ status' = "error"
  /\ UNCHANGED <<world, binary, i, lease, disk, child, late, local, exit>>

RecordOutcome ==
  /\ pc = "outcome"
  /\ Write("judge", [manifest EXCEPT
             !.attempt[i] = IF status = "ok" THEN "completed" ELSE "failed",
             !.status = IF status = "ok" THEN @ ELSE "failed"])
  /\ UNCHANGED <<world, binary, i, file, store, baseline, child, status,
                 late, local>>

\* An exit code other than zero has been reaped; after an error nobody knows,
\* and the process exits with its reservation on disk.
Judge ==
  /\ pc = "judge"
  /\ \/ status = "ok" /\ pc' = "load" /\ UNCHANGED <<exit, ticket>>
     \/ status = "failed" /\ Exits(2) /\ Drop
     \/ status = "error" /\ Exits(2) /\ Abandon
  /\ UNCHANGED <<world, binary, i, retain, disk, child, status, late,
                 local>>

LoadWhatIsThere ==
  /\ pc = "load" /\ (file[i] # None \/ results # <<>>)
  /\ results' = IF file[i] = None THEN results ELSE Append(results, file[i])
  /\ IF i = request.processes THEN pc' = "aggregate" /\ UNCHANGED i
     ELSE pc' = "launch" /\ i' = i + 1
  /\ UNCHANGED <<world, binary, lease, disk, child, status, late,
                 aggregate, exit>>

Load ==
  /\ pc = "load"
  /\ \/ /\ file[i] # None
        /\ results' = Append(results, file[i])
        /\ IF i = request.processes THEN pc' = "aggregate" /\ UNCHANGED i
           ELSE pc' = "launch" /\ i' = i + 1
        /\ UNCHANGED <<exit, ticket>>
     \/ Exits(2) /\ Drop /\ UNCHANGED <<results, i>>
  /\ UNCHANGED <<world, binary, retain, disk, child, status, late,
                 aggregate>>

\* The evidence is persisted before the manifest says that it is complete.
Aggregate ==
  /\ pc = "aggregate"
  /\ \/ /\ Mixable(results)
        /\ aggregate' = Aggregated(results)
        /\ store' = store \cup {aggregate'}
        /\ pc' = "finish" /\ UNCHANGED <<exit, lease>>
     \/ Panic /\ UNCHANGED <<aggregate, store>>
  /\ UNCHANGED <<world, binary, i, manifest, file, baseline, child,
                 status, late, results>>

Finish ==
  /\ pc = "finish"
  /\ Write("return", [manifest EXCEPT
            !.status = IF Confirmable(aggregate) THEN "complete" ELSE "unconfirmed",
            !.evidence = aggregate])
  /\ UNCHANGED <<world, binary, i, file, store, baseline, child, status,
                 late, local>>

Return ==
  /\ pc = "return" /\ pc' = "save" /\ Drop
  /\ UNCHANGED <<world, binary, i, retain, disk, child, status, late,
                 local, exit>>

(***************************************************************************)
(* What the command line asked of the result.                              *)
(***************************************************************************)

SaveBaseline ==
  /\ pc = "save"
  /\ \/ ~request.save /\ pc' = "compare" /\ UNCHANGED <<baseline, exit>>
     \/ /\ request.save /\ Confirmable(aggregate)
        /\ baseline' = aggregate /\ pc' = "compare" /\ UNCHANGED exit
     \/ request.save /\ Exits(2) /\ UNCHANGED baseline
  /\ UNCHANGED <<world, binary, i, lease, manifest, file, store, child,
                 status, late, local>>

\* Two populations may be compared when each confirms and they share a
\* contract but no measurement.
Comparable(old, new) ==
  /\ Confirmable(old) /\ Confirmable(new)
  /\ Compatible(old, new) /\ old.arms = new.arms
  /\ \A k \in DOMAIN old.replicates, m \in DOMAIN new.replicates :
       old.replicates[k].run # new.replicates[m].run

\* Decisions for the arms that both have, each of its degrees of freedom.
Decisions(old, new, q) ==
  IF ~Comparable(old, new) THEN {}
  ELSE {[arm |-> a, verdict |-> Classify(Independent(old, new, a), q[a])] :
          a \in ToSet(old.arms) \cap ToSet(new.arms)}

Promotable(old, new, q) ==
  LET confirmed == Decisions(old, new, q) IN
  /\ Comparable(old, new) /\ confirmed # {}
  /\ {c.arm : c \in confirmed} = ToSet(old.arms)
  /\ ToSet(new.arms) = ToSet(old.arms)
  /\ \A c \in confirmed : c.verdict \in {"improvement", "equivalent", "non_inferior"}

Regressed(decisions) == \E c \in decisions : c.verdict = "regression"

PromoteFirst ==
  /\ pc = "compare"
  /\ baseline' = IF request.compare /\ request.update THEN aggregate ELSE baseline
  /\ pc' = "verdict" /\ UNCHANGED exit
  /\ UNCHANGED <<world, binary, i, lease, manifest, file, store, child,
                 status, late, local>>

CompareBaseline ==
  /\ pc = "compare"
  /\ \/ ~request.compare /\ pc' = "verdict" /\ UNCHANGED <<baseline, exit>>
     \/ /\ request.compare
        /\ ~(baseline # None /\ Compatible(baseline, aggregate))
        /\ Exits(2) /\ UNCHANGED baseline
     \/ /\ request.compare /\ baseline # None /\ Compatible(baseline, aggregate)
        /\ \E q \in [ToSet(aggregate.arms) -> request.critical] :
             \/ /\ Regressed(Decisions(baseline, aggregate, q))
                /\ Exits(1) /\ UNCHANGED baseline
             \/ /\ ~Regressed(Decisions(baseline, aggregate, q))
                /\ ~Promotable(baseline, aggregate, q)
                /\ Exits(2) /\ UNCHANGED baseline
             \/ /\ Promotable(baseline, aggregate, q)
                /\ \/ /\ baseline' = IF request.update THEN aggregate ELSE baseline
                      /\ pc' = "verdict" /\ UNCHANGED exit
                   \/ request.update /\ Exits(2) /\ UNCHANGED baseline
  /\ UNCHANGED <<world, binary, i, lease, manifest, file, store, child,
                 status, late, local>>

Verdict ==
  /\ pc = "verdict"
  /\ \/ ~Confirming /\ Exits(0)
     \/ Confirming /\ ~Confirmable(aggregate) /\ Exits(2)
     \/ /\ Confirming /\ Confirmable(aggregate)
        /\ \E q \in request.critical :
             LET verdicts == {c.verdict : c \in Confirm(aggregate, q)} IN
             \/ "regression" \in verdicts /\ Exits(1)
             \/ "regression" \notin verdicts /\ "inconclusive" \in verdicts /\ Exits(2)
             \/ verdicts \cap {"regression", "inconclusive"} = {} /\ Exits(0)
  /\ UNCHANGED <<world, binary, i, lease, disk, child, status, late,
                 local>>

(***************************************************************************)
(* Children, time and the rest of the world.                               *)
(***************************************************************************)

Means ==
  {m \in [ToSet(inventory) -> UNION {Latency[a] : a \in ToSet(inventory)}] :
     \A a \in ToSet(inventory) : m[a] \in Latency[a]}

\* What a child saves: Engine says how a packet comes about.
Packets ==
  {[run |-> <<"child", child.at>>, arms |-> inventory, mode |-> request.mode,
    planned |-> request.processes, binary |-> child.binary, independent |-> FALSE,
    place |-> c[1], flaw |-> c[2], replicates |-> <<>>, mean |-> m] :
     c \in Condition, m \in Means}

ChildSaves ==
  /\ child # None /\ child.st = "running" /\ file[child.at] = None
  /\ \E p \in Packets : file' = [file EXCEPT ![child.at] = p]
  /\ UNCHANGED <<world, binary, pc, i, lease, manifest, store, baseline,
                 child, status, late, local, exit>>

\* It may exit with zero and have saved nothing, or fail after it has saved.
ChildExits ==
  /\ child # None /\ child.st = "running"
  /\ \E st \in {"ok", "failed"} : child' = [child EXCEPT !.st = st]
  /\ UNCHANGED <<world, binary, pc, i, lease, disk, status, late, local,
                 exit>>

\* The deadline is looked at in the poll alone.
Elapse ==
  /\ ~late /\ pc = "poll" /\ late' = TRUE
  /\ UNCHANGED <<world, binary, pc, i, lease, disk, child, status,
                 local, exit>>

Rebuild ==
  /\ binary < MaxRebuilds /\ exit = None
  /\ binary' = binary + 1
  /\ UNCHANGED <<world, pc, i, lease, disk, child, status, late, local, exit>>

\* The supervisor is killed; its child is not.
Kill ==
  /\ exit = None /\ exit' = 137 /\ pc' = "exited" /\ Abandon
  /\ UNCHANGED <<world, binary, i, retain, disk, child, status, late,
                 local>>

Supervisor ==
  \/ Start \/ Admit \/ PlanAttempts \/ Prepare \/ RecordRunning \/ Spawn \/ Poll
  \/ RecordOutcome \/ Judge \/ Load \/ Aggregate \/ Finish \/ Return
  \/ SaveBaseline \/ CompareBaseline \/ Verdict

Next == Supervisor \/ WatchFails \/ ChildSaves \/ ChildExits \/ Elapse \/ Rebuild \/ Kill

\* Time passes and the supervisor runs; a child may hang for ever.
Spec == Init /\ [][Next]_vars /\ WF_vars(Supervisor) /\ WF_vars(Elapse)

(***************************************************************************)
(* Properties.                                                             *)
(***************************************************************************)

\* What "independent processes" promises of the packets of a population: each
\* from its own process, of one build, certified, and with nothing wrong.
Sound(packets) ==
  /\ Len(packets) >= 3
  /\ \A k, m \in DOMAIN packets :
       /\ packets[k] # None /\ packets[k].flaw = Sane
       /\ packets[k].place \in Verified /\ packets[k].place = packets[m].place
       /\ packets[k].binary = packets[m].binary
       /\ packets[k].run = packets[m].run => k = m

\* A manifest that names its evidence has seen every attempt complete and
\* names what the children have saved, all of it and in order, already in the
\* store; one that says "complete" names a sound population.  A failed child,
\* a missing result or a crash between the two writes must not leave an
\* experiment that looks finished.
CompleteIsEvidence ==
  manifest # None /\ manifest.evidence # None =>
    /\ manifest.evidence \in store
    /\ \A k \in Index : manifest.attempt[k] = "completed"
    /\ request.processes > 1 => manifest.evidence.replicates = file
    /\ manifest.status = "complete" => Sound(file)

\* What each process saw: the difference of an earlier arm and a later one, and
\* that of an arm and its mean in the baseline, times the baseline's processes.
Earlier == {p \in (DOMAIN inventory) \X (DOMAIN inventory) :
              p[1] < p[2] /\ inventory[p[1]] # inventory[p[2]]}
Slower(p) ==
  [k \in Index |-> file[k].mean[inventory[p[2]]] - file[k].mean[inventory[p[1]]]]
Since(a) ==
  [k \in Index |-> Len(control.replicates) * file[k].mean[a] - Total(Column(control, a))]

\* At most so many of n processes may be on the other side of an interval's end
\* than their mean, by Cantelli: with 95%, none of three or four, one of five.
Few(processes, n, q) ==
  Cardinality(processes) * (q + 10 * (n - 1)) <= 10 * n * (n - 1)

NotSlower(ds, m, q) ==
  LET n == Len(ds) IN
  /\ Total(ds) + n * m * Floor <= n * m * Margin
  /\ Few({k \in DOMAIN ds : ds[k] > m * Margin}, n, q)
AllSlower(ds, m, q) ==
  LET n == Len(ds) IN
  /\ Total(ds) - n * m * Floor > n * m * Margin
  /\ Few({k \in DOMAIN ds : ds[k] <= m * Margin}, n, q)

Shared == IF request.compare /\ control # None
          THEN ToSet(inventory) \cap ToSet(control.arms) ELSE {}

\* The exit code of a confirmation is a claim about what was measured.  Zero:
\* the population is sound; no later arm is slower than an earlier one, nor
\* than the same arm of the baseline compared with, by more than the margin, in
\* the mean and with what the timer cannot tell apart; and only the few
\* processes that the confidence leaves room for saw more than that.  One: it
\* is sound, and of one pair or arm all that holds the other way round.
ExitIsJustified ==
  /\ Confirming /\ exit = 0 =>
       /\ Sound(file)
       /\ \E q \in request.critical : \A p \in Earlier : NotSlower(Slower(p), 1, q)
       /\ \A a \in Shared : \E q \in request.critical :
            NotSlower(Since(a), Len(control.replicates), q)
  /\ exit = 1 =>
       /\ Sound(file)
       /\ \E q \in request.critical :
            \/ \E p \in Earlier : AllSlower(Slower(p), 1, q)
            \/ \E a \in Shared : AllSlower(Since(a), Len(control.replicates), q)

\* A named baseline changes into a sound population only; and when the change
\* is a promotion, every arm of the old one was measured again, in processes
\* of its own, of which the mean, and all but the few that the confidence
\* leaves room for, are not slower than the old mean by more than the margin.
BaselineIsEarned ==
  [][baseline' # baseline =>
       /\ Sound(file) /\ baseline'.replicates = file
       /\ request.save \/
            /\ request.update /\ baseline # None
            /\ ToSet(baseline.arms) = ToSet(inventory)
            /\ \A a \in ToSet(inventory) : \E q \in request.critical :
                 NotSlower(Since(a), Len(control.replicates), q)]_vars

\* The experiment ends, though a child may hang for ever: the deadline is one
\* for all attempts and it kills the child that is running.
ExperimentEnds == <>(exit # None)
=============================================================================
