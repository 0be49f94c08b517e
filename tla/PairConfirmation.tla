--------------------------- MODULE PairConfirmation ---------------------------
(***************************************************************************)
(* How a pair experiment observes one invocation and what a confirmation   *)
(* makes of it: schedule, invoke, finish_resource_observations and observe *)
(* of src/src/bin/support/pair.rs, summarize and exit_code of              *)
(* pair/analysis.rs, classify of pair/interval.rs.                         *)
(*                                                                         *)
(* While the supervisor polls the child, an observer thread takes one      *)
(* window of the system's counters after another; each window lasts from   *)
(* the refresh before it to its own.  The other invocations of the         *)
(* experiment are undisturbed and complete.                                *)
(***************************************************************************)
EXTENDS Integers, Sequences, FiniteSets

CONSTANTS
  Draws,             \* how many values the generator draws from: 2^64
  PlanArms,          \* how many arms are scheduled
  Candidate,         \* the arms that are compared with the baseline
  Margin, ControlMargin,
  Interval,          \* the intervals that the blocks may give, <<lower, upper>>
  MaxWindows         \* 10000

ASSUME ConfirmationAssumption ==
  /\ PlanArms \in Nat \ {0} /\ Draws \in Nat /\ PlanArms <= Draws
  /\ Margin \in Nat /\ ControlMargin \in Nat \ {0} /\ MaxWindows \in Nat \ {0}
  /\ Candidate # {} /\ \A i \in Interval : i \in Int \X Int

VARIABLES
  at,                \* where the invocation is
  drawn,             \* the order drawn for its block
  purpose,           \* iterate or confirm, and what is accepted
  child,             \* none, running, exited or reaped
  foreign, burden,   \* other work uses the CPUs; memory, heat, heavy processes
  lastAlive, exitSeen,   \* whether the supervisor's probes have seen it so
  watch, known,      \* the observer thread; whether it knows the process id
  window,            \* foreign load in the window under way: always, never
  sample, lasted,    \* the thread's sample that has no time yet
  windows,           \* its samples
  observations,      \* event.observations
  status,            \* of the invocation
  missed,            \* history: a load lasted for a window that had to tell it
  observed,          \* its observations admit it
  blocks,            \* what the experiment found: the intervals, the placement
  verdict, exitCode

machine == <<foreign, burden>>
seen    == <<lastAlive, exitSeen>>
thread  == <<watch, known, sample, lasted, windows>>
outcome == <<drawn, purpose, observed, blocks, verdict, exitCode>>
confirmVars == <<at, outcome, child, machine, seen, thread, window, observations, status, missed>>

Unclear == <<>>                    \* no interval
Accepts == {"improvement", "equivalence", "non_inferiority"}
Control == "__aa"

NoSample   == [phase |-> "none", clean |-> FALSE, own |-> FALSE, used |-> TRUE, late |-> FALSE]
Limit      == [NoSample EXCEPT !.phase = "observation_limit"]
Unobserved == [NoSample EXCEPT !.phase = "lifecycle_unobserved"]

Fresh(load) == [always |-> load, never |-> ~load]

ConfirmInit ==
  /\ at = "plan" /\ drawn = <<>>
  /\ purpose \in {"iterate"} \cup Accepts
  /\ child = "none" /\ foreign \in BOOLEAN /\ burden \in BOOLEAN
  /\ lastAlive = FALSE /\ exitSeen = FALSE
  /\ watch = "idle" /\ known = FALSE /\ window = Fresh(foreign)
  /\ sample = NoSample /\ lasted = FALSE /\ windows = <<>> /\ observations = <<>>
  /\ status = "running" /\ missed = FALSE
  /\ observed = FALSE /\ blocks = <<>>
  /\ verdict = [x \in Candidate \cup {Control} |-> "none"] /\ exitCode = -1

-----------------------------------------------------------------------------
(* Faulty variants, which the properties must tell apart.                  *)

\* A waiver covers what does not depend on the worker too.
ClassifiedByPhase(w) ==
  IF w.phase = "during" /\ w.late
  THEN [w EXCEPT !.phase = "exit_transition", !.used = FALSE] ELSE w

Unqualified(verdicts, control) == verdicts

-----------------------------------------------------------------------------
(* The schedule: a shuffle of the arms, without the values that would      *)
(* favour some.                                                            *)

Accepted(bound) == {n \in 0 .. Draws - 1 : n >= (Draws - bound) % bound}

Swap(f, i, j) == [f EXCEPT ![i] = f[j], ![j] = f[i]]

Shuffle(draw) ==
  LET shuffled[i \in 2 .. PlanArms + 1] ==
        IF i > PlanArms THEN [k \in 1 .. PlanArms |-> k]
        ELSE Swap(shuffled[i + 1], i, (draw[i] % i) + 1)
  IN shuffled[2]

AllDraws == {d \in [2 .. PlanArms -> 0 .. Draws - 1] :
               \A i \in 2 .. PlanArms : d[i] \in Accepted(i)}

DrawSchedule ==
  /\ at = "plan" /\ at' = "settle"
  /\ \E d \in AllDraws : drawn' = Shuffle(d)
  /\ UNCHANGED <<purpose, observed, blocks, verdict, exitCode, child, machine, seen, thread, window,
                 observations, status, missed>>

-----------------------------------------------------------------------------
(* Windows.                                                                *)

\* The magnitude of the load may be the worker's own where its processor time
\* cannot be told apart; a load that comes or goes may be too short to count.
Loud(attributed) ==
  IF window.always THEN {TRUE}
  ELSE IF window.never /\ attributed THEN {FALSE} ELSE BOOLEAN

\* Memory, heat, heavy processes and the time that the sample took do not
\* depend on whose work it is.
Observation(phase, loud) ==
  [phase |-> phase, clean |-> ~loud /\ ~burden, own |-> ~burden,
   used |-> phase # "start_transition", late |-> FALSE]

\* A boundary observation of the launcher itself: the worker's last processor
\* time may fall into the one behind it.
Boundary(attributed) ==
  /\ \E loud \in Loud(attributed) :
       observations' = Append(observations, Observation("boundary", loud))
  /\ window' = Fresh(foreign)
  /\ missed' = (missed \/ burden \/ window.always)

\* The first window of a process has no sample before it.
Refresh ==
  /\ watch = "idle" /\ known /\ at # "join"
  /\ LET first == windows = <<>> IN
     \E loud \in Loud(~first /\ child # "reaped") :
       sample' = Observation(IF first THEN "start_transition" ELSE "during", loud)
  /\ watch' = "stamp" /\ lasted' = window.always /\ window' = Fresh(foreign)
  /\ UNCHANGED <<at, outcome, child, machine, seen, known, windows, observations, status, missed>>

\* The window gets its time after its refresh, and may be late by then: the
\* supervisor has seen the process exit.
Stamp ==
  /\ watch = "stamp"
  /\ windows' = Append(windows, [sample EXCEPT !.late = exitSeen])
  /\ watch' = IF Len(windows') < MaxWindows THEN "idle" ELSE "limit"
  /\ missed' = (missed \/ ~sample.own \/ (lasted /\ ~exitSeen /\ windows # <<>>))
  /\ sample' = NoSample /\ lasted' = FALSE
  /\ UNCHANGED <<at, outcome, child, machine, seen, known, window, observations, status>>

\* The thread ends when it is told, or with a window that is never clean.
WatchEnds ==
  /\ \/ watch = "idle" /\ at = "join" /\ UNCHANGED windows
     \/ watch = "limit" /\ windows' = Append(windows, Limit)
  /\ watch' = "ended"
  /\ UNCHANGED <<at, outcome, child, machine, seen, known, window, sample, lasted,
                 observations, status, missed>>

-----------------------------------------------------------------------------
(* The supervised process.  A window's refresh can fall between the probe   *)
(* that reaps it and the time of that probe.                               *)

Supervised == <<outcome, machine, thread, window, observations, missed>>

\* The deadline is spent, or the placement is not what it was.
GiveUp(from) == at = from /\ at' = "summary" /\ status' = "failed"

Settle ==
  /\ \/ at = "settle" /\ at' = "before" /\ UNCHANGED status
     \/ GiveUp("settle")
  /\ drawn' = <<>>
  /\ UNCHANGED <<purpose, observed, blocks, verdict, exitCode, child, machine, seen, thread, window,
                 observations, missed>>

ObserveBefore ==
  /\ Boundary(TRUE)
  /\ \/ at = "before" /\ at' = "launch" /\ UNCHANGED status
     \/ GiveUp("before")
  /\ UNCHANGED <<outcome, child, machine, seen, thread>>

\* The observer starts with the supervisor, in a confirmation.
Launch ==
  /\ at = "launch"
  /\ \/ at' = "poll" /\ child' = "running" /\ UNCHANGED status
     \/ at' = "join" /\ status' = "failed" /\ UNCHANGED child
  /\ UNCHANGED <<seen, Supervised>>

ChildExits ==
  /\ child = "running" /\ child' = "exited"
  /\ UNCHANGED <<at, status, seen, Supervised>>

\* The first poll gives the observer the process id.
Poll ==
  /\ at = "poll" /\ at' = "probe"
  /\ known' = (purpose # "iterate")
  /\ UNCHANGED <<outcome, child, machine, seen, watch, sample, lasted, windows, window,
                 observations, status, missed>>

\* Out of time, or the log is too long: killed and awaited.
Kill ==
  /\ at = "poll" /\ at' = "join"
  /\ child' = "reaped" /\ status' = "failed"
  /\ UNCHANGED <<seen, Supervised>>

Alive ==
  /\ at = "probe" /\ child = "running"
  /\ at' = "poll" /\ lastAlive' = TRUE
  /\ UNCHANGED <<child, status, exitSeen, Supervised>>

Reap ==
  /\ at = "probe" /\ child = "exited"
  /\ at' = "reaped" /\ child' = "reaped"
  /\ UNCHANGED <<status, seen, Supervised>>

SeeExit ==
  /\ at = "reaped" /\ at' = "cleanup"
  /\ exitSeen' = TRUE
  /\ UNCHANGED <<child, status, lastAlive, Supervised>>

\* The rest of its group is gone, or cannot be shown to be.
CleanUp ==
  /\ at = "cleanup" /\ at' = "join"
  /\ status' \in {status, "failed"}
  /\ UNCHANGED <<child, seen, Supervised>>

-----------------------------------------------------------------------------
(* The observations of the invocation.                                     *)

Waived(w) == w.phase = "during" /\ w.late

\* A window that is waived counts all the same for what does not depend on the
\* worker's processor time.
Classified(w) ==
  LET waived == [w EXCEPT !.phase = IF Waived(w) THEN "exit_transition" ELSE @,
                          !.used = ~Waived(w) /\ @]
  IN IF w.own THEN waived ELSE [waived EXCEPT !.clean = FALSE, !.used = TRUE]

\* Windows of a process that no probe saw alive, or saw exit, are refused.
Join ==
  /\ at = "join" /\ at' = "after"
  /\ purpose # "iterate" => watch = "ended"
  /\ observations' = observations \o
       [i \in 1 .. Len(windows) |-> Classified(windows[i])]
         \o IF windows # <<>> /\ ~(lastAlive /\ exitSeen) THEN <<Unobserved>> ELSE <<>>
  /\ windows' = <<>>
  /\ UNCHANGED <<outcome, child, machine, seen, watch, known, sample, lasted, window,
                 status, missed>>

\* Then the exit code, the placement, the metric and the output are looked at.
ObserveAfter ==
  /\ at = "after" /\ at' = "summary"
  /\ Boundary(FALSE)
  /\ status' \in IF status = "failed" THEN {"failed"} ELSE {"completed", "failed"}
  /\ UNCHANGED <<outcome, child, machine, seen, thread>>

-----------------------------------------------------------------------------
(* What the experiment says.                                               *)

Unclean(o) ==
  IF o.phase \in {"start_transition", "exit_transition"} THEN o.used ELSE ~o.clean \/ ~o.used

Admissible ==
  /\ Len(observations) >= 3
  /\ \E i \in DOMAIN observations : observations[i].phase = "during"
  /\ \A i \in DOMAIN observations : ~Unclean(observations[i])

\* The invocation is over; what is kept of its observations is what they say.
Record ==
  /\ at = "summary" /\ at' = "judge"
  /\ observed' = Admissible
  /\ observations' = <<>> /\ child' = "none" /\ foreign' = FALSE /\ burden' = FALSE
  /\ lastAlive' = FALSE /\ exitSeen' = FALSE
  /\ watch' = "idle" /\ known' = FALSE /\ window' = Fresh(FALSE)
  /\ UNCHANGED <<drawn, purpose, blocks, verdict, exitCode, sample, lasted, windows, status, missed>>

Classify(interval) ==
  LET lower == interval[1] upper == interval[2] IN
  CASE lower > Margin -> "regression"
    [] upper < -Margin -> "improvement"
    [] lower >= -Margin /\ upper <= Margin -> "equivalent"
    [] lower < -Margin /\ upper >= -Margin /\ upper <= Margin -> "non_inferior"
    [] OTHER -> "inconclusive"

\* An arm is judged when nothing is wrong with its case: complete, on verified
\* processors, observed, with an interval.
Judge(valid, interval) ==
  IF valid /\ interval # Unclear THEN Classify(interval) ELSE "invalid"

Equivalent(control) ==
  control # Unclear /\ control[1] >= -ControlMargin /\ control[2] <= ControlMargin

\* Without the A/A control's equivalence nothing is concluded.
Qualified(verdicts, control) ==
  [x \in DOMAIN verdicts |->
     IF verdicts[x] = "invalid" \/ Equivalent(control) THEN verdicts[x] ELSE "inconclusive"]

Enough(v) ==
  CASE purpose = "improvement"     -> v = "improvement"
    [] purpose = "equivalence"     -> v = "equivalent"
    [] purpose = "non_inferiority" -> v \in {"improvement", "equivalent", "non_inferior"}

ExitCode(verdicts) ==
  LET rows == {verdicts[x] : x \in Candidate} IN
  IF rows \cap {"invalid", "inconclusive", "exploratory"} # {} THEN 2
  ELSE IF "regression" \in rows THEN 1
  ELSE IF \A v \in rows : Enough(v) THEN 0 ELSE 2

\* An incomplete experiment is one whatever its verdicts are.
Summarize(interval, uniform) ==
  /\ at = "judge" /\ at' = "end"
  /\ LET complete == status = "completed"
         valid == complete /\ uniform /\ observed
         judged == [x \in DOMAIN interval |->
                      IF purpose = "iterate" THEN "exploratory" ELSE Judge(valid, interval[x])]
     IN /\ verdict' = IF purpose = "iterate" THEN judged ELSE Qualified(judged, interval[Control])
        /\ exitCode' = IF ~complete THEN 2
                       ELSE IF purpose = "iterate" THEN 0 ELSE ExitCode(verdict')
  /\ blocks' = [interval |-> interval, uniform |-> uniform]
  /\ UNCHANGED <<drawn, purpose, observed, observations, child, machine, seen, thread, window,
                 status, missed>>

-----------------------------------------------------------------------------
Invocation ==
  \/ DrawSchedule \/ Settle \/ ObserveBefore \/ Launch \/ Poll \/ Kill \/ Alive \/ Reap
  \/ SeeExit \/ CleanUp \/ Join \/ ObserveAfter \/ Record
  \/ \E uniform \in BOOLEAN, interval \in [Candidate \cup {Control} -> Interval \cup {Unclear}] :
       Summarize(interval, uniform)

Watch == Refresh \/ Stamp \/ WatchEnds

\* Other work comes and goes.
Machine ==
  /\ at \notin {"summary", "judge", "end"}
  /\ \/ /\ foreign' = ~foreign /\ UNCHANGED burden
        /\ window' = [always |-> window.always /\ foreign', never |-> window.never /\ ~foreign']
     \/ burden' = ~burden /\ UNCHANGED <<foreign, window>>
  /\ UNCHANGED <<at, outcome, child, seen, thread, observations, status, missed>>

ConfirmNext == Invocation \/ Watch \/ ChildExits \/ Machine

-----------------------------------------------------------------------------
\* Whoever comes in between, no verdict rests on an invocation beside which other
\* work went on for a whole window that could tell it from the worker's (the
\* boundary windows, and all but the first of the process that have their time
\* before its exit was seen), or which met too little memory, heat or a heavy
\* process at any window at all.
LoadIsNoticed ==
  \A x \in Candidate :
    verdict[x] \notin {"none", "invalid", "exploratory", "inconclusive"} => ~missed

\* Every order of the arms is drawn for a block in as many ways as any other,
\* though their number does not divide what the generator draws from.
OrderIsUnbiased ==
  drawn # <<>> =>
    LET Ways(p) == Cardinality({d \in AllDraws : Shuffle(d) = p})
        Orders == {p \in [1 .. PlanArms -> 1 .. PlanArms] :
                     \A i, j \in 1 .. PlanArms : p[i] = p[j] => i = j}
    IN drawn \in Orders /\ \A p \in Orders : Ways(p) = Ways(drawn)

\* A confirmation succeeds only when the plan's own kind of verdict holds of the
\* whole interval of every candidate, the control's interval is within its own
\* margin, the invocation completed on verified processors; and it only speaks of
\* a regression on the same conditions.  No order of the arms was likelier, either.
AcceptedIsEarned ==
  /\ OrderIsUnbiased
  /\ purpose \in Accepts /\ exitCode \in {0, 1} =>
      /\ status = "completed" /\ blocks.uniform
      /\ \A x \in Candidate \cup {Control} : blocks.interval[x] # Unclear
      /\ Equivalent(blocks.interval[Control])
      /\ LET within(x) == blocks.interval[x][2] <= Margin
             tight(x)  == within(x) /\ blocks.interval[x][1] >= -Margin
             faster(x) == blocks.interval[x][2] < -Margin
         IN IF exitCode = 1 THEN \E x \in Candidate : blocks.interval[x][1] > Margin
            ELSE \A x \in Candidate :
                   CASE purpose = "improvement"     -> faster(x)
                     [] purpose = "equivalence"     -> tight(x)
                     [] purpose = "non_inferiority" -> within(x)
=============================================================================
