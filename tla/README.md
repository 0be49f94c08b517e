# TLA+ verification of zenbench

zenbench is a Rust benchmarking harness: a library that measures benchmarks in
interleaved rounds, and a command-line tool and MCP server that schedule,
supervise, record and compare benchmark processes.  This directory holds TLA+
models of it, the TLC configurations that check them on small instances, and
TLAPS proofs of their main properties.  Paths below are relative to the
repository root `src/`.

## Inventory

| Component | Source | State | Operations | Meets others by | Correct when |
|---|---|---|---|---|---|
| Cooperative admission | `src/coordination.rs` | a directory with `queue.lock`, `sequence`, and `N.json`, `N.guard` per ticket | acquire, retain/reap, drop, inherit, `queued_pids` | files and file locks of any number of processes | one admitted task at a time, in ticket order; a crashed owner blocks rather than being passed |
| Process supervision | `src/bin/support/supervisor.rs` | child, its group, its scope, the lifecycle stamps | `run_with_observer`, `wait_group_empty`, `cleanup_scope` | signals, `waitpid`, the reservation | the reservation is retained while anything it launched can run; the stamps bracket the exit |
| Exclusive lock | `src/exclusive.rs` | lock file, `.info` and `.info.tmp`, heartbeat thread | acquire, try_acquire, peek, update, drop | file lock; a mutex between two threads | one writer, readers see a whole, current record |
| Run registry, its front ends | `src/daemon.rs`, `mcp.rs`, `bin/zenbench.rs` | `.zenbench/runs/ID.json`, results, pids | list, load, wait, kill, kill stale, spawn, clean up | unlocked files, signals | a recorded outcome is a true one and is not taken back; an answer is true |
| Evidence store, baselines | `src/storage.rs`, `src/baseline.rs` | content-addressed objects, references, named baselines | persist, save, load, promote, prune | files | a published reference resolves; evidence survives a crash |
| Engine, monitor, gate | `src/engine.rs`, `monitor.rs`, `gate.rs`, `timing.rs` | rounds, budgets, the sampler's last observation, stop flag, lock, checkpoint | run, run_comparison_group, start, latest, drop, check | lock and admission, a thread, the machine | what is called reliable was observed quiet; whatever fails is undone |
| Placement | `src/platform/*` | process and thread CPU masks | select, certify, enter, restore | the operating system | rounds stay inside the certified CPUs; the observer is off the measured ones; masks are restored |
| Sampling, counters | `src/bench.rs`, `alloc.rs`, `heap.rs` | clock readings, thread-local counters, a ledger under a spin lock | iter, iter_deferred_drop, with_input, bench_contended; begin, finish | worker threads, a barrier, other allocating threads | a sample is charged with its own time and allocations only |
| Statistics, inference | `src/stats.rs`, `src/inference.rs`, `src/engine.rs` | none | estimate, summarise, rank, decide | called by the rest | no verdict from incomplete evidence; no significance from noise |
| Process experiment | `src/lib.rs`, `src/plan.rs` | child processes and their result files, manifest, plan | main!, run_processes, aggregate_results, postprocess_result | processes, files, arguments and environment | an aggregate only holds complete, distinct replicates of the recorded plan |
| Pair experiment | `src/bin/support/pair.rs`, `pair/*` | plan, schedule, invocations in memory; plan, journal, block checkpoints and packet on disk | run, invoke, check_block, load_interrupted, summarize | admission, supervisor, an observer thread, files | what counts was checked, by the attempt that ran it; what is accepted was undisturbed |
| Fleet | `src/bin/support/fleet*.rs` | bundle, attempt directories, packets | bundle, verify, run, read, diff | files, a cancel file, admission, supervisor | a complete packet tells the truth of its run |
| Self-compare, nice | `src/bin/zenbench.rs`, `bin/support/nice.rs` | a git worktree; a reservation | compare two revisions; run in the background | git, cargo, the queue | it compares what was asked for; it is on record while it runs |
| Reports, charts, WASM | `src/report.rs`, `html.rs`, `charts.rs`, `quickchart.rs`, `wasm.rs` | none | rendering | | |

What is hard here is not any one function.  It is several processes that share
a directory, each free to die between two system calls; a second thread that
acts on a flag it read a moment ago; a decision taken on a file, a placement or
an observation that has changed since; a plan that is resolved twice, by parent
and child.  `PROJECT.json` lists these hazards at their lines, each with the
properties that watch it.

## Plan

1. *(done)* `Admission` with its abstract `AdmissionQueue`, both proved; `Supervisor`
   with `LaunchContract`, the interface between a launcher and admission, which
   `Admission` relies on and `Supervisor` is proved to keep; `ExclusiveLock` and
   `EvidenceStore`, proved; `RunRegistry` and `PairExperiment`.
2. *(done)* What meets them: `Engine` with `Placement`, `ProcessExperiment`, `FleetRun`,
   `PairConfirmation`, `PairPlan`, `Measurement` and `Analysis`, `BenchMain`; and the
   commands, `JobCommands`, `SelfCompare`, `NiceTask`, composed with the registry
   and the supervisor they call.
3. *(done)* Proofs of the safety of every component with states: the supervisor, the
   registry and its commands, self-compares, nice tasks, fleet runs, both halves of the
   pair experiment, the engine, the measurement, the process experiment and its plans.
4. *(done)* Proofs of what is computed from data, `SignificanceIsEarned` and `ReportAgrees`: every
   safety property that a passing run checks is a theorem.

## Modules

| Module | What it is |
|---|---|
| `Admission` | the queue directory and its clients, one action per file or lock operation |
| `AdmissionQueue` | the ticket lock it implements |
| `AdmissionProofs` | the safety theorems and the refinement theorem |
| `Supervisor`, `LaunchContract` | `run_with_observer` and the processes it watches; what admission needs of a launcher |
| `NiceTask` | `zenbench nice`: extends `Supervisor` by the command around it |
| `ExclusiveLock` | the lock, its record and its two threads |
| `RunRegistry` | the registry's clients and the runs |
| `JobCommands` | extends it by the commands and tools that call it, and their answers |
| `SelfCompare` | two revisions in one worktree |
| `CommandProofs` | the supervisor's safety and refinement, and the safety of the registry, its commands, self-compares and nice tasks |
| `EvidenceStore`, `EvidenceStoreProofs` | objects, references, checkpoints and the named baseline; safety |
| `Engine`, `Placement` | a benchmark process, its sampling thread and the changing machine; the choice and certification of CPUs |
| `EngineProofs` | the engine's safety |
| `Measurement` | one sample with its workers, clocks and counters |
| `Analysis` | the estimate of iterations and what the rounds are turned into |
| `Totals` | sums of a sequence, which means and variances are made of |
| `MeasurementProofs` | the safety of both |
| `ProcessExperiment` | the supervisor of independent processes, up to exit code and baseline |
| `BenchMain` | how a program and its children come to their plans |
| `ExperimentProofs` | safety of the two |
| `PairPlan` | what a pair plan is expanded to, before admission and at each launch |
| `PairExperiment` | attempts at a plan, what they leave on disk and what is read back |
| `PairConfirmation` | schedule, observation of an invocation, verdicts |
| `PairExperimentProofs` | safety of the three, and the fairness of the shuffle |
| `FleetRun` | the bundle, one observation of it, its packet and the diff |
| `ExclusiveLockProofs` | safety of the lock and of the fleet's observations |
| `MC*` | instances for TLC |

Modules that model code hold, beside some actions, a *faulty variant*: a copy with
a plausible bug, outside the next-state relation.  They say what each property is
able to notice, and `PROJECT.json` pairs them.

### Admission

`control` is the lock on `queue.lock`; `counter` and `torn` are the file
`sequence`; `record[t]` and `guard[t]` are the record of ticket t and the lock on
its guard file; `group[t]` stands for the processes launched under it.  `pc` is
where a client stands in `Reservation::at_controlled`, in the launch that follows
(`held`, `spawn`, `supervise`) or in `drop`; `seq` and `retain` are the fields of
`Reservation`; `todo`, `entry` and `blocked` are the locals of the scan.
`fs::write` truncates before it fills, so each rewritten file has a `torn` state
between two actions.  Every file operation may fail (`FileError`, `DropFails`),
every lock attempt may time out or be cancelled, and `Crash` may strike at every
step: it frees all locks of the process and leaves its files and children.
`Inherit` is a nested client under the environment lease; `ProbeGuard` is
`queued_pids`, which takes a guard for a moment without `queue.lock`; the constant
`Observer` is whoever holds a guard that way.  `ClearOrphan` is the user who
removes an orphan's record once its work has stopped, as the diagnostic asks.

The launch part of a client is constrained to the contract of `LaunchContract`
(retain before spawn, release only after the children are gone), and `Supervisor`
is proved to keep that contract: the two modules meet there.

### Supervisor and NiceTask

`step` is where `run_with_observer` stands, `leader`, `workers` and `strays` are the
processes of the command: the group leader, other members of its group, and
those that moved to another session.  Strays exist only when `Scoped`: without a
scope the documentation puts them outside the contract
(`docs/cooperative-scheduling.md:62`).  Processes fork, detach and exit between
any two steps.  Instants are numbers up to `MaxTime`; `Never` is `None`.

`NiceTask` puts the command around it: the check of its arguments, the reservation
(one step here, `Admission`'s there), the wait for a quiet machine with its budget
(`expired`; the machine need not ever become quiet), the supervised task, and the drop of a reservation that may be
retained, after which the record is `left`.

### ExclusiveLock

Each process has a main thread (`pc`) and a heartbeat thread (`beat`); `writer` is
the one inside `write_holder`, under the mutex, and `file` how far it is.  A record
is reduced to its owner and the number of changes made to it.  `Publish` is the
rename.  Writes may fail at any point, which is an error on entry and ignored
later, and a crash frees the lock and leaves both files as they are.

### RunRegistry, JobCommands, SelfCompare

A client's `doing` and `op` say where it is in which call; `todo`, `view` and `cur`
are what the call has still to read, has read, and has in hand; `hash` is the
commit a spawn read first.  Every call that lists or loads reconciles and writes
back, in the same place as the code; `phase` distinguishes that save, whose
failure is ignored, from the caller's own.  A child is a pid: `signalled`, `exited`,
or `recycled` when another process has got its number.  Its results may be saved
by a process that outlives it, as `cargo bench` starts one.  `written` and
`cleaned` are history variables.  `RunStatus::Queued` is never written and is not
modelled; neither are repositories without git, where a spawn skips the
stale-run scan.

`JobCommands` adds to each client the command it executes (`front`): a command line
one, a server any number, one after another.  Each command is the one or two
registry calls that its handler makes, and an answer that follows from what they
returned; between the calls everybody else goes on.

`SelfCompare` models `cmd_self_compare`: `tree` is what is at the one worktree path,
`build[c]` the cargo that the command has started, which reads the tree when it
comes to it and outlives a killed command.  `disturbed` remembers whose worktree
somebody else has touched.

### EvidenceStore

A packet stands for its hash and its object's name, so `object[p]` is all there is
under it: nothing, a part, or the whole; `durable` is what has been synced.
`reference`, `version` and `baseline` are the three kinds of reference file, each
put in place by a synced temporary file and a rename, hence in one action.
`attempt` are the checkpoints.  A client is a run with its checkpoint, the process
that sums up independent processes, or a data command that persists a packet it
has loaded (`goal`); `step` is where it stands in `persist_at`, `save_baseline` or
`postprocess_result`.  `End` stands for every error return, panic and kill.
`PowerLoss` takes whatever was not synced, in part or altogether, and is remembered
in the history variable `outage`; directories are
taken to be journaled in order, so that a later rename does not survive an
earlier one.  Whether a candidate passes against a baseline is the constant
relation `NonInferior`, which is not transitive.  One baseline name is modelled,
since names do not interact.  Runs with `ZENBENCH_NO_SAVE` are not modelled.

### Engine and Placement

`pc` is where the coordinator stands between `Engine::run`'s admission and its return;
`asked` and `found` are its thread's mask and the one its scope restores; `held` is
what keeps others out, the reservation or lock.  `sampler` and `stop` are the monitor's thread, its last sample and its
flag; a sample keeps whether the machine was noisy and whether it is still fresh,
which `Age` ends.  `late` says which budget of the group has been used up: it is set
by the machine at any time, so no number of rounds or seconds is assumed.  `rounds`
holds of each retained round what the properties ask about it.  `Change` makes the
machine noisy or quiet, moves the cpuset (`boundary`), and lets a rival come and go,
`MaxChanges` times.  A panic anywhere in a group goes to `unwind`, where the guards are
dropped in the order of Rust's scopes; `Kill` leaves only the files.

`Placement` holds the pure part: `GroupClasses` and `LinuxTopology` classify the
hardware, `Select`, `Resolve` and `Start` choose and certify a set of CPUs or refuse,
`Verify` and `VerifyThread` compare what was certified with what is, `SelectObserver`
chooses the sampler's CPUs.  CPUs have kinds and the kinds have ranks; frequency and
cache sizes enter through them only.

### Measurement and Analysis

`Measurement` is one sample inside one heap phase.  `form` is the way it is taken; a
contended one has worker threads and a barrier of two rounds (`arrived`,
`generation`), as `std::sync::Barrier` has.  Setup, call and teardown of an iteration
take a tick each, so that their time can be told apart; `clock` is a counter modulo
`Wrap`.  `lock`, `ledger` and `phase` are `heap.rs`, `count`, `before` and `delta` the
thread-local counters of `alloc.rs`; `heap`, `truth` and `inside` are history: what
really happened.  The number of allocations is finite, so no fairness is needed for
the spin lock.

`Analysis` takes `estimate_iterations` through its loop for the given costs, adds
rounds one by one, and analyses them.  All numbers are whole: times per iteration are
multiples of a `Unit` that every number of rounds up to `MaxRounds` divides, so that means
divide; medians, fences and ranks are doubled; a bootstrap bound is the sum it is the
mean of, chosen from the sums that resampling can give.  The t and normal quantiles
are left out.  A loop that adds up is a recursive function (`Sums`, `Summaries`), a filter
keeps the places it selects (`Selected`), and a sort is stated by what it returns: the
k-th value of `Ascending` has less than k below it and k up to it.  `Analyses` has one
analysis for each interval the bootstrap may come to.

### ProcessExperiment and BenchMain

The supervisor's `pc` and `i` follow `run_processes_planned`; `manifest`, `file` and `store`
are `experiment.json`, the children's result files and the evidence directory.  A
child measures, saves, and exits by itself, hangs, or is killed at the deadline
(`late`); the program may be rebuilt meanwhile (`Rebuild`), and the supervisor killed.
What a child saves has a placement and perhaps a flaw, which `Confirmable` looks for.
Latencies are logarithms, as whole numbers, and an estimate of their differences is a
fraction of whole numbers: its sum, and the square of its standard error as `spread` over
`over` (`Paired`; `Independent` after Welch).  So the ends of the interval, the mean and
the t quantile times the standard error, or the resolution `Floor` if that is more,
are compared with the margin exactly (`Reaches`, `Clears`, `Classify`).  The code
compares percentages, `100 exp_m1` of the ends; that is monotone, so the margin becomes
two limits on the logarithm, `Margin` above and `Gain` below.  The quantile is what
cannot be computed here: a request carries the values it may take, ten times squared
(`critical`), one for each number of degrees of freedom that its populations can come to.
The resolution is one constant for all arms.  An interval whose ends are no finite
percentages, which the code leaves out of its verdicts, is not modelled.  `SaveBaseline`,
`CompareBaseline` and `Verdict` are `postprocess_result`, in its order.

`BenchMain` follows a command line through `parse_process_args`, `parse_pass_args`,
`BenchmarkPlan::resolve` and `validate` in the parent, through `ChildArgs` and `ChildEnv`
to the child, and through the same functions there.  Options are pairs of name and
value; the confidence is treated as the margin is, and the timeout left out.

### PairPlan, PairExperiment, PairConfirmation

`PairPlan` validates a plan, selects cases, resolves programs and expands every text
before admission (`ExpandAll`), and again at each launch (`LaunchNext`), as `run` and
`invoke` do.  A text is a literal or a placeholder.

An attempt (`PairExperiment`, `pair::run`) has in memory where it is (`step`, `case`, `block`, `order`),
the packet's `rows`, and the rows of the attempt it resumes (`prior`); its directory
holds `journal`, `checkpoint` and `packet`, and `opened` and `published` say whether
plan and packet are there.  `Start`, `Invoke`, `Check`, `Checkpoint` and `Publish`
follow the loop in its order, with the early ends of it: the deadline, a child or
checker that could not be accounted for (`Lose`, the variable `unsafe`), the limit
of observations (`Overflow`), and changed inputs (`Refuse`).  `Stop` is every error
return, panic and kill.  `Load` is what another attempt reads of it, at any time.
A row keeps what the loop and the loaders look at: its slot, its status and, as its
output directory does, whose it was.  `identity` stands for the digests of
programs and inputs, which `Change` replaces at any moment.  The reservation admits
one attempt at a time, as `Admission` proves.  The order of the arms is the
constant `Schedule`, since a resume takes over the retained seed.  A loss of power
is not modelled.

`PairConfirmation` is the inside of one invocation: the supervisor's probes
(`lastAlive`, `exitSeen`), the observer thread with its windows (`watch`, `windows`), the
machine (`foreign`, `burden`), and then the draw of its order, the observations' verdict
and what the blocks' intervals are made into.  `missed` is history.

### FleetRun

`source` is a file, as a version that only grows, and `bundle` what is made of it: the copy,
the manifest with its hash, and the plan.  `step` takes the runner through bundling,
verification, the digest of the manifest and the placement (`Identify`), admission, the
child under its backend and the second child that parses a heap trace, to the packet.
One thing may change at any moment (`MaxChanges`): the source, the placement, a retained
file, a file of the bundle (`Edit`), or the whole bundle with its manifest and its plan
(`Redeploy`); the cancel file may appear and the runner be killed.  `Read` and
`Comparable` are the reader and the diff.

## Runs

| Run | Instance | States | Shows |
|---|---|---|---|
| `admission` | 3 clients, 2 tickets | 158,184 | work never overlaps and is on record; the ticket lock is implemented; every request is answered |
| `commands` | 2 clients and 1 run; 2 self-compares of 2 revisions; 1 task with 2 workers | 1,326,523 | outcomes and answers are true and stay; what is compared was asked for; a nice task is on record while it runs, keeps the launch contract and ends |
| `lock_and_fleet` | 2 processes, 3 changes; 2 attempts of 2 runs, 1 change | 279,484 | readers see the holder's current record and a drop ends; packets tell the truth, a diff compares like with like, runs end |
| `evidence_store` | 2 processes, 4 packets, loss of power | 1,421,634 | no run is left without checkpoint and evidence |
| `pair_experiment` | 2 attempts of 2 cases, 2 blocks, 2 arms; 3 windows; 667 plans | 1,143,531 | what counts was checked, cases are not mixed, nothing is unlearned; load is noticed and acceptance earned; an admitted plan is not refused later |
| `engine` | 3 CPUs, 8 configurations, up to 2 groups and 2 rounds | 1,180,890 | reliable means observed quiet; rounds inside the boundary; nothing leaks, the attempt is kept, a run ends |
| `process_experiment` | up to 3 processes, 8 requests; 2,048 sets of options | 1,341,575 | aggregates are evidence, exit codes and promotions are earned, experiments end; children run the recorded plan |
| `measurement` | 3 threads, 2 iterations; 4 rounds | 476,779 | a sample is its own and ends; significance is earned and reports are what they say |
| `admission_torn` | 2 clients, 2 tickets | counterexample | finding 1 |
| `contended_panics` | 3 threads | counterexample | finding 2 |
| `estimate_cap` | one cost, one target | counterexample | finding 3 |
| `declared_confirm` | 2,048 sets of options | counterexample | finding 4 |

Scenes.  Several instances hold modules that share no state, such as the registry and
a worktree.  A variable `scene`, chosen at the start, says which of them moves; the
others keep their first state, in which nothing is left to choose.  This explores each
of them completely, and the sum of their states instead of the product.

Bounds.  Three clients and two tickets let one client own and one wait behind it,
alive, orphaned or dead, while the third meets the exhausted counter, which stands for
`u64::MAX`; the safety of longer queues is not left to this instance but proved.
Two workers let one outlive the other and one detach; a clock of 3 against a
budget of 2 lets the deadline fall before, at and after the exit.  Two processes
give the lock a holder, its predecessor's files and a refused client, and after a
crash any number of past holders; three changes let each thread write after the
first record.  One child and two clients, a command line and a server, give every
race of reader, waiter, killer and cleaner over one record; the clock stands still,
since an id differs when the second does.  Two self-compares give every race over the
worktree.  Two processes over a store give every race of two writers, or of a writer
and a reader, of one object; four packets are one of each kind and one more
aggregate.  Two attempts are one that is cut off and one that resumes it, or two that
do not wait for each other to plan; two cases let one be taken over and one be run
again, two blocks let one be checkpointed and one not, and one failure (`MaxFailures`)
is an arm that fails or a checker that does.

Limits of the code are scaled: 10,000 windows to 3 (the first, one between, the
limit), 2^64 draws to 8 with 3 arms (8 mod 3 leaves a biased rest, as 2^64 does),
10,000 launches to 48 and 1,000,000 values to 60, 30 gate polls to 1, the thresholds
of automatic rounds to 1 and 2, ten ranks to 3.  A plan has one thing wrong, or at a
limit, of each kind, and an interval is one of each verdict.  Two CPUs of one kind and
one of another give every placement: uniform, mixed, unpublished, and a cpuset that
leaves the observer a CPU or none.  Two changes of the machine let it change and
change back, or two of its parts change.  Three processes are what a confirmation
needs at least; one arm's latency is 0 or 97 and the other's 98, against a margin of 95 upwards and 105
downwards and a resolution of 2, so that means fall on both sides of each limit, on the
edge of the resolution, and near enough for one process to lie beyond; the old baselines are at 0,
97 and -94.  The quantiles are those of 95% with two degrees of freedom (18.5, squared) and
of 80% with four and with two (2.4, 3.6).  Command lines hold up to three
options of 23 and one environment variable of 6: the errors of this code are
combinations of two.  Two iterations give a first and a last, a counter modulo 5 wraps
within a sample, and a ledger of 4 bytes overflows.

Symmetry is used only where no liveness is checked, over processes, attempts and
identities that nothing else tells apart.  Deadlock is checked for `admission`; in
the other runs a process, a command or an experiment comes to its end and stops.

Fairness.  `RequestAnswered` assumes that a live client keeps executing its own
steps and that its clock advances; nothing makes a holder finish, a child exit or
a lock attempt succeed, so the property rests on the timeouts alone.
`EveryNiceEnds` assumes that the command runs, time passes and a killed leader
dies, not that its group empties or the machine becomes quiet.  `DropReleases` assumes that both threads of a
live process run.  `RunsEnd` assumes that the runner of a fleet observation runs and
comes to its deadlines, not that its child exits.  `RunEnds` assumes that coordinator
and sampler run, and nothing of the machine.  `EveryExperimentEnds` assumes the supervisor
and its deadline, not that a child ends.  `EverySampleEnds` assumes that each thread
runs.  Where there are scenes, fairness is that of the scene's steps.

## Findings

1. *A dead waiter can block the queue.*  `docs/cooperative-scheduling.md:73` says a
   dead waiter "can be pruned automatically".  A waiter killed inside `fs::write`
   (`src/coordination.rs:176`) leaves an empty record, and the scan parses records
   before it tries their guards (line 194) and returns the error, so all later
   requests fail until somebody deletes the file.
2. *A panic in a contended benchmark hangs.*  `src/bench.rs:417`: "Participate in both
   barriers on failure so the coordinator can join and abort without deadlocking".
   That holds for a failed pin; when the measured closure panics (line 414) its thread
   never reaches the second barrier, and the coordinator waits there for ever.
3. *The cap of a sample's length is not one.*  `src/engine.rs:1153`: "The 2x cap on
   sample_target keeps fast benchmarks from running 10× the user's chosen sample
   length".  The cap is combined by `max` with the floor for precision that it should
   hold down (line 1158): 40 ns at a target of 1 µs and a timer of 25 ns gives 625
   iterations, 25 µs.
4. *A declared confirmation is explored.*  `src/bench-help.txt:39`: the `-of-processes`
   flags "are exploratory and cannot combine with Confirm".  A suite that declares
   Confirm in its code and is started with `--best-of-processes=N` is explored and
   exits 0: `run_processes` never sees the suite (`src/lib.rs:834`) and sets the
   children's mode itself (line 943).

### Observations

Smaller things met while modelling, with no run of their own.

*Runs and commands.*  Two runs spawned by one process within a second share an id
(`daemon.rs:382`), so that the results which a wait returns may be those of the other
one.  A waiting `run` has no limit on `child.wait()` and exits 0 for a completed run
whose results do not load; `find_latest_with_results` does not look whether there are
results; the server answers one request at a time, so a wait blocks a kill; its compare
tool makes no compatibility check.  Of two self-compares the
second removes the first's worktree, and its exit 1 means an error or a regression,
where `compare` has 2 for errors.

*Evidence.*  A reference may be published to an object that another process has
written and not yet synced (`storage.rs:243`).  An update replaces a baseline that was
promoted after the comparison (`lib.rs:131-158`).  `--update-on-pass` promotes before
the verdict within the suite.  A load failure leaves the manifest "running".

*Pair and fleet.*  A confirmation that reaches the limit of observations with the last
arm of a block publishes the block unchecked (`bin/support/pair.rs:347`).  The packet of a
fleet run is hashed after its reservation is released.  `docs/fleet.md:65` says that the receipt binds the bundle, but the
second verification (`fleet_run.rs:325`) does not compare the manifest with the
`bundle_sha256` that the receipt already holds: after a bundle was redeployed as a whole
under a run the packet is complete and names another bundle than the one that ran.

*Measuring.*  The comment at `gate.rs:313` does not describe `collect_ancestors_with`, which stops at a
process that is excluded already.  The contended clock starts after the wake-up,
unlike `bench.rs:353` says.  `alloc_delta` is `None` for `with_input().run()` and for
contended benchmarks.  A slow first call settles the estimate at one iteration; linear
sampling can run two in cold-start mode; `cold_start_ns` is measured after the warm-up.
The fences take ranks n/4 and 3n/4, so with four rounds no high outlier is dropped;
Spearman's ranks break ties by order (`stats.rs:520`).

*Command lines.*  `--best-of-processes=N --dry-run` starts children that print the plan
and save nothing, so the parent exits 2.  An invalid `ZENBENCH_FORMAT` that `--format`
overrides is accepted by the parent and refused by the children (`lib.rs:876`), and two
`-of-passes` flags under `-of-processes` are refused in the child only; `--no-busy-gate`
with Confirm panics in the child, after admission.

## Proofs

All theorems hold for every value of the constants, from the assumptions that the
modules name, which TLC evaluates on every run.  Those say that bounds are numbers and
special values are not processes, packets or numbers; beyond that:

- a schedule visits every arm (`ScheduleAssumption`), and has as many positions;
- a machine has a boundary, which is a set of its CPUs, not empty; a CPU has at most
  one kind and a kind at most one rank (`EngineAssumption`, `PlacementAssumption`);
- a clock's period is longer than a sample (`MeasurementAssumption`: it is 2^64 ticks);
- there are no more arms than values of a random draw, and intervals have whole ends
  (`ConfirmationAssumption`);
- measurements are whole numbers (`ProcessExperimentAssumption`);
- costs and settings are whole numbers, the fewest iterations no more than the most, and
  a round's times are its iterations times multiples of `Unit` (`AnalysisAssumption`): any
  rationals are, in a unit that is small enough.

*Admission.*  `NoOverlap` is not inductive: it needs to know why a scan that finds
nobody in front may admit.  The invariant `IInv` adds that the critical sections
hold `queue.lock` (`ControlInv`); that ticket numbers are drawn once
(`TicketsInv`); that guards and records follow their live owner (`OwnerInv`); that
children imply a running record (`GroupInv`); that before a running record, or one
about to become running, there is no other (`OrderInv`); and that a scan has
accounted for every lower record it has passed (`ScanInv`), which is where crashes
during a scan matter.  `AdmissionProofs` has one step per action, grouped by phase,
and derives the four invariants.  `Refinement` maps each ticket to the
abstract status `LifeOf` and shows that every step is an abstract step or stutters.

*Supervisor.*  `IInv` says that the launcher retains while anything may run, that an
empty group stays empty, and that no stamp lies in the future.  `LifecycleTheorem`
and `ContractTheorem` follow.

*ExclusiveLock.*  `HolderInv` ties the lock, the two threads and the temp file
together; with it a late heartbeat is seen to belong to the holder, because drop
joins before it unlocks.  `NeverOlderTheorem` is an action property from the same
invariant.

*EvidenceStore.*  `EvidenceKept` must hold through a loss of power, although a
reference alone proves nothing about the disk.  The invariant says
why it does: nobody else can have a run's packet before the run has stored it
(`OwnPacket`), so the run itself creates the object, syncs it and only then retires
its checkpoint (`EvidenceDurable`).  `ReferencesResolve` holds until power is
first lost (`~outage`); it needs that an object has one writer (`Progress`) and never
changes once whole.

*PairExperiment.*  What is read of an attempt without a packet takes completed rows
from the checkpoints only, so it is enough that an attempt checkpoints nothing but
rows of its own, of blocks it has checked (`CheckpointIsChecked`).  That is not
inductive: a case that was taken over might lend rows to the block in hand.
`OwnRows` rules that out: whatever is in memory is the attempt's own or belongs to
an earlier case.  `InterruptedTheorem` follows for any plan and any number of attempts.

*PairExperiment, the cases.*  `CasesNotMixed` is a claim about chains of attempts: a case
may be taken over from an attempt that had taken it over itself.  `MixInv` adds that an
attempt's journal is its own, that rows are never ahead of where the loop stands
(`RowsAreBehind`), that every selected case is of one attempt and identity (`Unmixed`), and
that a case which is not taken over starts from nothing (`Bare`).  A schedule that reaches
all arms reaches each once, because there are as many positions.

*PairConfirmation.*  `LoadIsNoticed` needs `missed` to be empty although the observer thread
may be late at both ends.  `ConfirmInv` follows a sample from the moment it is taken
(`SampleTells`, `WatchedInTime`); a verdict other than a refusal stands only where every
observation was good (`VerdictsObserved`).  `VerdictIsEarned`, the half of `AcceptedIsEarned`
that is about controls, margins and the exit code, follows from the order of the tests.

*PairExperiment, what is learned.*  `NeverUnlearned` compares what is read of an attempt before
and after any step.  While an attempt runs only its checkpoints can be read, later its
packet, and the two are loaded differently.  `RetainInv` says that what is checkpointed is
in memory, one row for a slot; a complete case fills all its slots, by counting
(`EverySlot`), so that rows added to a checkpoint or published in a packet cannot override
or dilute it.

*PairPlan.*  `AdmittedPlanRuns` compares two moments, the admission and each launch, and the
numbering of cells between them.  `PlanInv` says what is valid of a selected plan, what was
resolved, that every cell has been expanded, and that the launches are the first cells in
order; cells and numbers match because dividing twice is dividing by the product
(`CellInCells`, `CellsApart`).  The control has the baseline's program, arguments and
variables (`SameArm`), so their launches differ in their directory only (`LaunchedAlike`).
The assumption on plans (`PlanAssumption`) is that of a file that was parsed: arms and
cases are sequences, arms have their fields.

*PairConfirmation, the order.*  `OrderIsUnbiased` counts the draws that lead to each order, for any
number of arms.  The recursion of the shuffle is followed downwards by `Downwards`, an
induction over an interval, which rests on `LeastNatural` (well-founded induction over
finite sets).  Every order settles the residues it needs (`OneResidue`) and is reached
(`EveryOrder`); to go from one order's draws to another's, shift each draw within its block
of `i` values (`Moved`).  That is an injection, so no order has more ways than another
(`NoMoreWays`).  With `VerdictIsEarned` this is `AcceptedIsEarned`.

*RunRegistry and JobCommands.*  Every save writes back what the client has read, which may
be stale.  `RegistryInv` says that what is stale is still true: a child that a view, a
hand or a record says has ended is dead (`RecordsSound`, `InHand`), and only the client
that launches a run knows its child before the record does (`OnlyLaunchers`).  `NeverRevived`
is a history invariant of the same kind.  `JobsInv` adds where each command is in that
protocol (`Tracks`) and that a record which says completed has results (`CompletedHasSaved`);
`JobsUseTheRegistry` shows that the commands' steps are steps of the registry, so its
theorems hold of them.

*SelfCompare.*  `CompareInv` says of every command that is not `disturbed` what is in the tree at
each stage, what its build has read and what its evidence is of.

*NiceTask* is the supervisor under another name (`NiceSupervisesTheorem`); `NiceInv` adds that a
reservation is held from before the launch and dropped only when nothing is left to
retain it.

*FleetRun.*  A packet is honest because the file and the placement that its receipt names are
compared once the child is gone, and versions only grow: `RunInv` says what each stage of an
observation has established, `AttemptInv` that a directory has one runner.  The file is
compared with the manifest then there, so what ran is the recorded bundle unless that was
replaced as a whole meanwhile; the history member `replaced` is the excuse.

*Engine.*  `QuietInv` carries through the rounds what was seen of the machine, `InsideInv` what
the boundary was and whether it has moved since, `HeldInv` who keeps others out, `MaskInv`
and `SamplerInv` which thread has which mask, `FilesInv` what is on disk.  They hold through
every unwinding and every change of the machine, for any hardware: `Place` is taken only
as far as it certifies a subset of the boundary.

*Measurement.*  `PhaseIsExact` looks at one number that any thread may move.  The invariant
`Exact` says that the ledger is the heap but for the request in flight of the thread
that holds the lock (`LockOK`).  `Times` and `Allocations` account, at each place of a sample,
for what setup, calls and teardown have used of clock and counts so far; modular
arithmetic enters only where a difference is taken.

*Analysis.*  The invariant, `AnalysisInv`, is short: an analysis is one of the rounds it was made
of, an estimate fits as soon as there is one, the comparisons are `Listed` of some arms.
The work is in what the definitions compute.  Induction over an interval comes from the
least element of a set of naturals (`Upwards`), stated of a set and not of an operator, and
with it what `Sums`, `Summaries` and `Ascending` compute.

- `MomentsAgree`: a push keeps n times the mean equal to the sum, and m2 plus the sum times
  the mean equal to the sum of squares (`SummaryStep`, Welford's identity); divisions come
  out even by the assumption on `Unit`.
- `RanksAgree`: a value's doubled rank is one more than the number below it and the number
  up to it; summing the table of who is below whom by rows and by columns gives n (n + 1).
- `DriftAgrees`: the squares of the distances of a ranking from the first order and from the
  reverse one add up to a third of n (n^2 - 1) (`MissAndMirror`), so rho stays in its
  range; only one ranking sorts values that grow.
- `EveryPairOnce`: one-to-one maps between the listed pairs, the pairs that rise, and half of
  all.
- `SampleFits`: what each bound on the iterations asks for, times the cost of one, stays
  below the largest of the limits; the excuses are a single iteration and the setting
  `fewest`, which may force more.
- `SignificanceIsEarned`: bounds of the bootstrap lie between the extreme differences, and the
  median of the iterations is reached by half of the rounds.  An interval that is beyond
  the noise on one side therefore has a kept round there; of the sign of the mean it tells
  nothing, since the resamples of the bootstrap are not modelled.  The fences keep what lies
  between the quartiles' ranks, which is more than half (`KeptIs`).

*ProcessExperiment.*  `ExperimentInv` says which attempts are through and that what is loaded
is what their children saved (`Attempted`), what the manifest may name (`Recorded`), what
the aggregate is of (`Combined`) and which baseline it was compared with (`Compared`).  What
remains is arithmetic: a verdict speaks of an interval of means, the properties of the
processes.  `ClassifyTells` turns a verdict into an inequality between the distance of the
mean from the margin and the spread; `FarIsRare` is Cantelli's inequality for a finite
sequence, in whole numbers, proved with the sums of an affine image (`AffineTotals`), and
bounds the processes on the other side (`FewRemain`).  A t interval is narrower than the
range of the processes, so one that saw more than the margin does not refute the verdict:
of five processes at 95% one may, and of three at 80%, which the instance has.

*BenchMain.*  `MainInv` says what a child is started with, as a function of its parent
(`IsStarted`), and how far it is in the plan it resolves from that (`ChildState`).  The proof
failed at first, for a suite that declares no rounds: a program that repeats itself does
not look at the suite's plan, so it starts children, and those refuse it.  TLC confirms
it, the instance has that suite now, and the property names the excuse.

The invariants proved inductive, and the theorems `LiveTicketGuarded`,
`LiveWaiterKeepsTicket`, `OnlyHolderWrites`, `NeverOlder`, `VersionsRemain`,
`ReferenceResolves` and `VerdictIsEarned`, need no run: the proof covers every instance.

Only model-checked are the liveness properties, which rest on fairness and ENABLED, out of
this prover's reach.  The library's theorems of induction take an operator, which no
backend can instantiate; where a proof needs induction it uses a set or a function.

## Not modelled

- Rendering: `report.rs`, `html.rs`, `charts.rs`, `quickchart.rs`, `ci.rs`, `format.rs`.  It
  keeps no state and decides nothing.
- The values of the t quantile, the normal approximation and the bootstrap, which are
  real numbers: the quantile is a constant, a bootstrap bound any sum between the extremes.
- The Windows and macOS branches (job object, topology, affinity) and the probes of
  the operating system, whose results enter as the machine's state.
- The waiting variants of the gate that the engine does not call (`brief_wait`,
  `wait_for_clear`), the host's calibration, the cache firewall, and the criterion
  facade, which is the same engine under other names.
- The extraction of a metric from a program's output (`pair/metric.rs`), and commands that
  only read and print files.
- The WASM harness: the measuring loop without clocks, threads or files.
