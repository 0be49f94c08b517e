------------------------------ MODULE Measurement ------------------------------
(***************************************************************************)
(* One sample of one benchmark inside one heap phase: the Bencher and the  *)
(* contended and parallel benchmarks of src/src/bench.rs, the counters of  *)
(* timing.rs, the thread-local profiler of alloc.rs and the process-wide   *)
(* ledger of heap.rs.  Setup, call and teardown of an iteration take one   *)
(* tick each; other threads allocate meanwhile.                            *)
(***************************************************************************)
EXTENDS Integers, FiniteSets

CONSTANTS
  Main,         \* the thread that samples
  Worker,       \* the other threads
  Form,         \* iter, deferred, input (with_input().run()), contended
  Profiler,     \* which global allocator: "heap" or "thread"
  Iterations,   \* per sample
  Wrap,         \* the hardware counter is one modulo Wrap
  MaxBytes,     \* the largest count of the ledger
  None

ASSUME MeasurementAssumption ==
  /\ Main \notin Worker /\ Iterations \in Nat \ {0}
  /\ Form \subseteq {"iter", "deferred", "input", "contended"}
  /\ Profiler \subseteq {"heap", "thread"}
  /\ Wrap \in Nat /\ Wrap > 2 * Iterations \* 2^64: no sample is longer
  /\ MaxBytes \in Nat
  /\ None \notin {Main} \cup Worker /\ None \notin Int
  /\ None \notin [live : Int, requested : Int]
  /\ None \notin [entry : Int, peak : Int, exit : Int]

Thread == {Main} \cup Worker

VARIABLES
  form, profiler,               \* what is sampled, under which allocator
  pc, back, op,                 \* threads, and their pending allocation
  k, held,                      \* iterations done, bytes held
  arrived, generation,          \* the barrier
  pinned,                       \* whether a worker could be pinned
  clock, start, elapsed,        \* hardware counter, and the bencher's times
  lock, ledger, phase,          \* heap.rs: the spin lock and what it guards
  measured,                     \* what the phase returned
  count, before, delta,         \* alloc.rs: counters, snapshot, its delta
  heap, truth, inside           \* what really happened

config  == <<form, profiler>>
control == <<pc, back, op, k, pinned>>
barrier == <<arrived, generation>>
timing  == <<clock, start, elapsed>>
ledgers == <<lock, ledger, phase, measured>>
counts  == <<count, before, delta>>
vars == <<config, control, held, barrier, timing, ledgers, counts, heap, truth,
          inside>>

Larger(a, b) == IF a > b THEN a ELSE b

Init ==
  /\ form \in Form /\ profiler \in Profiler
  /\ pc = [t \in Thread |-> IF t = Main THEN "begin" ELSE "unborn"]
  /\ back = [t \in Thread |-> None] /\ op = [t \in Thread |-> None]
  /\ k = [t \in Thread |-> 0] /\ held = [t \in Thread |-> 0]
  /\ arrived = {} /\ generation = 0
  /\ pinned = [w \in Worker |-> TRUE]
  /\ clock \in 0 .. Wrap - 1 /\ start = None /\ elapsed = 0
  /\ lock = None
  /\ ledger = [live |-> 0, peak |-> 0, requested |-> 0, valid |-> TRUE]
  /\ phase = None /\ measured = None
  /\ count = [t \in Thread |-> 0] /\ before = 0 /\ delta = None
  /\ heap = 0 /\ truth = None /\ inside = [ticks |-> 0, allocs |-> 0]

Goto(t, l) == pc' = [pc EXCEPT ![t] = l]
Tick == clock' = (clock + 1) % Wrap

(***************************************************************************)
(* Allocation.  An operation takes the bytes of the thread from `old` to   *)
(* `new`: alloc from 0, dealloc to 0, realloc the others.                  *)
(***************************************************************************)

Allocate(t, old, new, then) ==
  /\ op' = [op EXCEPT ![t] = [old |-> old, new |-> new, ok |-> FALSE]]
  /\ back' = [back EXCEPT ![t] = then] /\ Goto(t, "acquire")

\* The thread-local profiler takes no lock.
Acquire(t) ==
  /\ pc[t] = "acquire" /\ Goto(t, "system")
  /\ \/ profiler = "heap" /\ lock = None /\ lock' = t
     \/ profiler = "thread" /\ UNCHANGED lock
  /\ UNCHANGED <<config, back, op, k, pinned, held, barrier, timing, ledger, phase,
                 measured, counts, heap, truth, inside>>

Served(t) ==
  /\ pc[t] = "system" /\ Goto(t, "account")
  /\ \E ok \in IF op[t].new > op[t].old THEN BOOLEAN ELSE {TRUE} :
       LET grown == IF ok THEN op[t].new - op[t].old ELSE 0 IN
       /\ op' = [op EXCEPT ![t].ok = ok]
       /\ held' = [held EXCEPT ![t] = @ + grown]
       /\ heap' = heap + grown
       /\ truth' = IF truth = None \/ measured # None THEN truth
                   ELSE [truth EXCEPT !.peak = Larger(@, heap')]

SystemUnguarded(t) ==
  /\ Served(t) /\ lock' = IF lock = t THEN None ELSE lock
  /\ UNCHANGED <<config, back, k, pinned, barrier, timing, ledger, phase, measured,
                 counts, inside>>

\* A request to grow may fail, and leaves what there was.
System(t) ==
  /\ Served(t)
  /\ UNCHANGED <<config, back, k, pinned, barrier, timing, ledgers, counts, inside>>

\* `transition` and `add`, with checked arithmetic; an error poisons the ledger.
Transition(o) ==
  LET live == ledger.live - o.old + o.new
      requested == ledger.requested + o.new
  IN IF live < 0 \/ live > MaxBytes \/ requested > MaxBytes
     THEN [ledger EXCEPT !.valid = FALSE]
     ELSE [live |-> live, peak |-> Larger(ledger.peak, live),
           requested |-> requested, valid |-> ledger.valid]

Account(t) ==
  /\ pc[t] = "account" /\ Goto(t, back[t])
  /\ \/ /\ profiler = "heap"
        /\ lock' = IF lock = t THEN None ELSE lock
        /\ ledger' = IF op[t].ok THEN Transition(op[t]) ELSE ledger
        /\ UNCHANGED count
     \/ /\ profiler = "thread"
        /\ count' = [count EXCEPT ![t] =
                       IF op[t].ok /\ op[t].new > op[t].old THEN @ + 1 ELSE @]
        /\ UNCHANGED <<lock, ledger>>
  /\ inside' = IF t = Main /\ start # None /\ op[t].ok /\ op[t].new > op[t].old
               THEN [inside EXCEPT !.allocs = @ + 1] ELSE inside
  /\ op' = [op EXCEPT ![t] = None] /\ back' = [back EXCEPT ![t] = None]
  /\ UNCHANGED <<config, k, pinned, held, barrier, timing, phase, measured, before,
                 delta, heap, truth>>

(***************************************************************************)
(* Heap phases.  Begin and finish hold the lock from their first to their  *)
(* last access.  Only one phase can be active.                             *)
(***************************************************************************)

Begin ==
  /\ pc[Main] = "begin" /\ Goto(Main, "sample")
  /\ \/ /\ profiler = "heap" /\ lock = None /\ ledger.valid /\ phase = None
        /\ phase' = [live |-> ledger.live, requested |-> ledger.requested]
        /\ ledger' = [ledger EXCEPT !.peak = ledger.live]
        /\ truth' = [entry |-> heap, peak |-> heap, exit |-> heap]
     \/ profiler = "thread" /\ UNCHANGED <<phase, ledger, truth>>
  /\ UNCHANGED <<config, back, op, k, pinned, held, barrier, timing, lock, measured,
                 counts, heap, inside>>

Finish ==
  /\ pc[Main] = "finish" /\ Goto(Main, "done")
  /\ \/ /\ profiler = "heap" /\ lock = None /\ phase' = None
        /\ \/ /\ ledger.valid
              /\ measured' = [entry |-> phase.live, peak |-> ledger.peak,
                              exit |-> ledger.live]
              /\ truth' = [truth EXCEPT !.exit = heap]
           \/ ~ledger.valid /\ UNCHANGED <<measured, truth>>
     \/ profiler = "thread" /\ UNCHANGED <<phase, measured, truth>>
  /\ UNCHANGED <<config, back, op, k, pinned, held, barrier, timing, lock, ledger,
                 counts, heap, inside>>

(***************************************************************************)
(* The Bencher's loops.                                                    *)
(***************************************************************************)

\* A loop is timed as a whole, or call by call when every call has its input.
Sample ==
  /\ pc[Main] = "sample"
  /\ pc' = IF form = "contended"
           THEN [t \in Thread |-> IF t = Main THEN "enter" ELSE "pin"]
           ELSE [t \in Thread |-> IF t = Main
                   THEN IF form = "input" THEN "setup" ELSE "start" ELSE "other"]
  /\ UNCHANGED <<config, back, op, k, pinned, held, barrier, timing, ledgers, counts,
                 heap, truth, inside>>

Setup ==
  /\ pc[Main] = "setup" /\ Goto(Main, "start") /\ Tick
  /\ UNCHANGED <<config, back, op, k, pinned, held, barrier, start, elapsed, ledgers,
                 counts, heap, truth, inside>>

Start ==
  /\ pc[Main] = "start" /\ Goto(Main, "call")
  /\ start' = clock /\ before' = count[Main]
  /\ UNCHANGED <<config, back, op, k, pinned, held, barrier, clock, elapsed, ledgers,
                 count, delta, heap, truth, inside>>

\* After a call `iter` drops its output; the others stop the clock first.
Call ==
  /\ pc[Main] = "call" /\ Tick
  /\ inside' = [inside EXCEPT !.ticks = @ + 1]
  /\ k' = [k EXCEPT ![Main] = @ + 1]
  /\ \E grow \in {1} \cup (IF held[Main] > 0 THEN {held[Main] + 1} ELSE {}) :
       Allocate(Main, IF grow = 1 THEN 0 ELSE held[Main], grow,
                IF form = "iter" THEN "drop"
                ELSE IF form = "deferred" /\ k'[Main] < Iterations THEN "call" ELSE "stop")
  /\ UNCHANGED <<config, pinned, held, barrier, start, elapsed, ledgers, counts, heap,
                 truth>>

\* Teardown: of one output inside the loop of `iter`, else of what is kept.
Drop ==
  /\ pc[Main] = "drop" /\ Tick
  /\ inside' = IF start # None THEN [inside EXCEPT !.ticks = @ + 1] ELSE inside
  /\ LET more == k[Main] < Iterations
         next == IF form = "iter" THEN IF more THEN "call" ELSE "stop"
                 ELSE IF form = "input" /\ more THEN "setup" ELSE "finish"
     IN Allocate(Main, held[Main], 0, next)
  /\ UNCHANGED <<config, k, pinned, held, barrier, start, elapsed, ledgers, counts,
                 heap, truth>>

StopSaturating ==
  /\ pc[Main] = "stop"
  /\ elapsed' = elapsed + (IF clock >= start THEN clock - start ELSE 0)
  /\ start' = None
  /\ delta' = IF form = "input" THEN None ELSE count[Main] - before
  /\ Goto(Main, IF form = "iter" THEN "finish" ELSE "drop")
  /\ UNCHANGED <<config, back, op, k, pinned, held, barrier, clock, ledgers, count,
                 before, heap, truth, inside>>

\* The counter may have wrapped; the difference wraps too.
Stop ==
  /\ pc[Main] = "stop"
  /\ elapsed' = elapsed + ((clock - start) % Wrap)
  /\ start' = None
  /\ delta' = IF form = "input" THEN None ELSE count[Main] - before
  /\ Goto(Main, IF form = "iter" THEN "finish" ELSE "drop")
  /\ UNCHANGED <<config, back, op, k, pinned, held, barrier, clock, ledgers, count,
                 before, heap, truth, inside>>

\* A thread that the benchmark does not manage, such as a pool's.
Other(w) ==
  /\ pc[w] = "other" /\ k[w] < Iterations
  /\ k' = [k EXCEPT ![w] = @ + 1]
  /\ Allocate(w, held[w], 1 - held[w], "other")
  /\ UNCHANGED <<config, pinned, held, barrier, timing, ledgers, counts, heap, truth,
                 inside>>

(***************************************************************************)
(* Contended and parallel benchmarks: two rounds of one barrier.           *)
(***************************************************************************)

\* The last to arrive opens the barrier; the others see the new generation.
Arrive(t, then) ==
  /\ Goto(t, then)
  /\ IF arrived \cup {t} = Thread
     THEN arrived' = {} /\ generation' = generation + 1
     ELSE arrived' = arrived \cup {t} /\ UNCHANGED generation

PinOrLeave(w) ==
  /\ pc[w] = "pin"
  /\ \E ok \in BOOLEAN : /\ pinned' = [pinned EXCEPT ![w] = ok]
                         /\ Goto(w, IF ok THEN "enter" ELSE "panicked")
  /\ UNCHANGED <<config, back, op, k, held, barrier, timing, ledgers, counts, heap,
                 truth, inside>>

Pin(w) ==
  /\ pc[w] = "pin" /\ Goto(w, "enter")
  /\ \E ok \in BOOLEAN : pinned' = [pinned EXCEPT ![w] = ok]
  /\ UNCHANGED <<config, back, op, k, held, barrier, timing, ledgers, counts, heap,
                 truth, inside>>

Enter(t) ==
  /\ pc[t] = "enter" /\ Arrive(t, "opening")
  /\ UNCHANGED <<config, back, op, k, pinned, held, timing, ledgers, counts, heap,
                 truth, inside>>

\* Released, the coordinator starts its clock: the workers need not wait for it.
Opened(t) ==
  /\ pc[t] = "opening" /\ generation >= 1
  /\ Goto(t, IF t # Main /\ pinned[t] THEN "work" ELSE "leave")
  /\ start' = IF t = Main THEN inside.ticks ELSE start
  /\ UNCHANGED <<config, back, op, k, pinned, held, barrier, clock, elapsed, ledgers,
                 counts, heap, truth, inside>>

Work(w) ==
  /\ pc[w] = "work"
  /\ \/ /\ k[w] < Iterations /\ k' = [k EXCEPT ![w] = @ + 1]
        /\ inside' = [inside EXCEPT !.ticks = @ + 1]
        /\ Allocate(w, held[w], 1 - held[w], "work")
     \/ /\ k[w] = Iterations /\ Goto(w, "leave") /\ UNCHANGED <<op, back, k, inside>>
  /\ UNCHANGED <<config, pinned, held, barrier, timing, ledgers, counts, heap, truth>>

\* A worker that could not be pinned takes part in both rounds, then panics.
LeaveBarrier(t) ==
  /\ pc[t] = "leave" /\ Arrive(t, "closing")
  /\ UNCHANGED <<config, back, op, k, pinned, held, timing, ledgers, counts, heap,
                 truth, inside>>

Closed(t) ==
  /\ pc[t] = "closing" /\ generation = 2
  /\ Goto(t, IF t = Main THEN "join" ELSE IF pinned[t] THEN "exited" ELSE "panicked")
  /\ elapsed' = IF t = Main THEN inside.ticks - start ELSE elapsed
  /\ UNCHANGED <<config, back, op, k, pinned, held, barrier, clock, start, ledgers,
                 counts, heap, truth, inside>>

\* A panic of a worker is the coordinator's, whose phase ends without a result.
Join ==
  /\ pc[Main] = "join" /\ \A w \in Worker : pc[w] \in {"exited", "panicked"}
  /\ \/ /\ \A w \in Worker : pc[w] = "exited"
        /\ Goto(Main, "finish") /\ UNCHANGED phase
     \/ /\ \E w \in Worker : pc[w] = "panicked"
        /\ Goto(Main, "aborted") /\ phase' = None
  /\ UNCHANGED <<config, back, op, k, pinned, held, barrier, timing, lock, ledger,
                 measured, counts, heap, truth, inside>>

-----------------------------------------------------------------------------
Coordinator == Begin \/ Sample \/ Setup \/ Start \/ Call \/ Drop \/ Stop \/ Join \/ Finish

Thr(t) ==
  \/ Acquire(t) \/ System(t) \/ Account(t)
  \/ Enter(t) \/ Opened(t) \/ LeaveBarrier(t) \/ Closed(t)
  \/ t = Main /\ Coordinator
  \/ t \in Worker /\ (Pin(t) \/ Work(t))

Next == \E t \in Thread : Thr(t) \/ (t \in Worker /\ Other(t))

\* Threads are scheduled.  The spin lock need not be fair: what contends with a
\* sample allocates finitely often.
Fairness == \A t \in Thread : WF_vars(Thr(t))
Spec == Init /\ [][Next]_vars /\ Fairness

\* The benchmark's own closure may panic in a worker, which unwinds past the
\* second barrier.
WorkPanics(w) ==
  /\ pc[w] = "work" /\ Goto(w, "panicked")
  /\ UNCHANGED <<config, back, op, k, pinned, held, barrier, timing, ledgers, counts,
                 heap, truth, inside>>

SpecPanics == Init /\ [][Next \/ \E w \in Worker : WorkPanics(w)]_vars /\ Fairness

(***************************************************************************)
(* Properties.                                                             *)
(***************************************************************************)

Sampled == pc[Main] \in {"finish", "done"}

\* What a sample reports is its own: the time of its calls, with teardown only
\* where `iter` promises it and never with setup, across a wrap of the counter;
\* and the allocations of the sampling thread in that time, whatever other
\* threads allocate.  A contended sample reports no more than its workers did.
SampleIsOwn ==
  Sampled =>
    /\ form # "contended" => elapsed = Iterations * (IF form = "iter" THEN 2 ELSE 1)
    /\ form = "contended" => elapsed <= inside.ticks
    /\ profiler = "thread" /\ delta # None => delta = inside.allocs

\* What a heap phase returns is the truth of the process: the live bytes at
\* its boundaries and the highest in between, however allocations of several
\* threads interleave; an overflow leaves no measurement rather than a wrong one.
PhaseIsExact ==
  measured # None => measured = truth

\* A sample ends, also when workers cannot be pinned: everybody passes both
\* rounds of the barrier and no one spins for ever.
SampleEnds == <>(pc[Main] \in {"done", "aborted"})

\* A sample that failed in a worker ends too: the coordinator joins the workers
\* and aborts, and no thread is left waiting at the barrier.
FailureIsJoined ==
  \A w \in Worker : pc[w] = "panicked" ~> pc[Main] \in {"done", "aborted"}
=============================================================================
