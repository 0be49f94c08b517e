--------------------------- MODULE MeasurementProofs ---------------------------
(***************************************************************************)
(* That a sample's times and allocations are its own, and that what a heap *)
(* phase returns is the truth of the process, for every number of threads, *)
(* iterations and bytes.  And, of what is made of the samples, for every   *)
(* number of rounds, arms and settings: that a significant verdict is      *)
(* earned, and that the statistics reported are those of their definition. *)
(***************************************************************************)
EXTENDS Measurement, Analysis, FiniteSetTheorems, SequenceTheorems, TLAPS

-----------------------------------------------------------------------------
(* Where the threads are.  A thread with a pending allocation is where it  *)
(* will go on.                                                             *)

Pending == {"acquire", "system", "account"}
Single  == {"begin", "sample", "setup", "start", "call", "drop", "stop", "finish", "done"}
Meeting == {"begin", "sample", "enter", "opening", "leave", "closing", "join", "finish", "done",
            "aborted"}
Working == {"unborn", "pin", "enter", "opening", "work", "leave", "closing", "exited", "panicked"}

Resume  == {"call", "drop", "stop", "setup", "finish", "work", "other"}
Places  == Single \cup Meeting \cup Working \cup Pending \cup {"other"}

At(t) == IF pc[t] \in Pending THEN back[t] ELSE pc[t]

Request == [old : Int, new : Int, ok : BOOLEAN]

\* The threads' types: a pending allocation knows where its thread goes on.
ControlOK ==
  /\ form \in {"iter", "deferred", "input", "contended"} /\ profiler \in {"heap", "thread"}
  /\ pc \in [Thread -> Places] /\ back \in [Thread -> Resume \cup {None}]
  /\ op \in [Thread -> Request \cup {None}]
  /\ \A t \in Thread : pc[t] \in Pending => back[t] \in Resume /\ op[t] \in Request

\* The places of a sample with a barrier and of one without are different ones.
PlaceOK ==
  /\ IF form = "contended"
     THEN pc[Main] \in Meeting /\ \A w \in Worker : At(w) \in Working
     ELSE At(Main) \in Single /\ \A w \in Worker : At(w) \in {"unborn", "other"}
  /\ pc[Main] \in {"begin", "sample"} => \A w \in Worker : pc[w] = "unborn"

\* The types of what the threads count.
DataOK ==
  /\ held \in [Thread -> Int] /\ k \in [Thread -> Int] /\ count \in [Thread -> Int]
  /\ heap \in Int /\ clock \in 0 .. Wrap - 1
  /\ inside \in [ticks : Nat, allocs : Nat]

\* The types of what the spin lock guards.
LedgerOK ==
  /\ ledger \in [live : Int, peak : Int, requested : Int, valid : BOOLEAN]
  /\ phase \in [live : Int, requested : Int] \cup {None}
  /\ truth \in [entry : Int, peak : Int, exit : Int] \cup {None}
  /\ measured \in [entry : Int, peak : Int, exit : Int] \cup {None}
  /\ lock \in Thread \cup {None}

-----------------------------------------------------------------------------
(* What the ledger says.                                                   *)

\* A thread is served by the system allocator, or what it got is not accounted
\* for yet: the spin lock is its own.
Inside(t) == pc[t] \in {"system", "account"}
InFlight == lock # None /\ pc[lock] = "account" /\ op[lock].ok

LockOK ==
  IF profiler = "heap" THEN \A t \in Thread : Inside(t) <=> lock = t ELSE lock = None

\* The phase is active between its boundaries, and measured after them only.
PhaseOK ==
  /\ pc[Main] # "done" => measured = None
  /\ profiler = "thread" => measured = None /\ phase = None
  /\ pc[Main] \in {"begin", "done", "aborted"} => phase = None
  /\ profiler = "heap" /\ pc[Main] \notin {"begin", "done", "aborted"} => phase # None
  /\ phase # None => truth # None

\* The ledger is behind the heap by the allocation in flight, and by no more.
Exact ==
  profiler = "heap" /\ ledger.valid =>
    /\ heap = IF InFlight THEN ledger.live - op[lock].old + op[lock].new ELSE ledger.live
    /\ phase # None =>
         /\ ledger.live <= ledger.peak /\ truth.entry = phase.live
         /\ truth.peak = IF InFlight THEN Larger(ledger.peak, heap) ELSE ledger.peak

-----------------------------------------------------------------------------
(* What each place of a sample has used of the clock, by its n iterations.  *)

\* So many ticks have passed since the start; the counter may have wrapped.
Elapses(n) ==
  start \in 0 .. Wrap - 1 /\ (clock = start + n \/ clock = start + n - Wrap)

IterTimes(p, n) ==
  /\ p \in {"begin", "sample", "start"} => n = 0 /\ elapsed = 0 /\ start = None
  /\ p = "call" => n \in 0 .. Iterations - 1 /\ elapsed = 0 /\ Elapses(2 * n)
  /\ p = "drop" => n \in 1 .. Iterations /\ elapsed = 0 /\ Elapses(2 * n - 1)
  /\ p = "stop" => elapsed = 0 /\ Elapses(2 * Iterations)
  /\ p \in {"finish", "done"} => elapsed = 2 * Iterations /\ start = None
  /\ p # "setup"

DeferredTimes(p, n) ==
  /\ p \in {"begin", "sample", "start"} => n = 0 /\ elapsed = 0 /\ start = None
  /\ p = "call" => n \in 0 .. Iterations - 1 /\ elapsed = 0 /\ Elapses(n)
  /\ p = "stop" => elapsed = 0 /\ Elapses(Iterations)
  /\ p \in {"drop", "finish", "done"} => elapsed = Iterations /\ start = None
  /\ p # "setup"

InputTimes(p, n) ==
  /\ p \in {"begin", "sample"} => n = 0 /\ elapsed = 0
  /\ p \in {"setup", "start"} => n \in 0 .. Iterations - 1 /\ elapsed = n
  /\ p = "call" => n \in 0 .. Iterations - 1 /\ elapsed = n /\ Elapses(0)
  /\ p = "stop" => n \in 1 .. Iterations /\ elapsed = n - 1 /\ Elapses(1)
  /\ p = "drop" => n \in 1 .. Iterations /\ elapsed = n
  /\ p \in {"finish", "done"} => elapsed = Iterations

\* With a barrier, the start is a reading of what the workers did so far.
MeetingTimes(p) ==
  /\ elapsed \in Int /\ elapsed <= inside.ticks
  /\ p \in {"leave", "closing"} => start \in Nat

Times ==
  /\ form = "iter" => IterTimes(At(Main), k[Main])
  /\ form = "deferred" => DeferredTimes(At(Main), k[Main])
  /\ form = "input" => InputTimes(At(Main), k[Main])
  /\ form = "contended" => MeetingTimes(pc[Main])

\* While the clock runs, the thread's count is the snapshot and what it
\* allocated since; afterwards the delta is that.
Allocations ==
  profiler = "thread" =>
    /\ form \in {"input", "contended"} => delta = None
    /\ form \in {"iter", "deferred"} =>
         /\ At(Main) \in {"begin", "sample", "start"} => inside.allocs = 0 /\ delta = None
         /\ start # None => before \in Int /\ count[Main] = before + inside.allocs
         /\ At(Main) \in {"finish", "done"} => delta = inside.allocs
         /\ form = "deferred" /\ At(Main) = "drop" => delta = inside.allocs

MeasurementInv ==
  /\ ControlOK /\ PlaceOK /\ DataOK /\ LedgerOK /\ LockOK /\ PhaseOK /\ Exact
  /\ PhaseIsExact /\ Times /\ Allocations

-----------------------------------------------------------------------------
(* Where the threads go.                                                   *)

\* A thread that goes to where it has no allocation keeps the types.
LEMMA GotoControl ==
  ASSUME ControlOK, NEW t \in Thread, NEW l \in Places \ Pending, Goto(t, l), UNCHANGED config,
         UNCHANGED back, UNCHANGED op
  PROVE  ControlOK'
  BY DEF ControlOK, Goto, config

\* So does one that asks for an allocation.
LEMMA AllocateControl ==
  ASSUME ControlOK, NEW t \in Thread, NEW old \in Int, NEW new \in Int, NEW then \in Resume,
         Allocate(t, old, new, then), UNCHANGED config
  PROVE  ControlOK'
<1>1. [old |-> old, new |-> new, ok |-> FALSE] \in Request  BY DEF Request
<1> DEFINE r == [old |-> old, new |-> new, ok |-> FALSE]
<1>2. op' = [op EXCEPT ![t] = r] /\ back' = [back EXCEPT ![t] = then]
      /\ pc' = [pc EXCEPT ![t] = "acquire"]
  BY DEF Allocate, Goto
<1>3. "acquire" \in Places /\ "acquire" \in Pending  BY DEF Places, Pending
<1>4. r \in Request  BY <1>1
<1> HIDE DEF r
<1> QED  BY <1>2, <1>3, <1>4 DEF ControlOK, config

\* The main thread is none of the workers.
LEMMA Threads == Main \in Thread /\ Worker \subseteq Thread /\ Main \notin Worker
                 /\ \A t \in Thread : t = Main \/ t \in Worker
  BY MeasurementAssumption DEF Thread

\* Every step keeps the threads' types.
LEMMA ControlStep ==
  ASSUME ControlOK, DataOK, NEW t \in Thread, Thr(t) \/ (t \in Worker /\ Other(t))
  PROVE  ControlOK'
<1> USE Threads
<1>1. CASE Acquire(t)
  <2>1. pc' = [pc EXCEPT ![t] = "system"] /\ UNCHANGED <<form, profiler, back, op>> /\ pc[t] = "acquire"
    BY <1>1 DEF Acquire, Goto, config
  <2> QED  BY <2>1 DEF ControlOK, Places, Pending
<1>2. CASE System(t)
  <2>1. PICK ok \in BOOLEAN : op' = [op EXCEPT ![t].ok = ok]
    BY <1>2 DEF System, Served
  <2>2. pc' = [pc EXCEPT ![t] = "account"] /\ UNCHANGED <<form, profiler, back>> /\ pc[t] = "system"
    BY <1>2 DEF System, Served, Goto, config
  <2>3. op[t] \in Request  BY <2>2 DEF ControlOK, Pending
  <2>4. [op[t] EXCEPT !.ok = ok] \in Request  BY <2>3 DEF Request
  <2>5. op' = [op EXCEPT ![t] = [op[t] EXCEPT !.ok = ok]]  BY <2>1
  <2> DEFINE r == [op[t] EXCEPT !.ok = ok]
  <2>6. r \in Request /\ op' = [op EXCEPT ![t] = r]  BY <2>4, <2>5
  <2> HIDE DEF r
  <2> QED  BY <2>2, <2>6 DEF ControlOK, Places, Pending
<1>3. CASE Account(t)
  <2>1. /\ pc' = [pc EXCEPT ![t] = back[t]] /\ back' = [back EXCEPT ![t] = None]
        /\ op' = [op EXCEPT ![t] = None] /\ UNCHANGED <<form, profiler>> /\ pc[t] = "account"
    BY <1>3 DEF Account, Goto, config
  <2>2. back[t] \in Places \ Pending
    BY <2>1 DEF ControlOK, Places, Pending, Resume, Single, Meeting, Working
  <2> QED  BY <2>1, <2>2 DEF ControlOK
<1>4. CASE Begin \/ Setup \/ Start \/ Stop \/ Join \/ Finish
  <2>1. PICK l \in {"sample", "start", "call", "finish", "drop", "aborted", "done"} : Goto(Main, l)
    BY <1>4, Zenon DEF Begin, Setup, Start, Stop, Join, Finish
  <2>2. l \in Places \ Pending  BY DEF Places, Pending, Single, Meeting
  <2>3. UNCHANGED <<config, back, op>>
    BY <1>4, Zenon DEF Begin, Setup, Start, Stop, Join, Finish
  <2> QED  BY <2>1, <2>2, <2>3, GotoControl
<1>5. CASE Sample
  <2>1. /\ UNCHANGED <<form, profiler, back, op>> /\ pc' \in [Thread -> Places \ Pending]
    BY <1>5 DEF Sample, config, Places, Pending, Single, Meeting, Working
  <2> QED  BY <2>1 DEF ControlOK
<1>6. CASE Call
  <2>1. PICK grow \in {1} \cup (IF held[Main] > 0 THEN {held[Main] + 1} ELSE {}),
             then \in {"drop", "call", "stop"} :
          Allocate(Main, IF grow = 1 THEN 0 ELSE held[Main], grow, then)
    BY <1>6 DEF Call
  <2>2. held[Main] \in Int /\ then \in Resume  BY DEF DataOK, Resume
  <2>3. UNCHANGED config  BY <1>6 DEF Call
  <2> QED  BY <2>1, <2>2, <2>3, AllocateControl
<1>7. CASE Drop
  <2>1. PICK then \in {"call", "stop", "setup", "finish"} : Allocate(Main, held[Main], 0, then)
    BY <1>7 DEF Drop
  <2>2. held[Main] \in Int /\ then \in Resume  BY DEF DataOK, Resume
  <2>3. UNCHANGED config  BY <1>7 DEF Drop
  <2> QED  BY <2>1, <2>2, <2>3, AllocateControl
<1>8. CASE Enter(t) \/ Opened(t) \/ LeaveBarrier(t) \/ Closed(t) \/ (t \in Worker /\ Pin(t))
  <2>1. PICK l \in {"opening", "work", "leave", "closing", "join", "exited", "panicked", "enter"} :
          Goto(t, l)
    BY <1>8, Zenon DEF Enter, Opened, LeaveBarrier, Closed, Pin, Arrive
  <2>2. l \in Places \ Pending  BY DEF Places, Pending, Working, Meeting
  <2>3. UNCHANGED <<config, back, op>>
    BY <1>8, Zenon DEF Enter, Opened, LeaveBarrier, Closed, Pin
  <2> QED  BY <2>1, <2>2, <2>3, GotoControl
<1>9. CASE (t \in Worker /\ Work(t)) \/ (t \in Worker /\ Other(t))
  <2>1. held[t] \in Int /\ 1 - held[t] \in Int  BY DEF DataOK
  <2>2. UNCHANGED config  BY <1>9, Zenon DEF Work, Other
  <2>3. CASE Goto(t, "leave") /\ UNCHANGED <<op, back>>
    <3>1. "leave" \in Places \ Pending  BY DEF Places, Pending, Working
    <3> QED  BY <2>2, <2>3, <3>1, GotoControl
  <2>4. CASE Allocate(t, held[t], 1 - held[t], "work")
    <3>1. "work" \in Resume  BY DEF Resume
    <3> QED  BY <2>1, <2>2, <2>4, <3>1, AllocateControl
  <2>5. CASE Allocate(t, held[t], 1 - held[t], "other")
    <3>1. "other" \in Resume  BY DEF Resume
    <3> QED  BY <2>1, <2>2, <2>5, <3>1, AllocateControl
  <2> QED  BY <1>9, <2>3, <2>4, <2>5, Zenon DEF Work, Other
<1> QED  BY <1>1, <1>2, <1>3, <1>4, <1>5, <1>6, <1>7, <1>8, <1>9, Zenon
      DEF Thr, Coordinator
\* A thread that goes on with its allocation stays where it is.
LEMMA AllocationStays ==
  ASSUME ControlOK, NEW t \in Thread, Acquire(t) \/ System(t) \/ Account(t)
  PROVE  /\ \A s \in Thread : At(s)' = At(s)
         /\ \A s \in Thread \ {t} : pc'[s] = pc[s]
         /\ pc[t] \in Pending /\ (pc'[t] \in Pending \/ pc'[t] = back[t])
<1>1. CASE Acquire(t)
  <2>1. pc' = [pc EXCEPT ![t] = "system"] /\ back' = back /\ pc[t] = "acquire"
    BY <1>1 DEF Acquire, Goto
  <2> QED  BY <2>1 DEF ControlOK, At, Pending
<1>2. CASE System(t)
  <2>1. pc' = [pc EXCEPT ![t] = "account"] /\ back' = back /\ pc[t] = "system"
    BY <1>2 DEF System, Served, Goto
  <2> QED  BY <2>1 DEF ControlOK, At, Pending
<1>3. CASE Account(t)
  <2>1. pc' = [pc EXCEPT ![t] = back[t]] /\ back' = [back EXCEPT ![t] = None] /\ pc[t] = "account"
    BY <1>3 DEF Account, Goto
  <2>2. back[t] \notin Pending  BY <2>1 DEF ControlOK, Pending, Resume
  <2> QED  BY <2>1, <2>2 DEF ControlOK, At, Pending
<1> QED  BY <1>1, <1>2, <1>3

\* A thread goes to where it has no allocation.
LEMMA GotoMoves ==
  ASSUME ControlOK, NEW t \in Thread, NEW l \in Places \ Pending, Goto(t, l), UNCHANGED back
  PROVE  /\ At(t)' = l /\ pc'[t] = l
         /\ \A s \in Thread \ {t} : At(s)' = At(s) /\ pc'[s] = pc[s]
  BY DEF ControlOK, Goto, At

\* A thread asks for an allocation, and goes on elsewhere then.
LEMMA AllocateMoves ==
  ASSUME ControlOK, NEW t \in Thread, NEW old, NEW new, NEW then \in Resume,
         Allocate(t, old, new, then)
  PROVE  /\ At(t)' = then /\ pc'[t] = "acquire"
         /\ \A s \in Thread \ {t} : At(s)' = At(s) /\ pc'[s] = pc[s]
  BY DEF ControlOK, Allocate, Goto, At, Pending

\* Every step keeps the threads in the places of the form.
LEMMA PlaceStep ==
  ASSUME ControlOK, PlaceOK, NEW t \in Thread, Thr(t) \/ (t \in Worker /\ Other(t))
  PROVE  PlaceOK'
<1> USE Threads
<1>0. form' = form
  BY Zenon DEF Thr, Coordinator, Acquire, System, Account, Enter, Opened, LeaveBarrier, Closed, Pin,
    Work, Other, Begin, Sample, Setup, Start, Call, Drop, Stop, Join, Finish, config
<1>a. ASSUME NEW l \in Places \ Pending, Goto(t, l), UNCHANGED back,
             pc[t] \notin Pending, pc[t] # "unborn", l \notin {"begin", "unborn"},
             t = Main /\ form = "contended" => l \in Meeting,
             t = Main /\ form # "contended" => l \in Single,
             t # Main /\ form = "contended" => l \in Working,
             t # Main /\ form # "contended" => l = "other",
             l = "sample" => pc[t] = "begin"
      PROVE  PlaceOK'
  <2>1. /\ At(t)' = l /\ pc'[t] = l
        /\ \A s \in Thread \ {t} : At(s)' = At(s) /\ pc'[s] = pc[s]
    BY <1>a, GotoMoves
  <2>2. CASE t = Main  BY <1>0, <1>a, <2>1, <2>2 DEF PlaceOK
  <2>3. CASE t # Main
    <3>1. t \in Worker /\ pc'[Main] = pc[Main] /\ At(Main)' = At(Main)  BY <2>1, <2>3
    <3>2. pc[Main] \notin {"begin", "sample"}  BY <1>a, <3>1 DEF PlaceOK
    <3> QED  BY <1>0, <1>a, <2>1, <3>1, <3>2 DEF PlaceOK
  <2> QED  BY <2>2, <2>3
<1>b. ASSUME NEW old, NEW new, NEW then \in Resume, Allocate(t, old, new, then),
             pc[t] # "unborn", pc[t] \notin {"begin", "sample"},
             t = Main => form # "contended" /\ then \in Single,
             t # Main /\ form = "contended" => then \in Working,
             t # Main /\ form # "contended" => then = "other"
      PROVE  PlaceOK'
  <2>1. /\ At(t)' = then /\ pc'[t] = "acquire"
        /\ \A s \in Thread \ {t} : At(s)' = At(s) /\ pc'[s] = pc[s]
    BY <1>b, AllocateMoves
  <2>2. CASE t = Main  BY <1>0, <1>b, <2>1, <2>2 DEF PlaceOK
  <2>3. CASE t # Main
    <3>1. t \in Worker /\ pc'[Main] = pc[Main] /\ At(Main)' = At(Main)  BY <2>1, <2>3
    <3>2. pc[Main] \notin {"begin", "sample"}  BY <1>b, <3>1 DEF PlaceOK
    <3> QED  BY <1>0, <1>b, <2>1, <3>1, <3>2 DEF PlaceOK
  <2> QED  BY <2>2, <2>3
<1>1. CASE Acquire(t) \/ System(t) \/ Account(t)
  <2>1. /\ \A s \in Thread : At(s)' = At(s)
        /\ \A s \in Thread \ {t} : pc'[s] = pc[s]
        /\ pc[t] \in Pending /\ (pc'[t] \in Pending \/ pc'[t] = back[t])
    BY <1>1, AllocationStays
  <2>2. pc'[t] \notin {"begin", "sample"} /\ pc[t] # "unborn"
    BY <2>1 DEF ControlOK, Pending, Resume
  <2>3. pc[Main] \notin Meeting => t # Main \/ form # "contended"
    BY DEF PlaceOK
  <2>4. form = "contended" => t # Main  BY <2>1 DEF PlaceOK, Pending, Meeting
  <2>5. pc'[Main] \in {"begin", "sample"} => pc[Main] = pc'[Main] /\ t # Main
    BY <2>1, <2>2
  <2>6. pc'[Main] \notin {"begin", "sample"}
    BY <2>1, <2>2, <2>5 DEF PlaceOK
  <2>7. form = "contended" => pc'[Main] = pc[Main]  BY <2>1, <2>4
  <2> QED  BY <1>0, <2>1, <2>6, <2>7 DEF PlaceOK
<1>2. CASE t = Main /\ (Begin \/ Setup \/ Start \/ Stop \/ Finish)
  <2>1. UNCHANGED back  BY <1>2, Zenon DEF Begin, Setup, Start, Stop, Finish
  <2>2. pc[Main] \in {"begin", "finish"} \/ form # "contended"
    BY <1>2 DEF PlaceOK, Begin, Setup, Start, Stop, Finish, Meeting
  <2>3. PICK l \in {"sample", "start", "call", "finish", "drop", "done"} :
          /\ Goto(Main, l) /\ (l = "sample" => pc[t] = "begin")
          /\ (pc[Main] = "begin" => l = "sample") /\ (pc[Main] = "finish" => l = "done")
    BY <1>2 DEF Begin, Setup, Start, Stop, Finish
  <2>4. l \in Places \ Pending /\ l \in Single /\ (form = "contended" => l \in Meeting)
    BY <2>2, <2>3 DEF Places, Pending, Single, Meeting
  <2>5. pc[t] \notin Pending /\ pc[t] # "unborn"
    BY <1>2 DEF Begin, Setup, Start, Stop, Finish, Pending
  <2> QED  BY <1>2, <1>a, <2>1, <2>3, <2>4, <2>5
<1>3. CASE t = Main /\ Join
  <2>1. UNCHANGED back  BY <1>3, Zenon DEF Join
  <2>2. pc[Main] = "join" /\ pc[t] \notin Pending /\ pc[t] # "unborn"
    BY <1>3 DEF Join, Pending
  <2>3. form = "contended"  BY <2>2 DEF PlaceOK, Single, Pending, At
  <2>4. PICK l \in {"finish", "aborted"} : Goto(Main, l)  BY <1>3 DEF Join
  <2>5. l \in Places \ Pending /\ l \in Meeting  BY DEF Places, Pending, Single, Meeting
  <2> QED  BY <1>3, <1>a, <2>1, <2>2, <2>3, <2>4, <2>5
<1>4. CASE t = Main /\ Sample
  <2>1. \A w \in Worker : /\ w # Main /\ w \in Thread
                          /\ pc'[w] = IF form = "contended" THEN "pin" ELSE "other"
    BY <1>4 DEF Sample
  <2>2. pc'[Main] = IF form = "contended" THEN "enter" ELSE IF form = "input" THEN "setup" ELSE "start"
    BY <1>4 DEF Sample
  <2>3. \A s \in Thread : pc'[s] \notin Pending  BY <2>1, <2>2 DEF Pending
  <2>4. \A s \in Thread : At(s)' = pc'[s]  BY <2>3 DEF At
  <2> QED  BY <1>0, <2>1, <2>2, <2>4 DEF PlaceOK, Single, Meeting, Working
<1>5. CASE t = Main /\ (Call \/ Drop)
  <2>1. pc[Main] \in {"call", "drop"}  BY <1>5 DEF Call, Drop
  <2>2. form # "contended"  BY <2>1 DEF PlaceOK, Meeting
  <2>3. PICK then \in {"drop", "call", "stop", "setup", "finish"} :
          \E old, new : Allocate(Main, old, new, then)
    BY <1>5 DEF Call, Drop
  <2>4. then \in Resume /\ then \in Single  BY DEF Resume, Single
  <2>5. PICK old, new : Allocate(Main, old, new, then)  BY <2>3
  <2> QED  BY <1>5, <1>b, <2>1, <2>2, <2>4, <2>5
<1>6. CASE Enter(t) \/ Opened(t) \/ LeaveBarrier(t) \/ Closed(t) \/ (t \in Worker /\ Pin(t))
  <2>1. UNCHANGED back  BY <1>6, Zenon DEF Enter, Opened, LeaveBarrier, Closed, Pin
  <2>2. pc[t] \in {"enter", "opening", "leave", "closing", "pin"}
    BY <1>6 DEF Enter, Opened, LeaveBarrier, Closed, Pin
  <2>3. pc[t] \notin Pending /\ pc[t] # "unborn" /\ At(t) = pc[t]
    BY <2>2 DEF Pending, At
  <2>4. form = "contended"
    <3>1. CASE t = Main  BY <2>2, <2>3, <3>1 DEF PlaceOK, Single
    <3>2. CASE t # Main  BY <2>2, <2>3, <3>2 DEF PlaceOK
    <3> QED  BY <3>1, <3>2
  <2>5. PICK l \in {"opening", "work", "leave", "closing", "join", "exited", "panicked", "enter"} :
          /\ Goto(t, l)
          /\ t = Main => l \in {"opening", "leave", "closing", "join"}
          /\ t # Main => l # "join"
    BY <1>6, Zenon DEF Enter, Opened, LeaveBarrier, Closed, Pin, Arrive
  <2>6. /\ l \in Places \ Pending /\ l \notin {"begin", "unborn", "sample"}
        /\ t = Main => l \in Meeting
        /\ t # Main => l \in Working
    BY <2>5 DEF Places, Pending, Meeting, Working
  <2> QED  BY <1>a, <2>1, <2>3, <2>4, <2>5, <2>6
<1>7. CASE t \in Worker /\ Work(t)
  <2>1. pc[t] = "work" /\ pc[t] \notin Pending /\ At(t) = pc[t]  BY <1>7 DEF Work, At, Pending
  <2>2. form = "contended" /\ t # Main  BY <1>7, <2>1 DEF PlaceOK
  <2>3. CASE Goto(t, "leave") /\ UNCHANGED back
    <3>1. "leave" \in Places \ Pending /\ "leave" \in Working  BY DEF Places, Pending, Working
    <3> QED  BY <1>a, <2>1, <2>2, <2>3, <3>1
  <2>4. CASE Allocate(t, held[t], 1 - held[t], "work")
    <3>1. "work" \in Resume /\ "work" \in Working  BY DEF Resume, Working
    <3> QED  BY <1>b, <2>1, <2>2, <2>4, <3>1
  <2> QED  BY <1>7, <2>3, <2>4 DEF Work
<1>8. CASE t \in Worker /\ Other(t)
  <2>1. pc[t] = "other" /\ pc[t] \notin Pending /\ At(t) = pc[t]  BY <1>8 DEF Other, At, Pending
  <2>2. form # "contended" /\ t # Main  BY <1>8, <2>1 DEF PlaceOK, Working
  <2>3. Allocate(t, held[t], 1 - held[t], "other") /\ "other" \in Resume
    BY <1>8 DEF Other, Resume
  <2> QED  BY <1>b, <2>1, <2>2, <2>3
<1> QED  BY <1>1, <1>2, <1>3, <1>4, <1>5, <1>6, <1>7, <1>8, Zenon DEF Thr, Coordinator

\* The counter wraps to zero.
LEMMA Ticks ==
  ASSUME NEW c \in 0 .. Wrap - 1
  PROVE  (c + 1) % Wrap = IF c + 1 = Wrap THEN 0 ELSE c + 1
  BY MeasurementAssumption

\* A difference of two readings that wraps too.
LEMMA Wraps ==
  ASSUME NEW n \in Nat, n < Wrap
  PROVE  n % Wrap = n /\ (n - Wrap) % Wrap = n
  BY MeasurementAssumption

\* What a served allocation does.
LEMMA ServedEffect ==
  ASSUME ControlOK, DataOK, NEW t \in Thread, Served(t)
  PROVE  \E ok \in BOOLEAN :
           LET grown == IF ok THEN op[t].new - op[t].old ELSE 0 IN
           /\ op' = [op EXCEPT ![t] = [old |-> op[t].old, new |-> op[t].new, ok |-> ok]]
           /\ op[t].new - op[t].old \in Int /\ op[t].new \in Int /\ op[t].old \in Int
           /\ held' = [held EXCEPT ![t] = @ + grown] /\ heap' = heap + grown
           /\ truth' = IF truth = None \/ measured # None THEN truth
                       ELSE [truth EXCEPT !.peak = Larger(@, heap')]
<1>1. PICK ok \in IF op[t].new > op[t].old THEN BOOLEAN ELSE {TRUE} :
        LET grown == IF ok THEN op[t].new - op[t].old ELSE 0 IN
        /\ op' = [op EXCEPT ![t].ok = ok]
        /\ held' = [held EXCEPT ![t] = @ + grown] /\ heap' = heap + grown
        /\ truth' = IF truth = None \/ measured # None THEN truth
                    ELSE [truth EXCEPT !.peak = Larger(@, heap')]
  BY Zenon DEF Served
<1>2. ok \in BOOLEAN  BY <1>1, Zenon
<1>3. op[t] \in Request  BY DEF Served, ControlOK, Pending
<1>4. [op[t] EXCEPT !.ok = ok] = [old |-> op[t].old, new |-> op[t].new, ok |-> ok]
  BY <1>2, <1>3 DEF Request
<1>5. op' = [op EXCEPT ![t] = [op[t] EXCEPT !.ok = ok]]  BY <1>1
<1>6. op[t].new - op[t].old \in Int /\ op[t].new \in Int /\ op[t].old \in Int
  BY <1>3 DEF Request
<1> QED  BY <1>1, <1>2, <1>4, <1>5, <1>6, Zenon

\* Every step keeps the data's types.
LEMMA DataStep ==
  ASSUME ControlOK, DataOK, NEW t \in Thread, Thr(t) \/ (t \in Worker /\ Other(t))
  PROVE  DataOK'
<1> USE Threads
<1>1. CASE System(t)
  <2>1. Served(t) /\ UNCHANGED <<k, count, clock, inside>>
    BY <1>1, Zenon DEF System, counts, timing
  <2>2. PICK g \in Int : held' = [held EXCEPT ![t] = @ + g] /\ heap' = heap + g
    <3>1. PICK ok \in BOOLEAN :
           /\ op[t].new - op[t].old \in Int
           /\ held' = [held EXCEPT ![t] = @ + IF ok THEN op[t].new - op[t].old ELSE 0]
           /\ heap' = heap + IF ok THEN op[t].new - op[t].old ELSE 0
      BY <2>1, ServedEffect, Zenon
    <3>2. (IF ok THEN op[t].new - op[t].old ELSE 0) \in Int  BY <3>1
    <3> QED  BY <3>1, <3>2
  <2> QED  BY <2>1, <2>2 DEF DataOK
<1>2. CASE Account(t)
  <2>1. UNCHANGED <<held, k, clock, heap>>  BY <1>2 DEF Account, timing
  <2>2. inside' = inside \/ inside' = [inside EXCEPT !.allocs = @ + 1]  BY <1>2 DEF Account
  <2>3. count' = count \/ count' = [count EXCEPT ![t] = @ + 1]
    <3>1. count' = count \/ count' = [count EXCEPT ![t] =
                       IF op[t].ok /\ op[t].new > op[t].old THEN @ + 1 ELSE @]
      BY <1>2, Zenon DEF Account
    <3> QED  BY <3>1 DEF DataOK
  <2> QED  BY <2>1, <2>2, <2>3 DEF DataOK
<1>3. CASE Call \/ Drop \/ Setup
  <2>1. UNCHANGED <<held, count, heap>> /\ clock' = (clock + 1) % Wrap
    BY <1>3, Zenon DEF Call, Drop, Setup, counts, Tick
  <2>2. clock' \in 0 .. Wrap - 1  BY <2>1, Ticks, MeasurementAssumption DEF DataOK
  <2>3. inside' = inside \/ inside' = [inside EXCEPT !.ticks = @ + 1]
    BY <1>3 DEF Call, Drop, Setup
  <2>4. k' = k \/ k' = [k EXCEPT ![Main] = @ + 1]  BY <1>3 DEF Call, Drop, Setup
  <2> QED  BY <2>1, <2>2, <2>3, <2>4 DEF DataOK
<1>4. CASE t \in Worker /\ (Work(t) \/ Other(t))
  <2>1. UNCHANGED <<held, count, heap, clock>>
    BY <1>4, Zenon DEF Work, Other, counts, timing
  <2>2. inside' = inside \/ inside' = [inside EXCEPT !.ticks = @ + 1]
    BY <1>4 DEF Work, Other
  <2>3. k' = k \/ k' = [k EXCEPT ![t] = @ + 1]  BY <1>4 DEF Work, Other
  <2> QED  BY <2>1, <2>2, <2>3 DEF DataOK
<1>5. CASE \/ Acquire(t) \/ Enter(t) \/ Opened(t) \/ LeaveBarrier(t) \/ Closed(t)
           \/ Begin \/ Sample \/ Start \/ Stop \/ Join \/ Finish \/ (t \in Worker /\ Pin(t))
  <2>1. UNCHANGED <<held, k, count, heap, clock, inside>>
    BY <1>5, Zenon DEF Acquire, Enter, Opened, LeaveBarrier, Closed, Pin, Begin, Sample, Start, Stop,
                       Join, Finish, counts, timing
  <2> QED  BY <2>1 DEF DataOK
<1> QED  BY <1>1, <1>2, <1>3, <1>4, <1>5, Zenon DEF Thr, Coordinator

\* What is none of the ledger's records.
LEMMA NoRecord ==
  /\ None \notin Thread /\ None \notin Int
  /\ None \notin [live : Int, requested : Int] /\ None \notin [entry : Int, peak : Int, exit : Int]
  BY MeasurementAssumption DEF Thread

\* An allocation's account has the ledger's type.
LEMMA TransitionLedger ==
  ASSUME LedgerOK, NEW o \in Request
  PROVE  Transition(o) \in [live : Int, peak : Int, requested : Int, valid : BOOLEAN]
<1> DEFINE live == ledger.live - o.old + o.new
           requested == ledger.requested + o.new
<1>1. /\ ledger.live \in Int /\ ledger.peak \in Int /\ ledger.requested \in Int
      /\ o.old \in Int /\ o.new \in Int
  BY DEF LedgerOK, Request
<1>2. live \in Int /\ requested \in Int /\ Larger(ledger.peak, live) \in Int  BY <1>1 DEF Larger
<1>3. ledger.valid \in BOOLEAN  BY Zenon DEF LedgerOK
<1>4. CASE live < 0 \/ live > MaxBytes \/ requested > MaxBytes
  <2>1. Transition(o) = [ledger EXCEPT !.valid = FALSE]  BY <1>4 DEF Transition
  <2> QED  BY <2>1 DEF LedgerOK
<1>5. CASE ~(live < 0 \/ live > MaxBytes \/ requested > MaxBytes)
  <2>1. Transition(o) = [live |-> live, peak |-> Larger(ledger.peak, live),
                         requested |-> requested, valid |-> ledger.valid]
    BY <1>5 DEF Transition
  <2> HIDE DEF live, requested
  <2> QED  BY <1>2, <1>3, <2>1
<1> QED  BY <1>4, <1>5

\* Every step keeps the ledger's types.
LEMMA LedgerStep ==
  ASSUME ControlOK, DataOK, LedgerOK, PhaseOK, NEW t \in Thread,
         Thr(t) \/ (t \in Worker /\ Other(t))
  PROVE  LedgerOK'
<1> USE Threads
<1>1. CASE Acquire(t)
  <2>1. UNCHANGED <<ledger, phase, measured, truth>> /\ (lock' = lock \/ lock' = t)
    BY <1>1 DEF Acquire
  <2> QED  BY <2>1 DEF LedgerOK
<1>2. CASE System(t)
  <2>1. Served(t) /\ UNCHANGED <<ledger, phase, measured, lock>>
    BY <1>2, Zenon DEF System, ledgers
  <2>2. heap' \in Int  BY <1>2, DataStep DEF Thr, DataOK
  <2>3. truth' = IF truth = None \/ measured # None THEN truth
                 ELSE [truth EXCEPT !.peak = Larger(@, heap')]
    BY <2>1, ServedEffect, Zenon
  <2>4. truth' \in [entry : Int, peak : Int, exit : Int] \cup {None}
    BY <2>2, <2>3 DEF LedgerOK, Larger
  <2> QED  BY <2>1, <2>4 DEF LedgerOK
<1>3. CASE Account(t)
  <2>1. UNCHANGED <<phase, measured, truth>> /\ lock' \in {lock, None}  BY <1>3 DEF Account
  <2>2. op[t] \in Request  BY <1>3 DEF Account, ControlOK, Pending
  <2>3. ledger' = ledger \/ ledger' = Transition(op[t])  BY <1>3 DEF Account
  <2>4. ledger' \in [live : Int, peak : Int, requested : Int, valid : BOOLEAN]
    BY <2>2, <2>3, TransitionLedger DEF LedgerOK
  <2> QED  BY <2>1, <2>4 DEF LedgerOK
<1>4. CASE Begin
  <2>1. UNCHANGED <<measured, lock>>  BY <1>4, Zenon DEF Begin
  <2>2. CASE UNCHANGED <<phase, ledger, truth>>  BY <2>1, <2>2 DEF LedgerOK
  <2>3. CASE /\ phase' = [live |-> ledger.live, requested |-> ledger.requested]
             /\ ledger' = [ledger EXCEPT !.peak = ledger.live]
             /\ truth' = [entry |-> heap, peak |-> heap, exit |-> heap]
    BY <2>1, <2>3 DEF LedgerOK, DataOK
  <2> QED  BY <1>4, <2>2, <2>3, Zenon DEF Begin
<1>5. CASE Finish
  <2>1. UNCHANGED <<ledger, lock>>  BY <1>5, Zenon DEF Finish
  <2>2. phase' = phase \/ phase' = None  BY <1>5 DEF Finish
  <2>3. CASE UNCHANGED <<measured, truth>>  BY <2>1, <2>2, <2>3 DEF LedgerOK
  <2>4. CASE /\ measured' = [entry |-> phase.live, peak |-> ledger.peak, exit |-> ledger.live]
             /\ truth' = [truth EXCEPT !.exit = heap] /\ profiler = "heap"
    <3>1. phase # None /\ truth # None  BY <1>5, <2>4 DEF Finish, PhaseOK
    <3>2. measured' \in [entry : Int, peak : Int, exit : Int]  BY <2>4, <3>1 DEF LedgerOK
    <3>3. truth' \in [entry : Int, peak : Int, exit : Int]  BY <2>4, <3>1 DEF LedgerOK, DataOK
    <3> QED  BY <2>1, <2>2, <3>2, <3>3 DEF LedgerOK
  <2> QED  BY <1>5, <2>3, <2>4, Zenon DEF Finish
<1>6. CASE Join
  <2>1. UNCHANGED <<ledger, lock, measured, truth>> /\ phase' \in {phase, None}
    BY <1>6 DEF Join
  <2> QED  BY <2>1 DEF LedgerOK
<1>7. CASE \/ Enter(t) \/ Opened(t) \/ LeaveBarrier(t) \/ Closed(t) \/ Sample \/ Setup \/ Start
           \/ Call \/ Drop \/ Stop
           \/ (t \in Worker /\ (Pin(t) \/ Work(t) \/ Other(t)))
  <2>1. UNCHANGED <<ledger, phase, measured, truth, lock>>
    BY <1>7, Zenon DEF Enter, Opened, LeaveBarrier, Closed, Pin, Sample, Setup, Start, Stop,
                       Call, Drop, Work, Other, ledgers
  <2> QED  BY <2>1 DEF LedgerOK
<1> QED  BY <1>1, <1>2, <1>3, <1>4, <1>5, <1>6, <1>7, Zenon DEF Thr, Coordinator

\* Whatever is not a step of an allocation leaves those that are served alone.
LEMMA OthersStayInside ==
  ASSUME ControlOK, PlaceOK, NEW t \in Thread, Thr(t) \/ (t \in Worker /\ Other(t)),
         ~Acquire(t), ~System(t), ~Account(t)
  PROVE  \A s \in Thread : /\ Inside(s)' <=> Inside(s)
                           /\ Inside(s) => pc'[s] = pc[s] /\ op'[s] = op[s]
<1> USE Threads DEF Inside
<1>1. CASE t = Main /\ Sample
  <2>1. \A s \in Thread : pc[s] \in {"sample", "unborn"}
    <3>1. pc[Main] = "sample"  BY <1>1 DEF Sample
    <3> QED  BY <3>1 DEF PlaceOK
  <2>2. \A s \in Thread : pc'[s] \in {"enter", "pin", "setup", "start", "other"}
    BY <1>1 DEF Sample
  <2> QED  BY <2>1, <2>2
<1>2. CASE t = Main /\ (Begin \/ Setup \/ Start \/ Stop \/ Join \/ Finish)
  <2>1. /\ pc' = [pc EXCEPT ![Main] = "sample"] \/ pc' = [pc EXCEPT ![Main] = "start"]
           \/ pc' = [pc EXCEPT ![Main] = "call"] \/ pc' = [pc EXCEPT ![Main] = "finish"]
           \/ pc' = [pc EXCEPT ![Main] = "drop"] \/ pc' = [pc EXCEPT ![Main] = "aborted"]
           \/ pc' = [pc EXCEPT ![Main] = "done"]
        /\ op' = op /\ pc[Main] \in {"begin", "setup", "start", "stop", "join", "finish"}
    BY <1>2 DEF Begin, Setup, Start, Stop, Join, Finish, Goto
  <2> QED  BY <2>1 DEF ControlOK
<1>3. CASE Enter(t) \/ Opened(t) \/ LeaveBarrier(t) \/ Closed(t) \/ (t \in Worker /\ Pin(t))
  <2>1. PICK l \in {"opening", "work", "leave", "closing", "join", "exited", "panicked", "enter"} :
          Goto(t, l)
    BY <1>3, Zenon DEF Enter, Opened, LeaveBarrier, Closed, Pin, Arrive
  <2>2. op' = op /\ pc[t] \in {"enter", "opening", "leave", "closing", "pin"}
    BY <1>3 DEF Enter, Opened, LeaveBarrier, Closed, Pin
  <2> QED  BY <2>1, <2>2 DEF ControlOK, Goto
<1>4. CASE (t = Main /\ (Call \/ Drop)) \/ (t \in Worker /\ (Work(t) \/ Other(t)))
  <2>1. CASE Goto(t, "leave") /\ pc[t] = "work" /\ op' = op  BY <2>1 DEF ControlOK, Goto
  <2>2. CASE \E old, new, then : Allocate(t, old, new, then)
    <3>1. pc[t] \in {"call", "drop", "work", "other"}  BY <1>4 DEF Call, Drop, Work, Other
    <3> QED  BY <2>2, <3>1 DEF ControlOK, Allocate, Goto
  <2>3. Call \/ Drop => \E old, new, then : Allocate(Main, old, new, then)  BY DEF Call, Drop
  <2>4. Work(t) \/ Other(t) => \/ Goto(t, "leave") /\ pc[t] = "work" /\ op' = op
                              \/ \E old, new, then : Allocate(t, old, new, then)
    BY DEF Work, Other
  <2> QED  BY <1>4, <2>1, <2>2, <2>3, <2>4, Zenon
<1> QED  BY <1>1, <1>2, <1>3, <1>4, Zenon DEF Thr, Coordinator

\* Whatever is not a step of an allocation or a boundary of the phase leaves the
\* ledger alone; a failure ends the phase.
LEMMA OthersLeaveTheLedger ==
  ASSUME NEW t \in Thread, Thr(t) \/ (t \in Worker /\ Other(t)),
         ~Acquire(t), ~System(t), ~Account(t), ~(t = Main /\ (Begin \/ Finish))
  PROVE  /\ UNCHANGED <<lock, ledger, truth, measured, heap>>
         /\ phase' = phase \/ (t = Main /\ Join /\ phase' = None)
  BY Zenon DEF Enter, Opened, LeaveBarrier, Closed, Pin, Sample, Setup, Start, Stop, Thr, Coordinator,
               Call, Drop, Work, Other, ledgers, Join

\* The allocator is the same for ever.
LEMMA SameConfig ==
  ASSUME NEW t \in Thread, Thr(t) \/ (t \in Worker /\ Other(t))
  PROVE  form' = form /\ profiler' = profiler
  BY Zenon DEF Thr, Coordinator, Acquire, System, Account, Enter, Opened, LeaveBarrier, Closed, Pin,
    Work, Other, Begin, Sample, Setup, Start, Call, Drop, Stop, Join, Finish, config

\* One thread at a time is served and accounted for.
LEMMA LockStep ==
  ASSUME ControlOK, PlaceOK, LedgerOK, LockOK, NEW t \in Thread,
         Thr(t) \/ (t \in Worker /\ Other(t))
  PROVE  LockOK'
<1> USE Threads, NoRecord
<1>0. profiler' = profiler  BY SameConfig
<1>1. CASE Acquire(t)
  <2>1. /\ pc' = [pc EXCEPT ![t] = "system"] /\ pc[t] = "acquire"
        /\ (profiler = "heap" /\ lock = None /\ lock' = t) \/ (profiler = "thread" /\ lock' = lock)
    BY <1>1 DEF Acquire, Goto
  <2> QED  BY <1>0, <2>1 DEF LockOK, Inside, ControlOK
<1>2. CASE System(t)
  <2>1. pc' = [pc EXCEPT ![t] = "account"] /\ pc[t] = "system" /\ lock' = lock
    BY <1>2 DEF System, Served, Goto, ledgers
  <2> QED  BY <1>0, <2>1 DEF LockOK, Inside, ControlOK
<1>3. CASE Account(t)
  <2>1. /\ pc' = [pc EXCEPT ![t] = back[t]] /\ pc[t] = "account"
        /\ \/ profiler = "heap" /\ lock' = IF lock = t THEN None ELSE lock
           \/ profiler = "thread" /\ lock' = lock
    BY <1>3 DEF Account, Goto
  <2>2. back[t] \notin {"system", "account"}  BY <2>1 DEF ControlOK, Pending, Resume
  <2> QED  BY <1>0, <2>1, <2>2 DEF LockOK, Inside, ControlOK
<1>4. CASE ~Acquire(t) /\ ~System(t) /\ ~Account(t)
  <2>1. \A s \in Thread : Inside(s)' <=> Inside(s)  BY <1>4, OthersStayInside
  <2>2. lock' = lock
    <3>1. CASE t = Main /\ (Begin \/ Finish)  BY <3>1, Zenon DEF Begin, Finish
    <3> QED  BY <1>4, <3>1, OthersLeaveTheLedger, Zenon
  <2> QED  BY <1>0, <2>1, <2>2 DEF LockOK
<1> QED  BY <1>1, <1>2, <1>3, <1>4

\* A thread moves itself only.
LEMMA MovesItself ==
  ASSUME ControlOK, NEW t \in Thread, Thr(t) \/ (t \in Worker /\ Other(t)), t # Main
  PROVE  pc'[Main] = pc[Main]
<1> USE Threads
<1>1. CASE Acquire(t) \/ System(t) \/ Account(t)
  BY <1>1, AllocationStays
<1>2. CASE Enter(t) \/ Opened(t) \/ LeaveBarrier(t) \/ Closed(t) \/ Pin(t)
  <2>1. \E l : Goto(t, l)  BY <1>2, Zenon DEF Enter, Opened, LeaveBarrier, Closed, Pin, Arrive
  <2> QED  BY <2>1 DEF Goto, ControlOK
<1>3. CASE Work(t) \/ Other(t)
  <2>1. Goto(t, "leave") \/ \E old, new, then : Allocate(t, old, new, then)
    BY <1>3 DEF Work, Other
  <2> QED  BY <2>1 DEF Allocate, Goto, ControlOK
<1> QED  BY <1>1, <1>2, <1>3, Zenon DEF Thr

\* The main thread begins, is done and is aborted by these steps alone.
LEMMA Boundaries ==
  ASSUME ControlOK, NEW t \in Thread, Thr(t) \/ (t \in Worker /\ Other(t))
  PROVE  \/ t = Main /\ Begin /\ pc'[Main] = "sample" /\ pc[Main] = "begin"
         \/ t = Main /\ Finish /\ pc'[Main] = "done" /\ pc[Main] = "finish"
         \/ t = Main /\ Join /\ pc[Main] = "join"
                     /\ ((pc'[Main] = "aborted" /\ phase' = None)
                           \/ (pc'[Main] = "finish" /\ phase' = phase))
         \/ /\ ~(t = Main /\ (Begin \/ Finish \/ Join))
            /\ \/ pc'[Main] = pc[Main]
               \/ /\ pc[Main] \notin {"begin", "done", "aborted"}
                  /\ pc'[Main] \notin {"begin", "done", "aborted"}
<1> USE Threads
<1>1. CASE t # Main  BY <1>1, MovesItself
<1>2. CASE t = Main
  <2>1. Begin => pc'[Main] = "sample" /\ pc[Main] = "begin"  BY DEF Begin, Goto, ControlOK
  <2>2. Finish => pc'[Main] = "done" /\ pc[Main] = "finish"  BY DEF Finish, Goto, ControlOK
  <2>3. Join => /\ pc[Main] = "join"
                /\ (pc'[Main] = "aborted" /\ phase' = None)
                           \/ (pc'[Main] = "finish" /\ phase' = phase)
    BY DEF Join, Goto, ControlOK
  <2> DEFINE Between == /\ pc[Main] \notin {"begin", "done", "aborted"}
                        /\ pc'[Main] \notin {"begin", "done", "aborted"}
  <2>4. CASE Acquire(Main) \/ System(Main) \/ Account(Main)
    BY <2>4, AllocationStays, <2>1, <2>2, <2>3 DEF ControlOK, Pending, Resume
  <2>5. Sample => Between  BY DEF Sample
  <2>6. Setup \/ Start \/ Stop => Between  BY DEF Setup, Start, Stop, Goto, ControlOK
  <2>7. Call \/ Drop => Between
    <3>1. Call \/ Drop => /\ pc[Main] \in {"call", "drop"}
                          /\ \E old, new, then : Allocate(Main, old, new, then)
      BY DEF Call, Drop
    <3> QED  BY <3>1 DEF Allocate, Goto, ControlOK
  <2>8. Enter(Main) \/ LeaveBarrier(Main) \/ Opened(Main) \/ Closed(Main) => Between
    <3>1. Enter(Main) \/ LeaveBarrier(Main) \/ Opened(Main) \/ Closed(Main) =>
             /\ pc[Main] \in {"enter", "leave", "opening", "closing"}
             /\ Goto(Main, "opening") \/ Goto(Main, "closing") \/ Goto(Main, "leave") \/ Goto(Main, "join")
      BY Zenon DEF Enter, LeaveBarrier, Opened, Closed, Arrive
    <3> QED  BY <3>1 DEF Goto, ControlOK
  <2> HIDE DEF Between
  <2>9. Between => pc[Main] \notin {"begin", "done", "aborted"} /\ pc'[Main] \notin {"begin", "done", "aborted"}
    BY DEF Between
  <2> QED  BY <1>2, <2>1, <2>2, <2>3, <2>4, <2>5, <2>6, <2>7, <2>8, <2>9, Zenon
           DEF Thr, Coordinator
<1> QED  BY <1>1, <1>2

\* The phase is active between its boundaries, unless a worker failed.
LEMMA PhaseStep ==
  ASSUME ControlOK, DataOK, LedgerOK, PhaseOK, NEW t \in Thread, Thr(t) \/ (t \in Worker /\ Other(t))
  PROVE  PhaseOK'
<1> USE Threads, NoRecord
<1>0. profiler' = profiler  BY SameConfig
<1>1. CASE t = Main /\ Begin
  <2>1. pc'[Main] = "sample" /\ pc[Main] = "begin" /\ measured' = measured
    BY <1>1 DEF Begin, Goto, ControlOK
  <2>2. CASE /\ profiler = "heap" /\ phase' = [live |-> ledger.live, requested |-> ledger.requested]
             /\ truth' = [entry |-> heap, peak |-> heap, exit |-> heap]
    <3>1. /\ phase' \in [live : Int, requested : Int]
          /\ truth' \in [entry : Int, peak : Int, exit : Int]
      BY <2>2 DEF LedgerOK, DataOK
    <3> QED  BY <1>0, <2>1, <2>2, <3>1 DEF PhaseOK
  <2>3. CASE profiler = "thread" /\ UNCHANGED <<phase, truth>>
    BY <1>0, <2>1, <2>3 DEF PhaseOK
  <2> QED  BY <1>1, <2>2, <2>3, Zenon DEF Begin
<1>2. CASE t = Main /\ Finish
  <2>1. pc'[Main] = "done" /\ pc[Main] = "finish"  BY <1>2 DEF Finish, Goto, ControlOK
  <2>2. (profiler = "heap" /\ phase' = None) \/ (profiler = "thread" /\ UNCHANGED <<phase, measured>>)
    BY <1>2, Zenon DEF Finish
  <2> QED  BY <1>0, <2>1, <2>2 DEF PhaseOK, ControlOK
<1>3. CASE ~(t = Main /\ (Begin \/ Finish))
  <2>1. UNCHANGED measured /\ (truth # None => truth' # None)
        /\ (phase' = phase \/ (t = Main /\ Join /\ phase' = None))
    <3>1. CASE Acquire(t) \/ Account(t)
      BY <3>1, Zenon DEF Acquire, Account
    <3>2. CASE System(t)
      <4>1. UNCHANGED <<measured, phase>>  BY <3>2, Zenon DEF System, ledgers
      <4>2. truth' = truth \/ truth' = [truth EXCEPT !.peak = Larger(@, heap')]
        BY <3>2, Zenon DEF System, Served
      <4>3. ASSUME truth # None PROVE truth' # None
        <5>1. heap' \in Int  BY <3>2, DataStep DEF Thr, DataOK
        <5>2. truth' \in [entry : Int, peak : Int, exit : Int]
          BY <4>2, <4>3, <5>1 DEF LedgerOK, Larger
        <5> QED  BY <5>2
      <4> QED  BY <4>1, <4>3
    <3> QED  BY <1>3, <3>1, <3>2, OthersLeaveTheLedger, Zenon
  <2> QED  BY <1>0, <1>3, <2>1, Boundaries DEF PhaseOK
<1> QED  BY <1>1, <1>2, <1>3

\* What the ledger says is what happened, but for the request that is under way;
\* and what a phase returned is the truth.
LEMMA ExactStep ==
  ASSUME ControlOK, PlaceOK, DataOK, LedgerOK, LockOK, PhaseOK, Exact, PhaseIsExact,
         NEW t \in Thread, Thr(t) \/ (t \in Worker /\ Other(t))
  PROVE  Exact' /\ PhaseIsExact'
<1> USE Threads, NoRecord
<1>0. profiler' = profiler  BY SameConfig
<1>1. CASE Acquire(t)
  <2>1. UNCHANGED <<ledger, phase, measured, heap, truth, op>>  BY <1>1, Zenon DEF Acquire
  <2>2. CASE profiler = "heap"
    <3>1. lock = None /\ lock' = t /\ pc'[t] = "system"
      BY <1>1, <2>2 DEF Acquire, Goto, ControlOK
    <3>2. ~InFlight /\ ~InFlight'  BY <3>1 DEF InFlight
    <3> QED  BY <1>0, <2>1, <3>2 DEF Exact, PhaseIsExact
  <2> QED  BY <1>0, <2>1, <2>2 DEF Exact, PhaseIsExact
<1>2. CASE System(t)
  <2>1. Served(t) /\ UNCHANGED <<ledger, phase, measured, lock>> /\ pc[t] = "system"
        /\ pc'[t] = "account"
    BY <1>2 DEF System, ledgers, Served, Goto, ControlOK
  <2>2. PICK ok \in BOOLEAN :
           LET grown == IF ok THEN op[t].new - op[t].old ELSE 0 IN
           /\ op' = [op EXCEPT ![t] = [old |-> op[t].old, new |-> op[t].new, ok |-> ok]]
           /\ op[t].new - op[t].old \in Int /\ op[t].new \in Int /\ op[t].old \in Int
           /\ heap' = heap + grown
           /\ truth' = IF truth = None \/ measured # None THEN truth
                       ELSE [truth EXCEPT !.peak = Larger(@, heap')]
    BY <2>1, ServedEffect, Zenon
  <2>3. measured # None => truth' = truth  BY <2>2
  <2>4. PhaseIsExact'  BY <2>1, <2>3 DEF PhaseIsExact
  <2>5. ASSUME profiler = "heap", ledger.valid PROVE Exact'
    <3>1. lock = t /\ ~InFlight  BY <2>1, <2>5 DEF LockOK, Inside, InFlight
    <3>2. InFlight' <=> ok  BY <2>1, <2>2, <3>1 DEF InFlight, ControlOK
    <3>3. op'[t].new = op[t].new /\ op'[t].old = op[t].old  BY <2>2 DEF ControlOK
    <3>4. heap = ledger.live /\ ledger.live \in Int  BY <2>5, <3>1 DEF Exact, LedgerOK
    <3>5. heap' = IF ok THEN ledger.live - op[t].old + op[t].new ELSE ledger.live
      BY <2>2, <3>4
    <3>6. ASSUME phase # None
          PROVE  /\ ledger.live <= ledger.peak /\ truth'.entry = phase.live
                 /\ truth'.peak = IF ok THEN Larger(ledger.peak, heap') ELSE ledger.peak
      <4>1. /\ ledger.live <= ledger.peak /\ truth.entry = phase.live
            /\ truth.peak = ledger.peak
        BY <2>5, <3>1, <3>6 DEF Exact
      <4>2. measured = None /\ truth # None /\ ledger.peak \in Int /\ pc[Main] # "done"
        BY <3>6 DEF PhaseOK, LedgerOK
      <4>3. truth \in [entry : Int, peak : Int, exit : Int]  BY <4>2 DEF LedgerOK
      <4>4. truth' = [truth EXCEPT !.peak = Larger(truth.peak, heap')]  BY <2>2, <4>2
      <4>5. truth'.entry = truth.entry /\ truth'.peak = Larger(ledger.peak, heap')
        BY <4>1, <4>3, <4>4
      <4>6. ~ok => Larger(ledger.peak, heap') = ledger.peak
        BY <3>4, <3>5, <4>1, <4>2 DEF Larger
      <4> QED  BY <4>1, <4>5, <4>6
    <3>7. /\ (lock' # None /\ pc'[lock'] = "account" /\ op'[lock'].ok) <=> ok
          /\ op'[lock'].new = op[t].new /\ op'[lock'].old = op[t].old
      BY <2>1, <3>1, <3>2, <3>3 DEF InFlight
    <3> QED  BY <2>1, <3>1, <3>5, <3>6, <3>7 DEF Exact, InFlight
  <2>6. ~(profiler = "heap" /\ ledger.valid) => Exact'  BY <1>0, <2>1 DEF Exact
  <2> QED  BY <2>4, <2>5, <2>6
<1>3. CASE Account(t)
  <2>1. UNCHANGED <<phase, measured, heap, truth>> /\ pc[t] = "account"
    BY <1>3, Zenon DEF Account
  <2>2. PhaseIsExact'  BY <2>1 DEF PhaseIsExact
  <2>3. ASSUME profiler = "heap", ledger'.valid PROVE Exact'
    <3>1. lock = t  BY <2>1, <2>3 DEF LockOK, Inside
    <3>2. lock' = None /\ ledger' = IF op[t].ok THEN Transition(op[t]) ELSE ledger
      BY <1>3, <2>3, <3>1 DEF Account
    <3>3. ~InFlight'  BY <3>2 DEF InFlight
    <3>4. op[t] \in Request  BY <2>1 DEF ControlOK, Pending
    <3>5. CASE ~op[t].ok
      BY <1>0, <2>1, <2>3, <3>1, <3>2, <3>3, <3>5 DEF Exact, InFlight
    <3>6. CASE op[t].ok
      <4> DEFINE live == ledger.live - op[t].old + op[t].new
                 requested == ledger.requested + op[t].new
      <4>1. ledger' = Transition(op[t])  BY <3>2, <3>6
      <4>2. ~(live < 0 \/ live > MaxBytes \/ requested > MaxBytes)
        <5>1. CASE live < 0 \/ live > MaxBytes \/ requested > MaxBytes
          <6>1. ledger' = [ledger EXCEPT !.valid = FALSE]  BY <4>1, <5>1 DEF Transition
          <6>2. ledger'.valid = FALSE  BY <6>1 DEF LedgerOK
          <6> QED  BY <2>3, <6>2
        <5> QED  BY <5>1
      <4>3. ledger' = [live |-> live, peak |-> Larger(ledger.peak, live),
                       requested |-> requested, valid |-> ledger.valid]
        BY <4>1, <4>2 DEF Transition
      <4>4. ledger'.live = live /\ ledger'.peak = Larger(ledger.peak, live) /\ ledger'.valid = ledger.valid
        BY <4>3
      <4>5. live \in Int /\ ledger.peak \in Int  BY <3>4 DEF LedgerOK, Request
      <4>6. heap = live  BY <2>1, <2>3, <3>1, <3>6, <4>4 DEF Exact, InFlight
      <4>7. phase # None => /\ truth.entry = phase.live /\ truth.peak = Larger(ledger.peak, heap)
        BY <2>1, <2>3, <3>1, <3>6, <4>4 DEF Exact, InFlight
      <4>8. live <= Larger(ledger.peak, live)  BY <4>5 DEF Larger
      <4> HIDE DEF live
      <4> QED  BY <1>0, <2>1, <2>3, <3>3, <4>4, <4>6, <4>7, <4>8 DEF Exact
    <3> QED  BY <3>5, <3>6
  <2>4. ~(profiler = "heap" /\ ledger'.valid) => Exact'  BY <1>0 DEF Exact
  <2> QED  BY <2>2, <2>3, <2>4
<1>4. CASE t = Main /\ Begin
  <2>1. pc[Main] = "begin" /\ measured' = measured  BY <1>4 DEF Begin, Goto
  <2>2. measured = None  BY <2>1 DEF PhaseOK
  <2>3. PhaseIsExact'  BY <2>1, <2>2 DEF PhaseIsExact
  <2>4. CASE /\ profiler = "heap" /\ lock = None /\ lock' = lock
             /\ ledger.valid /\ phase' = [live |-> ledger.live, requested |-> ledger.requested]
             /\ ledger' = [ledger EXCEPT !.peak = ledger.live] /\ heap' = heap
             /\ truth' = [entry |-> heap, peak |-> heap, exit |-> heap]
    <3>1. ~InFlight /\ ~InFlight'  BY <2>4 DEF InFlight
    <3>2. heap = ledger.live  BY <2>4, <3>1 DEF Exact
    <3>3. ledger'.live = ledger.live /\ ledger'.peak = ledger.live /\ ledger.live \in Int
      BY <2>4 DEF LedgerOK
    <3>4. phase'.live = ledger.live /\ truth'.entry = heap /\ truth'.peak = heap  BY <2>4
    <3>5. heap' = heap  BY <2>4
    <3>6. ledger'.live <= ledger'.peak  BY <3>3
    <3>7. heap' = ledger'.live /\ truth'.entry = phase'.live /\ truth'.peak = ledger'.peak
      BY <3>2, <3>3, <3>4, <3>5
    <3> QED  BY <2>3, <3>1, <3>6, <3>7 DEF Exact
  <2>5. profiler = "heap" => /\ lock = None /\ lock' = lock
             /\ ledger.valid /\ phase' = [live |-> ledger.live, requested |-> ledger.requested]
             /\ ledger' = [ledger EXCEPT !.peak = ledger.live] /\ heap' = heap
             /\ truth' = [entry |-> heap, peak |-> heap, exit |-> heap]
    BY <1>4 DEF Begin
  <2>6. profiler # "heap" => Exact'  BY <1>0 DEF Exact
  <2> QED  BY <2>3, <2>4, <2>5, <2>6
<1>5. CASE t = Main /\ Finish
  <2>1. /\ pc[Main] = "finish" /\ UNCHANGED <<op, lock, ledger, heap>>
    BY <1>5 DEF Finish
  <2>2. measured = None  BY <2>1 DEF PhaseOK
  <2>3. CASE profiler = "thread"
    <3>1. UNCHANGED <<measured, truth>>  BY <1>5, <2>3 DEF Finish
    <3> QED  BY <1>0, <2>2, <2>3, <3>1 DEF Exact, PhaseIsExact
  <2>4. CASE profiler = "heap"
    <3>1. lock = None /\ phase' = None  BY <1>5, <2>4 DEF Finish
    <3>2. ~InFlight /\ ~InFlight'  BY <2>1, <3>1 DEF InFlight
    <3>3. Exact'  BY <1>0, <2>1, <3>1, <3>2 DEF Exact
    <3>4. CASE UNCHANGED <<measured, truth>>  BY <2>2, <3>3, <3>4 DEF PhaseIsExact
    <3>5. CASE /\ ledger.valid
               /\ measured' = [entry |-> phase.live, peak |-> ledger.peak, exit |-> ledger.live]
               /\ truth' = [truth EXCEPT !.exit = heap]
      <4>1. phase # None /\ truth # None  BY <2>1, <2>4 DEF PhaseOK
      <4>2. truth \in [entry : Int, peak : Int, exit : Int]  BY <4>1 DEF LedgerOK
      <4>3. truth.entry = phase.live /\ truth.peak = ledger.peak /\ heap = ledger.live
        BY <2>4, <3>2, <3>5, <4>1 DEF Exact
      <4>4. truth' = [entry |-> truth.entry, peak |-> truth.peak, exit |-> heap]
        BY <3>5, <4>2
      <4>5. measured' = truth'  BY <3>5, <4>3, <4>4
      <4> QED  BY <3>3, <4>5 DEF PhaseIsExact
    <3> QED  BY <1>5, <2>4, <3>4, <3>5 DEF Finish
  <2> QED  BY <2>3, <2>4 DEF ControlOK
<1>6. CASE ~Acquire(t) /\ ~System(t) /\ ~Account(t) /\ ~(t = Main /\ (Begin \/ Finish))
  <2>1. /\ UNCHANGED <<lock, ledger, truth, measured, heap>>
        /\ phase' = phase \/ phase' = None
    BY <1>6, OthersLeaveTheLedger
  <2>2. ASSUME profiler = "heap", lock # None PROVE pc'[lock] = pc[lock] /\ op'[lock] = op[lock]
    <3>1. lock \in Thread /\ Inside(lock)  BY <2>2 DEF LedgerOK, LockOK
    <3> QED  BY <1>6, <3>1, OthersStayInside
  <2>3. profiler = "heap" => (InFlight' <=> InFlight)  BY <2>1, <2>2 DEF InFlight
  <2>4. profiler = "heap" /\ InFlight => op'[lock'].old = op[lock].old /\ op'[lock'].new = op[lock].new
    BY <2>1, <2>2 DEF InFlight
  <2>5. Exact'  BY <1>0, <2>1, <2>3, <2>4 DEF Exact
  <2> QED  BY <2>1, <2>5 DEF PhaseIsExact
<1> QED  BY <1>1, <1>2, <1>3, <1>4, <1>5, <1>6

-----------------------------------------------------------------------------
(* What a sample measures.                                                 *)

\* How the main thread of a sample without a barrier moves, and what becomes of
\* its times; `at` and `to` are its places.
TimeMove(at, to) ==
  LET n == k[Main] IN
  \/ /\ at = to \/ (at = "begin" /\ to = "sample") \/ (at = "finish" /\ to = "done")
           \/ (at = "sample" /\ to = IF form = "input" THEN "setup" ELSE "start")
     /\ UNCHANGED timing /\ k'[Main] = n
  \/ at = "setup" /\ to = "start" /\ Tick /\ UNCHANGED <<start, elapsed>> /\ k'[Main] = n
  \/ at = "start" /\ to = "call" /\ start' = clock /\ UNCHANGED <<clock, elapsed>> /\ k'[Main] = n
  \/ /\ at = "call" /\ Tick /\ UNCHANGED <<start, elapsed>> /\ k'[Main] = n + 1
     /\ to = IF form = "iter" THEN "drop"
             ELSE IF form = "deferred" /\ n + 1 < Iterations THEN "call" ELSE "stop"
  \/ /\ at = "drop" /\ Tick /\ UNCHANGED <<start, elapsed>> /\ k'[Main] = n
     /\ to = IF form = "iter" THEN IF n < Iterations THEN "call" ELSE "stop"
             ELSE IF form = "input" /\ n < Iterations THEN "setup" ELSE "finish"
  \/ /\ at = "stop" /\ elapsed' = elapsed + ((clock - start) % Wrap) /\ start' = None
     /\ UNCHANGED clock /\ k'[Main] = n /\ to = IF form = "iter" THEN "finish" ELSE "drop"

\* Whatever a step does in a sample without a barrier, it moves the main thread so.
LEMMA TimeMoves ==
  ASSUME ControlOK, PlaceOK, DataOK, form # "contended", NEW t \in Thread,
         Thr(t) \/ (t \in Worker /\ Other(t))
  PROVE  TimeMove(At(Main), At(Main)')
<1> USE Threads
<1>1. CASE Acquire(t) \/ System(t) \/ Account(t)
  <2>1. At(Main)' = At(Main)  BY <1>1, AllocationStays
  <2>2. UNCHANGED timing /\ k' = k  BY <1>1, Zenon DEF Acquire, System, Account
  <2> QED  BY <2>1, <2>2 DEF TimeMove
<1>2. CASE Enter(t) \/ Opened(t) \/ LeaveBarrier(t) \/ Closed(t) \/ (t \in Worker /\ (Pin(t) \/ Work(t)))
           \/ (t = Main /\ Join)
  <2>1. pc[t] \in {"enter", "opening", "leave", "closing", "pin", "work", "join"}
    BY <1>2 DEF Enter, Opened, LeaveBarrier, Closed, Pin, Work, Join
  <2>2. At(t) = pc[t]  BY <2>1 DEF At, Pending
  <2> QED  BY <2>1, <2>2 DEF PlaceOK, Single
<1>3. CASE t \in Worker /\ Other(t)
  <2>1. Allocate(t, held[t], 1 - held[t], "other") /\ UNCHANGED timing
        /\ k' = [k EXCEPT ![t] = @ + 1]
    BY <1>3, Zenon DEF Other
  <2>2. At(Main)' = At(Main)  BY <1>3, <2>1, AllocateMoves DEF Resume
  <2>3. k'[Main] = k[Main]  BY <1>3, <2>1 DEF DataOK
  <2> QED  BY <2>1, <2>2, <2>3 DEF TimeMove
<1>4. CASE t = Main /\ (Begin \/ Finish \/ Setup \/ Start)
  <2>1. UNCHANGED <<back, k>>  BY <1>4, Zenon DEF Begin, Setup, Start, Finish
  <2>2. PICK l \in {"sample", "start", "call", "done"} :
          /\ Goto(Main, l)
          /\ \/ Begin /\ l = "sample"
             \/ Finish /\ l = "done"
             \/ Setup /\ l = "start"
             \/ Start /\ l = "call"
    BY <1>4, Zenon DEF Begin, Setup, Start, Finish
  <2>3. At(Main)' = l  BY <2>1, <2>2, GotoMoves DEF Places, Single, Pending
  <2>4. /\ Begin => pc[Main] = "begin" /\ UNCHANGED timing
        /\ Finish => pc[Main] = "finish" /\ UNCHANGED timing
        /\ Setup => pc[Main] = "setup" /\ Tick /\ UNCHANGED <<start, elapsed>>
        /\ Start => pc[Main] = "start" /\ start' = clock /\ UNCHANGED <<clock, elapsed>>
    BY Zenon DEF Begin, Setup, Start, Finish
  <2>5. pc[Main] \in {"begin", "finish", "setup", "start"} => At(Main) = pc[Main]
    BY DEF At, Pending
  <2> QED  BY <2>1, <2>2, <2>3, <2>4, <2>5 DEF TimeMove
<1>5. CASE t = Main /\ Sample
  <2>1. /\ pc'[Main] = IF form = "input" THEN "setup" ELSE "start"
        /\ UNCHANGED timing /\ k' = k /\ pc[Main] = "sample"
    BY <1>5 DEF Sample
  <2>2. At(Main)' = pc'[Main] /\ At(Main) = pc[Main]  BY <2>1 DEF At, Pending
  <2> QED  BY <2>1, <2>2 DEF TimeMove
<1>6. CASE t = Main /\ Call
  <2>1. pc[Main] = "call" /\ Tick /\ UNCHANGED <<start, elapsed>> /\ k'[Main] = k[Main] + 1
    BY <1>6 DEF Call, DataOK
  <2> DEFINE then == IF form = "iter" THEN "drop"
                     ELSE IF form = "deferred" /\ k'[Main] < Iterations THEN "call" ELSE "stop"
  <2>2. PICK old, new : Allocate(Main, old, new, then)  BY <1>6 DEF Call
  <2>3. then \in Resume  BY DEF Resume
  <2>4. then = IF form = "iter" THEN "drop"
               ELSE IF form = "deferred" /\ k[Main] + 1 < Iterations THEN "call" ELSE "stop"
    BY <2>1
  <2> HIDE DEF then
  <2>5. At(Main)' = then  BY <2>2, <2>3, AllocateMoves
  <2>6. At(Main) = "call"  BY <2>1 DEF At, Pending
  <2> QED  BY <2>1, <2>4, <2>5, <2>6 DEF TimeMove
<1>7. CASE t = Main /\ Drop
  <2>1. pc[Main] = "drop" /\ Tick /\ UNCHANGED <<start, elapsed, k>>
    BY <1>7, Zenon DEF Drop
  <2> DEFINE then == IF form = "iter" THEN IF k[Main] < Iterations THEN "call" ELSE "stop"
                     ELSE IF form = "input" /\ k[Main] < Iterations THEN "setup" ELSE "finish"
  <2>2. PICK old, new : Allocate(Main, old, new, then)  BY <1>7 DEF Drop
  <2>3. then \in Resume  BY DEF Resume
  <2>4. then = IF form = "iter" THEN IF k[Main] < Iterations THEN "call" ELSE "stop"
               ELSE IF form = "input" /\ k[Main] < Iterations THEN "setup" ELSE "finish"
    OBVIOUS
  <2> HIDE DEF then
  <2>5. At(Main)' = then  BY <2>2, <2>3, AllocateMoves
  <2>6. At(Main) = "drop"  BY <2>1 DEF At, Pending
  <2> QED  BY <2>1, <2>4, <2>5, <2>6 DEF TimeMove
<1>8. CASE t = Main /\ Stop
  <2>1. /\ pc[Main] = "stop" /\ elapsed' = elapsed + ((clock - start) % Wrap) /\ start' = None
        /\ UNCHANGED <<clock, back, k>> /\ Goto(Main, IF form = "iter" THEN "finish" ELSE "drop")
    BY <1>8, Zenon DEF Stop
  <2> DEFINE l == IF form = "iter" THEN "finish" ELSE "drop"
  <2>2. l \in Places \ Pending /\ Goto(Main, l)  BY <2>1 DEF Places, Pending, Single
  <2>3. l = IF form = "iter" THEN "finish" ELSE "drop"  OBVIOUS
  <2> HIDE DEF l
  <2>4. At(Main)' = l  BY <2>1, <2>2, GotoMoves
  <2>5. At(Main) = "stop"  BY <2>1 DEF At, Pending
  <2> QED  BY <2>1, <2>3, <2>4, <2>5 DEF TimeMove
<1> QED  BY <1>1, <1>2, <1>3, <1>4, <1>5, <1>6, <1>7, <1>8, Zenon DEF Thr, Coordinator

\* One tick more has passed since the start.
LEMMA Later ==
  ASSUME DataOK, NEW n \in Nat, n + 1 < Wrap, Elapses(n), Tick, start' = start
  PROVE  Elapses(n + 1)'
<1>1. clock' = IF clock + 1 = Wrap THEN 0 ELSE clock + 1  BY Ticks DEF DataOK, Tick
<1>2. Wrap \in Nat /\ clock \in 0 .. Wrap - 1  BY MeasurementAssumption DEF DataOK
<1> QED  BY <1>1, <1>2 DEF Elapses

\* The difference to the start is what has passed.
LEMMA Reads ==
  ASSUME DataOK, NEW n \in Nat, n < Wrap, Elapses(n)
  PROVE  (clock - start) % Wrap = n
<1>1. clock - start = n \/ clock - start = n - Wrap
  BY MeasurementAssumption DEF DataOK, Elapses
<1> QED  BY <1>1, Wraps

\* `iter` counts a tick for every call and every teardown.
LEMMA IterStep ==
  ASSUME DataOK, form = "iter", IterTimes(At(Main), k[Main]), TimeMove(At(Main), At(Main)')
  PROVE  IterTimes(At(Main), k[Main])'
<1> DEFINE p == At(Main)
           n == k[Main]
           N == Iterations
<1>0. N \in Nat \ {0} /\ Wrap > 2 * N /\ Wrap \in Nat  BY MeasurementAssumption
<1>1. CASE p' = p /\ UNCHANGED timing /\ k'[Main] = n
  BY <1>1 DEF IterTimes, Elapses, timing
<1>2. CASE /\ (p = "begin" /\ p' = "sample") \/ (p = "sample" /\ p' = "start")
           /\ UNCHANGED timing /\ k'[Main] = n
  BY <1>2 DEF IterTimes, timing
<1>3. CASE p = "finish" /\ p' = "done" /\ UNCHANGED timing
  BY <1>3 DEF IterTimes, timing
<1>4. CASE p = "start" /\ p' = "call" /\ start' = clock /\ UNCHANGED <<clock, elapsed>> /\ k'[Main] = n
  BY <1>0, <1>4 DEF IterTimes, DataOK, Elapses
<1>5. CASE p = "call" /\ Tick /\ UNCHANGED <<start, elapsed>> /\ k'[Main] = n + 1 /\ p' = "drop"
  <2>1. n \in 0 .. N - 1 /\ elapsed = 0 /\ Elapses(2 * n)  BY <1>5 DEF IterTimes
  <2>2. PICK m \in 0 .. N - 1 : m = k[Main]  BY <2>1
  <2>3. 2 * m \in Nat /\ 2 * m + 1 < Wrap /\ Elapses(2 * m)  BY <1>0, <2>1, <2>2
  <2>4. Elapses(2 * m + 1)'  BY <1>5, <2>3, Later
  <2>5. k'[Main] = m + 1 /\ 2 * m + 1 = 2 * (m + 1) - 1  BY <1>5, <2>2
  <2>6. Elapses(2 * k[Main] - 1)'  BY <2>4, <2>5 DEF Elapses
  <2>7. k'[Main] \in 1 .. N /\ elapsed' = 0 /\ p' = "drop"  BY <1>0, <1>5, <2>1, <2>5
  <2> QED  BY <2>6, <2>7 DEF IterTimes
<1>6. CASE /\ p = "drop" /\ Tick /\ UNCHANGED <<start, elapsed>> /\ k'[Main] = n
           /\ p' = IF n < N THEN "call" ELSE "stop"
  <2>1. n \in 1 .. N /\ elapsed = 0 /\ Elapses(2 * n - 1)  BY <1>6 DEF IterTimes
  <2>2. 2 * n - 1 \in Nat /\ (2 * n - 1) + 1 < Wrap  BY <1>0, <2>1
  <2>3. Elapses((2 * n - 1) + 1)'  BY <1>6, <2>1, <2>2, Later
  <2>4. (2 * n - 1) + 1 = 2 * n  BY <2>1
  <2> QED  BY <1>0, <1>6, <2>1, <2>3, <2>4 DEF IterTimes, Elapses
<1>7. CASE /\ p = "stop" /\ elapsed' = elapsed + ((clock - start) % Wrap) /\ start' = None
           /\ UNCHANGED clock /\ k'[Main] = n /\ p' = "finish"
  <2>1. elapsed = 0 /\ Elapses(2 * N)  BY <1>7 DEF IterTimes
  <2>2. (clock - start) % Wrap = 2 * N  BY <1>0, <2>1, Reads
  <2>3. elapsed' = 2 * N  BY <1>0, <1>7, <2>1, <2>2
  <2> QED  BY <1>7, <2>3 DEF IterTimes
<1>8. p # "setup"  BY DEF IterTimes
<1> HIDE DEF p
<1> QED  BY <1>1, <1>2, <1>3, <1>4, <1>5, <1>6, <1>7, <1>8 DEF TimeMove, p

\* A deferred teardown costs nothing.
LEMMA DeferredStep ==
  ASSUME DataOK, form = "deferred", DeferredTimes(At(Main), k[Main]),
         TimeMove(At(Main), At(Main)')
  PROVE  DeferredTimes(At(Main), k[Main])'
<1> DEFINE p == At(Main)
           n == k[Main]
           N == Iterations
<1>0. N \in Nat \ {0} /\ Wrap > 2 * N /\ Wrap \in Nat  BY MeasurementAssumption
<1>1. CASE p' = p /\ UNCHANGED timing /\ k'[Main] = n
  BY <1>1 DEF DeferredTimes, Elapses, timing
<1>2. CASE /\ (p = "begin" /\ p' = "sample") \/ (p = "sample" /\ p' = "start")
           /\ UNCHANGED timing /\ k'[Main] = n
  BY <1>2 DEF DeferredTimes, timing
<1>3. CASE p = "finish" /\ p' = "done" /\ UNCHANGED timing
  BY <1>3 DEF DeferredTimes, timing
<1>4. CASE p = "start" /\ p' = "call" /\ start' = clock /\ UNCHANGED <<clock, elapsed>> /\ k'[Main] = n
  BY <1>0, <1>4 DEF DeferredTimes, DataOK, Elapses
<1>5. CASE /\ p = "call" /\ Tick /\ UNCHANGED <<start, elapsed>> /\ k'[Main] = n + 1
           /\ p' = IF n + 1 < N THEN "call" ELSE "stop"
  <2>1. n \in 0 .. N - 1 /\ elapsed = 0 /\ Elapses(n)  BY <1>5 DEF DeferredTimes
  <2>2. PICK m \in 0 .. N - 1 : m = k[Main]  BY <2>1
  <2>3. m \in Nat /\ m + 1 < Wrap /\ Elapses(m)  BY <1>0, <2>1, <2>2
  <2>4. Elapses(m + 1)'  BY <1>5, <2>3, Later
  <2>5. k'[Main] = m + 1 /\ p' = IF m + 1 < N THEN "call" ELSE "stop"  BY <1>5, <2>2
  <2>6. Elapses(k[Main])'  BY <2>4, <2>5 DEF Elapses
  <2>7. k'[Main] \in 1 .. N /\ elapsed' = 0  BY <1>0, <1>5, <2>1, <2>5
  <2>8. p' = IF k'[Main] < N THEN "call" ELSE "stop"  BY <2>5
  <2>9. CASE k'[Main] < N
    <3>1. k'[Main] \in 0 .. N - 1 /\ p' = "call"  BY <1>0, <2>7, <2>8, <2>9
    <3> QED  BY <2>6, <2>7, <3>1 DEF DeferredTimes
  <2>10. CASE ~(k'[Main] < N)
    <3>1. k'[Main] = N /\ p' = "stop"  BY <1>0, <2>7, <2>8, <2>10
    <3>2. Elapses(N)'  BY <2>6, <3>1 DEF Elapses
    <3> QED  BY <2>7, <3>1, <3>2 DEF DeferredTimes
  <2> QED  BY <2>9, <2>10
<1>6. CASE p = "drop" /\ UNCHANGED <<start, elapsed>> /\ p' = "finish"
  BY <1>6 DEF DeferredTimes
<1>7. CASE /\ p = "stop" /\ elapsed' = elapsed + ((clock - start) % Wrap) /\ start' = None
           /\ UNCHANGED clock /\ k'[Main] = n /\ p' = "drop"
  <2>1. elapsed = 0 /\ Elapses(N)  BY <1>7 DEF DeferredTimes
  <2>2. (clock - start) % Wrap = N  BY <1>0, <2>1, Reads
  <2>3. elapsed' = N  BY <1>0, <1>7, <2>1, <2>2
  <2> QED  BY <1>7, <2>3 DEF DeferredTimes
<1>8. p # "setup"  BY DEF DeferredTimes
<1> HIDE DEF p
<1> QED  BY <1>1, <1>2, <1>3, <1>4, <1>5, <1>6, <1>7, <1>8 DEF TimeMove, p

\* With inputs, every call has its own start and stop.
LEMMA InputStep ==
  ASSUME DataOK, form = "input", InputTimes(At(Main), k[Main]), TimeMove(At(Main), At(Main)')
  PROVE  InputTimes(At(Main), k[Main])'
<1> DEFINE p == At(Main)
           n == k[Main]
           N == Iterations
<1>0. N \in Nat \ {0} /\ Wrap > 2 * N /\ Wrap \in Nat  BY MeasurementAssumption
<1>1. CASE p' = p /\ UNCHANGED timing /\ k'[Main] = n
  BY <1>1 DEF InputTimes, Elapses, timing
<1>2. CASE /\ (p = "begin" /\ p' = "sample") \/ (p = "sample" /\ p' = "setup")
           /\ UNCHANGED timing /\ k'[Main] = n
  BY <1>0, <1>2 DEF InputTimes, timing
<1>3. CASE p = "finish" /\ p' = "done" /\ UNCHANGED timing
  BY <1>3 DEF InputTimes, timing
<1>4. CASE p = "setup" /\ p' = "start" /\ UNCHANGED <<start, elapsed>> /\ k'[Main] = n
  BY <1>4 DEF InputTimes
<1>5. CASE p = "start" /\ p' = "call" /\ start' = clock /\ UNCHANGED <<clock, elapsed>> /\ k'[Main] = n
  BY <1>0, <1>5 DEF InputTimes, DataOK, Elapses
<1>6. CASE p = "call" /\ Tick /\ UNCHANGED <<start, elapsed>> /\ k'[Main] = n + 1 /\ p' = "stop"
  <2>1. n \in 0 .. N - 1 /\ elapsed = n /\ Elapses(0)  BY <1>6 DEF InputTimes
  <2>2. Elapses(0 + 1)'  BY <1>0, <1>6, <2>1, Later
  <2> QED  BY <1>0, <1>6, <2>1, <2>2 DEF InputTimes, Elapses
<1>7. CASE /\ p = "drop" /\ UNCHANGED <<start, elapsed>> /\ k'[Main] = n
           /\ p' = IF n < N THEN "setup" ELSE "finish"
  BY <1>0, <1>7 DEF InputTimes
<1>8. CASE /\ p = "stop" /\ elapsed' = elapsed + ((clock - start) % Wrap) /\ start' = None
           /\ UNCHANGED clock /\ k'[Main] = n /\ p' = "drop"
  <2>1. n \in 1 .. N /\ elapsed = n - 1 /\ Elapses(1)  BY <1>8 DEF InputTimes
  <2>2. (clock - start) % Wrap = 1  BY <1>0, <2>1, Reads
  <2>3. elapsed' = n  BY <1>0, <1>8, <2>1, <2>2
  <2> QED  BY <1>8, <2>1, <2>3 DEF InputTimes
<1> HIDE DEF p
<1> QED  BY <1>1, <1>2, <1>3, <1>4, <1>5, <1>6, <1>7, <1>8 DEF TimeMove, p

\* The times of a sample with a barrier are within what its workers did.
LEMMA MeetingStep ==
  ASSUME ControlOK, PlaceOK, DataOK, form = "contended", MeetingTimes(pc[Main]), NEW t \in Thread,
         Thr(t) \/ (t \in Worker /\ Other(t))
  PROVE  MeetingTimes(pc[Main])'
<1> USE Threads
<1>0. pc[Main] \in Meeting  BY DEF PlaceOK
<1>1. inside.ticks \in Nat /\ inside'.ticks \in Nat /\ inside.ticks <= inside'.ticks
  <2>1. inside' \in [ticks : Nat, allocs : Nat]  BY DataStep DEF DataOK
  <2>2. \/ inside' = inside \/ inside' = [inside EXCEPT !.allocs = @ + 1]
        \/ inside' = [inside EXCEPT !.ticks = @ + 1]
    <3>1. CASE Account(t)  BY <3>1, Zenon DEF Account
    <3>2. CASE Call \/ Drop \/ Work(t)  BY <3>2 DEF Call, Drop, Work
    <3>3. CASE ~Account(t) /\ ~(Call \/ Drop \/ Work(t))
      BY <3>3, Zenon DEF Thr, Coordinator, Acquire, System, Enter, Opened, LeaveBarrier, Closed, Pin,
                  Other, Begin, Sample, Setup, Start, Stop, Join, Finish
    <3> QED  BY <3>1, <3>2, <3>3
  <2> QED  BY <2>1, <2>2 DEF DataOK
<1>2. CASE t # Main
  <2>1. pc'[Main] = pc[Main]  BY <1>2, MovesItself
  <2>2. UNCHANGED <<start, elapsed>>
    BY <1>2, Zenon DEF Thr, Acquire, System, Account, Enter, Opened, LeaveBarrier, Closed, Pin, Work,
                       Other, timing
  <2> QED  BY <1>1, <2>1, <2>2 DEF MeetingTimes
<1>3. CASE t = Main
  <2>1. CASE Enter(Main) \/ LeaveBarrier(Main)
    <3>1. UNCHANGED <<start, elapsed>>  BY <2>1, Zenon DEF Enter, LeaveBarrier, timing
    <3>2. (pc[Main] = "enter" /\ pc'[Main] = "opening") \/ (pc[Main] = "leave" /\ pc'[Main] = "closing")
      BY <2>1 DEF Enter, LeaveBarrier, Arrive, Goto, ControlOK
    <3> QED  BY <1>1, <3>1, <3>2 DEF MeetingTimes
  <2>2. CASE Opened(Main)
    <3>1. elapsed' = elapsed /\ start' = inside.ticks  BY <2>2 DEF Opened
    <3> QED  BY <1>1, <3>1 DEF MeetingTimes
  <2>3. CASE Closed(Main)
    <3>1. /\ elapsed' = inside.ticks - start /\ pc[Main] = "closing" /\ pc'[Main] = "join"
          /\ start' = start
      BY <2>3 DEF Closed, Goto, ControlOK
    <3> QED  BY <1>1, <3>1 DEF MeetingTimes
  <2>4. CASE Begin \/ Sample \/ Join \/ Finish
    <3>1. UNCHANGED <<start, elapsed>>  BY <2>4, Zenon DEF Begin, Sample, Join, Finish, timing
    <3>2. pc'[Main] \in {"sample", "enter", "finish", "aborted", "done"}
      BY <2>4 DEF Begin, Sample, Join, Finish, Goto, ControlOK
    <3> QED  BY <1>1, <3>1, <3>2 DEF MeetingTimes
  <2>5. ~(Acquire(Main) \/ System(Main) \/ Account(Main) \/ Setup \/ Start \/ Call \/ Drop \/ Stop)
    BY <1>0 DEF Acquire, System, Served, Account, Setup, Start, Call, Drop, Stop, Meeting
  <2> QED  BY <1>3, <2>1, <2>2, <2>3, <2>4, <2>5, Zenon DEF Thr, Coordinator
<1> QED  BY <1>2, <1>3

\* Every step keeps the times.
LEMMA TimesStep ==
  ASSUME ControlOK, PlaceOK, DataOK, Times, NEW t \in Thread, Thr(t) \/ (t \in Worker /\ Other(t))
  PROVE  Times'
<1>0. form' = form  BY SameConfig
<1>1. CASE form = "contended"
  BY <1>0, <1>1, MeetingStep, Zenon DEF Times
<1>2. CASE form # "contended"
  <2>1. TimeMove(At(Main), At(Main)')  BY <1>2, TimeMoves
  <2> QED  BY <1>0, <1>2, <2>1, IterStep, DeferredStep, InputStep, Zenon DEF Times
<1> QED  BY <1>1, <1>2

-----------------------------------------------------------------------------
(* The allocations of the thread that samples.                             *)

\* The clock of a sample without a barrier runs, or it does not.
LEMMA Running ==
  ASSUME PlaceOK, Times, form \in {"iter", "deferred"}
  PROVE  /\ At(Main) \in {"begin", "sample", "start", "finish", "done"} => start = None
         /\ form = "deferred" /\ At(Main) = "drop" => start = None
         /\ At(Main) = "stop" => start # None
         /\ At(Main) \in Single
  BY NoRecord, MeasurementAssumption DEF PlaceOK, Times, IterTimes, DeferredTimes, Elapses

\* What a step does to the counts of a sample without a barrier.
LEMMA CountMoves ==
  ASSUME ControlOK, PlaceOK, DataOK, profiler = "thread", form # "contended", NEW t \in Thread,
         Thr(t) \/ (t \in Worker /\ Other(t))
  PROVE  \/ /\ UNCHANGED <<before, delta>> /\ count'[Main] = count[Main]
            /\ inside'.allocs = inside.allocs /\ start' = start
         \/ /\ UNCHANGED <<before, delta, start>> /\ At(Main)' = At(Main)
            /\ count'[Main] = count[Main] + 1
            /\ inside'.allocs = IF start # None THEN inside.allocs + 1 ELSE inside.allocs
         \/ /\ At(Main) = "start" /\ before' = count[Main] /\ start' = clock /\ delta' = delta
            /\ count'[Main] = count[Main] /\ inside'.allocs = inside.allocs /\ At(Main)' = "call"
         \/ /\ At(Main) = "stop" /\ delta' = IF form = "input" THEN None ELSE count[Main] - before
            /\ start' = None /\ count'[Main] = count[Main] /\ inside'.allocs = inside.allocs
            /\ At(Main)' = IF form = "iter" THEN "finish" ELSE "drop"
<1> USE Threads
<1>1. CASE Account(t) /\ t = Main
  <2>1. At(Main)' = At(Main) /\ UNCHANGED <<before, delta, start>>
    BY <1>1, AllocationStays DEF Account, timing
  <2>2. CASE op[Main].ok /\ op[Main].new > op[Main].old
    <3>1. count' = [count EXCEPT ![Main] = @ + 1]  BY <1>1, <2>2 DEF Account
    <3>2. inside' = IF start # None THEN [inside EXCEPT !.allocs = @ + 1] ELSE inside
      BY <1>1, <2>2 DEF Account
    <3> QED  BY <2>1, <3>1, <3>2 DEF DataOK
  <2>3. CASE ~(op[Main].ok /\ op[Main].new > op[Main].old)
    <3>1. count' = [count EXCEPT ![Main] = count[Main]]  BY <1>1, <2>3 DEF Account
    <3>2. inside' = inside  BY <1>1, <2>3 DEF Account
    <3> QED  BY <2>1, <3>1, <3>2 DEF DataOK
  <2> QED  BY <2>2, <2>3
<1>2. CASE Account(t) /\ t # Main
  <2>1. UNCHANGED <<before, delta, start, inside>>  BY <1>2 DEF Account, timing
  <2>2. count' = [count EXCEPT ![t] =
                       IF op[t].ok /\ op[t].new > op[t].old THEN @ + 1 ELSE @]
    BY <1>2 DEF Account
  <2> QED  BY <1>2, <2>1, <2>2 DEF DataOK
<1>3. CASE t = Main /\ Start
  <2>1. pc[Main] = "start" /\ before' = count[Main] /\ UNCHANGED <<count, delta, inside>>
    BY <1>3, Zenon DEF Start
  <2>2. At(Main) = "start" /\ pc'[Main] = "call" /\ start' = clock
    BY <1>3, <2>1 DEF At, Pending, Start, Goto, ControlOK
  <2>3. At(Main)' = "call"  BY <2>2 DEF At, Pending
  <2> QED  BY <2>1, <2>2, <2>3
<1>4. CASE t = Main /\ Stop
  <2>1. /\ pc[Main] = "stop" /\ delta' = IF form = "input" THEN None ELSE count[Main] - before
        /\ UNCHANGED <<count, inside>> /\ start' = None
        /\ pc'[Main] = IF form = "iter" THEN "finish" ELSE "drop"
    BY <1>4 DEF Stop, Goto, ControlOK
  <2>2. At(Main) = "stop" /\ At(Main)' = pc'[Main]  BY <2>1 DEF At, Pending
  <2> QED  BY <2>1, <2>2
<1>5. CASE ~Account(t) /\ ~(t = Main /\ (Start \/ Stop))
  <2>1. UNCHANGED <<before, delta>> /\ count' = count
    BY <1>5, Zenon DEF Thr, Coordinator, Acquire, System, Enter, Opened, LeaveBarrier, Closed, Pin,
                  Other, Begin, Sample, Setup, Join, Finish, Call, Drop, Work, counts
  <2>2. inside' = inside \/ inside' = [inside EXCEPT !.ticks = @ + 1]
    <3>1. CASE Call \/ Drop \/ Work(t)  BY <3>1 DEF Call, Drop, Work
    <3>2. CASE ~(Call \/ Drop \/ Work(t))
      BY <1>5, <3>2, Zenon DEF Thr, Coordinator, Acquire, System, Enter, Opened, LeaveBarrier,
                  Closed, Pin, Other, Begin, Sample, Setup, Join, Finish
    <3> QED  BY <3>1, <3>2
  <2>3. start' = start
    <3>1. ~(t = Main /\ (Opened(t) \/ Closed(t)))
      BY DEF Opened, Closed, PlaceOK, At, Pending, Single
    <3> QED
      BY <1>5, <3>1, Zenon DEF Thr, Coordinator, Acquire, System, Enter, Opened, LeaveBarrier, Closed,
                  Pin, Other, Begin, Sample, Setup, Join, Finish, Call, Drop, Work, timing
  <2>4. inside'.allocs = inside.allocs  BY <2>2 DEF DataOK
  <2> QED  BY <2>1, <2>3, <2>4
<1> QED  BY <1>1, <1>2, <1>3, <1>4, <1>5

\* Where a sample without a barrier goes.
LEMMA WhereTo ==
  ASSUME TimeMove(At(Main), At(Main)'), form \in {"iter", "deferred"}
  PROVE  /\ At(Main)' \in {"begin", "sample", "start"} =>
              At(Main) \in {"begin", "sample", "start", "setup"}
         /\ At(Main)' \in {"finish", "done"} =>
              \/ At(Main) \in {"finish", "done"}
              \/ form = "deferred" /\ At(Main) = "drop"
              \/ form = "iter" /\ At(Main) = "stop"
         /\ form = "deferred" /\ At(Main)' = "drop" => At(Main) \in {"drop", "stop"}
         /\ At(Main) = "stop" => At(Main)' = "stop" \/ start' = None
<1> DEFINE p == At(Main)
<1> HIDE DEF p
<1> SUFFICES ASSUME TimeMove(p, p')
             PROVE  /\ p' \in {"begin", "sample", "start"} => p \in {"begin", "sample", "start", "setup"}
                    /\ p' \in {"finish", "done"} =>
                         \/ p \in {"finish", "done"}
                         \/ form = "deferred" /\ p = "drop"
                         \/ form = "iter" /\ p = "stop"
                    /\ form = "deferred" /\ p' = "drop" => p \in {"drop", "stop"}
                    /\ p = "stop" => p' = "stop" \/ start' = None
  BY DEF p
<1> QED  BY DEF TimeMove

\* The counts of the thread are those of its calls, in every step.
LEMMA AllocationsStep ==
  ASSUME ControlOK, PlaceOK, DataOK, Times, Allocations, NEW t \in Thread,
         Thr(t) \/ (t \in Worker /\ Other(t))
  PROVE  Allocations'
<1> USE Threads
<1>0. form' = form /\ profiler' = profiler  BY SameConfig
<1>1. CASE profiler # "thread"  BY <1>0, <1>1 DEF Allocations
<1>2. CASE profiler = "thread" /\ form = "contended"
  <2>1. ~(t = Main /\ Stop)  BY <1>2 DEF Stop, PlaceOK, Meeting
  <2>2. delta' = delta
    BY <2>1, Zenon DEF Thr, Coordinator, Acquire, System, Account, Enter, Opened, LeaveBarrier, Closed,
                  Pin, Other, Begin, Sample, Setup, Start, Join, Finish, Call, Drop, Work, counts
  <2> QED  BY <1>0, <1>2, <2>2 DEF Allocations
<1>3. CASE profiler = "thread" /\ form = "input"
  <2>1. delta' = delta \/ delta' = None  BY <1>3, CountMoves
  <2> QED  BY <1>0, <1>3, <2>1 DEF Allocations
<1>4. CASE profiler = "thread" /\ form \in {"iter", "deferred"}
  <2>0. /\ At(Main) \in {"begin", "sample", "start"} => inside.allocs = 0 /\ delta = None
        /\ start # None => before \in Int /\ count[Main] = before + inside.allocs
        /\ At(Main) \in {"finish", "done"} => delta = inside.allocs
        /\ form = "deferred" /\ At(Main) = "drop" => delta = inside.allocs
    BY <1>4 DEF Allocations
  <2>1. TimeMove(At(Main), At(Main)')  BY <1>4, TimeMoves
  <2>2. /\ At(Main) \in {"begin", "sample", "start", "finish", "done"} => start = None
        /\ form = "deferred" /\ At(Main) = "drop" => start = None
        /\ At(Main) = "stop" => start # None
        /\ At(Main) \in Single
    BY <1>4, Running
  <2>3. At(Main) # "setup"  BY <1>4 DEF Times, IterTimes, DeferredTimes
  <2>4. count[Main] \in Int /\ inside.allocs \in Nat  BY DEF DataOK
  <2>5. /\ At(Main)' \in {"begin", "sample", "start"} => At(Main) \in {"begin", "sample", "start"}
        /\ At(Main)' \in {"finish", "done"} =>
             \/ At(Main) \in {"finish", "done"}
             \/ form = "deferred" /\ At(Main) = "drop"
             \/ form = "iter" /\ At(Main) = "stop"
        /\ form = "deferred" /\ At(Main)' = "drop" => At(Main) \in {"drop", "stop"}
        /\ At(Main) = "stop" => At(Main)' = "stop" \/ start' = None
    BY <1>4, <2>1, <2>3, WhereTo
  <2>6. CASE /\ UNCHANGED <<before, delta>> /\ count'[Main] = count[Main]
             /\ inside'.allocs = inside.allocs /\ start' = start
    <3>1. At(Main) = "stop" => At(Main)' = "stop"  BY <2>2, <2>5, <2>6
    <3>2. start' # None => before' \in Int /\ count'[Main] = before' + inside'.allocs
      BY <2>0, <2>6
    <3>3. At(Main)' \in {"begin", "sample", "start"} => inside'.allocs = 0 /\ delta' = None
      BY <2>0, <2>5, <2>6
    <3>4. At(Main)' \in {"finish", "done"} => delta' = inside'.allocs
      BY <2>0, <2>5, <2>6, <3>1
    <3>5. form = "deferred" /\ At(Main)' = "drop" => delta' = inside'.allocs
      BY <2>0, <2>5, <2>6, <3>1
    <3> QED  BY <1>0, <1>4, <3>2, <3>3, <3>4, <3>5 DEF Allocations
  <2>7. CASE /\ UNCHANGED <<before, delta, start>> /\ At(Main)' = At(Main)
             /\ count'[Main] = count[Main] + 1
             /\ inside'.allocs = IF start # None THEN inside.allocs + 1 ELSE inside.allocs
    BY <1>0, <1>4, <2>0, <2>2, <2>4, <2>7 DEF Allocations
  <2>8. CASE /\ At(Main) = "start" /\ before' = count[Main] /\ start' = clock /\ delta' = delta
             /\ count'[Main] = count[Main] /\ inside'.allocs = inside.allocs /\ At(Main)' = "call"
    BY <1>0, <1>4, <2>0, <2>4, <2>8 DEF Allocations
  <2>9. CASE /\ At(Main) = "stop" /\ delta' = IF form = "input" THEN None ELSE count[Main] - before
             /\ start' = None /\ count'[Main] = count[Main] /\ inside'.allocs = inside.allocs
             /\ At(Main)' = IF form = "iter" THEN "finish" ELSE "drop"
    BY <1>0, <1>4, <2>0, <2>2, <2>4, <2>9 DEF Allocations
  <2> QED  BY <1>4, <2>6, <2>7, <2>8, <2>9, CountMoves
<1> QED  BY <1>1, <1>2, <1>3, <1>4 DEF ControlOK

-----------------------------------------------------------------------------
(* The theorems.                                                           *)

\* The invariant holds when the program starts.
LEMMA MeasurementInit ==
  ASSUME Init
  PROVE  MeasurementInv
<1> USE Threads, NoRecord, MeasurementAssumption
<1>1. \A t \in Thread : pc[t] \in {"begin", "unborn"}  BY DEF Init
<1>2. pc[Main] = "begin" /\ \A w \in Worker : pc[w] = "unborn"  BY DEF Init
<1>3. At(Main) = "begin" /\ \A w \in Worker : At(w) = "unborn"  BY <1>2 DEF At, Pending
<1>4. ControlOK
  <2>1. form \in {"iter", "deferred", "input", "contended"} /\ profiler \in {"heap", "thread"}
    BY DEF Init
  <2>2. pc \in [Thread -> Places]  BY DEF Init, Places, Single, Working
  <2>3. back \in [Thread -> Resume \cup {None}] /\ op \in [Thread -> Request \cup {None}]
    BY DEF Init
  <2> QED  BY <1>1, <2>1, <2>2, <2>3 DEF ControlOK, Pending
<1>5. PlaceOK  BY <1>2, <1>3 DEF PlaceOK, Single, Meeting, Working
<1>6. DataOK  BY DEF DataOK, Init
<1>7. LedgerOK  BY DEF LedgerOK, Init
<1>8. LockOK
  <2>1. lock = None  BY DEF Init
  <2> QED  BY <1>1, <2>1 DEF LockOK, Inside
<1>9. PhaseOK /\ PhaseIsExact  BY <1>2 DEF PhaseOK, PhaseIsExact, Init
<1>10. Exact  BY DEF Exact, InFlight, Init
<1>11. Times
  <2>1. start = None /\ elapsed = 0 /\ k[Main] = 0 /\ inside.ticks = 0  BY DEF Init
  <2> QED  BY <1>2, <1>3, <2>1 DEF Times, IterTimes, DeferredTimes, InputTimes, MeetingTimes
<1>12. Allocations
  <2>1. start = None /\ delta = None /\ inside.allocs = 0  BY DEF Init
  <2> QED  BY <1>3, <2>1 DEF Allocations
<1> QED  BY <1>4, <1>5, <1>6, <1>7, <1>8, <1>9, <1>10, <1>11, <1>12 DEF MeasurementInv

\* It depends on nothing but the program's state.
LEMMA MeasurementStutter ==
  ASSUME MeasurementInv, UNCHANGED vars
  PROVE  MeasurementInv'
<1>1. /\ UNCHANGED <<form, profiler, pc, back, op, k, held, clock, start, elapsed>>
      /\ UNCHANGED <<lock, ledger, phase, measured, count, before, delta, heap, truth, inside>>
  BY Zenon DEF vars, config, control, timing, ledgers, counts
<1>2. /\ \A t \in Thread : At(t)' = At(t) /\ Inside(t)' = Inside(t)
      /\ InFlight' = InFlight
  BY <1>1, Zenon DEF At, Inside, InFlight
<1>3. ControlOK'  BY <1>1, Zenon DEF MeasurementInv, ControlOK
<1>4. PlaceOK'  BY <1>1, Zenon DEF MeasurementInv, PlaceOK, At
<1>5. DataOK' /\ LedgerOK'  BY <1>1, Zenon DEF MeasurementInv, DataOK, LedgerOK
<1>6. LockOK'  BY <1>1, Zenon DEF MeasurementInv, LockOK, Inside
<1>7. PhaseOK' /\ PhaseIsExact'  BY <1>1, Zenon DEF MeasurementInv, PhaseOK, PhaseIsExact
<1>8. Exact'  BY <1>1, Zenon DEF MeasurementInv, Exact, InFlight
<1>9. Times'
  <2>1. At(Main)' = At(Main) /\ k'[Main] = k[Main] /\ pc'[Main] = pc[Main]  BY <1>1, Zenon DEF At
  <2>2. Times  BY DEF MeasurementInv
  <2>3. form = "iter" => IterTimes(At(Main), k[Main])'
    BY <1>1, <2>1, <2>2 DEF Times, IterTimes, Elapses
  <2>4. form = "deferred" => DeferredTimes(At(Main), k[Main])'
    BY <1>1, <2>1, <2>2 DEF Times, DeferredTimes, Elapses
  <2>5. form = "input" => InputTimes(At(Main), k[Main])'
    BY <1>1, <2>1, <2>2 DEF Times, InputTimes, Elapses
  <2>6. form = "contended" => MeetingTimes(pc[Main])'
    BY <1>1, <2>1, <2>2 DEF Times, MeetingTimes
  <2> QED  BY <1>1, <2>3, <2>4, <2>5, <2>6, Zenon DEF Times
<1>10. Allocations'  BY <1>1, Zenon DEF MeasurementInv, Allocations, At
<1> QED  BY <1>3, <1>4, <1>5, <1>6, <1>7, <1>8, <1>9, <1>10 DEF MeasurementInv

\* The invariant holds for ever: where every thread is, who holds the spin lock,
\* what the ledger says of the heap but for the request under way, and how much of
\* the clock and of the thread's count each part of a sample has used.
THEOREM MeasurementInvariance == Spec => []MeasurementInv
<1>1. Init => MeasurementInv  BY MeasurementInit
<1>2. MeasurementInv /\ [Next]_vars => MeasurementInv'
  <2>1. ASSUME MeasurementInv, NEW t \in Thread, Thr(t) \/ (t \in Worker /\ Other(t))
        PROVE  MeasurementInv'
    BY <2>1, ControlStep, PlaceStep, DataStep, LedgerStep, LockStep, PhaseStep, ExactStep,
       TimesStep, AllocationsStep, Zenon DEF MeasurementInv
  <2>2. ASSUME MeasurementInv, UNCHANGED vars PROVE MeasurementInv'
    BY <2>2, MeasurementStutter
  <2> QED  BY <2>1, <2>2, Zenon DEF Next
<1> QED  BY <1>1, <1>2, PTL DEF Spec

\* A sample reports the time of its own calls, for every number of iterations and
\* across a wrap of the counter (Bencher::iter, iter_deferred_drop and
\* with_input().run()), the allocations of its own thread (AllocDelta), and a
\* contended sample no more than its workers did.
THEOREM SampleTheorem == Spec => []SampleIsOwn
<1>1. MeasurementInv => SampleIsOwn
  <2> SUFFICES ASSUME MeasurementInv, Sampled PROVE SampleIsOwn
    BY DEF SampleIsOwn
  <2>1. pc[Main] \in {"finish", "done"} /\ At(Main) = pc[Main]  BY DEF Sampled, At, Pending
  <2>2. Times /\ Allocations /\ ControlOK  BY DEF MeasurementInv
  <2>3. Iterations \in Nat  BY MeasurementAssumption
  <2>4. form # "contended" => elapsed = Iterations * (IF form = "iter" THEN 2 ELSE 1)
    BY <2>1, <2>2, <2>3 DEF Times, ControlOK, IterTimes, DeferredTimes, InputTimes
  <2>5. form = "contended" => elapsed <= inside.ticks
    BY <2>2 DEF Times, MeetingTimes
  <2>6. profiler = "thread" /\ delta # None => delta = inside.allocs
    BY <2>1, <2>2 DEF Allocations, ControlOK
  <2> QED  BY <2>4, <2>5, <2>6 DEF SampleIsOwn
<1> QED  BY <1>1, MeasurementInvariance, PTL

\* What a heap phase returns is the truth of the process, for every number of
\* threads and however their allocations interleave (HeapPhase, lock_ledger).
THEOREM PhaseTheorem == Spec => []PhaseIsExact
<1>1. MeasurementInv => PhaseIsExact  BY DEF MeasurementInv
<1> QED  BY <1>1, MeasurementInvariance, PTL

-----------------------------------------------------------------------------
(* Induction over an interval, which rests on the least element of a set.  *)

\* A set of naturals has a least element.
LEMMA LeastNatural ==
  ASSUME NEW T \in SUBSET Nat, T # {}
  PROVE  \E m \in T : \A j \in T : m <= j
<1> DEFINE Initial(n) == 0 .. n
           B == {Initial(n) : n \in T}
<1>1. \A n \in T : IsFiniteSet(Initial(n))  BY FS_Interval
<1>2. B \subseteq FiniteSubsetsOf(Nat) /\ B # {}
  <2>1. PICK t \in T : TRUE  OBVIOUS
  <2>2. Initial(t) \in B  OBVIOUS
  <2>3. \A t1 \in T : Initial(t1) \in SUBSET Nat  OBVIOUS
  <2> QED  BY <1>1, <2>2, <2>3 DEF FiniteSubsetsOf
<1>3. IsWellFoundedOn(StrictSubsetOrdering(Nat), FiniteSubsetsOf(Nat))
  BY FS_StrictSubsetOrderingWellFounded, Zenon
<1> HIDE DEF B
<1>4. PICK X \in B : \A Y \in B : ~(<<Y, X>> \in StrictSubsetOrdering(Nat))
  BY <1>2, <1>3, WFMin, Zenon
<1>5. PICK m \in T : X = Initial(m)  BY <1>4 DEF B
<1>6. ASSUME NEW j \in T, j < m PROVE FALSE
  <2>1. Initial(j) \in B  BY DEF B
  <2>2. m \in Initial(m) /\ m \notin Initial(j)  BY <1>6
  <2>3. Initial(j) \subseteq Initial(m)  BY <1>6
  <2>4. <<Initial(j), X>> \in StrictSubsetOrdering(Nat)
    BY <1>5, <2>2, <2>3 DEF StrictSubsetOrdering
  <2> QED  BY <1>4, <2>1, <2>4
<1> QED  BY <1>6

\* What holds of 0 and goes up holds up to n.
LEMMA Upwards ==
  ASSUME NEW n \in Nat, NEW P, 0 \in P,
         \A j \in 1 .. n : j - 1 \in P => j \in P
  PROVE  \A j \in 0 .. n : j \in P
<1> DEFINE T == {j \in 0 .. n : j \notin P}
<1> SUFFICES ASSUME T # {} PROVE FALSE  OBVIOUS
<1>0. T \in SUBSET Nat  OBVIOUS
<1>1. PICK m \in T : \A j \in T : m <= j
  <2> HIDE DEF T
  <2> QED  BY <1>0, LeastNatural
<1>2. m \in 1 .. n /\ m - 1 \in 0 .. n /\ ~(m <= m - 1)  BY <1>1
<1> QED  BY <1>1, <1>2

\* A finite set of integers has a least and a greatest element.
LEMMA LeastInteger ==
  ASSUME NEW S \in SUBSET Int, S # {}, IsFiniteSet(S)
  PROVE  \E x \in S : \A y \in S : x <= y
<1> DEFINE Least(T) == \E x \in T : \A y \in T : x <= y
           n == Cardinality(S)
           P == {j \in 0 .. n : \A T \in SUBSET S : Cardinality(T) = j /\ T # {} => Least(T)}
<1>1. n \in Nat  BY FS_CardinalityType
<1>2. ASSUME NEW T \in SUBSET S PROVE IsFiniteSet(T) /\ Cardinality(T) \in 0 .. n
  <2>1. IsFiniteSet(T) /\ Cardinality(T) <= n  BY FS_Subset
  <2>2. Cardinality(T) \in Nat  BY <2>1, FS_CardinalityType
  <2> HIDE DEF n
  <2> QED  BY <1>1, <2>1, <2>2
<1>3. 0 \in P
  <2>1. ASSUME NEW T \in SUBSET S, Cardinality(T) = 0 PROVE T = {}
    BY <1>2, <2>1, FS_EmptySet
  <2>2. 0 \in 0 .. n  BY <1>1
  <2> HIDE DEF n, Least
  <2> QED  BY <2>1, <2>2
<1>4. ASSUME NEW j \in 1 .. n, j - 1 \in P PROVE j \in P
  <2> SUFFICES ASSUME NEW T \in SUBSET S, Cardinality(T) = j, T # {} PROVE Least(T)
    OBVIOUS
  <2>1. PICK x \in T : TRUE  OBVIOUS
  <2> DEFINE U == T \ {x}
  <2>2. Cardinality(U) = j - 1  BY <1>2, <2>1, FS_RemoveElement
  <2>3. CASE U = {}  BY <2>1, <2>3
  <2>4. CASE U # {}
    <3>1. U \in SUBSET S  OBVIOUS
    <3>2. Least(U)  BY <1>4, <2>2, <2>4, <3>1
    <3>3. PICK u \in U : \A y \in U : u <= y  BY <3>2
    <3>4. u \in Int /\ x \in Int /\ U \subseteq Int  OBVIOUS
    <3> HIDE DEF Least
    <3>5. CASE u <= x
      <4>1. \A y \in T : u <= y  BY <3>3, <3>5
      <4> QED  BY <4>1 DEF Least
    <3>6. CASE x <= u
      <4>1. \A y \in T : x <= y  BY <3>3, <3>4, <3>6
      <4> QED  BY <4>1 DEF Least
    <3> QED  BY <3>4, <3>5, <3>6
  <2> QED  BY <2>3, <2>4
<1> HIDE DEF P, n
<1>5. \A j \in 0 .. n : j \in P  BY <1>1, <1>3, <1>4, Upwards
<1>6. n \in P  BY <1>1, <1>5
<1> QED  BY <1>6 DEF P, n

\* A finite set of integers has a greatest element.
LEMMA GreatestInteger ==
  ASSUME NEW S \in SUBSET Int, S # {}, IsFiniteSet(S)
  PROVE  \E x \in S : \A y \in S : y <= x
<1> DEFINE N == {-x : x \in S}
           f == [x \in S |-> -x]
<1>1. f \in Surjection(S, N)  BY DEF Surjection
<1>2. IsFiniteSet(N)  BY <1>1, FS_Surjection
<1>3. N \in SUBSET Int /\ N # {}  OBVIOUS
<1> HIDE DEF N
<1>4. PICK m \in N : \A y \in N : m <= y  BY <1>2, <1>3, LeastInteger
<1>5. PICK x \in S : m = -x  BY DEF N
<1>6. ASSUME NEW y \in S PROVE y <= x
  <2>1. -y \in N  BY DEF N
  <2> QED  BY <1>4, <1>5, <2>1
<1> QED  BY <1>6

-----------------------------------------------------------------------------
(* Sums and other recursions along a sequence.                             *)

\* A function on 1 .. n is a sequence of n values.
LEMMA IsSequence ==
  ASSUME NEW n \in Nat, NEW T, NEW v \in [1 .. n -> T]
  PROVE  v \in Seq(T) /\ Len(v) = n /\ DOMAIN v = 1 .. n
OBVIOUS

\* Steps that lead from any value to another can be repeated.
StepsOf(n, T) == [1 .. n -> [T -> T]]
Repeats(s, n, T, b, G) ==
  s \in [0 .. n -> T] /\ s[0] = b /\ \A j \in 1 .. n : s[j] = G[j][s[j - 1]]

\* A function that is computed step by step exists, however many steps it takes.
LEMMA Repeated ==
  ASSUME NEW n \in Nat, NEW T, NEW b \in T, NEW G \in StepsOf(n, T)
  PROVE  \E s : Repeats(s, n, T, b, G)
<1> USE DEF StepsOf
<1> DEFINE Good(s, m) == s[0] = b /\ \A j \in 1 .. m : s[j] = G[j][s[j - 1]]
           P == {m \in 0 .. n : \E s \in [0 .. n -> T] : Good(s, m)}
<1>1. 0 \in P
  <2> DEFINE s == [j \in 0 .. n |-> b]
  <2>1. s \in [0 .. n -> T] /\ Good(s, 0)  OBVIOUS
  <2>2. 0 \in 0 .. n  OBVIOUS
  <2> HIDE DEF s, Good
  <2> QED  BY <2>1, <2>2
<1>2. ASSUME NEW m \in 1 .. n, m - 1 \in P PROVE m \in P
  <2>1. PICK s \in [0 .. n -> T] : Good(s, m - 1)  BY <1>2
  <2> DEFINE t == G[m][s[m - 1]]
             r == [s EXCEPT ![m] = t]
  <2>2. t \in T
    <3>1. s[m - 1] \in T  OBVIOUS
    <3> QED  BY <3>1
  <2>3. r \in [0 .. n -> T]  BY <2>2
  <2>4. \A j \in 1 .. m - 1 : r[j] = s[j] /\ r[j - 1] = s[j - 1]  OBVIOUS
  <2>5. r[m] = t /\ r[m - 1] = s[m - 1] /\ r[0] = s[0]  OBVIOUS
  <2> HIDE DEF r
  <2>6. ASSUME NEW j \in 1 .. m PROVE r[j] = G[j][r[j - 1]]
    <3>1. CASE j = m  BY <2>5, <3>1
    <3>2. CASE j # m
      <4>1. j \in 1 .. m - 1  BY <3>2
      <4> QED  BY <2>1, <2>4, <4>1
    <3> QED  BY <3>1, <3>2
  <2>7. Good(r, m) /\ m \in 0 .. n  BY <2>1, <2>5, <2>6
  <2> HIDE DEF Good
  <2> QED  BY <2>3, <2>7
<1> HIDE DEF P
<1>3. \A m \in 0 .. n : m \in P  BY <1>1, <1>2, Upwards
<1>4. n \in P  BY <1>3
<1> QED  BY <1>4 DEF P, Repeats

\* What Sums computes.
AreSums(s, n, v) ==
  s \in [0 .. n -> Int] /\ s[0] = 0 /\ \A j \in 1 .. n : s[j] = s[j - 1] + v[j]

\* Sums adds one value after the other, and Total is the last of them.
LEMMA SumsAre ==
  ASSUME NEW n \in Nat, NEW v \in [1 .. n -> Int]
  PROVE  AreSums(Sums(v), n, v) /\ Total(v) = Sums(v)[n] /\ Total(v) \in Int
<1> DEFINE G == [j \in 1 .. n |-> [t \in Int |-> t + v[j]]]
           IsSums(s) == s = [j \in 0 .. n |-> IF j = 0 THEN 0 ELSE s[j - 1] + v[j]]
<1>1. G \in StepsOf(n, Int)  BY DEF StepsOf
<1>2. \A j \in 1 .. n, t \in Int : G[j][t] = t + v[j]  OBVIOUS
<1> HIDE DEF G
<1>0. 0 \in Int  OBVIOUS
<1>3. PICK s : Repeats(s, n, Int, 0, G)  BY <1>0, <1>1, Repeated
<1>4. IsSums(s)
  <2> USE DEF Repeats
  <2>1. s \in [0 .. n -> Int] /\ \A j \in 1 .. n : s[j - 1] \in Int  BY <1>3
  <2>2. \A j \in 1 .. n : s[j] = s[j - 1] + v[j]
    BY <1>2, <1>3, <2>1
  <2>3. \A j \in 0 .. n : j = 0 \/ j \in 1 .. n  OBVIOUS
  <2>4. \A j \in 0 .. n : s[j] = IF j = 0 THEN 0 ELSE s[j - 1] + v[j]
    BY <1>3, <2>2, <2>3
  <2> QED  BY <2>1, <2>4
<1>5. Sums(v) = CHOOSE t : IsSums(t)  BY IsSequence DEF Sums
<1> DEFINE r == Sums(v)
<1>6. IsSums(r)
  <2> HIDE DEF IsSums
  <2> QED  BY <1>4, <1>5
<1> HIDE DEF r
<1>7. r[0] = 0 /\ \A j \in 1 .. n : r[j] = r[j - 1] + v[j]
  <2>1. 0 \in 0 .. n /\ \A j \in 1 .. n : j \in 0 .. n /\ j # 0  OBVIOUS
  <2> QED  BY <1>6, <2>1
<1>8. \A j \in 0 .. n : r[j] \in Int
  <2> DEFINE P == {j \in 0 .. n : r[j] \in Int}
  <2>1. 0 \in P  BY <1>7
  <2>2. ASSUME NEW j \in 1 .. n, j - 1 \in P PROVE j \in P
    BY <1>7, <2>2
  <2> HIDE DEF P
  <2>3. \A j \in 0 .. n : j \in P  BY <2>1, <2>2, Upwards
  <2> QED  BY <2>3 DEF P
<1>9. r \in [0 .. n -> Int]  BY <1>6, <1>8
<1>10. Total(v) = r[n]  BY IsSequence DEF Total, r
<1>11. AreSums(r, n, v)  BY <1>7, <1>9 DEF AreSums
<1>12. Total(v) \in Int  BY <1>8, <1>10
<1> QED  BY <1>10, <1>11, <1>12 DEF r

\* What is true of sums, by induction over those of the first values, ...
LEMMA SumAdds ==
  ASSUME NEW n \in Nat, NEW u \in [1 .. n -> Int], NEW v \in [1 .. n -> Int],
         NEW w \in [1 .. n -> Int], \A j \in 1 .. n : w[j] = u[j] + v[j]
  PROVE  Total(w) = Total(u) + Total(v)
<1>1. PICK a : AreSums(a, n, u) /\ Total(u) = a[n]  BY SumsAre
<1>2. PICK b : AreSums(b, n, v) /\ Total(v) = b[n]  BY SumsAre
<1>3. PICK c : AreSums(c, n, w) /\ Total(w) = c[n]  BY SumsAre
<1> DEFINE P == {j \in 0 .. n : c[j] = a[j] + b[j]}
<1>4. 0 \in P  BY <1>1, <1>2, <1>3 DEF AreSums
<1>5. ASSUME NEW j \in 1 .. n, j - 1 \in P PROVE j \in P
  BY <1>1, <1>2, <1>3, <1>5 DEF AreSums
<1> HIDE DEF P
<1>6. \A j \in 0 .. n : j \in P  BY <1>4, <1>5, Upwards
<1> QED  BY <1>1, <1>2, <1>3, <1>6 DEF P

\* The sum of multiples is the multiple of the sum.
LEMMA SumScales ==
  ASSUME NEW n \in Nat, NEW c \in Int, NEW v \in [1 .. n -> Int],
         NEW w \in [1 .. n -> Int], \A j \in 1 .. n : w[j] = c * v[j]
  PROVE  Total(w) = c * Total(v)
<1>1. PICK a : AreSums(a, n, v) /\ Total(v) = a[n]  BY SumsAre
<1>2. PICK b : AreSums(b, n, w) /\ Total(w) = b[n]  BY SumsAre
<1> DEFINE P == {j \in 0 .. n : b[j] = c * a[j]}
<1>3. 0 \in P  BY <1>1, <1>2 DEF AreSums
<1>4. ASSUME NEW j \in 1 .. n, j - 1 \in P PROVE j \in P
  <2>1. b[j] = c * a[j - 1] + c * v[j] /\ a[j] = a[j - 1] + v[j]
    BY <1>1, <1>2, <1>4 DEF AreSums
  <2>2. a[j - 1] \in Int /\ v[j] \in Int  BY <1>1 DEF AreSums
  <2>3. ASSUME NEW x \in Int, NEW y \in Int PROVE c * (x + y) = c * x + c * y
    OBVIOUS
  <2>4. c * (a[j - 1] + v[j]) = c * a[j - 1] + c * v[j]  BY <2>2, <2>3
  <2> QED  BY <2>1, <2>4
<1> HIDE DEF P
<1>5. \A j \in 0 .. n : j \in P  BY <1>3, <1>4, Upwards
<1> QED  BY <1>1, <1>2, <1>5 DEF P

\* What is smaller at each place is smaller in all.
LEMMA SumBounded ==
  ASSUME NEW n \in Nat, NEW u \in [1 .. n -> Int], NEW v \in [1 .. n -> Int],
         \A j \in 1 .. n : u[j] <= v[j]
  PROVE  Total(u) <= Total(v)
<1>1. PICK a : AreSums(a, n, u) /\ Total(u) = a[n]  BY SumsAre
<1>2. PICK b : AreSums(b, n, v) /\ Total(v) = b[n]  BY SumsAre
<1> DEFINE P == {j \in 0 .. n : a[j] <= b[j]}
<1>3. 0 \in P  BY <1>1, <1>2 DEF AreSums
<1>4. ASSUME NEW j \in 1 .. n, j - 1 \in P PROVE j \in P
  BY <1>1, <1>2, <1>4 DEF AreSums
<1> HIDE DEF P
<1>5. \A j \in 0 .. n : j \in P  BY <1>3, <1>4, Upwards
<1> QED  BY <1>1, <1>2, <1>5 DEF P

\* n times the same.
LEMMA SumConstant ==
  ASSUME NEW n \in Nat, NEW c \in Int, NEW v \in [1 .. n -> Int],
         \A j \in 1 .. n : v[j] = c
  PROVE  Total(v) = n * c
<1>1. PICK a : AreSums(a, n, v) /\ Total(v) = a[n]  BY SumsAre
<1> DEFINE P == {j \in 0 .. n : a[j] = j * c}
<1>2. 0 \in P  BY <1>1 DEF AreSums
<1>3. ASSUME NEW j \in 1 .. n, j - 1 \in P PROVE j \in P
  <2>1. a[j] = (j - 1) * c + c  BY <1>1, <1>3 DEF AreSums
  <2> QED  BY <2>1
<1> HIDE DEF P
<1>4. \A j \in 0 .. n : j \in P  BY <1>2, <1>3, Upwards
<1> QED  BY <1>1, <1>4 DEF P

\* ... and of a table that is summed by rows or by columns.
LEMMA SumsExchange ==
  ASSUME NEW m \in Nat, NEW n \in Nat, NEW g \in [1 .. m -> [1 .. n -> Int]]
  PROVE  Total([i \in 1 .. m |-> Total(g[i])])
           = Total([j \in 1 .. n |-> Total([i \in 1 .. m |-> g[i][j]])])
<1> DEFINE row == [i \in 1 .. m |-> Total(g[i])]
           column(j) == [i \in 1 .. m |-> g[i][j]]
           sums == [j \in 1 .. n |-> Sums(column(j))]
           part(i) == [j \in 1 .. n |-> sums[j][i]]
           P == {i \in 0 .. m : Sums(row)[i] = Total(part(i))}
<1>1. row \in [1 .. m -> Int] /\ \A i \in 1 .. m : row[i] = Total(g[i])
  BY SumsAre
<1>2. ASSUME NEW j \in 1 .. n
      PROVE  /\ AreSums(sums[j], m, column(j)) /\ Total(column(j)) = sums[j][m]
             /\ \A i \in 1 .. m : column(j)[i] = g[i][j]
  <2>1. column(j) \in [1 .. m -> Int]  OBVIOUS
  <2>2. sums[j] = Sums(column(j))  OBVIOUS
  <2>3. \A i \in 1 .. m : column(j)[i] = g[i][j]  OBVIOUS
  <2> HIDE DEF column, sums
  <2> QED  BY <2>1, <2>2, <2>3, SumsAre
<1>3. PICK a : AreSums(a, m, row) /\ Total(row) = a[m] /\ a = Sums(row)
  BY <1>1, SumsAre
<1> HIDE DEF row, column, sums
<1>4. ASSUME NEW i \in 0 .. m
      PROVE  part(i) \in [1 .. n -> Int] /\ \A j \in 1 .. n : part(i)[j] = sums[j][i]
  BY <1>2 DEF AreSums
<1>5. 0 \in P
  <2>1. part(0) \in [1 .. n -> Int]  BY <1>4
  <2>2. \A j \in 1 .. n : part(0)[j] = 0  BY <1>2 DEF AreSums
  <2> HIDE DEF part
  <2>3. Total(part(0)) = n * 0  BY <2>1, <2>2, SumConstant
  <2> QED  BY <1>3, <2>3 DEF AreSums
<1>6. ASSUME NEW i \in 1 .. m, i - 1 \in P PROVE i \in P
  <2>1. part(i) \in [1 .. n -> Int] /\ part(i - 1) \in [1 .. n -> Int]
    BY <1>4
  <2>2. ASSUME NEW j \in 1 .. n PROVE part(i)[j] = part(i - 1)[j] + g[i][j]
    BY <1>2, <1>4 DEF AreSums
  <2> HIDE DEF part
  <2>3. Total(part(i)) = Total(part(i - 1)) + Total(g[i])
    BY <2>1, <2>2, SumAdds
  <2>4. Sums(row)[i] = Sums(row)[i - 1] + row[i]  BY <1>3 DEF AreSums
  <2> QED  BY <1>1, <1>6, <2>3, <2>4
<1> HIDE DEF P
<1>7. \A i \in 0 .. m : i \in P  BY <1>5, <1>6, Upwards
<1>8. Total(row) = Total(part(m))
  <2> HIDE DEF part
  <2>1. m \in 0 .. m  OBVIOUS
  <2>2. Sums(row)[m] = Total(part(m))  BY <1>7, <2>1 DEF P
  <2>3. Total(row) = Sums(row)[m]  BY <1>3
  <2> QED  BY <2>2, <2>3
<1>9. part(m) = [j \in 1 .. n |-> Total(column(j))]
  <2>1. \A j \in 1 .. n : sums[j][m] = Total(column(j))  BY <1>2
  <2> QED  BY <2>1 DEF part
<1> QED  BY <1>8, <1>9 DEF row, column

\* A sum of ones counts.
LEMMA SumCounts ==
  ASSUME NEW n \in Nat, NEW S \in SUBSET (1 .. n), NEW v \in [1 .. n -> Int],
         \A j \in 1 .. n : v[j] = IF j \in S THEN 1 ELSE 0
  PROVE  Total(v) = Cardinality(S) /\ IsFiniteSet(S) /\ Cardinality(S) \in 0 .. n
<1>1. PICK a : AreSums(a, n, v) /\ Total(v) = a[n]  BY SumsAre
<1> DEFINE first(j) == S \cap 1 .. j
           P == {j \in 0 .. n : a[j] = Cardinality(first(j))}
<1>2. 0 \in P
  <2>1. first(0) = {}  OBVIOUS
  <2> QED  BY <1>1, <2>1, FS_EmptySet DEF AreSums
<1>3. ASSUME NEW j \in 1 .. n, j - 1 \in P PROVE j \in P
  <2>1. IsFiniteSet(1 .. j - 1)  BY FS_Interval
  <2>2. IsFiniteSet(first(j - 1))  BY <2>1, FS_Intersection
  <2>3. Cardinality(first(j - 1)) \in Nat  BY <2>2, FS_CardinalityType
  <2>4. j \notin first(j - 1)
        /\ first(j) = IF j \in S THEN first(j - 1) \cup {j} ELSE first(j - 1)
    OBVIOUS
  <2>5. a[j] = a[j - 1] + v[j] /\ a[j - 1] = Cardinality(first(j - 1))
    BY <1>1, <1>3 DEF AreSums
  <2> HIDE DEF first
  <2>6. Cardinality(first(j - 1) \cup {j}) = Cardinality(first(j - 1)) + 1
    BY <2>2, <2>4, FS_AddElement
  <2>7. v[j] = IF j \in S THEN 1 ELSE 0  OBVIOUS
  <2>8. a[j] = Cardinality(first(j))
    <3>1. CASE j \in S  BY <2>3, <2>4, <2>5, <2>6, <2>7, <3>1
    <3>2. CASE j \notin S  BY <2>3, <2>4, <2>5, <2>7, <3>2
    <3> QED  BY <3>1, <3>2
  <2> QED  BY <2>8
<1> HIDE DEF P
<1>4. \A j \in 0 .. n : j \in P  BY <1>2, <1>3, Upwards
<1>5. first(n) = S  OBVIOUS
<1>6. Total(v) = Cardinality(S)
  <2> HIDE DEF first
  <2> QED  BY <1>1, <1>4, <1>5 DEF P
<1>7. IsFiniteSet(1 .. n) /\ Cardinality(1 .. n) = n  BY FS_Interval
<1>8. IsFiniteSet(S) /\ Cardinality(S) <= n
  <2> DEFINE U == 1 .. n
  <2>1. IsFiniteSet(U) /\ S \in SUBSET U /\ Cardinality(U) = n  BY <1>7
  <2> HIDE DEF U
  <2>2. IsFiniteSet(S) /\ Cardinality(S) <= Cardinality(U)  BY <2>1, FS_Subset
  <2> QED  BY <2>1, <2>2
<1>9. Cardinality(S) \in Nat  BY <1>8, FS_CardinalityType
<1> QED  BY <1>6, <1>8, <1>9

-----------------------------------------------------------------------------
(* Least, greatest and sorted values.                                      *)

\* The minimum of a finite set of integers is in it, and below all of it.
LEMMA MinIs ==
  ASSUME NEW S \in SUBSET Int, S # {}, IsFiniteSet(S)
  PROVE  Min(S) \in S /\ \A y \in S : Min(S) <= y
BY LeastInteger DEF Min

\* The maximum of a finite set of integers is in it, and above all of it.
LEMMA MaxIs ==
  ASSUME NEW S \in SUBSET Int, S # {}, IsFiniteSet(S)
  PROVE  Max(S) \in S /\ \A y \in S : Max(S) >= y
<1>1. PICK x \in S : \A y \in S : y <= x  BY GreatestInteger
<1>2. \A y \in S : x >= y  BY <1>1
<1> QED  BY <1>2 DEF Max

\* A pair is finite.
LEMMA FinitePair ==
  ASSUME NEW a, NEW b
  PROVE  IsFiniteSet({a, b})
<1>1. IsFiniteSet({a})  BY FS_Singleton
<1>2. IsFiniteSet({a} \cup {b})  BY <1>1, FS_AddElement
<1>3. {a, b} = {a} \cup {b}  OBVIOUS
<1> QED  BY <1>2, <1>3

\* The greater of two.
LEMMA MaxOfTwo ==
  ASSUME NEW a \in Int, NEW b \in Int
  PROVE  Max({a, b}) = IF a >= b THEN a ELSE b
<1>1. {a, b} \in SUBSET Int /\ {a, b} # {} /\ IsFiniteSet({a, b})
  BY FinitePair
<1>2. Max({a, b}) \in {a, b} /\ \A y \in {a, b} : Max({a, b}) >= y  BY <1>1, MaxIs
<1> QED  BY <1>2

\* The smaller of two.
LEMMA MinOfTwo ==
  ASSUME NEW a \in Int, NEW b \in Int
  PROVE  Min({a, b}) = IF a <= b THEN a ELSE b
<1>1. {a, b} \in SUBSET Int /\ {a, b} # {} /\ IsFiniteSet({a, b})
  BY FinitePair
<1>2. Min({a, b}) \in {a, b} /\ \A y \in {a, b} : Min({a, b}) <= y  BY <1>1, MinIs
<1> QED  BY <1>2

\* A distance is the greater minus the smaller.
LEMMA DistanceIs ==
  ASSUME NEW a \in Int, NEW b \in Int
  PROVE  Distance(a, b) = IF a >= b THEN a - b ELSE b - a
<1>1. a - b \in Int /\ b - a \in Int  OBVIOUS
<1>2. Max({a - b, b - a}) = IF a - b >= b - a THEN a - b ELSE b - a
  BY <1>1, MaxOfTwo
<1> QED  BY <1>2 DEF Distance

\* A part of 1 .. n has a size up to n; a part of a part is no larger.
LEMMA PartOfInterval ==
  ASSUME NEW n \in Nat, NEW S \in SUBSET (1 .. n)
  PROVE  /\ IsFiniteSet(S) /\ Cardinality(S) \in 0 .. n
         /\ \A R \in SUBSET S : IsFiniteSet(R) /\ Cardinality(R) <= Cardinality(S)
<1> DEFINE U == 1 .. n
<1>1. IsFiniteSet(U) /\ S \in SUBSET U /\ Cardinality(U) = n  BY FS_Interval
<1> HIDE DEF U
<1>2. IsFiniteSet(S) /\ Cardinality(S) <= n  BY <1>1, FS_Subset
<1>3. Cardinality(S) \in Nat  BY <1>2, FS_CardinalityType
<1>4. \A R \in SUBSET S : IsFiniteSet(R) /\ Cardinality(R) <= Cardinality(S)
  BY <1>2, FS_Subset
<1> QED  BY <1>2, <1>3, <1>4

\* How many values are below a bound, and up to it.
LEMMA Counted ==
  ASSUME NEW n \in Nat, NEW v \in [1 .. n -> Int], NEW x \in Int, NEW y \in Int
  PROVE  /\ Below(v, x) \in SUBSET (1 .. n) /\ UpTo(v, x) \in SUBSET (1 .. n)
         /\ Cardinality(Below(v, x)) \in 0 .. n /\ Cardinality(UpTo(v, x)) \in 0 .. n
         /\ x < y => Cardinality(UpTo(v, x)) <= Cardinality(Below(v, y))
<1>1. Below(v, x) \in SUBSET (1 .. n) /\ UpTo(v, x) \in SUBSET (1 .. n)
  BY DEF Below, UpTo
<1>2. Below(v, y) \in SUBSET (1 .. n)  BY DEF Below
<1>3. x < y => UpTo(v, x) \in SUBSET Below(v, y)  BY DEF Below, UpTo
<1> QED  BY <1>1, <1>2, <1>3, PartOfInterval

\* The values at some places are finitely many.
ValuesAt(v, S) == {v[i] : i \in S}

\* The values at some places are values of the sequence, as many as a finite set
\* has.
LEMMA ValuesAtAre ==
  ASSUME NEW n \in Nat, NEW T, NEW v \in [1 .. n -> T], NEW S \in SUBSET (1 .. n)
  PROVE  /\ ValuesAt(v, S) \in SUBSET T /\ IsFiniteSet(ValuesAt(v, S))
         /\ S # {} => ValuesAt(v, S) # {}
<1> DEFINE values == ValuesAt(v, S)
           f == [i \in S |-> v[i]]
<1>1. f \in Surjection(S, values)  BY DEF Surjection, ValuesAt
<1>2. IsFiniteSet(S)  BY PartOfInterval
<1> HIDE DEF f
<1>3. IsFiniteSet(values)  BY <1>1, <1>2, FS_Surjection
<1> QED  BY <1>3 DEF ValuesAt

\* The j-th smallest value is what it says.
LEMMA SmallestIs ==
  ASSUME NEW n \in Nat, NEW v \in [1 .. n -> Int], NEW j \in 1 .. n
  PROVE  /\ Smallest(v, j) \in ToSet(v) /\ Smallest(v, j) \in Int
         /\ Cardinality(Below(v, Smallest(v, j))) < j
         /\ j <= Cardinality(UpTo(v, Smallest(v, j)))
<1> DEFINE R == {x \in ToSet(v) : j <= Cardinality(UpTo(v, x))}
<1>1. ToSet(v) = ValuesAt(v, 1 .. n)  BY DEF ToSet, ValuesAt
<1>2. ToSet(v) \in SUBSET Int /\ IsFiniteSet(ToSet(v)) /\ ToSet(v) # {}
  <2> DEFINE U == 1 .. n
  <2>1. U \in SUBSET (1 .. n) /\ U # {} /\ ToSet(v) = ValuesAt(v, U)  BY <1>1
  <2> HIDE DEF U
  <2> QED  BY <2>1, ValuesAtAre
<1>3. PICK top \in ToSet(v) : \A y \in ToSet(v) : y <= top
  BY <1>2, GreatestInteger
<1>4. top \in R
  <2>1. UpTo(v, top) = 1 .. n  BY <1>1, <1>3 DEF UpTo, ValuesAt
  <2>2. Cardinality(1 .. n) = n  BY FS_Interval
  <2> QED  BY <2>1, <2>2
<1>5. R \in SUBSET Int /\ IsFiniteSet(R) /\ R # {}
  <2>1. R \in SUBSET ToSet(v)  OBVIOUS
  <2> HIDE DEF R
  <2> QED  BY <1>2, <1>4, <2>1, FS_Subset
<1>6. PICK w \in R : \A y \in R : w <= y
  <2> HIDE DEF R
  <2> QED  BY <1>5, LeastInteger
<1>7. w \in Int /\ w \in ToSet(v)  BY <1>2, <1>6
<1>8. ASSUME ~(Cardinality(Below(v, w)) < j) PROVE FALSE
  <2> DEFINE B == Below(v, w)
             L == ValuesAt(v, B)
  <2>1. B \in SUBSET (1 .. n) /\ Cardinality(B) \in 0 .. n  BY <1>7, Counted
  <2>2. B # {}
    <3>1. j >= 1  OBVIOUS
    <3>2. Cardinality(B) # 0  BY <1>8, <2>1, <3>1
    <3> QED  BY <3>2, FS_EmptySet
  <2> HIDE DEF B
  <2>3. L \in SUBSET Int /\ IsFiniteSet(L) /\ L # {}  BY <2>1, <2>2, ValuesAtAre
  <2>4. PICK u \in L : \A y \in L : y <= u
    <3> HIDE DEF L
    <3> QED  BY <2>3, GreatestInteger
  <2>5. u \in Int /\ u \in ToSet(v) /\ u < w
    BY <1>1, <1>7, <2>1, <2>3, <2>4 DEF B, Below, ValuesAt
  <2>6. UpTo(v, u) = B  BY <1>7, <2>4, <2>5 DEF B, Below, UpTo, ValuesAt
  <2>7. u \in R  BY <1>8, <2>1, <2>5, <2>6 DEF B
  <2> QED  BY <1>6, <1>7, <2>5, <2>7
<1>9. \E x \in ToSet(v) : Cardinality(Below(v, x)) < j /\ j <= Cardinality(UpTo(v, x))
  BY <1>6, <1>7, <1>8
<1>10. /\ Smallest(v, j) \in ToSet(v) /\ Cardinality(Below(v, Smallest(v, j))) < j
       /\ j <= Cardinality(UpTo(v, Smallest(v, j)))
  BY <1>9 DEF Smallest
<1> QED  BY <1>2, <1>10

\* Sorted values do not go down.
LEMMA AscendingIs ==
  ASSUME NEW n \in Nat, NEW v \in [1 .. n -> Int]
  PROVE  /\ Ascending(v) \in [1 .. n -> Int] /\ Len(Ascending(v)) = n
         /\ \A h \in 1 .. n : Ascending(v)[h] = Smallest(v, h)
         /\ \A j, h \in 1 .. n : j <= h => Ascending(v)[j] <= Ascending(v)[h]
<1>1. Ascending(v) = [h \in 1 .. n |-> Smallest(v, h)]  BY DEF Ascending
<1>2. \A h \in 1 .. n : Smallest(v, h) \in Int  BY SmallestIs
<1>3. Ascending(v) \in [1 .. n -> Int]  BY <1>1, <1>2
<1>4. ASSUME NEW j \in 1 .. n, NEW h \in 1 .. n, j <= h, Smallest(v, h) < Smallest(v, j)
      PROVE  FALSE
  <2> DEFINE x == Smallest(v, h)
             y == Smallest(v, j)
  <2>1. x \in Int /\ y \in Int /\ h <= Cardinality(UpTo(v, x))
        /\ Cardinality(Below(v, y)) < j
    BY SmallestIs
  <2>2. x < y  BY <1>4
  <2> HIDE DEF x, y
  <2>3. Cardinality(UpTo(v, x)) <= Cardinality(Below(v, y))  BY <2>1, <2>2, Counted
  <2>4. Cardinality(UpTo(v, x)) \in 0 .. n /\ Cardinality(Below(v, y)) \in 0 .. n
    BY <2>1, Counted
  <2> QED  BY <1>4, <2>1, <2>3, <2>4
<1>5. Len(Ascending(v)) = n  BY <1>3, IsSequence
<1> QED  BY <1>1, <1>2, <1>3, <1>4, <1>5

\* The values that tie fill the places between those below them and those up to
\* them, so twice their average rank is known from counting.
LEMMA RankIs ==
  ASSUME NEW n \in Nat, NEW v \in [1 .. n -> Int], NEW i \in 1 .. n
  PROVE  Rank(v, v[i]) = Cardinality(Below(v, v[i])) + Cardinality(UpTo(v, v[i])) + 1
<1> DEFINE x == v[i]
           b == Cardinality(Below(v, x))
           u == Cardinality(UpTo(v, x))
           at == {h \in DOMAIN Ascending(v) : Ascending(v)[h] = x}
<1>1. x \in Int  OBVIOUS
<1>2. i \in UpTo(v, x) /\ i \notin Below(v, x)
      /\ Below(v, x) \cup {i} \in SUBSET UpTo(v, x)
  BY DEF UpTo, Below
<1> HIDE DEF x
<1>3. b \in 0 .. n /\ u \in 0 .. n  BY <1>1, Counted
<1>4. b < u
  <2>1. UpTo(v, x) \in SUBSET (1 .. n) /\ Below(v, x) \in SUBSET (1 .. n)
    BY <1>1, Counted
  <2>2. IsFiniteSet(Below(v, x))  BY <2>1, PartOfInterval
  <2>3. Cardinality(Below(v, x) \cup {i}) = b + 1  BY <1>2, <2>2, FS_AddElement
  <2>4. Cardinality(Below(v, x) \cup {i}) <= u  BY <1>2, <2>1, PartOfInterval
  <2> QED  BY <1>3, <2>3, <2>4
<1>5. at = b + 1 .. u
  <2>1. DOMAIN Ascending(v) = 1 .. n  BY AscendingIs
  <2>2. ASSUME NEW h \in 1 .. n, Ascending(v)[h] = x PROVE h \in b + 1 .. u
    <3>1. Smallest(v, h) = x  BY <2>2, AscendingIs
    <3>2. b < h /\ h <= u  BY <3>1, SmallestIs
    <3> QED  BY <1>3, <3>2
  <2>3. ASSUME NEW h \in b + 1 .. u PROVE h \in 1 .. n /\ Ascending(v)[h] = x
    <3>1. h \in 1 .. n  BY <1>3
    <3> DEFINE y == Smallest(v, h)
    <3>2. Ascending(v)[h] = y  BY <3>1, AscendingIs
    <3>3. y \in Int /\ Cardinality(Below(v, y)) < h /\ h <= Cardinality(UpTo(v, y))
      BY <3>1, SmallestIs
    <3> HIDE DEF y
    <3>4. Cardinality(Below(v, y)) \in Int /\ Cardinality(UpTo(v, y)) \in Int
      BY <3>3, Counted
    <3>5. ~(y < x)
      <4>1. y < x => Cardinality(UpTo(v, y)) <= b  BY <1>1, <3>3, Counted
      <4> QED  BY <1>3, <3>3, <3>4, <4>1
    <3>6. ~(x < y)
      <4>1. x < y => u <= Cardinality(Below(v, y))  BY <1>1, <3>3, Counted
      <4> QED  BY <1>3, <3>3, <3>4, <4>1
    <3> QED  BY <1>1, <3>1, <3>2, <3>3, <3>5, <3>6
  <2> HIDE DEF b, u
  <2> QED  BY <1>3, <2>1, <2>2, <2>3
<1>10. Rank(v, x) = (Min(at) - 1) + Max(at) + 1  BY DEF Rank
<1> HIDE DEF at, b, u
<1>6. IsFiniteSet(at) /\ at \in SUBSET Int /\ at # {}
  <2>1. b + 1 \in Int /\ u \in Int /\ b + 1 \in b + 1 .. u  BY <1>3, <1>4
  <2> QED  BY <1>5, <2>1, FS_Interval
<1>7. Min(at) = b + 1
  <2>1. Min(at) \in at /\ \A y \in at : Min(at) <= y  BY <1>6, MinIs
  <2> QED  BY <1>3, <1>4, <1>5, <2>1
<1>8. Max(at) = u
  <2>1. Max(at) \in at /\ \A y \in at : Max(at) >= y  BY <1>6, MaxIs
  <2> QED  BY <1>3, <1>4, <1>5, <2>1
<1> QED  BY <1>3, <1>7, <1>8, <1>10 DEF x, b, u

\* Among some places there is a j-th one.
LEMMA JthPlace ==
  ASSUME NEW n \in Nat, NEW S \in SUBSET (1 .. n), NEW j \in 1 .. Cardinality(S)
  PROVE  \E h \in S : Cardinality(S \cap 1 .. h) = j
<1> DEFINE first(h) == S \cap 1 .. h
           R == {h \in 0 .. n : j <= Cardinality(first(h))}
<1>1. \A h \in 0 .. n : first(h) \in SUBSET (1 .. n)  OBVIOUS
<1>2. first(n) = S /\ first(0) = {}
  <2>1. \A h \in S : h \in 1 .. n  OBVIOUS
  <2>2. 1 .. 0 = {}  OBVIOUS
  <2> QED  BY <2>1, <2>2
<1>3. \A h \in 1 .. n :
        first(h) = IF h \in S THEN first(h - 1) \cup {h} ELSE first(h - 1)
  OBVIOUS
<1>4. \A h \in 1 .. n : h \notin first(h - 1)  OBVIOUS
<1>5. Cardinality(S) \in 0 .. n  BY PartOfInterval
<1> HIDE DEF first
<1>6. R \in SUBSET Nat /\ n \in R  BY <1>2, <1>5
<1>7. PICK m \in R : \A h \in R : m <= h
  <2> HIDE DEF R
  <2> QED  BY <1>6, LeastNatural
<1>8. m # 0
  <2>1. Cardinality(first(0)) = 0  BY <1>2, FS_EmptySet
  <2> QED  BY <1>7, <2>1
<1>9. m \in 1 .. n /\ m - 1 \in 0 .. n  BY <1>7, <1>8
<1>10. Cardinality(first(m - 1)) < j
  <2>1. m - 1 \notin R  BY <1>7, <1>9
  <2>2. Cardinality(first(m - 1)) \in 0 .. n  BY <1>1, <1>9, PartOfInterval
  <2> QED  BY <1>9, <2>1, <2>2
<1>11. m \in S
  BY <1>3, <1>7, <1>9, <1>10, <1>1, PartOfInterval
<1>12. Cardinality(first(m)) = Cardinality(first(m - 1)) + 1
  <2>1. IsFiniteSet(first(m - 1))  BY <1>1, <1>9, PartOfInterval
  <2>2. first(m) = first(m - 1) \cup {m}  BY <1>3, <1>9, <1>11
  <2> QED  BY <1>4, <1>9, <2>1, <2>2, FS_AddElement
<1>13. Cardinality(first(m)) = j
  <2>1. Cardinality(first(m - 1)) \in 0 .. n  BY <1>1, <1>9, PartOfInterval
  <2> QED  BY <1>7, <1>10, <1>12, <2>1
<1> QED  BY <1>11, <1>13 DEF first

\* What is selected are values at these places; all of them if all are selected.
LEMMA SelectedIs ==
  ASSUME NEW n \in Nat, NEW v, NEW S \in SUBSET (1 .. n)
  PROVE  /\ Cardinality(S) \in 0 .. n /\ IsFiniteSet(S)
         /\ Selected(v, S) = [j \in 1 .. Cardinality(S) |-> Selected(v, S)[j]]
         /\ Len(Selected(v, S)) = Cardinality(S)
         /\ \A j \in 1 .. Cardinality(S) : \E h \in S : Selected(v, S)[j] = v[h]
<1> DEFINE place(j) == CHOOSE h \in S : Cardinality(S \cap 1 .. h) = j
<1>1. Cardinality(S) \in 0 .. n /\ IsFiniteSet(S)  BY PartOfInterval
<1>2. \A j \in 1 .. Cardinality(S) : place(j) \in S  BY JthPlace
<1>3. Selected(v, S) = [j \in 1 .. Cardinality(S) |-> v[place(j)]]  BY DEF Selected
<1> HIDE DEF place
<1>4. \A j \in 1 .. Cardinality(S) : Selected(v, S)[j] = v[place(j)]  BY <1>3
<1>5. Selected(v, S) = [j \in 1 .. Cardinality(S) |-> Selected(v, S)[j]]  BY <1>3
<1>6. Len(Selected(v, S)) = Cardinality(S)
  <2> DEFINE m == Cardinality(S)
             u == [j \in 1 .. m |-> v[place(j)]]
  <2>1. m \in Nat  BY <1>1
  <2> HIDE DEF m
  <2>2. Len(u) = m  BY <2>1
  <2> QED  BY <1>3, <2>2 DEF m
<1> QED  BY <1>1, <1>2, <1>4, <1>5, <1>6

\* To select every place is to keep the sequence.
LEMMA AllSelected ==
  ASSUME NEW n \in Nat, NEW T, NEW v \in [1 .. n -> T]
  PROVE  Selected(v, 1 .. n) = v
<1> DEFINE U == 1 .. n
           place(j) == CHOOSE h \in U : Cardinality(U \cap 1 .. h) = j
<1>1. \A h \in U : U \cap 1 .. h = 1 .. h /\ h \in Nat  OBVIOUS
<1>2. \A h \in U : Cardinality(U \cap 1 .. h) = h
  <2> SUFFICES ASSUME NEW h \in U PROVE Cardinality(1 .. h) = h
    BY <1>1
  <2> QED  BY <1>1, FS_Interval
<1>3. Cardinality(U) = n  BY FS_Interval
<1>4. \A j \in U : place(j) = j
  <2> HIDE DEF U
  <2> QED  BY <1>2
<1>5. Selected(v, U) = [j \in 1 .. Cardinality(U) |-> v[place(j)]]  BY DEF Selected
<1> HIDE DEF place
<1> QED  BY <1>3, <1>4, <1>5

-----------------------------------------------------------------------------
(* Divisions that come out even.                                           *)

\* Quotient and remainder.
LEMMA DivisionIs ==
  ASSUME NEW a \in Int, NEW b \in Nat \ {0}
  PROVE  /\ a \div b \in Int /\ a % b \in 0 .. b - 1
         /\ a = b * (a \div b) + (a % b)
<1>1. a % b \in 0 .. b - 1  OBVIOUS
<1>2. a \div b \in Int  OBVIOUS
<1>3. a = b * (a \div b) + (a % b)  OBVIOUS
<1> QED  BY <1>1, <1>2, <1>3

\* The quotient of a product is its other factor.
LEMMA EvenDivision ==
  ASSUME NEW a \in Int, NEW b \in Nat \ {0}, NEW c \in Int, a = b * c
  PROVE  a \div b = c
<1>1. PICK q \in Int, r \in 0 .. b - 1 : q = a \div b /\ a = b * q + r
  BY DivisionIs
<1>2. b * (c - q) = r  BY <1>1
<1>3. ASSUME NEW d \in Int, b * d = r PROVE d = 0
  <2>1. CASE d >= 1
    <3>1. b * d >= b  BY <2>1
    <3> QED  BY <1>1, <1>3, <3>1
  <2>2. CASE d <= -1
    <3>1. b * d <= -b  BY <2>2
    <3> QED  BY <1>1, <1>3, <3>1
  <2> QED  BY <2>1, <2>2
<1>4. c - q \in Int  BY <1>1
<1>5. c - q = 0  BY <1>2, <1>3, <1>4
<1> QED  BY <1>1, <1>5

\* Without a remainder the quotient multiplies back.
LEMMA NoRemainder ==
  ASSUME NEW a \in Int, NEW b \in Nat \ {0}, a % b = 0
  PROVE  a \div b \in Int /\ a = b * (a \div b)
<1>1. a \div b \in Int /\ a = b * (a \div b) + (a % b)  BY DivisionIs
<1>2. b * (a \div b) \in Int  BY <1>1
<1> QED  BY <1>1, <1>2

-----------------------------------------------------------------------------
(* The rounds and those that are kept.                                     *)

Multiple == {Unit * x : x \in Int}

\* Multiples of the unit add up to, and differ by, multiples of it.
LEMMA MultipleIs ==
  /\ Multiple \in SUBSET Int
  /\ \A x, y \in Multiple : x + y \in Multiple /\ x - y \in Multiple
  /\ 0 \in Multiple
<1>1. Unit \in Int  BY AnalysisAssumption
<1>2. ASSUME NEW x \in Int, NEW y \in Int
      PROVE  Unit * x + Unit * y = Unit * (x + y) /\ Unit * x - Unit * y = Unit * (x - y)
  BY <1>1
<1>3. ASSUME NEW x \in Multiple, NEW y \in Multiple
      PROVE  x + y \in Multiple /\ x - y \in Multiple
  <2>1. PICK a \in Int : x = Unit * a  BY DEF Multiple
  <2>2. PICK b \in Int : y = Unit * b  BY DEF Multiple
  <2>3. x + y = Unit * (a + b) /\ x - y = Unit * (a - b)  BY <1>2, <2>1, <2>2
  <2>4. a + b \in Int /\ a - b \in Int  OBVIOUS
  <2> QED  BY <2>3, <2>4 DEF Multiple
<1>4. 0 \in Multiple
  <2>1. 0 = Unit * 0  BY <1>1
  <2> QED  BY <2>1 DEF Multiple
<1>5. Multiple \in SUBSET Int  BY <1>1 DEF Multiple
<1> QED  BY <1>3, <1>4, <1>5

\* The times of an iteration are whole, and multiples of the unit.
LEMMA PerIteration ==
  ASSUME NEW t \in Int, NEW i \in Nat \ {0}, t % (Unit * i) = 0
  PROVE  t \div i \in Multiple /\ t \div i \in Int /\ t = i * (t \div i)
<1> DEFINE p == Unit * i
           x == t \div p
<1>1. Unit \in Nat \ {0}  BY AnalysisAssumption
<1>2. p \in Nat \ {0}  BY <1>1
<1>3. t % p = 0  OBVIOUS
<1> HIDE DEF p
<1>4. x \in Int /\ t = p * x  BY <1>2, <1>3, NoRemainder
<1> HIDE DEF x
<1>5. Unit * x \in Int /\ t = i * (Unit * x)  BY <1>1, <1>4 DEF p
<1>6. t \div i = Unit * x  BY <1>5, EvenDivision
<1>7. Unit * x \in Multiple  BY <1>4 DEF Multiple
<1> QED  BY <1>5, <1>6, <1>7

\* A round's times per iteration come out even, and so does their difference
\* (per_iter in paired_from_rounds).
LEMMA ObservationIs ==
  ASSUME NEW r \in Observation
  PROVE  /\ r.iterations \in Nat \ {0} /\ r.base \in Int /\ r.base = r.iterations * Base(r)
         /\ Base(r) \in Multiple /\ Diff(r) \in Multiple /\ Base(r) \in Int /\ Diff(r) \in Int
<1>1. r.iterations \in Nat \ {0} /\ r.base \in Int /\ r.candidate \in Int
      /\ r.base % (Unit * r.iterations) = 0 /\ r.candidate % (Unit * r.iterations) = 0
  BY AnalysisAssumption
<1>2. Base(r) \in Multiple /\ Base(r) \in Int /\ r.base = r.iterations * Base(r)
  BY <1>1, PerIteration DEF Base
<1>3. r.candidate \div r.iterations \in Multiple  BY <1>1, PerIteration
<1>4. Diff(r) \in Multiple  BY <1>2, <1>3, MultipleIs DEF Diff
<1> QED  BY <1>1, <1>2, <1>4, MultipleIs

\* A column of the rounds.
LEMMA ColumnsAre ==
  ASSUME NEW n \in Nat, NEW rs \in [1 .. n -> Observation]
  PROVE  /\ Bases(rs) \in [1 .. n -> Multiple] /\ Diffs(rs) \in [1 .. n -> Multiple]
         /\ Bases(rs) \in [1 .. n -> Int] /\ Diffs(rs) \in [1 .. n -> Int]
         /\ \A j \in 1 .. n : Bases(rs)[j] = Base(rs[j]) /\ Diffs(rs)[j] = Diff(rs[j])
         /\ Len(Bases(rs)) = n /\ Len(Diffs(rs)) = n
<1>1. \A j \in 1 .. n : rs[j] \in Observation  OBVIOUS
<1>2. Bases(rs) = [j \in 1 .. n |-> Base(rs[j])] /\ Diffs(rs) = [j \in 1 .. n |-> Diff(rs[j])]
  BY DEF Bases, Diffs
<1>3. \A j \in 1 .. n : /\ Base(rs[j]) \in Multiple /\ Diff(rs[j]) \in Multiple
                        /\ Base(rs[j]) \in Int /\ Diff(rs[j]) \in Int
  BY <1>1, ObservationIs
<1>4. Bases(rs) \in [1 .. n -> Int] /\ Diffs(rs) \in [1 .. n -> Int]  BY <1>2, <1>3
<1>5. Len(Bases(rs)) = n /\ Len(Diffs(rs)) = n  BY <1>4, IsSequence
<1> QED  BY <1>2, <1>3, <1>4, <1>5

\* The fences keep what is between the quartiles: more than half of all rounds.
LEMMA KeptIs ==
  ASSUME NEW n \in Nat \ {0}, NEW rs \in [1 .. n -> Observation]
  PROVE  \E m \in 1 .. n :
           /\ Kept(rs) \in [1 .. m -> Observation] /\ Len(Kept(rs)) = m
           /\ Cardinality(DOMAIN rs \ Within(rs)) = n - m /\ n < 2 * m
<1> DEFINE v == Diffs(rs)
           S == Within(rs)
<1>1. Len(rs) = n /\ DOMAIN rs = 1 .. n  BY IsSequence
<1>2. S \in SUBSET (1 .. n) /\ IsFiniteSet(S) /\ Cardinality(S) \in 0 .. n
  <2>1. S \in SUBSET (1 .. n)  BY <1>1 DEF Within
  <2> HIDE DEF S
  <2> QED  BY <2>1, PartOfInterval
<1>3. n < 2 * Cardinality(S)
  <2>1. CASE n < 4
    <3>1. S = 1 .. n  BY <1>1, <2>1 DEF Within
    <3>2. Cardinality(1 .. n) = n  BY FS_Interval
    <3> QED  BY <3>1, <3>2
  <2>2. CASE n >= 4
    <3>1. v \in [1 .. n -> Int] /\ Len(v) = n /\ DOMAIN v = 1 .. n
          /\ \A h \in 1 .. n : v[h] = Diff(rs[h])
      BY ColumnsAre
    <3> HIDE DEF v
    <3> DEFINE s == Ascending(v)
               i == n \div 4 + 1
               j == (n * 3) \div 4 + 1
    <3>2. i \in 1 .. n /\ j \in 1 .. n /\ i <= j /\ n < 2 * (j - i + 1)  BY <2>2
    <3>3. /\ Len(s) = n /\ s[i] \in Int /\ s[j] \in Int /\ s[i] <= s[j]
          /\ s[i] = Smallest(v, i) /\ s[j] = Smallest(v, j)
      <4> HIDE DEF i, j
      <4> QED  BY <3>1, <3>2, AscendingIs
    <3> DEFINE iqr == Max({s[j] - s[i], 1})
    <3>4. Fences(v) = (2 * s[i] - 3 * iqr) .. (2 * s[j] + 3 * iqr)
      BY <3>3 DEF Fences
    <3> HIDE DEF s, i, j
    <3>5. s[j] - s[i] \in Int /\ 1 \in Int  BY <3>3
    <3>6. iqr \in Int /\ iqr >= 1  BY <3>5, MaxOfTwo
    <3> HIDE DEF iqr
    <3>7. \A h \in 1 .. n : s[i] <= v[h] /\ v[h] <= s[j] => h \in S
      <4> TAKE h \in 1 .. n
      <4> HAVE s[i] <= v[h] /\ v[h] <= s[j]
      <4>1. 2 * v[h] \in Fences(v)  BY <3>1, <3>3, <3>4, <3>6
      <4> QED  BY <1>1, <3>1, <4>1 DEF Within, v
    <3> DEFINE B == Below(v, s[i])
               U == UpTo(v, s[j])
    <3>8. B \in SUBSET (1 .. n) /\ U \in SUBSET (1 .. n) /\ U \subseteq S \cup B
      <4>1. B \in SUBSET (1 .. n) /\ U \in SUBSET (1 .. n)  BY <3>1 DEF Below, UpTo
      <4>2. ASSUME NEW h \in U PROVE h \in S \cup B
        <5>1. h \in 1 .. n /\ v[h] <= s[j]  BY <3>1 DEF UpTo
        <5>2. v[h] \in Int  BY <3>1, <5>1
        <5>3. CASE v[h] < s[i]  BY <3>1, <5>1, <5>3 DEF Below
        <5>4. CASE s[i] <= v[h]  BY <3>7, <5>1, <5>4
        <5> HIDE DEF B, U, S
        <5> QED  BY <3>3, <5>2, <5>3, <5>4
      <4> HIDE DEF B, U, S
      <4> QED  BY <4>1, <4>2
    <3>9. Cardinality(B) < i /\ j <= Cardinality(U)
      BY <3>1, <3>2, <3>3, SmallestIs
    <3> HIDE DEF B, U, S
    <3>10. IsFiniteSet(B) /\ IsFiniteSet(U) /\ Cardinality(B) \in Nat /\ Cardinality(U) \in Nat
      BY <3>8, PartOfInterval
    <3>11. Cardinality(U) <= Cardinality(S) + Cardinality(B)
      <4>1. IsFiniteSet(S \cup B) /\ Cardinality(S \cap B) \in Nat
            /\ Cardinality(S \cup B) = Cardinality(S) + Cardinality(B) - Cardinality(S \cap B)
        <5>1. IsFiniteSet(S \cap B)  BY <1>2, FS_Subset
        <5> QED  BY <1>2, <3>10, <5>1, FS_Union, FS_CardinalityType
      <4>2. Cardinality(U) <= Cardinality(S \cup B)  BY <3>8, <4>1, FS_Subset
      <4> QED  BY <1>2, <3>10, <4>1, <4>2
    <3> QED  BY <1>2, <3>2, <3>9, <3>10, <3>11
  <2> QED  BY <2>1, <2>2
<1>4. Kept(rs) = Selected(rs, S)  BY DEF Kept
<1>5. Cardinality(DOMAIN rs \ S) = n - Cardinality(S)
  <2>1. IsFiniteSet(1 .. n) /\ Cardinality(1 .. n) = n  BY FS_Interval
  <2>2. (1 .. n) \cap S = S  BY <1>2
  <2>3. Cardinality((1 .. n) \ S) = n - Cardinality(S)
    <3> DEFINE I == 1 .. n
    <3>1. IsFiniteSet(I) /\ Cardinality(I) = n /\ I \cap S = S  BY <2>1, <2>2
    <3> HIDE DEF I, S
    <3>2. Cardinality(I \ S) = Cardinality(I) - Cardinality(I \cap S)
      BY <3>1, FS_Difference
    <3>3. Cardinality(I \ S) = n - Cardinality(S)  BY <3>1, <3>2
    <3> QED  BY <3>3 DEF I
  <2> QED  BY <1>1, <2>3
<1>6. Cardinality(S) \in 1 .. n  BY <1>2, <1>3
<1> HIDE DEF S
<1>7. Kept(rs) \in [1 .. Cardinality(S) -> Observation] /\ Len(Kept(rs)) = Cardinality(S)
  <2> DEFINE d == Selected(rs, S)
             m == Cardinality(S)
  <2>1. /\ d = [j \in 1 .. m |-> d[j]] /\ Len(d) = m
        /\ \A j \in 1 .. m : \E h \in S : d[j] = rs[h]
    BY <1>2, SelectedIs
  <2>2. \A h \in S : rs[h] \in Observation  BY <1>2
  <2> HIDE DEF d, m
  <2>3. \A j \in 1 .. m : d[j] \in Observation  BY <2>1, <2>2
  <2>4. d \in [1 .. m -> Observation]  BY <2>1, <2>3
  <2> QED  BY <1>4, <2>1, <2>4 DEF d, m
<1> QED  BY <1>3, <1>5, <1>6, <1>7 DEF S

-----------------------------------------------------------------------------
(* Summaries.                                                              *)

\* Summaries, empty or of n values.
Summary == {New} \cup [n : Nat \ {0}, min : Int, max : Int, mean : Int, m2 : Int]

\* What a value adds to a summary (OnlineSummary::push).
LEMMA PushIs ==
  ASSUME NEW s \in Summary, NEW x \in Int
  PROVE  /\ Push(s, x) \in Summary /\ s.n \in Nat /\ s.mean \in Int /\ s.m2 \in Int
         /\ Push(s, x).n = s.n + 1
         /\ Push(s, x).mean = s.mean + (x - s.mean) \div (s.n + 1)
         /\ Push(s, x).m2 = s.m2 + (x - s.mean) * (x - Push(s, x).mean)
         /\ Push(s, x).min = (IF s.n = 0 THEN x ELSE IF s.min <= x THEN s.min ELSE x)
         /\ Push(s, x).max = (IF s.n = 0 THEN x ELSE IF s.max >= x THEN s.max ELSE x)
         /\ s.n # 0 => s.min \in Int /\ s.max \in Int
<1> DEFINE i == s.n + 1
           mean == s.mean + (x - s.mean) \div i
           p == Push(s, x)
<1>1. /\ s.n \in Nat /\ s.mean \in Int /\ s.m2 \in Int
      /\ s.n # 0 => s.min \in Int /\ s.max \in Int
  BY DEF Summary, New
<1>2. i \in Nat \ {0}  BY <1>1
<1>3. (x - s.mean) \div i \in Int
  <2>1. x - s.mean \in Int  BY <1>1
  <2> HIDE DEF i
  <2> QED  BY <1>2, <2>1, DivisionIs
<1>4. /\ p.n = i /\ p.mean = mean /\ p.m2 = s.m2 + (x - s.mean) * (x - mean)
      /\ p.min = (IF s.n = 0 THEN x ELSE Min({s.min, x}))
      /\ p.max = (IF s.n = 0 THEN x ELSE Max({s.max, x}))
      /\ p = [n |-> p.n, mean |-> p.mean, min |-> p.min, max |-> p.max, m2 |-> p.m2]
  BY DEF Push
<1> HIDE DEF p, i
<1>5. /\ p.min = (IF s.n = 0 THEN x ELSE IF s.min <= x THEN s.min ELSE x)
      /\ p.max = (IF s.n = 0 THEN x ELSE IF s.max >= x THEN s.max ELSE x)
  BY <1>1, <1>4, MinOfTwo, MaxOfTwo
<1>6. mean \in Int  BY <1>1, <1>3
<1> HIDE DEF mean
<1>7. p.m2 \in Int  BY <1>1, <1>4, <1>6
<1>8. p.min \in Int /\ p.max \in Int  BY <1>1, <1>5
<1>9. p \in [n : Nat \ {0}, min : Int, max : Int, mean : Int, m2 : Int]
  BY <1>2, <1>4, <1>6, <1>7, <1>8
<1> QED  BY <1>1, <1>4, <1>5, <1>9 DEF p, i, mean, Summary

\* What Summaries computes.
AreSummaries(s, n, v) ==
  s \in [0 .. n -> Summary] /\ s[0] = New /\ \A j \in 1 .. n : s[j] = Push(s[j - 1], v[j])

\* Summaries pushes one value after the other.
LEMMA SummariesAre ==
  ASSUME NEW n \in Nat, NEW v \in [1 .. n -> Int]
  PROVE  AreSummaries(Summaries(v), n, v)
<1> DEFINE G == [j \in 1 .. n |-> [t \in Summary |-> Push(t, v[j])]]
           Satisfies(s) == s = [j \in 0 .. n |-> IF j = 0 THEN New ELSE Push(s[j - 1], v[j])]
<1>1. G \in StepsOf(n, Summary)  BY PushIs DEF StepsOf
<1>2. \A j \in 1 .. n, t \in Summary : G[j][t] = Push(t, v[j])  OBVIOUS
<1> HIDE DEF G
<1>3. New \in Summary  BY DEF Summary
<1>4. PICK s : Repeats(s, n, Summary, New, G)  BY <1>1, <1>3, Repeated
<1>5. Satisfies(s)
  <2> USE DEF Repeats
  <2>1. s \in [0 .. n -> Summary] /\ \A j \in 1 .. n : s[j - 1] \in Summary  BY <1>4
  <2>2. \A j \in 1 .. n : s[j] = Push(s[j - 1], v[j])
    BY <1>2, <1>4, <2>1
  <2>3. \A j \in 0 .. n : j = 0 \/ j \in 1 .. n  OBVIOUS
  <2>4. \A j \in 0 .. n : s[j] = IF j = 0 THEN New ELSE Push(s[j - 1], v[j])
    BY <1>4, <2>2, <2>3
  <2> QED  BY <2>1, <2>4
<1>6. Summaries(v) = CHOOSE t : Satisfies(t)  BY IsSequence DEF Summaries
<1> DEFINE r == Summaries(v)
<1>7. Satisfies(r)
  <2> HIDE DEF Satisfies
  <2> QED  BY <1>5, <1>6
<1> HIDE DEF r
<1>8. r[0] = New /\ \A j \in 1 .. n : r[j] = Push(r[j - 1], v[j])
  <2>1. 0 \in 0 .. n /\ \A j \in 1 .. n : j \in 0 .. n /\ j # 0  OBVIOUS
  <2> QED  BY <1>7, <2>1
<1>9. \A j \in 0 .. n : r[j] \in Summary
  <2> DEFINE P == {j \in 0 .. n : r[j] \in Summary}
  <2>1. 0 \in P  BY <1>3, <1>8
  <2>2. ASSUME NEW j \in 1 .. n, j - 1 \in P PROVE j \in P
    <3>1. r[j - 1] \in Summary /\ r[j] = Push(r[j - 1], v[j]) /\ v[j] \in Int
      BY <1>8, <2>2
    <3>2. Push(r[j - 1], v[j]) \in Summary  BY <3>1, PushIs
    <3> QED  BY <3>1, <3>2
  <2> HIDE DEF P
  <2>3. \A j \in 0 .. n : j \in P  BY <2>1, <2>2, Upwards
  <2> QED  BY <2>3 DEF P
<1>10. r \in [0 .. n -> Summary]  BY <1>7, <1>9
<1> QED  BY <1>8, <1>10 DEF r, AreSummaries

\* The identity behind Welford's step.
LEMMA Welford ==
  ASSUME NEW j \in Int, NEW m \in Int, NEW e \in Int, NEW z \in Int
  PROVE  (z + (j * e) * ((j - 1) * e)) + (j * (m + e)) * (m + e)
           = (z + ((j - 1) * m) * m) + (m + j * e) * (m + j * e)
OBVIOUS

\* The mean is exact after every value: all sums are multiples of the unit, which
\* the number of values divides.
LEMMA MeanStep ==
  ASSUME NEW j \in 1 .. MaxRounds, NEW m \in Int, NEW x \in Int, NEW z \in Multiple,
         z = (j - 1) * m + x
  PROVE  \E e \in Int : (x - m) \div j = e /\ x = m + j * e
<1> DEFINE u == Unit \div j
<1>1. Unit \in Int /\ MaxRounds \in Nat  BY AnalysisAssumption
<1>2. j \in Nat \ {0}  BY <1>1
<1>11. Unit % j = 0
  <2>1. \A i \in 1 .. MaxRounds : Unit % i = 0  BY AnalysisAssumption
  <2> QED  BY <2>1
<1>3. u \in Int /\ Unit = j * u  BY <1>1, <1>2, <1>11, NoRemainder
<1> HIDE DEF u
<1>4. PICK y \in Int : (j - 1) * m + x = Unit * y  BY z = (j - 1) * m + x DEF Multiple
<1> DEFINE w == u * y
           e == w - m
<1>5. w \in Int /\ (j * u) * y = j * w  BY <1>2, <1>3
<1> HIDE DEF w
<1>6. (j - 1) * m + x = j * w  BY <1>3, <1>4, <1>5
<1>7. e \in Int /\ j * e = j * w - j * m  BY <1>2, <1>5
<1>8. (j - 1) * m = j * m - m  BY <1>2
<1>9. x - m = j * e /\ x - m \in Int /\ x = m + j * e
  <2> HIDE DEF e
  <2> QED  BY <1>2, <1>5, <1>6, <1>7, <1>8
<1>10. (x - m) \div j = e
  <2> HIDE DEF e
  <2> QED  BY <1>2, <1>7, <1>9, EvenDivision
<1> QED  BY <1>7, <1>9, <1>10

\* The squares of a sequence, place by place.
LEMMA SquaresAre ==
  ASSUME NEW n \in Nat, NEW v \in [1 .. n -> Int]
  PROVE  Squares(v) \in [1 .. n -> Int] /\ \A j \in 1 .. n : Squares(v)[j] = v[j] * v[j]
<1>1. Squares(v) = [j \in 1 .. n |-> v[j] * v[j]]  BY DEF Squares
<1>2. \A j \in 1 .. n : v[j] * v[j] \in Int  OBVIOUS
<1> QED  BY <1>1, <1>2

\* What a summary of the first j values says.
Summarises(s, j, v, sum, squares) ==
  /\ s.n = j /\ j * s.mean = sum /\ sum \in Multiple
  /\ s.m2 + sum * s.mean = squares
  /\ j # 0 =>
       /\ \E i \in 1 .. j : s.min = v[i]
       /\ \E i \in 1 .. j : s.max = v[i]
       /\ \A i \in 1 .. j : s.min <= v[i] /\ v[i] <= s.max

\* A push makes what the summary says true of one value more: the mean and the
\* squared deviations of Welford's update are those of the definition.
LEMMA SummaryStep ==
  ASSUME NEW n \in 1 .. MaxRounds, NEW v \in [1 .. n -> Int], NEW j \in 1 .. n,
         v[j] \in Multiple, NEW s \in Summary, NEW a \in Int, NEW q \in Int,
         Summarises(s, j - 1, v, a, q)
  PROVE  Summarises(Push(s, v[j]), j, v, a + v[j], q + v[j] * v[j])
<1> DEFINE x == v[j]
           t == Push(s, x)
           m == s.mean
<1>1. MaxRounds \in Nat /\ j \in 1 .. MaxRounds /\ j \in Nat \ {0}
  BY AnalysisAssumption
<1>2. x \in Int /\ x \in Multiple  OBVIOUS
<1>3. /\ s.n = j - 1 /\ a = (j - 1) * m /\ a \in Multiple /\ s.m2 + a * m = q
      /\ m \in Int /\ s.m2 \in Int /\ s.n + 1 = j
  BY <1>1, <1>2, PushIs DEF Summarises
<1>4. /\ t.n = j /\ t.mean = m + (x - m) \div j
      /\ t.m2 = s.m2 + (x - m) * (x - t.mean)
      /\ t.min = (IF j = 1 THEN x ELSE IF s.min <= x THEN s.min ELSE x)
      /\ t.max = (IF j = 1 THEN x ELSE IF s.max >= x THEN s.max ELSE x)
      /\ j # 1 => s.min \in Int /\ s.max \in Int
  <2>1. s.n = 0 <=> j = 1  BY <1>1, <1>3
  <2> QED  BY <1>2, <1>3, <2>1, PushIs
<1> HIDE DEF t, m, x
<1>5. a + x \in Multiple  BY <1>2, <1>3, MultipleIs
<1>6. PICK e \in Int : (x - m) \div j = e /\ x = m + j * e
  <2>1. a + x = (j - 1) * m + x  BY <1>3
  <2>2. \E e \in Int : (x - m) \div j = e /\ x = m + j * e
    <3>1. m \in Int /\ x \in Int /\ j \in 1 .. MaxRounds  BY <1>1, <1>2, <1>3
    <3> DEFINE z == a + x
    <3>2. z \in Multiple /\ z = (j - 1) * m + x  BY <1>5, <2>1
    <3> HIDE DEF z
    <3> QED  BY <3>1, <3>2, MeanStep
  <2> QED  BY <2>2
<1>7. t.mean = m + e  BY <1>4, <1>6
<1>8. j * t.mean = a + x
  <2>1. j * (m + e) = (j - 1) * m + (m + j * e)  BY <1>1, <1>3
  <2> QED  BY <1>3, <1>6, <1>7, <2>1
<1>9. t.m2 + (a + x) * t.mean = q + x * x
  <2>1. x - m = j * e  BY <1>1, <1>3, <1>6
  <2>2. x - t.mean = (j - 1) * e  BY <1>1, <1>3, <1>6, <1>7
  <2>3. t.m2 = s.m2 + (j * e) * ((j - 1) * e)  BY <1>4, <2>1, <2>2
  <2>4. (a + x) * t.mean = (j * (m + e)) * (m + e)  BY <1>7, <1>8
  <2>5. s.m2 \in Int /\ m \in Int /\ j \in Int  BY <1>1, <1>3
  <2>6. (s.m2 + (j * e) * ((j - 1) * e)) + (j * (m + e)) * (m + e)
          = (s.m2 + ((j - 1) * m) * m) + (m + j * e) * (m + j * e)
    BY <2>5, Welford
  <2>7. t.m2 + (a + x) * t.mean
          = (s.m2 + (j * e) * ((j - 1) * e)) + (j * (m + e)) * (m + e)
    BY <2>3, <2>4
  <2>8. q + x * x = (s.m2 + ((j - 1) * m) * m) + (m + j * e) * (m + j * e)
    <3>1. q = s.m2 + ((j - 1) * m) * m  BY <1>3
    <3>2. x * x = (m + j * e) * (m + j * e)  BY <1>6
    <3> QED  BY <3>1, <3>2
  <2> QED  BY <2>6, <2>7, <2>8
<1>10. /\ \E i \in 1 .. j : t.min = v[i]
       /\ \E i \in 1 .. j : t.max = v[i]
       /\ \A i \in 1 .. j : t.min <= v[i] /\ v[i] <= t.max
  <2>1. \A i \in 1 .. j : v[i] \in Int  BY <1>1
  <2>2. CASE j = 1
    <3>1. \A i \in 1 .. j : v[i] = x  BY <2>2 DEF x
    <3>2. t.min = x /\ t.max = x /\ 1 \in 1 .. j  BY <1>4, <2>2
    <3> QED  BY <1>2, <3>1, <3>2
  <2>3. CASE j # 1
    <3>1. j - 1 # 0 /\ \A i \in 1 .. j : i = j \/ i \in 1 .. j - 1  BY <1>1, <2>3
    <3>2. /\ \E i \in 1 .. j - 1 : s.min = v[i]
          /\ \E i \in 1 .. j - 1 : s.max = v[i]
          /\ \A i \in 1 .. j - 1 : s.min <= v[i] /\ v[i] <= s.max
      BY <3>1 DEF Summarises
    <3>3. j \in 1 .. j /\ \A i \in 1 .. j - 1 : i \in 1 .. j  BY <1>1
    <3>4. s.min \in Int /\ s.max \in Int  BY <1>4, <2>3
    <3>5. t.min \in {s.min, x} /\ t.min <= s.min /\ t.min <= x
      BY <1>2, <1>4, <2>3, <3>4
    <3>6. t.max \in {s.max, x} /\ t.max >= s.max /\ t.max >= x
      BY <1>2, <1>4, <2>3, <3>4
    <3>7. (\E i \in 1 .. j : t.min = v[i]) /\ (\E i \in 1 .. j : t.max = v[i])
      BY <3>2, <3>3, <3>5, <3>6 DEF x
    <3>8. ASSUME NEW i \in 1 .. j PROVE t.min <= v[i] /\ v[i] <= t.max
      <4>1. CASE i = j  BY <3>5, <3>6, <4>1 DEF x
      <4>2. CASE i # j
        <5>1. s.min <= v[i] /\ v[i] <= s.max /\ v[i] \in Int  BY <2>1, <3>1, <3>2, <4>2
        <5>2. t.min \in Int /\ t.max \in Int  BY <1>2, <3>4, <3>5, <3>6
        <5>3. t.min <= s.min /\ t.max >= s.max  BY <3>5, <3>6
        <5>4. t.min <= v[i]  BY <3>4, <5>1, <5>2, <5>3
        <5>5. v[i] <= t.max  BY <3>4, <5>1, <5>2, <5>3
        <5> QED  BY <5>4, <5>5
      <4> QED  BY <4>1, <4>2
    <3> QED  BY <3>7, <3>8
  <2> QED  BY <2>2, <2>3
<1> QED  BY <1>4, <1>5, <1>8, <1>9, <1>10 DEF Summarises, t, x

\* What a summary of all values says.
LEMMA SummaryIs ==
  ASSUME NEW n \in 1 .. MaxRounds, NEW v \in [1 .. n -> Int],
         \A j \in 1 .. n : v[j] \in Multiple
  PROVE  /\ Summarises(Summaries(v)[n], n, v, Total(v), Total(Squares(v)))
         /\ Summaries(v)[n] \in Summary
<1>0. n \in Nat  BY AnalysisAssumption
<1>1. PICK s : AreSummaries(s, n, v) /\ s = Summaries(v)  BY <1>0, SummariesAre
<1>2. PICK a : AreSums(a, n, v) /\ Total(v) = a[n]  BY <1>0, SumsAre
<1>3. Squares(v) \in [1 .. n -> Int] /\ \A j \in 1 .. n : Squares(v)[j] = v[j] * v[j]
  BY <1>0, SquaresAre
<1>4. PICK q : AreSums(q, n, Squares(v)) /\ Total(Squares(v)) = q[n]
  BY <1>0, <1>3, SumsAre
<1> DEFINE P == {j \in 0 .. n : Summarises(s[j], j, v, a[j], q[j])}
<1>5. 0 \in P
  <2>1. s[0] = New /\ a[0] = 0 /\ q[0] = 0 /\ 0 \in 0 .. n
    BY <1>0, <1>1, <1>2, <1>4 DEF AreSummaries, AreSums
  <2>2. Summarises(New, 0, v, 0, 0)  BY MultipleIs DEF Summarises, New
  <2> QED  BY <2>1, <2>2
<1>6. ASSUME NEW j \in 1 .. n, j - 1 \in P PROVE j \in P
  <2>1. /\ s[j] = Push(s[j - 1], v[j]) /\ s[j - 1] \in Summary
        /\ a[j] = a[j - 1] + v[j] /\ a[j - 1] \in Int
        /\ q[j] = q[j - 1] + v[j] * v[j] /\ q[j - 1] \in Int
    <3>1. j - 1 \in 0 .. n  BY <1>0
    <3>2. s[j] = Push(s[j - 1], v[j]) /\ s[j - 1] \in Summary
      BY <1>1, <3>1 DEF AreSummaries
    <3>3. a[j] = a[j - 1] + v[j] /\ a[j - 1] \in Int  BY <1>2, <3>1 DEF AreSums
    <3>4. q[j] = q[j - 1] + Squares(v)[j] /\ q[j - 1] \in Int
      BY <1>4, <3>1 DEF AreSums
    <3> QED  BY <1>3, <3>2, <3>3, <3>4
  <2>2. Summarises(Push(s[j - 1], v[j]), j, v, a[j - 1] + v[j], q[j - 1] + v[j] * v[j])
    BY <1>6, <2>1, SummaryStep
  <2>3. j \in 0 .. n  OBVIOUS
  <2> QED  BY <2>1, <2>2, <2>3
<1> HIDE DEF P
<1>7. \A j \in 0 .. n : j \in P  BY <1>0, <1>5, <1>6, Upwards
<1>8. n \in 0 .. n  BY <1>0
<1> QED  BY <1>1, <1>2, <1>4, <1>7, <1>8 DEF P, AreSummaries

\* What the summary of a slice says of it.
LEMMA SliceIs ==
  ASSUME NEW n \in 1 .. MaxRounds, NEW v \in [1 .. n -> Int],
         \A j \in 1 .. n : v[j] \in Multiple
  PROVE  /\ FromSlice(v).mean \in Int /\ FromSlice(v).m2 \in Int
         /\ Summarises(FromSlice(v), n, v, Total(v), Total(Squares(v)))
<1> DEFINE s == Summaries(v)[n]
           f == FromSlice(v)
<1>1. Summarises(s, n, v, Total(v), Total(Squares(v))) /\ s \in Summary
  BY SummaryIs
<1>2. Len(v) = n  BY AnalysisAssumption, IsSequence
<1>3. f.n = s.n /\ f.mean = s.mean /\ f.min = s.min /\ f.max = s.max /\ f.m2 = s.m2
  BY <1>2 DEF FromSlice
<1> HIDE DEF s, f
<1>4. s.mean \in Int /\ s.m2 \in Int  BY <1>1, PushIs
<1>5. Summarises(f, n, v, Total(v), Total(Squares(v)))  BY <1>1, <1>3 DEF Summarises
<1> QED  BY <1>3, <1>4, <1>5 DEF f

-----------------------------------------------------------------------------
(* The verdict.                                                            *)

\* What an analysis consists of.
LEMMA AnalysisIs ==
  ASSUME NEW n \in 1 .. MaxRounds, NEW rs \in [1 .. n -> Observation],
         NEW a \in Analyses(rs)
  PROVE  \E m \in 1 .. n :
           /\ a.kept \in [1 .. m -> Observation] /\ Len(a.kept) = m
           /\ a.outliers = n - m /\ n < 2 * m /\ a.diff = FromSlice(Diffs(a.kept))
           /\ a.base = FromSlice(Bases(a.kept))
           /\ a.drift = Drifts(Diffs(a.kept)) /\ a.slope = Slope(rs)
           /\ a.ci \in Bootstrap(Diffs(a.kept))
           /\ a.significant = (~Limited(a.diff, rs) /\ Outside(a.ci, a.base, m))
<1> DEFINE kept == Kept(rs)
           d    == Diffs(kept)
<1>0. n \in Nat \ {0}  BY AnalysisAssumption
<1>1. PICK m \in 1 .. n : /\ kept \in [1 .. m -> Observation] /\ Len(kept) = m
                         /\ Cardinality(DOMAIN rs \ Within(rs)) = n - m /\ n < 2 * m
  BY <1>0, KeptIs
<1>2. Len(d) = m  BY <1>0, <1>1, ColumnsAre
<1>3. PICK b \in Bootstrap(d) :
        a = [kept |-> kept, outliers |-> Cardinality(DOMAIN rs \ Within(rs)),
             diff |-> FromSlice(d), base |-> FromSlice(Bases(kept)), ci |-> b,
             drift |-> Drifts(d), wilcoxon |-> SignedRank(d),
             limited |-> Limited(FromSlice(d), rs),
             significant |-> ~Limited(FromSlice(d), rs)
                             /\ Outside(b, FromSlice(Bases(kept)), Len(d)),
             slope |-> Slope(rs)]
  BY Zenon DEF Analyses
<1> HIDE DEF kept
<1>4. /\ a.kept = kept /\ a.outliers = Cardinality(DOMAIN rs \ Within(rs))
      /\ a.diff = FromSlice(d)
      /\ a.base = FromSlice(Bases(kept)) /\ a.ci = b /\ a.drift = Drifts(d)
      /\ a.slope = Slope(rs)
  BY <1>3
<1>5. a.significant = (~Limited(FromSlice(d), rs)
                       /\ Outside(b, FromSlice(Bases(kept)), Len(d)))
  BY <1>3, Zenon
<1> HIDE DEF d
<1>6. a.outliers = n - m /\ n < 2 * m  BY <1>1, <1>4
<1>7. a.significant = (~Limited(a.diff, rs) /\ Outside(a.ci, a.base, m))
  BY <1>2, <1>4, <1>5, Zenon
<1>8. d = Diffs(a.kept)  BY <1>4 DEF d
<1>9. a.ci \in Bootstrap(Diffs(a.kept))  BY <1>4, <1>8
<1>10. a.diff = FromSlice(Diffs(a.kept)) /\ a.drift = Drifts(Diffs(a.kept))
       /\ a.base = FromSlice(Bases(a.kept))
  BY <1>4, <1>8
<1>11. a.kept \in [1 .. m -> Observation] /\ Len(a.kept) = m  BY <1>1, <1>4
<1> QED  BY <1>4, <1>6, <1>7, <1>9, <1>10, <1>11, Zenon

\* A bound of the bootstrap is between the extremes of the values.
LEMMA BootstrapWithin ==
  ASSUME NEW n \in Nat \ {0}, NEW v \in [1 .. n -> Int], NEW b \in Bootstrap(v)
  PROVE  /\ b[1] \in Int /\ b[2] \in Int
         /\ \E h \in 1 .. n : b[1] <= n * v[h]
         /\ \E h \in 1 .. n : n * v[h] <= b[2]
<1> DEFINE S == ToSet(v)
           lo == Min(S)
           hi == Max(S)
<1>1. DOMAIN v = 1 .. n /\ Len(v) = n  BY IsSequence
<1>2. S = ValuesAt(v, 1 .. n)  BY <1>1 DEF ToSet, ValuesAt
<1>3. S \in SUBSET Int /\ IsFiniteSet(S) /\ S # {}
  <2> DEFINE U == 1 .. n
  <2>1. U \in SUBSET (1 .. n) /\ U # {} /\ S = ValuesAt(v, U)  BY <1>2
  <2> HIDE DEF U, S
  <2> QED  BY <2>1, ValuesAtAre
<1>4. \A h \in 1 .. n : v[h] \in S  BY <1>2 DEF ValuesAt
<1>5. \A x \in S : \E h \in 1 .. n : x = v[h]  BY <1>2 DEF ValuesAt
<1>6. Bootstrap(v) = {c \in {n * lo, Total(v), n * hi} \X {n * lo, Total(v), n * hi} :
                        c[1] <= c[2]}
  BY <1>1 DEF Bootstrap
<1> HIDE DEF S
<1>7. lo \in S /\ \A y \in S : lo <= y  BY <1>3, MinIs
<1>8. hi \in S /\ \A y \in S : hi >= y  BY <1>3, MaxIs
<1>9. PICK i \in 1 .. n : lo = v[i]  BY <1>5, <1>7
<1>10. PICK j \in 1 .. n : hi = v[j]  BY <1>5, <1>8
<1>11. lo \in Int /\ hi \in Int /\ lo <= hi  BY <1>3, <1>7, <1>8
<1>12. n * lo <= Total(v) /\ Total(v) <= n * hi /\ Total(v) \in Int
  <2> HIDE DEF lo, hi
  <2> DEFINE los == [h \in 1 .. n |-> lo]
             his == [h \in 1 .. n |-> hi]
  <2>1. los \in [1 .. n -> Int] /\ his \in [1 .. n -> Int]  BY <1>11
  <2>2. \A h \in 1 .. n : los[h] = lo /\ his[h] = hi /\ los[h] <= v[h] /\ v[h] <= his[h]
    BY <1>3, <1>4, <1>7, <1>8, <1>11
  <2> HIDE DEF los, his
  <2>3. Total(los) = n * lo /\ Total(his) = n * hi  BY <1>11, <2>1, <2>2, SumConstant
  <2>4. Total(los) <= Total(v) /\ Total(v) <= Total(his)  BY <2>1, <2>2, SumBounded
  <2> QED  BY <2>3, <2>4, SumsAre
<1> HIDE DEF lo, hi
<1>13. n * lo \in Int /\ n * hi \in Int /\ n * lo <= n * hi  BY <1>11
<1>14. b[1] \in {n * lo, Total(v), n * hi} /\ b[2] \in {n * lo, Total(v), n * hi}
  BY <1>6
<1> DEFINE p == n * lo
           q == n * hi
           t == Total(v)
<1>15. p \in Int /\ q \in Int /\ t \in Int /\ p <= t /\ t <= q /\ p <= q
       /\ b[1] \in {p, t, q} /\ b[2] \in {p, t, q}
  BY <1>12, <1>13, <1>14
<1>16. p = n * v[i] /\ q = n * v[j]  BY <1>9, <1>10
<1> HIDE DEF p, q, t
<1>17. b[1] \in Int /\ b[2] \in Int /\ b[1] <= q /\ p <= b[2]  BY <1>15
<1> QED  BY <1>16, <1>17

\* At least half of the rounds have the median of the iterations, or more.
LEMMA MedianIsMiddle ==
  ASSUME NEW n \in Nat \ {0}, NEW rs \in [1 .. n -> Observation]
  PROVE  /\ MedianIterations(rs) \in Nat
         /\ \A S \in SUBSET (1 .. n) :
              (\A j \in 1 .. n : rs[j].iterations >= MedianIterations(rs) => j \in S)
                => 2 * Cardinality(S) >= n
<1> DEFINE v == [j \in 1 .. n |-> rs[j].iterations]
           h == n \div 2 + 1
           x == Smallest(v, h)
           B == Below(v, x)
<1>1. DOMAIN rs = 1 .. n /\ Len(rs) = n  BY IsSequence
<1>2. \A j \in 1 .. n : rs[j].iterations \in Nat \ {0}  BY ObservationIs
<1>3. v \in [1 .. n -> Int] /\ \A j \in 1 .. n : v[j] = rs[j].iterations  BY <1>2
<1>4. h \in 1 .. n  OBVIOUS
<1>10. MedianIterations(rs) = Ascending(v)[h]  BY <1>1 DEF MedianIterations
<1> HIDE DEF v
<1>5. Ascending(v)[h] = x
  <2> HIDE DEF h
  <2> QED  BY <1>3, <1>4, AscendingIs
<1>6. x \in ToSet(v) /\ x \in Int /\ Cardinality(B) < h
  <2> HIDE DEF h
  <2> QED  BY <1>3, <1>4, SmallestIs
<1>7. x \in Nat
  <2>1. PICK j \in 1 .. n : x = v[j]
    <3> HIDE DEF x
    <3> QED  BY <1>3, <1>6 DEF ToSet
  <2> QED  BY <1>2, <1>3, <2>1
<1> HIDE DEF x
<1>8. B \in SUBSET (1 .. n) /\ Cardinality(B) \in 0 .. n  BY <1>3, <1>6, Counted
<1>9. ASSUME NEW S \in SUBSET (1 .. n), \A j \in 1 .. n : rs[j].iterations >= x => j \in S
      PROVE  2 * Cardinality(S) >= n
  <2> DEFINE U == 1 .. n
  <2>1. U \subseteq S \cup B  BY <1>3, <1>6, <1>9 DEF Below
  <2>2. IsFiniteSet(U) /\ Cardinality(U) = n  BY FS_Interval
  <2>3. IsFiniteSet(S) /\ IsFiniteSet(B) /\ Cardinality(S) \in 0 .. n
    BY <1>8, PartOfInterval
  <2> HIDE DEF U, B
  <2>4. /\ IsFiniteSet(S \cup B)
        /\ Cardinality(S \cup B) = Cardinality(S) + Cardinality(B) - Cardinality(S \cap B)
    BY <2>3, FS_Union
  <2>5. Cardinality(U) <= Cardinality(S \cup B)  BY <2>1, <2>4, FS_Subset
  <2>6. Cardinality(S \cap B) \in Nat
    <3>1. IsFiniteSet(S \cap B)  BY <2>3, FS_Intersection
    <3> QED  BY <3>1, FS_CardinalityType
  <2>7. n <= Cardinality(S) + Cardinality(B)  BY <1>8, <2>2, <2>3, <2>4, <2>5, <2>6
  <2> QED  BY <1>6, <1>8, <2>3, <2>7
<1> QED  BY <1>5, <1>7, <1>9, <1>10

\* The size of a product.
LEMMA DistanceScales ==
  ASSUME NEW n \in Nat, NEW x \in Int
  PROVE  Distance(n * x, 0) = n * Distance(x, 0) /\ Distance(x, 0) \in Nat
<1>1. Distance(x, 0) = IF x >= 0 THEN x ELSE -x  BY DistanceIs
<1> DEFINE y == n * x
<1>2. y \in Int /\ (x >= 0 => y >= 0) /\ (x < 0 => y <= 0) /\ n * (-x) = -y
  OBVIOUS
<1> HIDE DEF y
<1>3. Distance(y, 0) = IF y >= 0 THEN y ELSE -y  BY <1>2, DistanceIs
<1>4. CASE x >= 0
  <2>1. Distance(y, 0) = y /\ Distance(x, 0) = x  BY <1>1, <1>2, <1>3, <1>4
  <2> QED  BY <1>4, <2>1 DEF y
<1>5. CASE x < 0
  <2>1. Distance(y, 0) = -y /\ Distance(x, 0) = -x  BY <1>1, <1>2, <1>3, <1>5
  <2> QED  BY <1>2, <1>5, <2>1
<1> QED  BY <1>4, <1>5

\* A product grows with its factor.
LEMMA ProductGrows ==
  ASSUME NEW n \in Nat, NEW x \in Int, NEW y \in Int, x <= y
  PROVE  n * x <= n * y
OBVIOUS

\* What makes a verdict of significance earned.
Earned(a, rs) ==
  LET kept == a.kept
      d    == Diffs(kept)
      band == Noise * Distance(Total(Bases(kept)), 0)
  IN /\ \/ /\ 100 * a.ci[1] > band
           /\ \E j \in DOMAIN d : 100 * Len(d) * d[j] > band
        \/ /\ 100 * a.ci[2] < -band
           /\ \E j \in DOMAIN d : 100 * Len(d) * d[j] < -band
     /\ 2 * Cardinality({j \in DOMAIN rs :
              Distance(Total(d), 0) * rs[j].iterations >= 2 * Resolution * Len(d)})
          >= Len(rs)
     /\ a.outliers < Len(kept)

\* A significant analysis has a round beyond the noise on the side of its verdict,
\* and a difference that the clock resolves in half of the rounds
\* (PairedAnalysis::compute).
LEMMA SignificantIsEarned ==
  ASSUME NEW n \in 1 .. MaxRounds, NEW rs \in [1 .. n -> Observation],
         NEW a \in Analyses(rs), a.significant
  PROVE  Earned(a, rs)
<1>0. n \in Nat \ {0}  BY AnalysisAssumption
<1>1. PICK m \in 1 .. n :
        /\ a.kept \in [1 .. m -> Observation] /\ Len(a.kept) = m
        /\ a.outliers = n - m /\ n < 2 * m /\ a.diff = FromSlice(Diffs(a.kept))
        /\ a.base = FromSlice(Bases(a.kept))
        /\ a.ci \in Bootstrap(Diffs(a.kept))
        /\ a.significant = (~Limited(a.diff, rs) /\ Outside(a.ci, a.base, m))
  BY AnalysisIs
<1>2. ~Limited(a.diff, rs) /\ Outside(a.ci, a.base, m)  BY <1>1, Zenon
<1>3. m \in Nat \ {0} /\ m \in 1 .. MaxRounds
  BY <1>0, AnalysisAssumption
<1> DEFINE d == Diffs(a.kept)
           e == Bases(a.kept)
           x == a.diff.mean
           y == a.base.mean
           size == Distance(x, 0)
           band == Noise * Distance(Total(e), 0)
<1>4. /\ d \in [1 .. m -> Int] /\ e \in [1 .. m -> Int] /\ Len(d) = m /\ DOMAIN d = 1 .. m
      /\ \A j \in 1 .. m : d[j] \in Multiple /\ e[j] \in Multiple
  BY <1>1, <1>3, ColumnsAre
<1> HIDE DEF d, e
<1>5. x \in Int /\ y \in Int /\ m * x = Total(d) /\ m * y = Total(e)
  <2>1. FromSlice(d).mean \in Int /\ Summarises(FromSlice(d), m, d, Total(d), Total(Squares(d)))
    BY <1>3, <1>4, SliceIs
  <2>2. FromSlice(e).mean \in Int /\ Summarises(FromSlice(e), m, e, Total(e), Total(Squares(e)))
    BY <1>3, <1>4, SliceIs
  <2>3. a.diff = FromSlice(d) /\ a.base = FromSlice(e)  BY <1>1 DEF d, e
  <2> QED  BY <2>1, <2>2, <2>3 DEF Summarises
<1> HIDE DEF x, y
<1>6. Distance(Total(d), 0) = m * size /\ size \in Nat
  <2>1. m \in Nat  BY <1>3
  <2> QED  BY <1>5, <2>1, DistanceScales
<1>7. Distance(Total(e), 0) = m * Distance(y, 0) /\ Distance(y, 0) \in Nat
  <2>1. m \in Nat  BY <1>3
  <2> QED  BY <1>5, <2>1, DistanceScales
<1>8. Noise \in Nat /\ Resolution \in Nat  BY AnalysisAssumption
<1>9. band \in Int /\ band = Noise * Distance(y, 0) * m  BY <1>3, <1>7, <1>8
<1> HIDE DEF size, band
<1>10. \/ /\ 100 * a.ci[1] > band
          /\ \E j \in 1 .. m : 100 * m * d[j] > band
       \/ /\ 100 * a.ci[2] < -band
          /\ \E j \in 1 .. m : 100 * m * d[j] < -band
  <2>1. 100 * a.ci[1] > band \/ 100 * a.ci[2] < -band
    <3>1. Noise * Distance(y, 0) * m = band  BY <1>9
    <3> QED  BY <1>2, <3>1 DEF Outside, y
  <2>2. a.ci \in Bootstrap(d)  BY <1>1 DEF d
  <2>3. /\ a.ci[1] \in Int /\ a.ci[2] \in Int
        /\ \E j \in 1 .. m : a.ci[1] <= m * d[j]
        /\ \E j \in 1 .. m : m * d[j] <= a.ci[2]
    BY <1>3, <1>4, <2>2, BootstrapWithin
  <2>4. ASSUME NEW j \in 1 .. m PROVE m * d[j] \in Int /\ 100 * m * d[j] = 100 * (m * d[j])
    BY <1>3, <1>4
  <2>5. CASE 100 * a.ci[1] > band
    <3>1. PICK j \in 1 .. m : a.ci[1] <= m * d[j]  BY <2>3
    <3> DEFINE p == m * d[j]
    <3>2. p \in Int /\ 100 * m * d[j] = 100 * p /\ a.ci[1] <= p  BY <2>4, <3>1
    <3> HIDE DEF p
    <3>3. band \in Int /\ a.ci[1] \in Int /\ p \in Int /\ a.ci[1] <= p  BY <1>9, <2>3, <3>2
    <3>4. 100 * p > band  BY <2>5, <3>3
    <3>5. 100 * m * d[j] = 100 * p  BY <3>2
    <3> QED  BY <2>5, <3>1, <3>4, <3>5
  <2>6. CASE 100 * a.ci[2] < -band
    <3>1. PICK j \in 1 .. m : m * d[j] <= a.ci[2]  BY <2>3
    <3> DEFINE p == m * d[j]
    <3>2. p \in Int /\ 100 * m * d[j] = 100 * p /\ p <= a.ci[2]  BY <2>4, <3>1
    <3> HIDE DEF p
    <3>3. band \in Int /\ a.ci[2] \in Int /\ p \in Int /\ p <= a.ci[2]  BY <1>9, <2>3, <3>2
    <3>4. 100 * p < -band  BY <2>6, <3>3
    <3>5. 100 * m * d[j] = 100 * p  BY <3>2
    <3> QED  BY <2>6, <3>1, <3>4, <3>5
  <2> QED  BY <2>1, <2>5, <2>6
<1> DEFINE S == {j \in 1 .. n : m * size * rs[j].iterations >= 2 * Resolution * m}
<1>11. 2 * Cardinality(S) >= n
  <2> DEFINE med == MedianIterations(rs)
  <2>1. med \in Nat  BY <1>0, MedianIsMiddle
  <2>2. S \in SUBSET (1 .. n)  OBVIOUS
  <2>3. size * med >= 2 * Resolution
    <3>1. Resolution = 0 \/ ~(size * med < 2 * Resolution)
      <4>1. ~(Resolution > 0 /\ size * med < 2 * Resolution)
        BY <1>2 DEF Limited, size, x
      <4> QED  BY <1>8, <4>1
    <3>2. size * med \in Nat  BY <1>6, <2>1
    <3> HIDE DEF med
    <3> DEFINE p == size * med
    <3>3. p \in Nat /\ (Resolution = 0 \/ ~(p < 2 * Resolution))  BY <3>1, <3>2
    <3> HIDE DEF p
    <3>4. p >= 2 * Resolution  BY <1>8, <3>3
    <3> QED  BY <3>4 DEF p
  <2>4. ASSUME NEW j \in 1 .. n, rs[j].iterations >= med PROVE j \in S
    <3> DEFINE i == rs[j].iterations
               p == size * med
               q == size * i
    <3>1. i \in Nat  BY ObservationIs
    <3> HIDE DEF i, med
    <3>2. med <= i  BY <2>1, <2>4, <3>1 DEF i
    <3>3. p <= q  BY <1>6, <2>1, <3>1, <3>2, ProductGrows
    <3>4. p \in Int /\ q \in Int /\ 2 * Resolution <= p /\ 2 * Resolution \in Int
      BY <1>6, <1>8, <2>1, <2>3, <3>1
    <3>5. m * size * i = m * q  BY <1>3, <1>6, <3>1
    <3> HIDE DEF p, q
    <3> DEFINE r == 2 * Resolution
    <3>6. r \in Int /\ r <= q  BY <3>3, <3>4
    <3>7. 2 * Resolution * m = m * r  BY <1>3, <1>8
    <3> HIDE DEF r
    <3>8. m * r <= m * q
      <4>1. m \in Nat  BY <1>3
      <4> QED  BY <3>4, <3>6, <4>1, ProductGrows
    <3>9. m * r \in Int /\ m * q \in Int  BY <1>3, <3>4, <3>6
    <3>10. m * q >= m * r  BY <3>8, <3>9
    <3>11. m * size * i >= 2 * Resolution * m  BY <3>5, <3>7, <3>10
    <3> QED  BY <3>11 DEF i
  <2> HIDE DEF S, med
  <2>5. (\A j \in 1 .. n : rs[j].iterations >= med => j \in S) => 2 * Cardinality(S) >= n
    BY <1>0, <2>2, MedianIsMiddle DEF med
  <2> QED  BY <2>4, <2>5
<1>12. Len(rs) = n /\ DOMAIN rs = 1 .. n  BY <1>0, IsSequence
<1>13. a.outliers < Len(a.kept)  BY <1>0, <1>1
<1>14. {j \in DOMAIN rs :
          Distance(Total(d), 0) * rs[j].iterations >= 2 * Resolution * Len(d)} = S
  BY <1>4, <1>6, <1>12
<1>15. 2 * Cardinality({j \in DOMAIN rs :
           Distance(Total(d), 0) * rs[j].iterations >= 2 * Resolution * Len(d)}) >= Len(rs)
  <2> HIDE DEF S
  <2> QED  BY <1>11, <1>12, <1>14
<1>16. \/ /\ 100 * a.ci[1] > band
          /\ \E j \in DOMAIN d : 100 * Len(d) * d[j] > band
       \/ /\ 100 * a.ci[2] < -band
          /\ \E j \in DOMAIN d : 100 * Len(d) * d[j] < -band
  BY <1>4, <1>10
<1> HIDE DEF S
<1> QED  BY <1>13, <1>15, <1>16 DEF Earned, d, e, band

-----------------------------------------------------------------------------
(* Moments.                                                                *)

\* The values of a sequence that is not empty.
LEMMA TheValues ==
  ASSUME NEW n \in Nat \ {0}, NEW v \in [1 .. n -> Int]
  PROVE  /\ ToSet(v) \in SUBSET Int /\ IsFiniteSet(ToSet(v)) /\ ToSet(v) # {}
         /\ \A x \in ToSet(v) : \E j \in 1 .. n : x = v[j]
         /\ \A j \in 1 .. n : v[j] \in ToSet(v)
<1> DEFINE S == ToSet(v)
<1>1. DOMAIN v = 1 .. n  BY IsSequence
<1>2. S = ValuesAt(v, 1 .. n)  BY <1>1 DEF ToSet, ValuesAt
<1>3. S \in SUBSET Int /\ IsFiniteSet(S) /\ S # {}
  <2> DEFINE U == 1 .. n
  <2>1. U \in SUBSET (1 .. n) /\ U # {} /\ S = ValuesAt(v, U)  BY <1>2
  <2> HIDE DEF U, S
  <2> QED  BY <2>1, ValuesAtAre
<1> QED  BY <1>2, <1>3 DEF ValuesAt

\* The square of a difference.
LEMMA SquareOfDifference ==
  ASSUME NEW x \in Int, NEW m \in Int
  PROVE  (x - m) * (x - m) = x * x + ((-2 * m) * x + m * m)
OBVIOUS

\* The two forms of the variance.
LEMMA VarianceForms ==
  ASSUME NEW n \in Int, NEW m \in Int, NEW z \in Int
  PROVE  /\ n * z = n * (z + (n * m) * m) - (n * m) * (n * m)
         /\ z = (z + (n * m) * m) + ((-2 * m) * (n * m) + n * (m * m))
OBVIOUS

Moments(s, d) ==
  /\ s.n = Len(d) /\ s.n * s.mean = Total(d)
  /\ s.min = Min(ToSet(d)) /\ s.max = Max(ToSet(d))
  /\ s.m2 = Total([j \in DOMAIN d |-> (d[j] - s.mean) * (d[j] - s.mean)])
  /\ s.n * s.m2 = StreamingVariance(d)

\* What FromSlice reports is the mean, the sum of squared deviations and the range
\* of its values (Summary::from_slice).
LEMMA MomentsAre ==
  ASSUME NEW n \in 1 .. MaxRounds, NEW v \in [1 .. n -> Int],
         \A j \in 1 .. n : v[j] \in Multiple
  PROVE  Moments(FromSlice(v), v)
<1> DEFINE s == FromSlice(v)
           m == s.mean
           t == Total(v)
           q == Total(Squares(v))
<1>0. n \in Nat \ {0}  BY AnalysisAssumption
<1>1. s.mean \in Int /\ s.m2 \in Int /\ Summarises(s, n, v, t, q)  BY SliceIs
<1> HIDE DEF s
<1>2. Len(v) = n /\ DOMAIN v = 1 .. n  BY <1>0, IsSequence
<1>3. s.n = n /\ n * m = t /\ s.m2 + t * m = q
      /\ (\E i \in 1 .. n : s.min = v[i]) /\ (\E i \in 1 .. n : s.max = v[i])
      /\ \A i \in 1 .. n : s.min <= v[i] /\ v[i] <= s.max
  BY <1>0, <1>1 DEF Summarises
<1>4. Squares(v) \in [1 .. n -> Int] /\ \A j \in 1 .. n : Squares(v)[j] = v[j] * v[j]
  BY <1>0, SquaresAre
<1>5. m \in Int /\ t \in Int /\ q \in Int  BY <1>0, <1>1, <1>4, SumsAre
<1>6. s.min = Min(ToSet(v)) /\ s.max = Max(ToSet(v))
  <2> DEFINE S == ToSet(v)
  <2>1. /\ S \in SUBSET Int /\ IsFiniteSet(S) /\ S # {}
        /\ \A x \in S : \E j \in 1 .. n : x = v[j]
        /\ \A j \in 1 .. n : v[j] \in S
    BY <1>0, TheValues
  <2> HIDE DEF S
  <2>2. Min(S) \in S /\ \A y \in S : Min(S) <= y  BY <2>1, MinIs
  <2>3. Max(S) \in S /\ \A y \in S : Max(S) >= y  BY <2>1, MaxIs
  <2>4. s.min \in S /\ s.max \in S /\ \A x \in S : s.min <= x /\ x <= s.max
    BY <1>3, <2>1
  <2>5. Min(S) \in Int /\ Max(S) \in Int /\ s.min \in Int /\ s.max \in Int
    BY <2>1, <2>2, <2>3, <2>4
  <2>6. Min(S) <= s.min /\ s.min <= Min(S) /\ Max(S) >= s.max /\ Max(S) <= s.max
    BY <2>2, <2>3, <2>4
  <2>7. Min(S) = s.min /\ Max(S) = s.max  BY <2>5, <2>6
  <2> QED  BY <2>7 DEF S
<1>11. n \in Nat /\ n \in Int  BY <1>0
<1>12. s.m2 \in Int /\ m \in Int /\ t \in Int /\ q \in Int  BY <1>1, <1>5
<1>13. n * m = t /\ s.m2 + t * m = q  BY <1>3
<1> HIDE DEF t, q, m
<1>14. n * s.m2 = n * q - t * t /\ s.m2 = q + ((-2 * m) * t + n * (m * m))
  <2>1. /\ n * s.m2 = n * (s.m2 + (n * m) * m) - (n * m) * (n * m)
        /\ s.m2 = (s.m2 + (n * m) * m) + ((-2 * m) * (n * m) + n * (m * m))
    BY <1>11, <1>12, VarianceForms
  <2>2. t = n * m /\ q = s.m2 + (n * m) * m  BY <1>13
  <2> QED  BY <2>1, <2>2
<1> DEFINE w == [j \in 1 .. n |-> (v[j] - m) * (v[j] - m)]
           c == -2 * m
           scaled == [j \in 1 .. n |-> c * v[j]]
           shift == [j \in 1 .. n |-> m * m]
           rest == [j \in 1 .. n |-> c * v[j] + m * m]
<1>7. s.m2 = Total(w)
  <2>1. c \in Int /\ m * m \in Int /\ \A j \in 1 .. n : v[j] \in Int /\ c * v[j] \in Int
    BY <1>12
  <2>14. c \in Int  BY <1>12
  <2>2. ASSUME NEW j \in 1 .. n PROVE (v[j] - m) * (v[j] - m) \in Int
    <3>1. v[j] \in Int /\ m \in Int  BY <1>5
    <3> QED  BY <3>1
  <2>3. ASSUME NEW j \in 1 .. n
        PROVE  (v[j] - m) * (v[j] - m) = v[j] * v[j] + (c * v[j] + m * m)
    BY <1>5, <2>1, SquareOfDifference
  <2> DEFINE mm == m * m
  <2> HIDE DEF c, mm
  <2>4. scaled \in [1 .. n -> Int] /\ \A j \in 1 .. n : scaled[j] = c * v[j]
    BY <2>1
  <2>5. shift \in [1 .. n -> Int] /\ \A j \in 1 .. n : shift[j] = mm
    BY <2>1 DEF mm
  <2>6. rest \in [1 .. n -> Int] /\ \A j \in 1 .. n : rest[j] = scaled[j] + shift[j]
    BY <2>1, <2>4, <2>5 DEF mm
  <2>7. w \in [1 .. n -> Int] /\ \A j \in 1 .. n : w[j] = Squares(v)[j] + rest[j]
    BY <1>4, <2>2, <2>3
  <2> HIDE DEF w, scaled, shift, rest
  <2>8. Total(scaled) = c * t  BY <1>11, <2>14, <2>4, SumScales DEF t
  <2>9. Total(shift) = n * mm
    <3>1. mm \in Int  BY <2>1 DEF mm
    <3> QED  BY <1>0, <2>5, <3>1, SumConstant
  <2>10. Total(rest) = Total(scaled) + Total(shift)
    <3> USE <1>11
    <3>1. \A j \in 1 .. n : rest[j] = scaled[j] + shift[j]  BY <2>6
    <3>2. rest \in [1 .. n -> Int] /\ scaled \in [1 .. n -> Int] /\ shift \in [1 .. n -> Int]
      BY <2>4, <2>5, <2>6
    <3> QED  BY <3>1, <3>2, SumAdds
  <2>11. Total(w) = q + Total(rest)
    <3> USE <1>11
    <3>1. \A j \in 1 .. n : w[j] = Squares(v)[j] + rest[j]  BY <2>7
    <3>2. w \in [1 .. n -> Int] /\ rest \in [1 .. n -> Int] /\ Squares(v) \in [1 .. n -> Int]
      BY <1>4, <2>6, <2>7
    <3> QED  BY <3>1, <3>2, SumAdds DEF q
  <2> QED  BY <1>14, <2>8, <2>9, <2>10, <2>11 DEF c, mm
<1>9. StreamingVariance(v) = n * q - t * t  BY <1>2 DEF StreamingVariance, q, t
<1>10. s.m2 = Total([j \in DOMAIN v |-> (v[j] - s.mean) * (v[j] - s.mean)])
  BY <1>2, <1>7 DEF m
<1> QED  BY <1>2, <1>3, <1>6, <1>9, <1>10, <1>13, <1>14 DEF Moments, s, m, t

-----------------------------------------------------------------------------
(* Ranks.                                                                  *)

\* The ranks of n values add up to those of n different ones: of two values, each
\* is below the other or has it up to it.
LEMMA RanksAddUp ==
  ASSUME NEW n \in Nat, NEW v \in [1 .. n -> Int]
  PROVE  /\ \A j \in 1 .. n : Rank(v, v[j]) \in Int
         /\ Total([j \in 1 .. n |-> Rank(v, v[j])]) = n * (n + 1)
<1> DEFINE below == [j \in 1 .. n |-> Cardinality(Below(v, v[j]))]
           upto  == [j \in 1 .. n |-> Cardinality(UpTo(v, v[j]))]
           g     == [j \in 1 .. n |-> [i \in 1 .. n |-> IF v[i] < v[j] THEN 1 ELSE 0]]
           h(i)  == [j \in 1 .. n |-> IF v[j] <= v[i] THEN 1 ELSE 0]
           c(i)  == [j \in 1 .. n |-> g[j][i]]
           above == [i \in 1 .. n |-> Total(c(i))]
           all   == [j \in 1 .. n |-> n]
           one   == [j \in 1 .. n |-> 1]
           both  == [j \in 1 .. n |-> below[j] + upto[j]]
           rank  == [j \in 1 .. n |-> Rank(v, v[j])]
<1>1. \A j \in 1 .. n : v[j] \in Int  OBVIOUS
<1>2. g \in [1 .. n -> [1 .. n -> Int]]
      /\ \A j, i \in 1 .. n : g[j][i] = IF v[i] < v[j] THEN 1 ELSE 0
  OBVIOUS
<1>3. ASSUME NEW i \in 1 .. n
      PROVE  /\ h(i) \in [1 .. n -> Int]
             /\ \A j \in 1 .. n : h(i)[j] = IF v[j] <= v[i] THEN 1 ELSE 0
  OBVIOUS
<1>4. ASSUME NEW i \in 1 .. n
      PROVE  c(i) \in [1 .. n -> Int] /\ \A j \in 1 .. n : c(i)[j] = g[j][i]
  <2> HIDE DEF g
  <2> QED  BY <1>2
<1>5. one \in [1 .. n -> Int] /\ all \in [1 .. n -> Int]
      /\ \A j \in 1 .. n : one[j] = 1 /\ all[j] = n
  OBVIOUS
<1>6. ASSUME NEW j \in 1 .. n
      PROVE  /\ below[j] = Cardinality(Below(v, v[j])) /\ below[j] \in Int
             /\ upto[j] = Cardinality(UpTo(v, v[j])) /\ upto[j] \in Int
  BY <1>1, Counted
<1>7. below \in [1 .. n -> Int] /\ upto \in [1 .. n -> Int]  BY <1>6
<1>9. Total([j \in 1 .. n |-> Total(g[j])]) = Total(above)
  <2> HIDE DEF g
  <2> QED  BY <1>2, SumsExchange
<1> HIDE DEF below, upto, g, h, c, one, all
<1>8. \A i \in 1 .. n : above[i] = Total(c(i)) /\ above[i] \in Int
  BY <1>4, SumsAre
<1>10. above \in [1 .. n -> Int]  BY <1>8
<1> HIDE DEF above
<1>11. ASSUME NEW j \in 1 .. n PROVE Total(g[j]) = below[j]
  <2>1. Below(v, v[j]) \in SUBSET (1 .. n)  BY <1>1, Counted
  <2>2. \A i \in 1 .. n : i \in Below(v, v[j]) <=> v[i] < v[j]  BY DEF Below
  <2>3. g[j] \in [1 .. n -> Int]
        /\ \A i \in 1 .. n : g[j][i] = IF i \in Below(v, v[j]) THEN 1 ELSE 0
    BY <1>2, <2>2
  <2>4. Total(g[j]) = Cardinality(Below(v, v[j]))  BY <2>1, <2>3, SumCounts
  <2> QED  BY <1>6, <2>4
<1>12. Total(below) = Total(above)
  <2>1. below = [j \in 1 .. n |-> Total(g[j])]  BY <1>7, <1>11
  <2> QED  BY <1>9, <2>1
<1>13. ASSUME NEW i \in 1 .. n PROVE all[i] = above[i] + upto[i]
  <2>1. UpTo(v, v[i]) \in SUBSET (1 .. n)  BY <1>1, Counted
  <2>2. \A j \in 1 .. n : j \in UpTo(v, v[i]) <=> v[j] <= v[i]  BY DEF UpTo
  <2>3. h(i) \in [1 .. n -> Int]
        /\ \A j \in 1 .. n : h(i)[j] = IF j \in UpTo(v, v[i]) THEN 1 ELSE 0
    BY <1>3, <2>2
  <2>4. Total(h(i)) = Cardinality(UpTo(v, v[i]))  BY <2>1, <2>3, SumCounts
  <2>5. ASSUME NEW j \in 1 .. n PROVE one[j] = c(i)[j] + h(i)[j]
    <3>1. c(i)[j] = IF v[i] < v[j] THEN 1 ELSE 0  BY <1>2, <1>4
    <3>2. h(i)[j] = IF v[j] <= v[i] THEN 1 ELSE 0  BY <1>3
    <3>3. v[i] < v[j] <=> ~(v[j] <= v[i])  BY <1>1
    <3> QED  BY <1>5, <3>1, <3>2, <3>3
  <2>6. c(i) \in [1 .. n -> Int] /\ h(i) \in [1 .. n -> Int]  BY <1>3, <1>4
  <2>9. one \in [1 .. n -> Int]  BY <1>5
  <2>7. Total(one) = Total(c(i)) + Total(h(i))  BY <2>5, <2>6, <2>9, SumAdds
  <2>8. Total(one) = n * 1  BY <1>5, SumConstant
  <2> QED  BY <1>5, <1>6, <1>8, <2>4, <2>7, <2>8
<1>14. Total(all) = n * n  BY <1>5, SumConstant
<1>15. Total(all) = Total(above) + Total(upto)
  <2>1. all \in [1 .. n -> Int] /\ upto \in [1 .. n -> Int]  BY <1>5, <1>7
  <2> QED  BY <1>10, <1>13, <2>1, SumAdds
<1>16. both \in [1 .. n -> Int] /\ \A j \in 1 .. n : both[j] = below[j] + upto[j]
  BY <1>6
<1> HIDE DEF both
<1>17. Total(both) = Total(below) + Total(upto)  BY <1>7, <1>16, SumAdds
<1>18. ASSUME NEW j \in 1 .. n PROVE Rank(v, v[j]) = both[j] + one[j]
  <2>1. Rank(v, v[j]) = Cardinality(Below(v, v[j])) + Cardinality(UpTo(v, v[j])) + 1
    BY RankIs
  <2> QED  BY <1>5, <1>6, <1>16, <2>1
<1>19. ASSUME NEW j \in 1 .. n PROVE Rank(v, v[j]) \in Int
  <2>1. both[j] \in Int /\ one[j] \in Int  BY <1>5, <1>16
  <2> QED  BY <1>18, <2>1
<1>20. rank \in [1 .. n -> Int] /\ \A j \in 1 .. n : rank[j] = both[j] + one[j]
  BY <1>18, <1>19
<1> HIDE DEF rank
<1>21. Total(rank) = Total(both) + Total(one)
  <2>1. rank \in [1 .. n -> Int] /\ both \in [1 .. n -> Int] /\ one \in [1 .. n -> Int]
    BY <1>5, <1>16, <1>20
  <2>2. \A j \in 1 .. n : rank[j] = both[j] + one[j]  BY <1>20
  <2> QED  BY <2>1, <2>2, SumAdds
<1>22. Total(one) = n * 1  BY <1>5, SumConstant
<1>23. Total(rank) = n * n + n  BY <1>12, <1>14, <1>15, <1>17, <1>21, <1>22
<1>24. n * n + n = n * (n + 1)  OBVIOUS
<1> QED  BY <1>19, <1>23, <1>24 DEF rank

\* The values that are not zero; if none is, all of them.
LEMMA NonzeroIs ==
  ASSUME NEW n \in Nat, NEW v \in [1 .. n -> Int]
  PROVE  /\ \E m \in 0 .. n : /\ Nonzero(v) \in [1 .. m -> Int] /\ Len(Nonzero(v)) = m
                              /\ \A h \in 1 .. m : Nonzero(v)[h] # 0
         /\ (\A h \in 1 .. n : v[h] # 0) => Nonzero(v) = v
<1> DEFINE S == {h \in 1 .. n : v[h] # 0}
           m == Cardinality(S)
           d == Selected(v, S)
<1>1. \A h \in S : v[h] \in Int /\ v[h] # 0  OBVIOUS
<1>8. S \in SUBSET (1 .. n)  OBVIOUS
<1>2. Nonzero(v) = d  BY DEF Nonzero
<1>6. (\A h \in 1 .. n : v[h] # 0) => S = 1 .. n  OBVIOUS
<1> HIDE DEF S
<1>3. /\ m \in 0 .. n /\ d = [j \in 1 .. m |-> d[j]] /\ Len(d) = m
      /\ \A j \in 1 .. m : \E h \in S : d[j] = v[h]
  BY <1>8, SelectedIs
<1>7. (\A h \in 1 .. n : v[h] # 0) => d = v  BY <1>6, AllSelected
<1> HIDE DEF d, m
<1>4. \A j \in 1 .. m : d[j] \in Int /\ d[j] # 0  BY <1>1, <1>3
<1>5. d \in [1 .. m -> Int]  BY <1>3, <1>4
<1> QED  BY <1>2, <1>3, <1>4, <1>5, <1>7

\* The other sign has the same size.
LEMMA SizesAre ==
  ASSUME NEW n \in Nat, NEW v \in [1 .. n -> Int]
  PROVE  /\ Sizes(v) \in [1 .. n -> Int]
         /\ Sizes([j \in 1 .. n |-> -v[j]]) = Sizes(v)
<1> DEFINE u == [j \in 1 .. n |-> -v[j]]
<1>1. u \in [1 .. n -> Int] /\ \A j \in 1 .. n : u[j] = -v[j] /\ v[j] \in Int
  OBVIOUS
<1> HIDE DEF u
<1>2. Sizes(v) = [j \in 1 .. n |-> Distance(v[j], 0)]
      /\ Sizes(u) = [j \in 1 .. n |-> Distance(u[j], 0)]
  BY <1>1 DEF Sizes
<1>3. ASSUME NEW x \in Int PROVE Distance(-x, 0) = Distance(x, 0) /\ Distance(x, 0) \in Int
  <2>1. Distance(x, 0) = IF x >= 0 THEN x ELSE -x
    <3>1. Distance(x, 0) = IF x >= 0 THEN x - 0 ELSE 0 - x  BY DistanceIs
    <3> QED  BY <3>1
  <2> DEFINE y == -x
  <2>2. y \in Int  OBVIOUS
  <2>3. Distance(y, 0) = IF y >= 0 THEN y - 0 ELSE 0 - y  BY <2>2, DistanceIs
  <2> QED  BY <2>1, <2>3
<1>4. \A j \in 1 .. n : Distance(u[j], 0) = Distance(v[j], 0) /\ Distance(v[j], 0) \in Int
  BY <1>1, <1>3
<1> QED  BY <1>2, <1>4 DEF u

\* Exchanging the arms exchanges the ranks of the positive and the negative
\* differences, which are as far from half of all.
LEMMA SignedRankIsSymmetric ==
  ASSUME NEW n \in Nat, NEW v \in [1 .. n -> Int], \A j \in 1 .. n : v[j] # 0
  PROVE  SignedRank([j \in 1 .. n |-> -v[j]]) = SignedRank(v)
<1> DEFINE u == [j \in 1 .. n |-> -v[j]]
           z == Sizes(v)
           p == [j \in 1 .. n |-> IF v[j] > 0 THEN Rank(z, z[j]) ELSE 0]
           q == [j \in 1 .. n |-> IF u[j] > 0 THEN Rank(z, z[j]) ELSE 0]
           all == [j \in 1 .. n |-> Rank(z, z[j])]
           half == n * (n + 1)
<1>1. u \in [1 .. n -> Int] /\ \A j \in 1 .. n : u[j] = -v[j] /\ v[j] \in Int
  OBVIOUS
<1>2. \A j \in 1 .. n : u[j] # 0  BY <1>1
<1>3. Sizes(u) = z /\ z \in [1 .. n -> Int]  BY SizesAre
<1> HIDE DEF u, z
<1>4. Nonzero(v) = v /\ Nonzero(u) = u  BY <1>1, <1>2, NonzeroIs
<1>5. Len(v) = n /\ Len(u) = n /\ DOMAIN v = 1 .. n /\ DOMAIN u = 1 .. n
  BY <1>1, IsSequence
<1>6. SignedRank(v) = (IF n < FewRanks THEN Unknown ELSE Distance(2 * Total(p), half))
  BY <1>4, <1>5 DEF SignedRank, z
<1>7. SignedRank(u) = (IF n < FewRanks THEN Unknown ELSE Distance(2 * Total(q), half))
  BY <1>3, <1>4, <1>5 DEF SignedRank
<1>8. (\A j \in 1 .. n : Rank(z, z[j]) \in Int) /\ Total(all) = half
  BY <1>3, RanksAddUp
<1>9. p \in [1 .. n -> Int] /\ q \in [1 .. n -> Int] /\ all \in [1 .. n -> Int]
  BY <1>8
<1>10. ASSUME NEW j \in 1 .. n PROVE all[j] = p[j] + q[j]
  <2>1. v[j] > 0 <=> ~(u[j] > 0)  BY <1>1
  <2>2. Rank(z, z[j]) \in Int  BY <1>8
  <2> QED  BY <2>1, <2>2
<1> HIDE DEF p, q, all
<1>11. Total(all) = Total(p) + Total(q)  BY <1>9, <1>10, SumAdds
<1>12. Total(p) \in Int /\ Total(q) \in Int  BY <1>9, SumsAre
<1> HIDE DEF half
<1>13. ASSUME NEW x \in Int, NEW y \in Int, NEW w \in Int, w = x + y
       PROVE  Distance(2 * x, w) = Distance(2 * y, w)
  <2> DEFINE a == 2 * x
             b == 2 * y
  <2>1. a \in Int /\ b \in Int /\ a - w = w - b /\ w - a = b - w  BY <1>13
  <2> HIDE DEF a, b
  <2>2. Distance(a, w) = IF a >= w THEN a - w ELSE w - a  BY <2>1, DistanceIs
  <2>3. Distance(b, w) = IF b >= w THEN b - w ELSE w - b  BY <2>1, DistanceIs
  <2> QED  BY <2>1, <2>2, <2>3 DEF a, b
<1>14. half \in Int  BY DEF half
<1>15. Distance(2 * Total(p), half) = Distance(2 * Total(q), half)
  BY <1>8, <1>11, <1>12, <1>13, <1>14
<1> QED  BY <1>6, <1>7, <1>15 DEF u

\* What is claimed of ranks.
Ranked(d) ==
  LET n == Len(d)
  IN /\ Total([j \in DOMAIN d |-> Rank(Sizes(d), Sizes(d)[j])]) = n * (n + 1)
     /\ SignedRank([j \in DOMAIN d |-> -d[j]]) = SignedRank(d)

\* The ranks of the differences that are not zero add up, and their test does not
\* ask which arm came first (wilcoxon_signed_rank).
LEMMA RanksAre ==
  ASSUME NEW n \in Nat, NEW v \in [1 .. n -> Int]
  PROVE  Ranked(Nonzero(v))
<1> DEFINE d == Nonzero(v)
<1>1. PICK m \in 0 .. n :
        d \in [1 .. m -> Int] /\ Len(d) = m /\ \A j \in 1 .. m : d[j] # 0
  BY NonzeroIs
<1> HIDE DEF d
<1>2. m \in Nat /\ DOMAIN d = 1 .. m  BY <1>1
<1>3. Sizes(d) \in [1 .. m -> Int]  BY <1>1, <1>2, SizesAre
<1>4. Total([j \in 1 .. m |-> Rank(Sizes(d), Sizes(d)[j])]) = m * (m + 1)
  BY <1>2, <1>3, RanksAddUp
<1>5. SignedRank([j \in 1 .. m |-> -d[j]]) = SignedRank(d)
  BY <1>1, <1>2, SignedRankIsSymmetric
<1> QED  BY <1>1, <1>2, <1>4, <1>5 DEF Ranked, d

-----------------------------------------------------------------------------
(* The slope.                                                              *)

\* What is claimed of the slope.
Sloped(a, rs) ==
  a.slope # Unknown =>
    \A c \in ToSet(Bases(rs)) :
      (\A j \in DOMAIN rs : rs[j].base = c * rs[j].iterations) =>
        a.slope[1] = c * a.slope[2]

\* Rounds that take the same time per iteration have it as their slope
\* (overhead-free estimate of linear rounds).
LEMMA SlopeIs ==
  ASSUME NEW n \in Nat \ {0}, NEW rs \in [1 .. n -> Observation], NEW a, a.slope = Slope(rs)
  PROVE  Sloped(a, rs)
<1> SUFFICES ASSUME a.slope # Unknown, NEW c \in ToSet(Bases(rs)),
                    \A j \in DOMAIN rs : rs[j].base = c * rs[j].iterations
             PROVE  a.slope[1] = c * a.slope[2]
  BY DEF Sloped
<1> DEFINE v == [j \in 1 .. n |-> rs[j].iterations * rs[j].iterations]
           w == [j \in 1 .. n |-> rs[j].iterations * rs[j].base]
<1>1. DOMAIN rs = 1 .. n /\ Bases(rs) \in [1 .. n -> Int]  BY ColumnsAre, IsSequence
<1>2. c \in Int  BY <1>1, TheValues
<1>3. a.slope[1] = Total(w) /\ a.slope[2] = Total(v)
  <2>1. a.slope = <<Total(w), Total(v)>>  BY <1>1, Zenon DEF Slope
  <2> HIDE DEF v, w
  <2> QED  BY <2>1
<1>4. ASSUME NEW j \in 1 .. n
      PROVE  /\ rs[j].iterations * rs[j].iterations \in Int
             /\ rs[j].iterations * rs[j].base \in Int
             /\ rs[j].iterations * rs[j].base = c * (rs[j].iterations * rs[j].iterations)
  <2>1. rs[j].iterations \in Int /\ rs[j].base \in Int  BY ObservationIs
  <2>2. rs[j].base = c * rs[j].iterations  BY <1>1
  <2>3. ASSUME NEW x \in Int PROVE x * (c * x) = c * (x * x)  BY <1>2
  <2>4. rs[j].iterations * (c * rs[j].iterations) = c * (rs[j].iterations * rs[j].iterations)
    BY <2>1, <2>3
  <2>5. rs[j].iterations * rs[j].base = c * (rs[j].iterations * rs[j].iterations)
    BY <2>2, <2>4
  <2>6. rs[j].iterations * rs[j].iterations \in Int /\ rs[j].iterations * rs[j].base \in Int
    BY <2>1
  <2> QED  BY <2>5, <2>6
<1>5. v \in [1 .. n -> Int] /\ w \in [1 .. n -> Int]  BY <1>4
<1>6. \A j \in 1 .. n : w[j] = c * v[j]  BY <1>4
<1> HIDE DEF v, w
<1>7. Total(w) = c * Total(v)  BY <1>2, <1>5, <1>6, SumScales
<1> QED  BY <1>3, <1>7

-----------------------------------------------------------------------------
(* The comparisons that are listed.                                        *)

\* A one-to-one image has as many elements.
Pairs(f, S, T) ==
  /\ f \in [S -> T] /\ \A x, y \in S : f[x] = f[y] => x = y
  /\ \A t \in T : \E x \in S : f[x] = t

\* Sets that are in one-to-one correspondence have the same size.
LEMMA SameSize ==
  ASSUME NEW S, NEW T, NEW f, Pairs(f, S, T), IsFiniteSet(S)
  PROVE  IsFiniteSet(T) /\ Cardinality(T) = Cardinality(S)
<1>1. f \in Injection(S, T)  BY DEF Pairs, Injection, IsInjective
<1>2. f \in Surjection(S, T)  BY DEF Pairs, Surjection
<1>3. ExistsBijection(S, T)  BY <1>1, <1>2 DEF ExistsBijection, Bijection
<1> QED  BY <1>3, FS_Bijection

\* Of n (n - 1) ordered pairs, half go up.
Rising(S) == {t \in S \X S : t[1] < t[2]}

\* Of the ordered pairs of different naturals, half rise.
LEMMA HalfOfThePairs ==
  ASSUME NEW S \in SUBSET Nat, IsFiniteSet(S)
  PROVE  /\ IsFiniteSet(Rising(S))
         /\ 2 * Cardinality(Rising(S)) = Cardinality(S) * (Cardinality(S) - 1)
<1> DEFINE n    == Cardinality(S)
           up   == Rising(S)
           down == {t \in S \X S : t[1] > t[2]}
           same == {t \in S \X S : t[1] = t[2]}
           f    == [t \in up |-> <<t[2], t[1]>>]
           g    == [x \in S |-> <<x, x>>]
<1>1. IsFiniteSet(S \X S) /\ Cardinality(S \X S) = n * n /\ n \in Nat
  BY FS_Product, FS_CardinalityType
<1>2. IsFiniteSet(up) /\ IsFiniteSet(down) /\ IsFiniteSet(same)
  <2>1. up \in SUBSET (S \X S) /\ down \in SUBSET (S \X S) /\ same \in SUBSET (S \X S)
    BY DEF Rising
  <2> HIDE DEF up, down, same
  <2> QED  BY <1>1, <2>1, FS_Subset
<1>3. Cardinality(down) = Cardinality(up)
  <2>1. Pairs(f, up, down)
    <3>1. \A t \in up : <<t[2], t[1]>> \in down  BY DEF Rising
    <3>2. f \in [up -> down]  BY <3>1
    <3>3. ASSUME NEW t \in up, NEW u \in up, f[t] = f[u] PROVE t = u
      <4>1. t[1] = u[1] /\ t[2] = u[2]  BY <3>3
      <4>2. t = <<t[1], t[2]>> /\ u = <<u[1], u[2]>>  BY DEF Rising
      <4> QED  BY <4>1, <4>2
    <3>4. ASSUME NEW u \in down PROVE \E t \in up : f[t] = u
      <4> DEFINE t == <<u[2], u[1]>>
      <4>1. t \in up /\ u = <<u[1], u[2]>>  BY DEF Rising
      <4>2. f[t] = u  BY <4>1
      <4> QED  BY <4>1, <4>2
    <3> HIDE DEF f, up, down
    <3> QED  BY <3>2, <3>3, <3>4 DEF Pairs
  <2> HIDE DEF f, up, down
  <2> QED  BY <1>2, <2>1, SameSize
<1>4. Cardinality(same) = n
  <2>1. Pairs(g, S, same)
    <3>1. g \in [S -> same]  OBVIOUS
    <3>2. ASSUME NEW x \in S, NEW y \in S, g[x] = g[y] PROVE x = y  BY <3>2
    <3>3. ASSUME NEW u \in same PROVE \E x \in S : g[x] = u
      <4>1. u[1] \in S /\ u = <<u[1], u[1]>>  OBVIOUS
      <4> QED  BY <4>1
    <3> HIDE DEF g, same
    <3> QED  BY <3>1, <3>2, <3>3 DEF Pairs
  <2> HIDE DEF g, same
  <2> QED  BY <2>1, SameSize
<1>5. up \cap down = {} /\ (up \cup down) \cap same = {} /\ (up \cup down) \cup same = S \X S
  <2>1. \A t \in S \X S : t[1] \in Nat /\ t[2] \in Nat  OBVIOUS
  <2>2. \A t \in S \X S : (t \in up <=> t[1] < t[2]) /\ (t \in down <=> t[1] > t[2])
                         /\ (t \in same <=> t[1] = t[2])
    BY DEF Rising
  <2>3. up \subseteq S \X S /\ down \subseteq S \X S /\ same \subseteq S \X S
    BY DEF Rising
  <2> DEFINE D == S \X S
  <2>4. \A t \in D : /\ (t \in up <=> t[1] < t[2]) /\ (t \in down <=> t[1] > t[2])
                     /\ (t \in same <=> t[1] = t[2]) /\ t[1] \in Nat /\ t[2] \in Nat
    BY <2>1, <2>2
  <2>5. up \subseteq D /\ down \subseteq D /\ same \subseteq D  BY <2>3
  <2> HIDE DEF up, down, same, D
  <2>6. up \cap down = {} /\ (up \cup down) \cap same = {}  BY <2>4, <2>5
  <2>7. \A t \in D : t \in up \/ t \in down \/ t \in same  BY <2>4
  <2>8. (up \cup down) \cup same = D  BY <2>5, <2>7
  <2> QED  BY <2>6, <2>8 DEF D
<1> HIDE DEF up, down, same, n
<1>6. IsFiniteSet(up \cup down)
      /\ Cardinality(up \cup down) = Cardinality(up) + Cardinality(down)
  <2>1. Cardinality(up \cap down) = 0  BY <1>5, FS_EmptySet
  <2>2. IsFiniteSet(up \cup down)
        /\ Cardinality(up \cup down) = Cardinality(up) + Cardinality(down) - Cardinality(up \cap down)
    BY <1>2, FS_Union
  <2>3. Cardinality(up) \in Nat /\ Cardinality(down) \in Nat  BY <1>2, FS_CardinalityType
  <2> QED  BY <2>1, <2>2, <2>3
<1>7. n * n = Cardinality(up \cup down) + Cardinality(same)
  <2>1. Cardinality((up \cup down) \cap same) = 0  BY <1>5, FS_EmptySet
  <2>2. Cardinality((up \cup down) \cup same)
          = Cardinality(up \cup down) + Cardinality(same) - Cardinality((up \cup down) \cap same)
    BY <1>2, <1>6, FS_Union
  <2>3. Cardinality(up \cup down) \in Nat /\ Cardinality(same) \in Nat
    BY <1>2, <1>6, FS_CardinalityType
  <2>4. Cardinality((up \cup down) \cup same) = n * n  BY <1>1, <1>5
  <2> QED  BY <2>1, <2>2, <2>3, <2>4
<1>8. Cardinality(up) \in Nat  BY <1>2, FS_CardinalityType
<1>9. 2 * Cardinality(up) = n * n - n  BY <1>1, <1>3, <1>4, <1>6, <1>7, <1>8
<1>10. n * n - n = n * (n - 1)  BY <1>1
<1> QED  BY <1>2, <1>9, <1>10 DEF n, up

WithBaseline(arms, base) == {<<"baseline", base, i>> : i \in (1 .. arms) \ {base}}
Others(arms, base) ==
  {t \in {"other"} \X (1 .. arms) \X (1 .. arms) : t[2] < t[3] /\ base \notin {t[2], t[3]}}

\* The listed comparisons are as many as were asked for.
LEMMA ListedAreAsked ==
  ASSUME NEW n \in Nat \ {0}, NEW base \in 1 .. n, NEW only \in BOOLEAN
  PROVE  /\ IsFiniteSet(Listed(n, base, only))
         /\ Cardinality(Listed(n, base, only))
              = IF only THEN n - 1 ELSE (n * (n - 1)) \div 2
<1> DEFINE S == (1 .. n) \ {base}
           A == WithBaseline(n, base)
           B == Others(n, base)
           f == [i \in S |-> <<"baseline", base, i>>]
           R == Rising(S)
           g == [t \in R |-> <<"other", t[1], t[2]>>]
<1>1. IsFiniteSet(S) /\ Cardinality(S) = n - 1 /\ S \in SUBSET Nat
  <2> DEFINE U == 1 .. n
  <2>1. IsFiniteSet(U) /\ Cardinality(U) = n /\ base \in U  BY FS_Interval
  <2>2. S \in SUBSET Nat  OBVIOUS
  <2> HIDE DEF U
  <2>3. IsFiniteSet(U \ {base}) /\ Cardinality(U \ {base}) = n - 1
    BY <2>1, FS_RemoveElement
  <2> QED  BY <2>2, <2>3 DEF U
<1>2. IsFiniteSet(A) /\ Cardinality(A) = n - 1
  <2>1. Pairs(f, S, A)
    <3>1. f \in [S -> A]  BY DEF WithBaseline
    <3>2. \A i \in S : f[i] = <<"baseline", base, i>>  OBVIOUS
    <3>3. \A t \in A : \E i \in S : t = <<"baseline", base, i>>  BY DEF WithBaseline
    <3> HIDE DEF f, A, S
    <3>4. \A i, j \in S : f[i] = f[j] => i = j  BY <3>2
    <3>5. \A t \in A : \E i \in S : f[i] = t  BY <3>2, <3>3
    <3> QED  BY <3>1, <3>4, <3>5 DEF Pairs
  <2> HIDE DEF f, A, S
  <2> QED  BY <1>1, <2>1, SameSize
<1>3. IsFiniteSet(B) /\ 2 * Cardinality(B) = (n - 1) * (n - 2)
  <2>1. Pairs(g, R, B)
    <3>1. \A t \in R : <<"other", t[1], t[2]>> \in B  BY DEF Rising, Others
    <3>2. \A t \in R : g[t] = <<"other", t[1], t[2]>> /\ t = <<t[1], t[2]>>
      BY DEF Rising
    <3>3. \A u \in B : <<u[2], u[3]>> \in R /\ u = <<"other", u[2], u[3]>>
      BY DEF Rising, Others
    <3>4. g \in [R -> B]  BY <3>1
    <3> HIDE DEF g, R, B
    <3>5. ASSUME NEW t \in R, NEW u \in R, g[t] = g[u] PROVE t = u
      <4>1. <<"other", t[1], t[2]>> = <<"other", u[1], u[2]>>  BY <3>2, <3>5
      <4>2. t[1] = u[1] /\ t[2] = u[2]  BY <4>1
      <4> QED  BY <3>2, <4>2
    <3>6. ASSUME NEW u \in B PROVE \E t \in R : g[t] = u
      <4> DEFINE t == <<u[2], u[3]>>
      <4>1. t \in R /\ g[t] = <<"other", t[1], t[2]>>  BY <3>2, <3>3
      <4>2. g[t] = u  BY <3>3, <4>1
      <4> QED  BY <4>1, <4>2
    <3> QED  BY <3>4, <3>5, <3>6 DEF Pairs
  <2> HIDE DEF g, B, S
  <2>2. IsFiniteSet(R) /\ 2 * Cardinality(R) = (n - 1) * ((n - 1) - 1)
    BY <1>1, HalfOfThePairs
  <2> HIDE DEF R
  <2>3. IsFiniteSet(B) /\ Cardinality(B) = Cardinality(R)  BY <2>1, <2>2, SameSize
  <2>4. (n - 1) - 1 = n - 2  OBVIOUS
  <2> QED  BY <2>2, <2>3, <2>4
<1>4. A \cap B = {}
  <2>1. \A t \in A : t[1] = "baseline"  BY DEF WithBaseline
  <2>2. \A t \in B : t[1] = "other"  BY DEF Others
  <2> HIDE DEF A, B
  <2> QED  BY <2>1, <2>2
<1>5. Listed(n, base, only) = IF only THEN A ELSE A \cup B
  BY DEF Listed, WithBaseline, Others
<1> HIDE DEF A, B
<1>6. CASE only  BY <1>2, <1>5, <1>6
<1>7. CASE ~only
  <2>1. Listed(n, base, only) = A \cup B  BY <1>5, <1>7
  <2>2. IsFiniteSet(A \cup B)
        /\ Cardinality(A \cup B) = Cardinality(A) + Cardinality(B) - Cardinality(A \cap B)
    BY <1>2, <1>3, FS_Union
  <2>3. Cardinality(A \cap B) = 0  BY <1>4, FS_EmptySet
  <2>4. Cardinality(B) \in Nat  BY <1>3, FS_CardinalityType
  <2> DEFINE b == Cardinality(B)
             c == n * (n - 1)
             h == (n - 1) + b
  <2>5. 2 * b = (n - 1) * (n - 2) /\ b \in Int  BY <1>3, <2>4
  <2>6. (n - 1) * (n - 2) = n * (n - 1) - 2 * (n - 1)  OBVIOUS
  <2>7. c \in Int  OBVIOUS
  <2>8. c = 2 * h /\ h \in Int
    <3>1. 2 * b = c - 2 * (n - 1)  BY <2>5, <2>6
    <3> HIDE DEF b, c
    <3> QED  BY <2>5, <2>7, <3>1
  <2> HIDE DEF c, h
  <2>9. c \div 2 = h  BY <2>7, <2>8, EvenDivision
  <2>10. Cardinality(A \cup B) = h  BY <1>2, <2>2, <2>3, <2>4 DEF h
  <2> QED  BY <1>7, <2>1, <2>2, <2>9, <2>10 DEF c
<1> QED  BY <1>6, <1>7

\* Two comparisons that are listed are of different pairs.
LEMMA ListedOnce ==
  ASSUME NEW n \in Nat \ {0}, NEW base \in 1 .. n, NEW only \in BOOLEAN,
         NEW t \in Listed(n, base, only), NEW u \in Listed(n, base, only),
         {t[2], t[3]} = {u[2], u[3]}
  PROVE  t = u
<1> DEFINE A == WithBaseline(n, base)
           B == Others(n, base)
<1>1. t \in A \cup B /\ u \in A \cup B  BY DEF Listed, WithBaseline, Others
<1>2. ASSUME NEW x \in A
      PROVE  x[2] = base /\ x[3] # base /\ x = <<"baseline", base, x[3]>>
  BY DEF WithBaseline
<1>3. ASSUME NEW x \in B
      PROVE  /\ x[2] # base /\ x[3] # base /\ x = <<"other", x[2], x[3]>>
             /\ x[2] \in Nat /\ x[3] \in Nat /\ x[2] < x[3]
  BY DEF Others
<1> HIDE DEF A, B
<1>4. CASE t \in A /\ u \in A  BY <1>2, <1>4
<1>5. CASE t \in A /\ u \in B  BY <1>2, <1>3, <1>5
<1>6. CASE t \in B /\ u \in A  BY <1>2, <1>3, <1>6
<1>7. CASE t \in B /\ u \in B
  <2>1. /\ t[2] \in Nat /\ t[3] \in Nat /\ t[2] < t[3]
        /\ u[2] \in Nat /\ u[3] \in Nat /\ u[2] < u[3]
    BY <1>3, <1>7
  <2>2. t[2] = u[2] /\ t[3] = u[3]  BY <2>1
  <2>3. t = <<"other", t[2], t[3]>> /\ u = <<"other", u[2], u[3]>>  BY <1>3, <1>7
  <2> QED  BY <2>2, <2>3
<1> QED  BY <1>1, <1>4, <1>5, <1>6, <1>7

\* What is claimed of the listed comparisons.
Once(i) ==
  LET n == i.arms
      asked == IF i.only THEN n - 1 ELSE (n * (n - 1)) \div 2
  IN /\ Cardinality(i.pairs) = asked
     /\ Cardinality({{t[2], t[3]} : t \in i.pairs}) = asked

\* Every comparison that is asked for is listed once (the pairs that the engine
\* compares after a group).
LEMMA PairsAreOnce ==
  ASSUME NEW n \in Nat \ {0}, NEW base \in 1 .. n, NEW only \in BOOLEAN
  PROVE  Once([arms |-> n, only |-> only, pairs |-> Listed(n, base, only)])
<1> DEFINE L == Listed(n, base, only)
           P == {{t[2], t[3]} : t \in L}
           f == [t \in L |-> {t[2], t[3]}]
           asked == IF only THEN n - 1 ELSE (n * (n - 1)) \div 2
<1>1. IsFiniteSet(L) /\ Cardinality(L) = asked  BY ListedAreAsked
<1>2. \A t, u \in L : {t[2], t[3]} = {u[2], u[3]} => t = u  BY ListedOnce
<1> HIDE DEF L
<1>3. Pairs(f, L, P)
  <2>1. f \in [L -> P] /\ \A t \in L : f[t] = {t[2], t[3]}  OBVIOUS
  <2>2. \A p \in P : \E t \in L : p = {t[2], t[3]}  OBVIOUS
  <2> HIDE DEF f, P
  <2>3. \A t, u \in L : f[t] = f[u] => t = u  BY <1>2, <2>1
  <2>4. ASSUME NEW p \in P PROVE \E t \in L : f[t] = p
    <3>1. PICK t \in L : p = {t[2], t[3]}  BY <2>2
    <3>2. f[t] = p  BY <2>1, <3>1
    <3> QED  BY <3>2
  <2> QED  BY <2>1, <2>3, <2>4 DEF Pairs
<1> DEFINE i == [arms |-> n, only |-> only, pairs |-> L]
<1>4. i.arms = n /\ i.only = only /\ i.pairs = L  OBVIOUS
<1>5. {{t[2], t[3]} : t \in i.pairs} = P  BY <1>4
<1> HIDE DEF f, P, i
<1>6. Cardinality(P) = Cardinality(L)  BY <1>1, <1>3, SameSize
<1>7. Cardinality(i.pairs) = asked /\ Cardinality({{t[2], t[3]} : t \in i.pairs}) = asked
  BY <1>1, <1>4, <1>5, <1>6
<1>8. Once(i)  BY <1>4, <1>7 DEF Once
<1> QED  BY <1>8 DEF i, L

-----------------------------------------------------------------------------
(* The estimate.                                                           *)

\* A quotient that is multiplied again does not exceed what was divided.
LEMMA Quotient ==
  ASSUME NEW a \in Nat, NEW b \in Nat \ {0}
  PROVE  /\ a \div b \in Nat /\ (a \div b) * b <= a
         /\ \A c \in Nat : b * c <= a => c <= a \div b
<1>1. PICK q \in Int, r \in 0 .. b - 1 : q = a \div b /\ a = b * q + r
  BY DivisionIs
<1>2. q >= 0
  <2> SUFFICES ASSUME q <= -1 PROVE FALSE  BY <1>1
  <2>1. b * q <= -b  OBVIOUS
  <2> DEFINE p == b * q
  <2>2. p \in Int /\ p <= -b /\ a = p + r  BY <1>1, <2>1
  <2> HIDE DEF p
  <2> QED  BY <2>2
<1>3. q * b <= a
  <2> DEFINE p == b * q
  <2>1. p \in Int /\ a = p + r /\ q * b = p  BY <1>1
  <2> HIDE DEF p
  <2> QED  BY <2>1
<1>4. ASSUME NEW c \in Nat, b * c <= a PROVE c <= q
  <2> SUFFICES ASSUME q + 1 <= c PROVE FALSE  OBVIOUS
  <2>1. b * (q + 1) <= b * c  BY q + 1 <= c, ProductGrows
  <2>2. b * (q + 1) = b * q + b  OBVIOUS
  <2> DEFINE p == b * q
             z == b * c
  <2>3. p \in Int /\ z \in Int /\ p + b <= z /\ z <= a /\ a = p + r
    BY <1>1, <1>4, <2>1, <2>2
  <2> HIDE DEF p, z
  <2> QED  BY <2>3
<1> QED  BY <1>1, <1>2, <1>3, <1>4

\* What limits the time of a sample.
Limit == Max({2 * settings.target, 1000 * TimerTick, 10000, settings.shortest})

\* The limit is a natural, and no part of it exceeds it.
LEMMA LimitIs ==
  ASSUME settings \in Settings
  PROVE  /\ Limit \in Nat /\ 2 * settings.target <= Limit /\ 1000 * TimerTick <= Limit
         /\ 10000 <= Limit /\ settings.shortest <= Limit
         /\ settings.target \in Nat /\ settings.shortest \in Nat /\ TimerTick \in Nat
<1> DEFINE a == 2 * settings.target
           b == 1000 * TimerTick
           c == settings.shortest
           S == {a, b, 10000, c}
<1>1. settings.target \in Nat /\ c \in Nat /\ TimerTick \in Nat  BY AnalysisAssumption
<1>2. a \in Nat /\ b \in Nat  BY <1>1
<1> HIDE DEF a, b, c
<1>3. IsFiniteSet({a, b} \cup {10000, c})
  <2> DEFINE A == {a, b}
             z == 10000
             C == {z, c}
  <2> HIDE DEF z
  <2>1. IsFiniteSet(A)  BY FinitePair
  <2>2. IsFiniteSet(C)  BY FinitePair
  <2> HIDE DEF A, C
  <2>3. IsFiniteSet(A \cup C)  BY <2>1, <2>2, FS_Union
  <2> QED  BY <2>3 DEF A, C, z
<1>4. S = {a, b} \cup {10000, c}  OBVIOUS
<1>5. S \in SUBSET Int /\ S # {} /\ IsFiniteSet(S) /\ S \in SUBSET Nat
  BY <1>1, <1>2, <1>3, <1>4
<1>6. a \in S /\ b \in S /\ 10000 \in S /\ c \in S  OBVIOUS
<1>7. Limit = Max(S)  BY DEF Limit, a, b, c
<1> HIDE DEF S
<1>8. Max(S) \in S /\ \A y \in S : Max(S) >= y  BY <1>5, MaxIs
<1>9. Max(S) \in Nat  BY <1>5, <1>8
<1>10. a <= Max(S) /\ b <= Max(S) /\ 10000 <= Max(S) /\ c <= Max(S)
  BY <1>1, <1>2, <1>6, <1>8, <1>9
<1> QED  BY <1>1, <1>7, <1>9, <1>10 DEF a, b, c

\* A sample of as many iterations as are wanted keeps within the limit.
LEMMA WantedIs ==
  ASSUME settings \in Settings, iters \in Nat \ {0}, steady \in Nat,
         NEW e \in Nat, iters * steady <= e
  PROVE  Wanted(e) \in Nat /\ Wanted(e) * steady <= Limit
<1> DEFINE long      == Max({e, 1000})
           each      == Max({long \div iters, 1})
           ticks     == Max({TimerTick * 1000, 10000})
           precision == ticks \div each
           target    == settings.target \div each
           shortest  == IF target >= 20 THEN 0 ELSE settings.shortest \div each
           most      == Max({2 * target, precision})
           capped    == Min({Max({precision, target}), most})
           wanted    == Max({capped, shortest})
<1>0. Wanted(e) = wanted  BY DEF Wanted
<1>1. /\ Limit \in Nat /\ 2 * settings.target <= Limit /\ 1000 * TimerTick <= Limit
      /\ 10000 <= Limit /\ settings.shortest <= Limit
      /\ settings.target \in Nat /\ settings.shortest \in Nat /\ TimerTick \in Nat
  BY LimitIs
<1>2. long \in Nat /\ iters * steady <= long
  <2>1. long = IF e >= 1000 THEN e ELSE 1000  BY MaxOfTwo
  <2> DEFINE p == iters * steady
  <2>2. p \in Int /\ p <= e  OBVIOUS
  <2> HIDE DEF p, long
  <2>3. long \in Nat /\ p <= long  BY <2>1, <2>2
  <2> QED  BY <2>3 DEF p
<1>3. each \in Nat \ {0} /\ steady <= each
  <2> DEFINE q == long \div iters
  <2> HIDE DEF long
  <2>1. q \in Nat /\ steady <= q  BY <1>2, Quotient
  <2> HIDE DEF q
  <2>2. Max({q, 1}) = IF q >= 1 THEN q ELSE 1  BY <2>1, MaxOfTwo
  <2>3. Max({q, 1}) \in Nat \ {0} /\ steady <= Max({q, 1})  BY <2>1, <2>2
  <2> QED  BY <2>3 DEF q
<1> HIDE DEF long
<1>4. ticks \in Nat /\ ticks <= Limit
  <2> DEFINE t == TimerTick * 1000
  <2>1. t \in Nat /\ t <= Limit  BY <1>1
  <2> HIDE DEF t
  <2>2. Max({t, 10000}) = IF t >= 10000 THEN t ELSE 10000  BY <2>1, MaxOfTwo
  <2>3. Max({t, 10000}) \in Nat /\ Max({t, 10000}) <= Limit  BY <1>1, <2>1, <2>2
  <2> QED  BY <2>3 DEF t
<1> HIDE DEF each, ticks
<1>5. precision \in Nat /\ precision * each <= Limit
  <2>1. precision \in Nat /\ precision * each <= ticks  BY <1>3, <1>4, Quotient
  <2> DEFINE p == precision * each
  <2>2. p \in Nat /\ p <= ticks  BY <1>3, <2>1
  <2> HIDE DEF p
  <2>3. p <= Limit  BY <1>1, <1>4, <2>2
  <2> QED  BY <2>1, <2>3 DEF p
<1>6. target \in Nat /\ (2 * target) * each <= Limit
  <2>1. target \in Nat /\ target * each <= settings.target  BY <1>1, <1>3, Quotient
  <2> DEFINE p == target * each
  <2>2. p \in Nat /\ p <= settings.target  BY <1>3, <2>1
  <2> HIDE DEF target
  <2>3. (2 * target) * each = 2 * p  BY <1>3, <2>1
  <2> HIDE DEF p
  <2>4. 2 * p <= Limit  BY <1>1, <2>2
  <2> QED  BY <2>1, <2>3, <2>4
<1>7. shortest \in Nat /\ shortest * each <= Limit
  <2> HIDE DEF target
  <2>1. CASE target >= 20
    <3>1. shortest = 0  BY <2>1
    <3>2. 0 * each = 0  BY <1>3
    <3> HIDE DEF shortest
    <3> QED  BY <1>1, <3>1, <3>2
  <2>2. CASE ~(target >= 20)
    <3> DEFINE q == settings.shortest \div each
               p == q * each
    <3>1. shortest = q  BY <2>2
    <3>5. settings.shortest \in Nat /\ each \in Nat \ {0}  BY <1>1, <1>3
    <3>2. q \in Nat /\ q * each <= settings.shortest  BY <3>5, Quotient
    <3> HIDE DEF q, shortest
    <3>3. p \in Nat /\ p <= settings.shortest  BY <1>3, <3>2
    <3> HIDE DEF p
    <3>4. p <= Limit  BY <1>1, <3>3
    <3> QED  BY <3>1, <3>2, <3>4 DEF p
  <2> QED  BY <2>1, <2>2
<1> HIDE DEF precision, target, shortest
<1> DEFINE twice == 2 * target
<1>8. twice \in Nat /\ twice * each <= Limit /\ target <= twice  BY <1>6
<1>9. most = IF twice >= precision THEN twice ELSE precision
  <2> HIDE DEF twice
  <2>1. Max({twice, precision}) = IF twice >= precision THEN twice ELSE precision
    BY <1>5, <1>8, MaxOfTwo
  <2> QED  BY <2>1 DEF twice
<1> HIDE DEF twice, most
<1>10. most \in Nat /\ most * each <= Limit  BY <1>5, <1>8, <1>9
<1>11. Max({precision, target}) \in Nat
  <2>1. Max({precision, target}) = IF precision >= target THEN precision ELSE target
    BY <1>5, <1>6, MaxOfTwo
  <2> QED  BY <1>5, <1>6, <2>1
<1>12. capped \in Nat /\ capped <= most
  <2> DEFINE m == Max({precision, target})
  <2>1. m \in Nat  BY <1>11
  <2> HIDE DEF m
  <2>2. Min({m, most}) = IF m <= most THEN m ELSE most  BY <1>10, <2>1, MinOfTwo
  <2>3. Min({m, most}) \in Nat /\ Min({m, most}) <= most  BY <1>10, <2>1, <2>2
  <2> QED  BY <2>3 DEF m
<1> HIDE DEF capped
<1>13. wanted \in Nat /\ (wanted <= most \/ wanted = shortest)
  <2>1. wanted = IF capped >= shortest THEN capped ELSE shortest
    BY <1>7, <1>12, MaxOfTwo
  <2> HIDE DEF wanted
  <2> QED  BY <1>7, <1>12, <2>1
<1> HIDE DEF wanted
<1>14. ASSUME NEW x \in Nat, NEW y \in Nat, x <= y, y * each <= Limit
       PROVE  x * steady <= Limit
  <2>1. x * steady <= x * each  BY <1>3, ProductGrows
  <2>2. each * x <= each * y  BY <1>3, <1>14, ProductGrows
  <2> DEFINE p == x * steady
             q == x * each
             r == y * each
  <2>3. p \in Int /\ q \in Int /\ r \in Int /\ each * x = q /\ each * y = r  BY <1>3
  <2> HIDE DEF p, q, r
  <2>4. p <= q /\ q <= r /\ r <= Limit  BY <1>14, <2>1, <2>2, <2>3 DEF p, q, r
  <2>5. p <= Limit  BY <1>1, <2>3, <2>4
  <2> QED  BY <2>5 DEF p
<1>15. wanted * steady <= Limit
  <2>1. CASE wanted <= most  BY <1>10, <1>13, <1>14, <2>1
  <2>2. CASE wanted = shortest
    <3>1. wanted <= shortest  BY <1>13, <2>2
    <3> QED  BY <1>7, <1>13, <1>14, <3>1
  <2> QED  BY <1>13, <2>1, <2>2
<1> QED  BY <1>0, <1>13, <1>15

\* So does a sample of as many as are taken, unless it is the fewest.
LEMMA ClampedIs ==
  ASSUME settings \in Settings, steady \in Nat, NEW w \in Nat, w * steady <= Limit
  PROVE  Clamped(w) \in {1, settings.fewest} \/ Clamped(w) * steady <= Limit
<1> DEFINE f == settings.fewest
           g == settings.most
           m == Max({w, 1, f})
<1>1. f \in Nat /\ g \in Nat /\ f <= g  BY AnalysisAssumption
<1>2. Clamped(w) = Min({m, g})  BY DEF Clamped
<1>3. Limit \in Nat  BY LimitIs
<1> HIDE DEF f, g
<1>4. m \in {w, 1, f}
  <2> DEFINE S == {w, 1, f}
  <2>1. IsFiniteSet({w} \cup {1, f})
    <3>1. IsFiniteSet({w}) /\ IsFiniteSet({1, f})  BY FinitePair, FS_Singleton
    <3> QED  BY <3>1, FS_Union
  <2>2. S = {w} \cup {1, f}  OBVIOUS
  <2>5. S \in SUBSET Int /\ S # {}  BY <1>1
  <2> HIDE DEF S
  <2>3. IsFiniteSet(S)  BY <2>1, <2>2
  <2>4. Max(S) \in S  BY <2>3, <2>5, MaxIs
  <2> QED  BY <2>4 DEF S
<1> HIDE DEF m
<1>5. m \in Nat  BY <1>1, <1>4
<1>6. Min({m, g}) = IF m <= g THEN m ELSE g  BY <1>1, <1>5, MinOfTwo
<1> DEFINE c == Clamped(w)
<1>7. c = IF m <= g THEN m ELSE g  BY <1>2, <1>6
<1> HIDE DEF c
<1>8. CASE m = f
  <2>1. c = f  BY <1>1, <1>7, <1>8
  <2> QED  BY <2>1 DEF c, f
<1>9. CASE m = 1
  <2>1. c = 1 \/ c = 0  BY <1>1, <1>7, <1>9
  <2>2. 0 * steady = 0  OBVIOUS
  <2> QED  BY <1>3, <2>1, <2>2 DEF c
<1>10. CASE m = w
  <2>1. c \in Nat /\ c <= w  BY <1>1, <1>7, <1>10
  <2>2. steady * c <= steady * w  BY <2>1, ProductGrows
  <2> DEFINE p == c * steady
             q == w * steady
  <2>3. p \in Int /\ q \in Int /\ steady * c = p /\ steady * w = q  BY <2>1
  <2>4. p <= q /\ q <= Limit  BY <2>2, <2>3
  <2> HIDE DEF p, q
  <2>5. p <= Limit  BY <1>3, <2>3, <2>4
  <2> QED  BY <2>5 DEF p, c
<1> QED  BY <1>4, <1>8, <1>9, <1>10

-----------------------------------------------------------------------------
(* The drift.                                                              *)

\* The orders in which n values may come out.
Permutation(n, p) ==
  /\ p \in [1 .. n -> 1 .. n] /\ \A i, j \in 1 .. n : p[i] = p[j] => i = j
  /\ \A i \in 1 .. n : \E h \in 1 .. n : p[h] = i

\* Order holds the permutations.
LEMMA OrderIs ==
  ASSUME NEW n \in 0 .. MaxRounds
  PROVE  /\ \A p \in Order[n] : Permutation(n, p)
         /\ \A p : Permutation(n, p) => p \in Order[n]
<1> DEFINE S == 1 .. n
<1>0. n \in Nat  BY AnalysisAssumption
<1>1. IsFiniteSet(S) /\ Cardinality(S) = n  BY <1>0, FS_Interval
<1>2. Order[n] = {f \in [1 .. n -> S] : \A i, j \in 1 .. n : i # j => f[i] # f[j]}
  BY <1>1 DEF Order, SetToSeqs
<1>3. ASSUME NEW p \in Order[n] PROVE Permutation(n, p)
  <2>1. p \in [S -> S] /\ \A i, j \in S : p[i] = p[j] => i = j  BY <1>2
  <2> HIDE DEF S
  <2>2. p \in Injection(S, S)  BY <2>1 DEF Injection, IsInjective
  <2>3. p \in Surjection(S, S)  BY <1>1, <2>2, FS_Injection
  <2>4. \A i \in S : \E h \in S : p[h] = i  BY <2>3 DEF Surjection
  <2> QED  BY <2>1, <2>4 DEF Permutation, S
<1>4. ASSUME NEW p, Permutation(n, p) PROVE p \in Order[n]
  BY <1>2, <1>4 DEF Permutation
<1> QED  BY <1>3, <1>4

\* A sum of which one term is not zero.
LEMMA SumSingle ==
  ASSUME NEW n \in Nat, NEW j \in 1 .. n, NEW c \in Int, NEW v \in [1 .. n -> Int],
         \A h \in 1 .. n : v[h] = IF h = j THEN c ELSE 0
  PROVE  Total(v) = c
<1> DEFINE one == [h \in 1 .. n |-> IF h = j THEN 1 ELSE 0]
           S == {j}
<1>1. one \in [1 .. n -> Int] /\ \A h \in 1 .. n : one[h] = IF h \in S THEN 1 ELSE 0
  OBVIOUS
<1>2. S \in SUBSET (1 .. n)  OBVIOUS
<1>3. Cardinality(S) = 1  BY FS_Singleton
<1>4. \A h \in 1 .. n : v[h] = c * one[h]  OBVIOUS
<1> HIDE DEF one, S
<1>5. Total(one) = Cardinality(S)  BY <1>1, <1>2, SumCounts
<1>6. Total(v) = c * Total(one)  BY <1>1, <1>4, SumScales
<1> QED  BY <1>3, <1>5, <1>6

\* w has the terms of f in the order p.
Permutes(n, p, f, w) ==
  /\ f \in [1 .. n -> Int] /\ w \in [1 .. n -> Int]
  /\ \A j \in 1 .. n : w[j] = f[p[j]]

\* The order of its terms does not matter to a sum: the table of which place takes
\* which term, summed by rows and by columns.
LEMMA SumPermuted ==
  ASSUME NEW n \in Nat, NEW p, Permutation(n, p), NEW f, NEW w, Permutes(n, p, f, w)
  PROVE  Total(w) = Total(f)
<1> USE DEF Permutes
<1> DEFINE g == [h \in 1 .. n |-> [i \in 1 .. n |-> IF p[h] = i THEN f[i] ELSE 0]]
           c(i) == [h \in 1 .. n |-> g[h][i]]
           rows == [h \in 1 .. n |-> Total(g[h])]
           columns == [i \in 1 .. n |-> Total(c(i))]
<1>1. g \in [1 .. n -> [1 .. n -> Int]]
      /\ \A h, i \in 1 .. n : g[h][i] = IF p[h] = i THEN f[i] ELSE 0
  OBVIOUS
<1> HIDE DEF g
<1>2. Total(rows) = Total(columns)
  <2>1. g \in [1 .. n -> [1 .. n -> Int]]  BY <1>1
  <2>2. Total([h \in 1 .. n |-> Total(g[h])])
          = Total([i \in 1 .. n |-> Total([h \in 1 .. n |-> g[h][i]])])
    BY <2>1, SumsExchange
  <2> QED  BY <2>2
<1>3. ASSUME NEW h \in 1 .. n PROVE Total(g[h]) = w[h]
  <2>1. p[h] \in 1 .. n  BY DEF Permutation
  <2> DEFINE j == p[h]
             a == f[j]
             r == g[h]
  <2>2. j \in 1 .. n /\ a \in Int /\ w[h] = a  BY <2>1
  <2>3. r \in [1 .. n -> Int] /\ \A i \in 1 .. n : r[i] = IF i = j THEN a ELSE 0
    BY <1>1
  <2> HIDE DEF j, a, r
  <2>4. Total(r) = a  BY <2>2, <2>3, SumSingle
  <2> QED  BY <2>2, <2>4 DEF r
<1>4. ASSUME NEW i \in 1 .. n PROVE Total(c(i)) = f[i]
  <2>1. PICK j \in 1 .. n : p[j] = i  BY DEF Permutation
  <2>2. \A h \in 1 .. n : p[h] = i <=> h = j  BY <2>1 DEF Permutation
  <2> DEFINE a == f[i]
             r == c(i)
  <2>3. a \in Int /\ r \in [1 .. n -> Int]  BY <1>1
  <2>4. \A h \in 1 .. n : r[h] = IF h = j THEN a ELSE 0  BY <1>1, <2>2
  <2> HIDE DEF a, r
  <2>5. Total(r) = a  BY <2>3, <2>4, SumSingle
  <2> QED  BY <2>5 DEF a, r
<1>5. rows = w  BY <1>3
<1>6. columns = f
  <2> HIDE DEF c
  <2> QED  BY <1>4
<1> QED  BY <1>2, <1>5, <1>6

\* The sums of the first numbers and of their squares.
LEMMA SumOfNumbers ==
  ASSUME NEW n \in Nat, NEW v \in [1 .. n -> Int], \A j \in 1 .. n : v[j] = j
  PROVE  2 * Total(v) = n * (n + 1)
<1>1. PICK a : AreSums(a, n, v) /\ Total(v) = a[n]  BY SumsAre
<1> DEFINE P == {j \in 0 .. n : 2 * a[j] = j * (j + 1)}
<1>2. 0 \in P  BY <1>1 DEF AreSums
<1>3. ASSUME NEW j \in 1 .. n, j - 1 \in P PROVE j \in P
  <2>1. a[j] = a[j - 1] + j /\ a[j - 1] \in Int  BY <1>1 DEF AreSums
  <2>2. 2 * a[j - 1] = (j - 1) * j  BY <1>3
  <2>3. (j - 1) * j + 2 * j = j * (j + 1)  OBVIOUS
  <2> DEFINE x == a[j - 1]
             z == (j - 1) * j
             y == j * (j + 1)
  <2>4. a[j] = x + j /\ x \in Int /\ z \in Int /\ y \in Int /\ 2 * x = z /\ z + 2 * j = y
    BY <2>1, <2>2, <2>3
  <2> HIDE DEF x, y, z
  <2>5. 2 * a[j] = y  BY <2>4
  <2> QED  BY <2>5 DEF y
<1> HIDE DEF P
<1>4. \A j \in 0 .. n : j \in P  BY <1>2, <1>3, Upwards
<1> QED  BY <1>1, <1>4 DEF P

\* The first n squares.
LEMMA SumOfSquares ==
  ASSUME NEW n \in Nat, NEW v \in [1 .. n -> Int], \A j \in 1 .. n : v[j] = j * j
  PROVE  6 * Total(v) = n * (n + 1) * (2 * n + 1)
<1>1. PICK a : AreSums(a, n, v) /\ Total(v) = a[n]  BY SumsAre
<1> DEFINE P == {j \in 0 .. n : 6 * a[j] = j * (j + 1) * (2 * j + 1)}
<1>2. 0 \in P  BY <1>1 DEF AreSums
<1>3. ASSUME NEW j \in 1 .. n, j - 1 \in P PROVE j \in P
  <2>1. a[j] = a[j - 1] + j * j /\ a[j - 1] \in Int  BY <1>1 DEF AreSums
  <2>2. 6 * a[j - 1] = (j - 1) * ((j - 1) + 1) * (2 * (j - 1) + 1)  BY <1>3
  <2>3. (j - 1) * ((j - 1) + 1) * (2 * (j - 1) + 1) + 6 * (j * j) = j * (j + 1) * (2 * j + 1)
    OBVIOUS
  <2> DEFINE s == j * j
             z == (j - 1) * ((j - 1) + 1) * (2 * (j - 1) + 1)
             y == j * (j + 1) * (2 * j + 1)
             x == a[j - 1]
  <2>4. s \in Int /\ z \in Int /\ y \in Int  OBVIOUS
  <2>5. a[j] = x + s /\ x \in Int /\ 6 * x = z /\ z + 6 * s = y  BY <2>1, <2>2, <2>3
  <2> HIDE DEF s, x, y, z
  <2>6. 6 * a[j] = y  BY <2>4, <2>5
  <2> QED  BY <2>6 DEF y
<1> HIDE DEF P
<1>4. \A j \in 0 .. n : j \in P  BY <1>2, <1>3, Upwards
<1> QED  BY <1>1, <1>4 DEF P

\* Values that grow at every step grow, ...
Grows(n, v) == \A j \in 1 .. n - 1 : v[j] < v[j + 1]

\* ... from any place to any later one.
LEMMA GrowsOverall ==
  ASSUME NEW n \in Nat, NEW v \in [1 .. n -> Int], Grows(n, v)
  PROVE  \A i, j \in 1 .. n : i < j => v[i] < v[j]
<1> SUFFICES ASSUME NEW i \in 1 .. n PROVE \A j \in 1 .. n : i < j => v[i] < v[j]
  OBVIOUS
<1> DEFINE P == {j \in 0 .. n : i < j => v[i] < v[j]}
<1>1. 0 \in P  OBVIOUS
<1>2. ASSUME NEW j \in 1 .. n, j - 1 \in P PROVE j \in P
  <2> SUFFICES ASSUME i < j PROVE v[i] < v[j]  OBVIOUS
  <2>1. j - 1 \in 1 .. n - 1 /\ (j - 1) + 1 = j  OBVIOUS
  <2>2. v[j - 1] < v[j]
    <3>1. v[j - 1] < v[(j - 1) + 1]  BY <2>1 DEF Grows
    <3> QED  BY <2>1, <3>1
  <2>3. v[i] \in Int /\ v[j] \in Int /\ v[j - 1] \in Int  BY <2>1
  <2>4. CASE i = j - 1  BY <2>2, <2>4
  <2>5. CASE i # j - 1
    <3>1. v[i] < v[j - 1]  BY <1>2, <2>5
    <3> QED  BY <2>2, <2>3, <3>1
  <2> QED  BY <2>4, <2>5
<1> HIDE DEF P
<1>3. \A j \in 0 .. n : j \in P  BY <1>1, <1>2, Upwards
<1> QED  BY <1>3 DEF P

\* ... and the numbers 1 to n grow in one way only.
LEMMA OneWayUp ==
  ASSUME NEW n \in Nat, NEW p \in [1 .. n -> 1 .. n], Grows(n, p)
  PROVE  \A h \in 1 .. n : p[h] = h
<1> DEFINE P == {h \in 0 .. n : h = 0 \/ p[h] >= h}
           Q == {j \in 0 .. n : j = 0 \/ p[n + 1 - j] <= n + 1 - j}
<1>1. 0 \in P /\ 0 \in Q  OBVIOUS
<1>2. ASSUME NEW h \in 1 .. n, h - 1 \in P PROVE h \in P
  <2>1. p[h] \in 1 .. n  OBVIOUS
  <2>2. CASE h = 1  BY <2>1, <2>2
  <2>3. CASE h # 1
    <3>1. h - 1 \in 1 .. n - 1 /\ (h - 1) + 1 = h /\ p[h - 1] \in Int  BY <2>3
    <3>2. p[h - 1] < p[(h - 1) + 1]  BY <3>1 DEF Grows
    <3>3. p[h - 1] >= h - 1  BY <1>2, <2>3
    <3>4. p[h] >= h  BY <2>1, <3>1, <3>2, <3>3
    <3> QED  BY <3>4
  <2> QED  BY <2>2, <2>3
<1>3. ASSUME NEW j \in 1 .. n, j - 1 \in Q PROVE j \in Q
  <2> DEFINE h == n + 1 - j
  <2>0. h \in 1 .. n  OBVIOUS
  <2>1. p[h] \in 1 .. n  BY <2>0
  <2>2. CASE j = 1  BY <2>1, <2>2
  <2>3. CASE j # 1
    <3>1. h \in 1 .. n - 1 /\ n + 1 - (j - 1) = h + 1 /\ h + 1 \in 1 .. n  BY <2>3
    <3>2. p[h] < p[h + 1] /\ p[h + 1] \in Int  BY <3>1 DEF Grows
    <3>3. p[h + 1] <= h + 1
      <4>1. p[n + 1 - (j - 1)] <= n + 1 - (j - 1)  BY <1>3, <2>3
      <4> QED  BY <3>1, <4>1
    <3>4. p[h] <= h
      <4> HIDE DEF h
      <4> QED  BY <2>0, <2>1, <3>2, <3>3
    <3> QED  BY <3>4
  <2> QED  BY <2>2, <2>3
<1> HIDE DEF P, Q
<1>4. \A h \in 0 .. n : h \in P  BY <1>1, <1>2, Upwards
<1>5. \A j \in 0 .. n : j \in Q  BY <1>1, <1>3, Upwards
<1>6. ASSUME NEW h \in 1 .. n PROVE p[h] = h
  <2>1. p[h] >= h  BY <1>4 DEF P
  <2>2. n + 1 - h \in 1 .. n /\ n + 1 - (n + 1 - h) = h  OBVIOUS
  <2>3. p[h] <= h
    <3>1. n + 1 - h \in Q  BY <1>5, <2>2
    <3>2. p[n + 1 - (n + 1 - h)] <= n + 1 - (n + 1 - h)  BY <2>2, <3>1 DEF Q
    <3> QED  BY <2>2, <3>2
  <2>4. p[h] \in Int  OBVIOUS
  <2> QED  BY <2>1, <2>3, <2>4
<1> QED  BY <1>6

\* The squares of the two distances, from the first order and from its mirror.
LEMMA SquaresOfBoth ==
  ASSUME NEW x \in Int, NEW j \in Int, NEW m \in Int
  PROVE  (x - j) * (x - j) + (x + j - m) * (x + j - m)
           = (2 * (x * x + j * j) + (-2 * m) * (x + j)) + m * m
OBVIOUS

\* No square is negative.
LEMMA SquareIsNatural ==
  ASSUME NEW x \in Int
  PROVE  x * x \in Int /\ x * x >= 0
OBVIOUS

\* The squares of the two distances add up to a third of n (n^2 - 1).
LEMMA ThirdOfAll ==
  ASSUME NEW n \in Int, NEW s \in Int, NEW q \in Int,
         2 * s = n * (n + 1), 6 * q = n * (n + 1) * (2 * n + 1)
  PROVE  3 * ((2 * (q + q) + (-2 * (n + 1)) * (s + s)) + n * ((n + 1) * (n + 1)))
           = n * (n * n - 1)
<1>1. 3 * ((2 * (q + q) + (-2 * (n + 1)) * (s + s)) + n * ((n + 1) * (n + 1)))
        = 2 * (6 * q) - (6 * (n + 1)) * (2 * s) + 3 * (n * ((n + 1) * (n + 1)))
  <2> DEFINE z == n * ((n + 1) * (n + 1))
             y == (n + 1) * s
  <2>1. z \in Int /\ y \in Int  OBVIOUS
  <2>2. (-2 * (n + 1)) * (s + s) = -4 * y /\ (6 * (n + 1)) * (2 * s) = 12 * y  OBVIOUS
  <2> HIDE DEF y, z
  <2>3. 3 * ((2 * (q + q) + (-4 * y)) + z) = 2 * (6 * q) - 12 * y + 3 * z  BY <2>1
  <2> QED  BY <2>2, <2>3 DEF z
<1>2. 2 * (n * (n + 1) * (2 * n + 1)) - (6 * (n + 1)) * (n * (n + 1))
        + 3 * (n * ((n + 1) * (n + 1))) = n * (n * n - 1)
  OBVIOUS
<1>3. (6 * (n + 1)) * (2 * s) = (6 * (n + 1)) * (n * (n + 1))
      /\ 2 * (6 * q) = 2 * (n * (n + 1) * (2 * n + 1))
  OBVIOUS
<1> QED  BY <1>1, <1>2, <1>3

IsMiss(n, p, v) ==
  v \in [1 .. n -> Int] /\ \A j \in 1 .. n : v[j] = (p[j] - j) * (p[j] - j)
IsMirror(n, p, v) ==
  /\ v \in [1 .. n -> Int]
  /\ \A j \in 1 .. n : v[j] = (p[j] + j - (n + 1)) * (p[j] + j - (n + 1))

\* How far an order is from the first one and how far from the last one add up
\* to the same for every order.
LEMMA MissAndMirror ==
  ASSUME NEW n \in Nat, NEW p, Permutation(n, p),
         NEW miss, IsMiss(n, p, miss), NEW mirror, IsMirror(n, p, mirror)
  PROVE  3 * (Total(miss) + Total(mirror)) = n * (n * n - 1)
<1> DEFINE m == n + 1
           c == -2 * m
           num == [j \in 1 .. n |-> j]
           sq == [j \in 1 .. n |-> j * j]
           psq == [j \in 1 .. n |-> p[j] * p[j]]
           u1 == [j \in 1 .. n |-> psq[j] + sq[j]]
           u2 == [j \in 1 .. n |-> 2 * u1[j]]
           t1 == [j \in 1 .. n |-> p[j] + num[j]]
           t2 == [j \in 1 .. n |-> c * t1[j]]
           e == [j \in 1 .. n |-> u2[j] + t2[j]]
           d == [j \in 1 .. n |-> m * m]
           both == [j \in 1 .. n |-> e[j] + d[j]]
           q == Total(sq)
           s == Total(num)
<1>1. \A j \in 1 .. n : p[j] \in 1 .. n /\ p[j] \in Int  BY DEF Permutation
<1>2. p \in [1 .. n -> Int]  BY <1>1 DEF Permutation
<1>3. num \in [1 .. n -> Int] /\ \A j \in 1 .. n : num[j] = j  OBVIOUS
<1>4. sq \in [1 .. n -> Int] /\ \A j \in 1 .. n : sq[j] = j * j
  <2>1. \A j \in 1 .. n : j * j \in Int  OBVIOUS
  <2> QED  BY <2>1
<1>5. psq \in [1 .. n -> Int] /\ \A j \in 1 .. n : psq[j] = p[j] * p[j]
  <2>1. \A j \in 1 .. n : p[j] * p[j] \in Int  BY <1>1
  <2> QED  BY <2>1
<1>6. m \in Int /\ c \in Int /\ m * m \in Int  OBVIOUS
<1> HIDE DEF num, sq, psq
<1>7. u1 \in [1 .. n -> Int] /\ \A j \in 1 .. n : u1[j] = psq[j] + sq[j]  BY <1>4, <1>5
<1> HIDE DEF u1
<1>8. u2 \in [1 .. n -> Int] /\ \A j \in 1 .. n : u2[j] = 2 * u1[j]  BY <1>7
<1>9. t1 \in [1 .. n -> Int] /\ \A j \in 1 .. n : t1[j] = p[j] + num[j]  BY <1>2, <1>3
<1> HIDE DEF u2, t1, c
<1>10. t2 \in [1 .. n -> Int] /\ \A j \in 1 .. n : t2[j] = c * t1[j]
  <2>1. \A j \in 1 .. n : t1[j] \in Int  BY <1>9
  <2>2. c \in Int  BY <1>6
  <2>3. \A j \in 1 .. n : c * t1[j] \in Int  BY <2>1, <2>2
  <2> QED  BY <2>3
<1> HIDE DEF t2
<1>11. e \in [1 .. n -> Int] /\ \A j \in 1 .. n : e[j] = u2[j] + t2[j]  BY <1>8, <1>10
<1>12. d \in [1 .. n -> Int] /\ \A j \in 1 .. n : d[j] = m * m  BY <1>6
<1> HIDE DEF e, d
<1>13. both \in [1 .. n -> Int] /\ \A j \in 1 .. n : both[j] = e[j] + d[j]
  BY <1>11, <1>12
<1> HIDE DEF both
<1>14. ASSUME NEW j \in 1 .. n PROVE both[j] = miss[j] + mirror[j]
  <2> DEFINE x == p[j]
  <2>1. x \in Int /\ j \in Int /\ m \in Int  BY <1>1
  <2>2. miss[j] = (x - j) * (x - j)  BY DEF IsMiss
  <2>3. mirror[j] = (x + j - m) * (x + j - m)  BY DEF IsMirror
  <2>4. both[j] = (2 * (x * x + j * j) + c * (x + j)) + m * m
    <3>1. both[j] = (2 * (psq[j] + sq[j]) + c * (p[j] + num[j])) + m * m
      BY <1>7, <1>8, <1>9, <1>10, <1>11, <1>12, <1>13
    <3> QED  BY <1>3, <1>4, <1>5, <3>1
  <2> HIDE DEF x, m
  <2>5. (x - j) * (x - j) + (x + j - m) * (x + j - m)
          = (2 * (x * x + j * j) + (-2 * m) * (x + j)) + m * m
    BY <2>1, SquaresOfBoth
  <2> QED  BY <2>2, <2>3, <2>4, <2>5 DEF c
<1>15. Total(both) = Total(miss) + Total(mirror)
  <2>1. miss \in [1 .. n -> Int] /\ mirror \in [1 .. n -> Int]  BY DEF IsMiss, IsMirror
  <2> QED  BY <1>13, <1>14, <2>1, SumAdds
<1>16. Total(psq) = q
  <2>1. Permutes(n, p, sq, psq)  BY <1>1, <1>4, <1>5 DEF Permutes
  <2> QED  BY <2>1, SumPermuted
<1>17. Total(p) = s
  <2>1. Permutes(n, p, num, p)  BY <1>1, <1>2, <1>3 DEF Permutes
  <2> QED  BY <2>1, SumPermuted
<1>18. 2 * s = n * (n + 1) /\ s \in Int  BY <1>3, SumOfNumbers, SumsAre
<1>19. 6 * q = n * (n + 1) * (2 * n + 1) /\ q \in Int  BY <1>4, SumOfSquares, SumsAre
<1>20. Total(u1) = q + q
  <2>1. u1 \in [1 .. n -> Int] /\ psq \in [1 .. n -> Int] /\ sq \in [1 .. n -> Int]
    BY <1>4, <1>5, <1>7
  <2>2. \A j \in 1 .. n : u1[j] = psq[j] + sq[j]  BY <1>7
  <2>3. Total(u1) = Total(psq) + Total(sq)  BY <2>1, <2>2, SumAdds
  <2> QED  BY <1>16, <2>3
<1>21. Total(u2) = 2 * (q + q)
  <2>2. u1 \in [1 .. n -> Int] /\ u2 \in [1 .. n -> Int] /\ 2 \in Int  BY <1>7, <1>8
  <2>3. \A j \in 1 .. n : u2[j] = 2 * u1[j]  BY <1>8
  <2>1. Total(u2) = 2 * Total(u1)  BY <2>2, <2>3, SumScales
  <2> QED  BY <1>20, <2>1
<1>22. Total(t1) = s + s
  <2>2. t1 \in [1 .. n -> Int] /\ num \in [1 .. n -> Int]  BY <1>3, <1>9
  <2>3. \A j \in 1 .. n : t1[j] = p[j] + num[j]  BY <1>9
  <2>1. Total(t1) = Total(p) + Total(num)  BY <1>2, <2>2, <2>3, SumAdds
  <2> QED  BY <1>17, <2>1
<1>23. Total(t2) = c * (s + s)
  <2>1. c \in Int /\ t1 \in [1 .. n -> Int] /\ t2 \in [1 .. n -> Int]  BY <1>6, <1>9, <1>10
  <2>2. \A j \in 1 .. n : t2[j] = c * t1[j]  BY <1>10
  <2>3. Total(t2) = c * Total(t1)  BY <2>1, <2>2, SumScales
  <2> QED  BY <1>22, <2>3
<1>24. Total(e) = Total(u2) + Total(t2)
  <2>1. e \in [1 .. n -> Int] /\ u2 \in [1 .. n -> Int] /\ t2 \in [1 .. n -> Int]
    BY <1>8, <1>10, <1>11
  <2>2. \A j \in 1 .. n : e[j] = u2[j] + t2[j]  BY <1>11
  <2> QED  BY <2>1, <2>2, SumAdds
<1>25. Total(d) = n * (m * m)
  <2> DEFINE mm == m * m
  <2>1. mm \in Int /\ \A j \in 1 .. n : d[j] = mm  BY <1>6, <1>12
  <2>2. d \in [1 .. n -> Int]  BY <1>12
  <2> HIDE DEF mm
  <2>3. Total(d) = n * mm  BY <2>1, <2>2, SumConstant
  <2> QED  BY <2>3 DEF mm
<1>26. Total(both) = Total(e) + Total(d)
  <2>1. e \in [1 .. n -> Int] /\ d \in [1 .. n -> Int] /\ both \in [1 .. n -> Int]
    BY <1>11, <1>12, <1>13
  <2>2. \A j \in 1 .. n : both[j] = e[j] + d[j]  BY <1>13
  <2> QED  BY <2>1, <2>2, SumAdds
<1>27. Total(both) = (2 * (q + q) + (-2 * (n + 1)) * (s + s)) + n * ((n + 1) * (n + 1))
  BY <1>21, <1>23, <1>24, <1>25, <1>26 DEF c
<1> HIDE DEF q, s
<1>28. n \in Int  OBVIOUS
<1>29. 3 * ((2 * (q + q) + (-2 * (n + 1)) * (s + s)) + n * ((n + 1) * (n + 1)))
         = n * (n * n - 1)
  BY <1>18, <1>19, <1>28, ThirdOfAll
<1> QED  BY <1>15, <1>27, <1>29

\* What an order may be out by.
LEMMA MissIs ==
  ASSUME NEW n \in Nat, NEW p, Permutation(n, p)
  PROVE  /\ Miss(p) \in Int /\ 0 <= Miss(p) /\ 3 * Miss(p) <= n * (n * n - 1)
         /\ (\A j \in 1 .. n : p[j] = j) => Miss(p) = 0
         /\ (\A j \in 1 .. n : p[j] = n + 1 - j) => 3 * Miss(p) = n * (n * n - 1)
<1> DEFINE miss == [j \in 1 .. n |-> (p[j] - j) * (p[j] - j)]
           mirror == [j \in 1 .. n |-> (p[j] + j - (n + 1)) * (p[j] + j - (n + 1))]
           none == [j \in 1 .. n |-> 0]
           full == n * (n * n - 1)
<1>1. DOMAIN p = 1 .. n /\ \A j \in 1 .. n : p[j] \in Int  BY DEF Permutation
<1>2. Miss(p) = Total(miss)  BY <1>1 DEF Miss
<1>3. ASSUME NEW j \in 1 .. n
      PROVE  miss[j] \in Int /\ miss[j] >= 0 /\ mirror[j] \in Int /\ mirror[j] >= 0
  <2> DEFINE x == p[j] - j
             y == p[j] + j - (n + 1)
  <2>1. x \in Int /\ y \in Int  BY <1>1
  <2>2. miss[j] = x * x /\ mirror[j] = y * y  OBVIOUS
  <2> HIDE DEF x, y, miss, mirror
  <2> QED  BY <2>1, <2>2, SquareIsNatural
<1>4. IsMiss(n, p, miss)
  <2>1. \A j \in 1 .. n : (p[j] - j) * (p[j] - j) \in Int  BY <1>3
  <2> QED  BY <2>1 DEF IsMiss
<1>5. IsMirror(n, p, mirror)
  <2>1. \A j \in 1 .. n : (p[j] + j - (n + 1)) * (p[j] + j - (n + 1)) \in Int  BY <1>3
  <2> QED  BY <2>1 DEF IsMirror
<1>6. (\A j \in 1 .. n : p[j] = j) => \A j \in 1 .. n : miss[j] = 0
  <2> SUFFICES ASSUME \A j \in 1 .. n : p[j] = j, NEW j \in 1 .. n PROVE miss[j] = 0
    OBVIOUS
  <2>1. p[j] - j = 0  OBVIOUS
  <2>2. miss[j] = 0 * 0  BY <2>1
  <2> QED  BY <2>2
<1>7. (\A j \in 1 .. n : p[j] = n + 1 - j) => \A j \in 1 .. n : mirror[j] = 0
  <2> SUFFICES ASSUME \A j \in 1 .. n : p[j] = n + 1 - j, NEW j \in 1 .. n
               PROVE  mirror[j] = 0
    OBVIOUS
  <2>1. p[j] + j - (n + 1) = 0  OBVIOUS
  <2>2. mirror[j] = 0 * 0  BY <2>1
  <2> QED  BY <2>2
<1> HIDE DEF miss, mirror
<1>8. 3 * (Total(miss) + Total(mirror)) = full  BY <1>4, <1>5, MissAndMirror
<1>9. miss \in [1 .. n -> Int] /\ mirror \in [1 .. n -> Int]
  BY <1>4, <1>5 DEF IsMiss, IsMirror
<1>10. Total(miss) \in Int /\ Total(mirror) \in Int  BY <1>9, SumsAre
<1>11. none \in [1 .. n -> Int] /\ \A j \in 1 .. n : none[j] = 0  OBVIOUS
<1> HIDE DEF none
<1>12. Total(none) = n * 0  BY <1>11, SumConstant
<1>13. n * 0 = 0  OBVIOUS
<1>14. \A j \in 1 .. n : none[j] <= miss[j] /\ none[j] <= mirror[j]  BY <1>3, <1>11
<1>15. Total(none) <= Total(miss) /\ Total(none) <= Total(mirror)
  BY <1>9, <1>11, <1>14, SumBounded
<1>16. full \in Int  OBVIOUS
<1> HIDE DEF full
<1>17. 0 <= Total(miss) /\ 3 * Total(miss) <= full
  BY <1>8, <1>10, <1>12, <1>13, <1>15, <1>16
<1>18. (\A j \in 1 .. n : p[j] = j) => Total(miss) = 0
  <2> SUFFICES ASSUME \A j \in 1 .. n : miss[j] = 0 PROVE Total(miss) = 0  BY <1>6
  <2>1. Total(miss) = n * 0  BY <1>9, SumConstant
  <2> QED  BY <1>13, <2>1
<1>19. (\A j \in 1 .. n : p[j] = n + 1 - j) => 3 * Total(miss) = full
  <2> SUFFICES ASSUME \A j \in 1 .. n : mirror[j] = 0 PROVE 3 * Total(miss) = full
    BY <1>7
  <2>1. Total(mirror) = n * 0  BY <1>9, SumConstant
  <2> QED  BY <1>8, <1>10, <1>13, <2>1
<1> QED  BY <1>2, <1>10, <1>17, <1>18, <1>19 DEF full

\* What is claimed of the drift.
Drifted(d, drift) ==
  LET n    == Len(d)
      full == n * (n * n - 1)
  IN n >= 3 =>
       /\ drift \subseteq -full .. full
       /\ (\A j \in 1 .. n - 1 : d[j] < d[j + 1]) => drift = {full}
       /\ (\A j \in 1 .. n - 1 : d[j] > d[j + 1]) => drift = {-full}

\* The reverse order is one.
LEMMA ReversedOrder ==
  ASSUME NEW n \in Nat
  PROVE  Permutation(n, [h \in 1 .. n |-> n + 1 - h])
<1> DEFINE p == [h \in 1 .. n |-> n + 1 - h]
<1>1. \A h \in 1 .. n : n + 1 - h \in 1 .. n /\ n + 1 - (n + 1 - h) = h  OBVIOUS
<1>2. p \in [1 .. n -> 1 .. n] /\ \A h \in 1 .. n : p[h] = n + 1 - h  BY <1>1
<1> HIDE DEF p
<1>3. ASSUME NEW i \in 1 .. n, NEW j \in 1 .. n, p[i] = p[j] PROVE i = j
  BY <1>2, <1>3
<1>4. ASSUME NEW i \in 1 .. n PROVE \E h \in 1 .. n : p[h] = i
  BY <1>1, <1>2
<1> QED  BY <1>2, <1>3, <1>4 DEF Permutation, p

\* The order as it is.
LEMMA FirstOrder ==
  ASSUME NEW n \in Nat
  PROVE  Permutation(n, [j \in 1 .. n |-> j])
BY DEF Permutation

\* p puts the values in order.
Sorts(n, v, p) == \A j \in 1 .. n - 1 : v[p[j]] <= v[p[j + 1]]

\* Growing values are ranked as they are.
LEMMA RankingOfGrowing ==
  ASSUME NEW n \in Nat, NEW v \in [1 .. n -> Int], Grows(n, v),
         NEW p, Permutation(n, p), Sorts(n, v, p)
  PROVE  \A h \in 1 .. n : p[h] = h
<1>1. p \in [1 .. n -> 1 .. n] /\ \A i, j \in 1 .. n : p[i] = p[j] => i = j
  BY DEF Permutation
<1>2. ASSUME NEW h \in 1 .. n - 1 PROVE p[h] < p[h + 1]
  <2> DEFINE x == p[h]
             y == p[h + 1]
  <2>1. h \in 1 .. n /\ h + 1 \in 1 .. n /\ h # h + 1  OBVIOUS
  <2>2. x \in 1 .. n /\ y \in 1 .. n /\ x # y  BY <1>1, <2>1
  <2>3. v[x] <= v[y]  BY DEF Sorts
  <2> HIDE DEF x, y
  <2>4. v[x] \in Int /\ v[y] \in Int  BY <2>2
  <2>5. ~(y < x)
    <3>1. y < x => v[y] < v[x]  BY <2>2, GrowsOverall
    <3> QED  BY <2>3, <2>4, <3>1
  <2>6. x < y  BY <2>2, <2>5
  <2> QED  BY <2>6 DEF x, y
<1>3. Grows(n, p)  BY <1>2 DEF Grows
<1> QED  BY <1>1, <1>3, OneWayUp

\* Shrinking values are ranked in reverse.
LEMMA RankingOfShrinking ==
  ASSUME NEW n \in Nat, NEW v \in [1 .. n -> Int],
         \A h \in 1 .. n - 1 : v[h] > v[h + 1],
         NEW p, Permutation(n, p), Sorts(n, v, p)
  PROVE  \A h \in 1 .. n : p[h] = n + 1 - h
<1> DEFINE u == [h \in 1 .. n |-> -v[h]]
           q == [h \in 1 .. n |-> n + 1 - p[h]]
<1>1. p \in [1 .. n -> 1 .. n] /\ \A i, j \in 1 .. n : p[i] = p[j] => i = j
  BY DEF Permutation
<1>2. u \in [1 .. n -> Int] /\ \A h \in 1 .. n : u[h] = -v[h] /\ v[h] \in Int  OBVIOUS
<1>3. \A h \in 1 .. n : p[h] \in 1 .. n  BY <1>1
<1>4. \A h \in 1 .. n : n + 1 - p[h] \in 1 .. n  BY <1>3
<1>5. q \in [1 .. n -> 1 .. n] /\ \A h \in 1 .. n : q[h] = n + 1 - p[h]  BY <1>4
<1> HIDE DEF u, q
<1>6. Grows(n, u)
  <2> SUFFICES ASSUME NEW h \in 1 .. n - 1 PROVE u[h] < u[h + 1]  BY DEF Grows
  <2>1. h \in 1 .. n /\ h + 1 \in 1 .. n /\ v[h] > v[h + 1]  OBVIOUS
  <2> QED  BY <1>2, <2>1
<1>7. ASSUME NEW h \in 1 .. n - 1 PROVE q[h] < q[h + 1]
  <2> DEFINE x == p[h]
             y == p[h + 1]
  <2>1. h \in 1 .. n /\ h + 1 \in 1 .. n /\ h # h + 1  OBVIOUS
  <2>2. x \in 1 .. n /\ y \in 1 .. n /\ x # y  BY <1>1, <2>1
  <2>3. v[x] <= v[y]  BY DEF Sorts
  <2>7. q[h] = n + 1 - x /\ q[h + 1] = n + 1 - y  BY <1>5, <2>1
  <2> HIDE DEF x, y
  <2>4. v[x] \in Int /\ v[y] \in Int /\ u[x] = -v[x] /\ u[y] = -v[y]  BY <1>2, <2>2
  <2>5. ~(x < y)
    <3>1. x < y => u[x] < u[y]  BY <1>2, <1>6, <2>2, GrowsOverall
    <3> QED  BY <2>3, <2>4, <3>1
  <2> QED  BY <2>2, <2>5, <2>7
<1>8. Grows(n, q)  BY <1>7 DEF Grows
<1>9. \A h \in 1 .. n : q[h] = h  BY <1>5, <1>8, OneWayUp
<1> QED  BY <1>3, <1>5, <1>9

\* The rank correlation with time stays between -1 and 1, and is 1 of growing and
\* -1 of shrinking values (spearman_drift).
LEMMA DriftIs ==
  ASSUME NEW n \in 1 .. MaxRounds, NEW v \in [1 .. n -> Int]
  PROVE  Drifted(v, Drifts(v))
<1> DEFINE full == n * (n * n - 1)
           R == Rankings(v)
<1>0. n \in Nat /\ n \in 0 .. MaxRounds  BY AnalysisAssumption
<1>1. Len(v) = n  BY <1>0, IsSequence
<1> SUFFICES ASSUME n >= 3
             PROVE  /\ Drifts(v) \subseteq -full .. full
                    /\ (\A h \in 1 .. n - 1 : v[h] < v[h + 1]) => Drifts(v) = {full}
                    /\ (\A h \in 1 .. n - 1 : v[h] > v[h + 1]) => Drifts(v) = {-full}
  BY <1>1 DEF Drifted
<1>2. Drifts(v) = {full - 6 * Miss(p) : p \in R}  BY <1>0, <1>1 DEF Drifts
<1>3. full \in Int  BY <1>0
<1>4. ASSUME NEW p \in R PROVE Permutation(n, p) /\ Sorts(n, v, p)
  <2>1. p \in Order[n] /\ \A h \in 1 .. Len(p) - 1 : v[p[h]] <= v[p[h + 1]]
    BY <1>1 DEF Rankings
  <2>2. Permutation(n, p)  BY <1>0, <2>1, OrderIs
  <2>3. Len(p) = n  BY <1>0, <2>2, IsSequence DEF Permutation
  <2> QED  BY <2>1, <2>2, <2>3 DEF Sorts
<1>5. ASSUME NEW p, Permutation(n, p), Sorts(n, v, p) PROVE p \in R
  <2>1. p \in Order[n]  BY <1>0, <1>5, OrderIs
  <2>2. Len(p) = n  BY <1>0, <1>5, IsSequence DEF Permutation
  <2> QED  BY <1>1, <1>5, <2>1, <2>2 DEF Rankings, Sorts
<1> HIDE DEF R
<1>6. ASSUME NEW p \in R
      PROVE  Miss(p) \in Int /\ 0 <= Miss(p) /\ 3 * Miss(p) <= full
  BY <1>0, <1>4, MissIs
<1>7. Drifts(v) \subseteq -full .. full
  <2> SUFFICES ASSUME NEW p \in R PROVE full - 6 * Miss(p) \in -full .. full
    BY <1>2
  <2> DEFINE m == Miss(p)
  <2>1. m \in Int /\ 0 <= m /\ 3 * m <= full  BY <1>6
  <2> HIDE DEF m, full
  <2>2. full - 6 * m \in -full .. full  BY <1>3, <2>1
  <2> QED  BY <2>2 DEF m
<1>8. ASSUME \A h \in 1 .. n - 1 : v[h] < v[h + 1] PROVE Drifts(v) = {full}
  <2> DEFINE first == [h \in 1 .. n |-> h]
  <2>1. Grows(n, v)  BY <1>8 DEF Grows
  <2>2. \A h \in 1 .. n - 1 : h \in 1 .. n /\ h + 1 \in 1 .. n
                              /\ v[h] \in Int /\ v[h + 1] \in Int
    BY <1>0
  <2>3. Sorts(n, v, first)
    <3>1. \A h \in 1 .. n - 1 : first[h] = h /\ first[h + 1] = h + 1  BY <2>2
    <3>2. \A h \in 1 .. n - 1 : v[h] <= v[h + 1]  BY <1>8, <2>2
    <3> QED  BY <3>1, <3>2 DEF Sorts
  <2>4. first \in R  BY <1>0, <1>5, <2>3, FirstOrder
  <2>5. ASSUME NEW p \in R PROVE full - 6 * Miss(p) = full
    <3>1. \A h \in 1 .. n : p[h] = h  BY <1>0, <1>4, <2>1, RankingOfGrowing
    <3>2. Miss(p) = 0  BY <1>0, <1>4, <3>1, MissIs
    <3> HIDE DEF full
    <3> QED  BY <1>3, <3>2
  <2> HIDE DEF full, first
  <2> QED  BY <1>2, <2>4, <2>5
<1>9. ASSUME \A h \in 1 .. n - 1 : v[h] > v[h + 1] PROVE Drifts(v) = {-full}
  <2> DEFINE last == [h \in 1 .. n |-> n + 1 - h]
  <2>1. \A h \in 1 .. n - 1 : /\ h \in 1 .. n /\ h + 1 \in 1 .. n
                              /\ n - h \in 1 .. n - 1 /\ n + 1 - (h + 1) = n - h
                              /\ n + 1 - h = (n - h) + 1
    BY <1>0
  <2>2. Sorts(n, v, last)
    <3> SUFFICES ASSUME NEW h \in 1 .. n - 1 PROVE v[last[h]] <= v[last[h + 1]]
      BY DEF Sorts
    <3> DEFINE j == n - h
    <3>1. last[h] = j + 1 /\ last[h + 1] = j /\ j \in 1 .. n - 1  BY <2>1
    <3> HIDE DEF j, last
    <3>2. v[j] > v[j + 1] /\ j \in 1 .. n /\ j + 1 \in 1 .. n  BY <1>0, <1>9, <3>1
    <3>3. v[j] \in Int /\ v[j + 1] \in Int  BY <3>2
    <3> QED  BY <3>1, <3>2, <3>3
  <2>3. last \in R  BY <1>0, <1>5, <2>2, ReversedOrder
  <2>4. ASSUME NEW p \in R PROVE full - 6 * Miss(p) = -full
    <3>1. \A h \in 1 .. n : p[h] = n + 1 - h  BY <1>0, <1>4, <1>9, RankingOfShrinking
    <3>2. 3 * Miss(p) = full  BY <1>0, <1>4, <3>1, MissIs
    <3>3. Miss(p) \in Int  BY <1>6
    <3> HIDE DEF full
    <3> QED  BY <1>3, <3>2, <3>3
  <2> HIDE DEF full, last
  <2> QED  BY <1>2, <2>3, <2>4
<1> QED  BY <1>7, <1>8, <1>9

-----------------------------------------------------------------------------
(* What holds of a group at every stage.                                   *)

\* Where a group is.
Stages == {"estimating", "estimated", "measuring", "analysed", "listing", "compared"}

\* The comparisons are the listed ones of some arms.
InventoryIs(i) ==
  \E n \in 1 .. MaxArms, only \in BOOLEAN :
    \E base \in 1 .. n :
      i = [arms |-> n, only |-> only, pairs |-> Listed(n, base, only)]

\* The inductive invariant: an estimate fits as soon as there is one, an analysis is
\* one of the rounds it was made of, and the comparisons are those of the arms.
AnalysisInv ==
  /\ stage \in Stages
  /\ stage \in {"estimating", "estimated"} => steady \in Cost /\ settings \in Settings
  /\ stage = "estimating" => iters \in Nat \ {0}
  /\ SampleFits
  /\ rounds \in Seq(Observation) /\ Len(rounds) <= MaxRounds
  /\ stage = "analysed" => rounds # <<>> /\ analysis \in Analyses(rounds)
  /\ stage = "compared" => InventoryIs(inventory)

\* A call takes its iterations' time at least.
LEMMA ElapsedIs ==
  ASSUME steady \in Cost, iters \in Nat \ {0}, NEW e \in Elapsed
  PROVE  e \in Nat /\ iters * steady <= e /\ steady \in Nat
<1>1. steady \in Nat /\ Disturbance \subseteq Nat  BY AnalysisAssumption
<1>2. PICK d \in IF tries = 0 THEN Disturbance ELSE {0} : e = iters * steady + d
  BY DEF Elapsed
<1>3. d \in Nat
  <2>1. CASE tries = 0  BY <1>1, <1>2, <2>1
  <2>2. CASE tries # 0
    <3>1. d = 0  BY <1>2, <2>2
    <3> QED  BY <3>1
  <2> QED  BY <2>1, <2>2
<1> DEFINE p == iters * steady
<1>4. p \in Nat /\ e = p + d  BY <1>1, <1>2
<1> HIDE DEF p
<1>5. e \in Nat /\ p <= e  BY <1>3, <1>4
<1> QED  BY <1>1, <1>5 DEF p

\* The rounds as a function on their indices.
LEMMA RoundsAre ==
  ASSUME NEW rs \in Seq(Observation), Len(rs) <= MaxRounds, rs # <<>>
  PROVE  Len(rs) \in 1 .. MaxRounds /\ rs \in [1 .. Len(rs) -> Observation]
<1>1. MaxRounds \in Nat  BY AnalysisAssumption
<1>2. Len(rs) \in Nat /\ rs \in [1 .. Len(rs) -> Observation]  OBVIOUS
<1>3. Len(rs) # 0  OBVIOUS
<1> QED  BY <1>1, <1>2, <1>3

\* The invariant holds of every group.
LEMMA AnalysisInductive == AnalysisSpec => []AnalysisInv
<1>1. AnalysisInit => AnalysisInv
  <2> SUFFICES ASSUME AnalysisInit PROVE AnalysisInv  OBVIOUS
  <2> USE DEF AnalysisInit
  <2>1. <<>> \in Seq(Observation) /\ Len(<<>>) <= MaxRounds  BY AnalysisAssumption
  <2>2. stage = "estimating" /\ rounds = <<>> /\ iters = 1  OBVIOUS
  <2> QED  BY <2>1, <2>2 DEF AnalysisInv, Stages, SampleFits
<1>2. AnalysisInv /\ [AnalysisNext]_analysisVars => AnalysisInv'
  <2> SUFFICES ASSUME AnalysisInv, [AnalysisNext]_analysisVars PROVE AnalysisInv'
    OBVIOUS
  <2>1. /\ stage \in Stages
        /\ stage \in {"estimating", "estimated"} => steady \in Cost /\ settings \in Settings
        /\ stage = "estimating" => iters \in Nat \ {0}
        /\ SampleFits
        /\ rounds \in Seq(Observation) /\ Len(rounds) <= MaxRounds
        /\ stage = "analysed" => rounds # <<>> /\ analysis \in Analyses(rounds)
        /\ stage = "compared" => InventoryIs(inventory)
    BY DEF AnalysisInv
  <2>2. CASE EstimateAgain
    <3> USE DEF EstimateAgain
    <3>1. PICK e \in Elapsed : Wanted(e) > 2 * iters /\ iters' = Wanted(e)  BY <2>2
    <3>2. stage = "estimating" /\ stage' = stage /\ steady' = steady /\ settings' = settings
          /\ rounds' = rounds
      BY <2>2
    <3>3. steady \in Cost /\ settings \in Settings /\ iters \in Nat \ {0}  BY <2>1, <3>2
    <3>4. e \in Nat /\ iters * steady <= e /\ steady \in Nat  BY <3>3, ElapsedIs
    <3>5. Wanted(e) \in Nat  BY <3>3, <3>4, WantedIs
    <3>6. iters' \in Nat \ {0}  BY <3>1, <3>3, <3>5
    <3>7. SampleFits'  BY <3>2 DEF SampleFits
    <3> QED  BY <2>1, <3>2, <3>3, <3>6, <3>7 DEF AnalysisInv, Stages
  <2>3. CASE Estimated
    <3> USE DEF Estimated
    <3>1. PICK e \in Elapsed : estimate' = Clamped(Wanted(e))  BY <2>3
    <3>2. stage = "estimating" /\ stage' = "estimated" /\ steady' = steady
          /\ settings' = settings /\ rounds' = rounds
      BY <2>3
    <3>3. steady \in Cost /\ settings \in Settings /\ iters \in Nat \ {0}  BY <2>1, <3>2
    <3>4. e \in Nat /\ iters * steady <= e /\ steady \in Nat  BY <3>3, ElapsedIs
    <3>5. Wanted(e) \in Nat /\ Wanted(e) * steady <= Limit  BY <3>3, <3>4, WantedIs
    <3>6. Clamped(Wanted(e)) \in {1, settings.fewest}
          \/ Clamped(Wanted(e)) * steady <= Limit
      BY <3>3, <3>4, <3>5, ClampedIs
    <3>7. SampleFits'  BY <3>1, <3>2, <3>6 DEF SampleFits, Limit
    <3> QED  BY <2>1, <3>2, <3>3, <3>7 DEF AnalysisInv, Stages
  <2>4. CASE BeginRounds
    <3>1. stage' = "measuring" /\ rounds' = rounds  BY <2>4 DEF BeginRounds
    <3> QED  BY <2>1, <3>1 DEF AnalysisInv, Stages, SampleFits
  <2>5. CASE Measure
    <3>1. stage' = "measuring" /\ Len(rounds) < MaxRounds  BY <2>5 DEF Measure
    <3>2. PICK r \in Observation : rounds' = Append(rounds, r)  BY <2>5 DEF Measure
    <3>3. rounds' \in Seq(Observation) /\ Len(rounds') = Len(rounds) + 1  BY <2>1, <3>2
    <3>4. Len(rounds') <= MaxRounds
      <4>1. Len(rounds) \in Nat /\ MaxRounds \in Nat  BY <2>1, AnalysisAssumption
      <4> QED  BY <3>1, <3>3, <4>1
    <3> QED  BY <3>1, <3>3, <3>4 DEF AnalysisInv, Stages, SampleFits
  <2>6. CASE Analyse
    <3>1. stage' = "analysed" /\ rounds' = rounds /\ rounds # <<>>
          /\ analysis' \in Analyses(rounds)
      BY <2>6 DEF Analyse
    <3>2. analysis' \in Analyses(rounds)'  BY <3>1
    <3> QED  BY <2>1, <3>1, <3>2 DEF AnalysisInv, Stages, SampleFits
  <2>7. CASE Retain
    <3>1. stage' = "listing" /\ rounds' = <<>>  BY <2>7 DEF Retain
    <3>2. <<>> \in Seq(Observation) /\ Len(<<>>) <= MaxRounds  BY AnalysisAssumption
    <3> QED  BY <3>1, <3>2 DEF AnalysisInv, Stages, SampleFits
  <2>8. CASE Compare
    <3>1. stage' = "compared" /\ rounds' = rounds  BY <2>8 DEF Compare
    <3>2. PICK n \in 1 .. MaxArms, option \in {"auto", "all", "baseline"} :
            \E base \in 1 .. n :
              LET only == option = "baseline" \/ (option = "auto" /\ n > 3)
              IN  inventory' = [arms |-> n, only |-> only, pairs |-> Listed(n, base, only)]
      BY <2>8, Zenon DEF Compare
    <3> DEFINE only == option = "baseline" \/ (option = "auto" /\ n > 3)
    <3>3. PICK base \in 1 .. n :
            inventory' = [arms |-> n, only |-> only, pairs |-> Listed(n, base, only)]
      BY <3>2, Zenon
    <3>4. only \in BOOLEAN  OBVIOUS
    <3> HIDE DEF only
    <3>5. InventoryIs(inventory')  BY <3>3, <3>4, Zenon DEF InventoryIs
    <3> QED  BY <2>1, <3>1, <3>5 DEF AnalysisInv, Stages, SampleFits
  <2>9. CASE UNCHANGED analysisVars
    <3> USE <2>9 DEF analysisVars, estimating
    <3>1. /\ stage' = stage /\ steady' = steady /\ settings' = settings /\ iters' = iters
          /\ estimate' = estimate /\ rounds' = rounds /\ analysis' = analysis
          /\ inventory' = inventory
      OBVIOUS
    <3>2. SampleFits'  BY <2>1, <3>1 DEF SampleFits
    <3> QED  BY <2>1, <3>1, <3>2 DEF AnalysisInv
  <2> QED  BY <2>2, <2>3, <2>4, <2>5, <2>6, <2>7, <2>8, <2>9 DEF AnalysisNext
<1> QED  BY <1>1, <1>2, PTL DEF AnalysisSpec

\* SignificanceIsEarned: whatever is measured, a significant difference is one
\* that the noise, the clock and the outliers leave (stats.rs:379-480).
THEOREM SignificanceTheorem == AnalysisSpec => []SignificanceIsEarned
<1>1. AnalysisInv => SignificanceIsEarned
  <2> SUFFICES ASSUME AnalysisInv, stage = "analysed", analysis.significant
               PROVE  Earned(analysis, rounds)
    BY DEF SignificanceIsEarned, Earned
  <2>1. rounds \in Seq(Observation) /\ Len(rounds) <= MaxRounds /\ rounds # <<>>
        /\ analysis \in Analyses(rounds)
    BY DEF AnalysisInv
  <2>2. Len(rounds) \in 1 .. MaxRounds /\ rounds \in [1 .. Len(rounds) -> Observation]
    BY <2>1, RoundsAre
  <2> QED  BY <2>1, <2>2, SignificantIsEarned
<1> QED  BY <1>1, AnalysisInductive, PTL

\* ReportAgrees: the estimate, the moments, the ranks, the drift, the slope and
\* the list of comparisons are what their definitions say.
THEOREM ReportTheorem == AnalysisSpec => []ReportAgrees
<1>1. AnalysisInv => ReportAgrees
  <2> SUFFICES ASSUME AnalysisInv PROVE ReportAgrees  OBVIOUS
  <2>1. SampleFits  BY DEF AnalysisInv
  <2>2. ASSUME stage = "analysed"
        PROVE  /\ Moments(analysis.diff, Diffs(analysis.kept))
               /\ Ranked(Nonzero(Diffs(analysis.kept)))
               /\ Drifted(Diffs(analysis.kept), analysis.drift)
               /\ Sloped(analysis, rounds)
    <3>1. rounds \in Seq(Observation) /\ Len(rounds) <= MaxRounds /\ rounds # <<>>
          /\ analysis \in Analyses(rounds)
      BY <2>2 DEF AnalysisInv
    <3> DEFINE n == Len(rounds)
    <3>2. n \in 1 .. MaxRounds /\ rounds \in [1 .. n -> Observation]
      BY <3>1, RoundsAre
    <3>0. MaxRounds \in Nat  BY AnalysisAssumption
    <3> HIDE DEF n
    <3>3. PICK m \in 1 .. n :
            /\ analysis.kept \in [1 .. m -> Observation]
            /\ analysis.diff = FromSlice(Diffs(analysis.kept))
            /\ analysis.drift = Drifts(Diffs(analysis.kept))
            /\ analysis.slope = Slope(rounds)
      BY <3>1, <3>2, AnalysisIs
    <3>4. m \in 1 .. MaxRounds /\ m \in Nat /\ n \in Nat \ {0}  BY <3>0, <3>2
    <3> DEFINE d == Diffs(analysis.kept)
    <3>5. d \in [1 .. m -> Int] /\ d \in [1 .. m -> Multiple]  BY <3>3, <3>4, ColumnsAre
    <3> HIDE DEF d
    <3>6. \A j \in 1 .. m : d[j] \in Multiple  BY <3>5
    <3>7. Moments(analysis.diff, d)
      <4>1. Moments(FromSlice(d), d)  BY <3>4, <3>5, <3>6, MomentsAre
      <4> QED  BY <3>3, <4>1 DEF d
    <3>8. Ranked(Nonzero(d))  BY <3>4, <3>5, RanksAre
    <3>9. Drifted(d, analysis.drift)
      <4>1. Drifted(d, Drifts(d))  BY <3>4, <3>5, DriftIs
      <4> QED  BY <3>3, <4>1 DEF d
    <3>10. Sloped(analysis, rounds)  BY <3>2, <3>3, <3>4, SlopeIs
    <3> QED  BY <3>7, <3>8, <3>9, <3>10 DEF d
  <2>3. ASSUME stage = "compared" PROVE Once(inventory)
    <3>1. PICK n \in 1 .. MaxArms, only \in BOOLEAN :
            \E base \in 1 .. n :
              inventory = [arms |-> n, only |-> only, pairs |-> Listed(n, base, only)]
      BY <2>3 DEF AnalysisInv, InventoryIs
    <3>2. PICK base \in 1 .. n :
            inventory = [arms |-> n, only |-> only, pairs |-> Listed(n, base, only)]
      BY <3>1
    <3>3. n \in Nat \ {0}  BY AnalysisAssumption
    <3>4. Once([arms |-> n, only |-> only, pairs |-> Listed(n, base, only)])
      BY <3>3, PairsAreOnce
    <3> QED  BY <3>2, <3>4
  <2>4. MomentsAgree  BY <2>2 DEF MomentsAgree, Moments
  <2>5. RanksAgree  BY <2>2 DEF RanksAgree, Ranked
  <2>6. DriftAgrees  BY <2>2 DEF DriftAgrees, Drifted
  <2>7. SlopeAgrees  BY <2>2 DEF SlopeAgrees, Sloped
  <2>8. EveryPairOnce  BY <2>3 DEF EveryPairOnce, Once
  <2> QED  BY <2>1, <2>4, <2>5, <2>6, <2>7, <2>8 DEF ReportAgrees
<1> QED  BY <1>1, AnalysisInductive, PTL
=============================================================================
