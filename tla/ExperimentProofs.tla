---------------------------- MODULE ExperimentProofs ----------------------------
(***************************************************************************)
(* What an experiment of independent processes claims, for every request,  *)
(* every number of processes and arms, every measurement and baseline:     *)
(* ProcessExperiment's CompleteIsEvidence, ExitIsJustified and             *)
(* BaselineIsEarned; and what its children make of their command line:     *)
(* BenchMain's ChildrenRunThePlan.                                         *)
(***************************************************************************)
EXTENDS ProcessExperiment, BenchMain, FiniteSetTheorems, SequenceTheorems, TLAPS

-----------------------------------------------------------------------------
(***************************************************************************)
(* The inductive invariant.                                                *)
(***************************************************************************)

Before     == {"start", "admit", "plan"}
Attempting == {"launch", "record", "spawn", "poll", "outcome", "judge", "load"}
Judging    == {"finish", "return", "save", "compare", "verdict"}
Gathered   == {"aggregate"} \cup Judging

\* A packet, and the manifest, as far as the model builds them.
IsPacket(p) ==
  /\ {"run", "independent", "mode", "planned", "mean", "flaw", "replicates", "arms"}
       \subseteq DOMAIN p
  /\ p.arms = inventory /\ p.replicates = <<>>
  /\ \A a \in ToSet(inventory) : p.mean[a] \in Int

IsManifest(m) ==
  /\ {"status", "evidence", "attempt"} \subseteq DOMAIN m
  /\ DOMAIN m.attempt = Index

Requested ==
  /\ request \in Request
  /\ pc \notin {"start", "exited"} => Valid
  /\ pc # "exited" => exit = None

Children ==
  /\ child # None => "at" \in DOMAIN child /\ child.at \in Index
  /\ file = [k \in Index |-> file[k]]
  /\ \A k \in Index : file[k] # None => IsPacket(file[k])

\* The first n attempts are through, and what they left is loaded.
Done(n) ==
  /\ results = [k \in 1 .. n |-> file[k]]
  /\ \A k \in 1 .. n : file[k] # None /\ manifest.attempt[k] = "completed"

Attempted ==
  /\ pc \in Before => i = 1 /\ results = <<>> /\ manifest = None
  /\ pc \in Attempting => i \in Index /\ Done(i - 1)
  /\ pc \in Attempting /\ (pc = "load" \/ (pc = "judge" /\ status = "ok")) =>
       manifest.attempt[i] = "completed"
  /\ pc \in Gathered => Done(request.processes)

Recorded ==
  /\ pc \in Attempting \cup Gathered => IsManifest(manifest)
  /\ pc \in Attempting \cup {"aggregate", "finish"} => manifest.evidence = None
  /\ manifest # None /\ manifest.evidence # None =>
       \A k \in Index : file[k] # None

\* The aggregate of more than one process is of the saved packets; one of a
\* single process is that packet, and has no replicates to confirm with.
IsAggregate(r) ==
  /\ r.planned = request.processes
  /\ IF request.processes = 1 THEN r.replicates = <<>>
     ELSE r.replicates = file /\ r.arms = inventory

Combined ==
  pc \in Judging => aggregate \in store /\ IsAggregate(aggregate)

\* The baseline stays what it was until the aggregate is saved under its name;
\* a comparison that goes on to the verdict was passed by the one of before.
Compared ==
  /\ control \in Saved \cup {None}
  /\ pc \in Before \cup Attempting \cup {"aggregate", "finish", "return", "save"} =>
       baseline = control
  /\ pc = "compare" => baseline = control \/ baseline = aggregate
  /\ pc = "verdict" /\ request.compare =>
       \E q \in [ToSet(aggregate.arms) -> request.critical] :
         Promotable(control, aggregate, q)

ExperimentInv ==
  /\ Requested /\ Children /\ Attempted /\ Recorded /\ Combined /\ Compared
  /\ CompleteIsEvidence /\ ExitIsJustified

-----------------------------------------------------------------------------
(***************************************************************************)
(* Induction over an interval, and sums.                                   *)
(***************************************************************************)

\* A set of naturals has a least element.
LEMMA LeastNatural ==
  ASSUME NEW T \in SUBSET Nat, T # {}
  PROVE  \E m \in T : \A j \in T : m <= j
<1> DEFINE Initial(n) == 0 .. n
           B == {Initial(n) : n \in T}
<1>1. \A n \in T : IsFiniteSet(Initial(n))  BY FS_Interval
<1>2. B \subseteq FiniteSubsetsOf(Nat) /\ B # {}
  <2>1. PICK t \in T : TRUE  OBVIOUS
  <2>2. Initial(t) \in B  OBVIOUS
  <2>3. \A t1 \in T : Initial(t1) \in SUBSET Nat  OBVIOUS
  <2> QED  BY <1>1, <2>2, <2>3 DEF FiniteSubsetsOf
<1>3. IsWellFoundedOn(StrictSubsetOrdering(Nat), FiniteSubsetsOf(Nat))
  BY FS_StrictSubsetOrderingWellFounded, Zenon
<1> HIDE DEF B
<1>4. PICK X \in B : \A Y \in B : ~(<<Y, X>> \in StrictSubsetOrdering(Nat))
  BY <1>2, <1>3, WFMin, Zenon
<1>5. PICK m \in T : X = Initial(m)  BY <1>4 DEF B
<1>6. ASSUME NEW j \in T, j < m PROVE FALSE
  <2>1. Initial(j) \in B  BY DEF B
  <2>2. m \in Initial(m) /\ m \notin Initial(j)  BY <1>6
  <2>3. Initial(j) \subseteq Initial(m)  BY <1>6
  <2>4. <<Initial(j), X>> \in StrictSubsetOrdering(Nat)
    BY <1>5, <2>2, <2>3 DEF StrictSubsetOrdering
  <2> QED  BY <1>4, <2>1, <2>4
<1> QED  BY <1>6

\* What holds of 0 and goes up holds up to n.
LEMMA Upwards ==
  ASSUME NEW n \in Nat, NEW P, 0 \in P,
         \A j \in 1 .. n : j - 1 \in P => j \in P
  PROVE  \A j \in 0 .. n : j \in P
<1> DEFINE T == {j \in 0 .. n : j \notin P}
<1> SUFFICES ASSUME T # {} PROVE FALSE  OBVIOUS
<1>0. T \in SUBSET Nat  OBVIOUS
<1>1. PICK m \in T : \A j \in T : m <= j
  <2> HIDE DEF T
  <2> QED  BY <1>0, LeastNatural
<1>2. m \in 1 .. n /\ m - 1 \in 0 .. n /\ ~(m <= m - 1)  BY <1>1
<1> QED  BY <1>1, <1>2

\* A function on 1 .. n is a sequence of n values.
LEMMA IsSequence ==
  ASSUME NEW n \in Nat, NEW T, NEW v \in [1 .. n -> T]
  PROVE  v \in Seq(T) /\ Len(v) = n /\ DOMAIN v = 1 .. n
OBVIOUS

\* Steps that lead from any value to another can be repeated.
StepsOf(n, T) == [1 .. n -> [T -> T]]
Repetition(s, n, T, b, G) ==
  s \in [0 .. n -> T] /\ s[0] = b /\ \A j \in 1 .. n : s[j] = G[j][s[j - 1]]

\* A function that is computed step by step exists, however many steps it takes.
LEMMA Repeated ==
  ASSUME NEW n \in Nat, NEW T, NEW b \in T, NEW G \in StepsOf(n, T)
  PROVE  \E s : Repetition(s, n, T, b, G)
<1> USE DEF StepsOf
<1> DEFINE Good(s, m) == s[0] = b /\ \A j \in 1 .. m : s[j] = G[j][s[j - 1]]
           P == {m \in 0 .. n : \E s \in [0 .. n -> T] : Good(s, m)}
<1>1. 0 \in P
  <2> DEFINE s == [j \in 0 .. n |-> b]
  <2>1. s \in [0 .. n -> T] /\ Good(s, 0)  OBVIOUS
  <2>2. 0 \in 0 .. n  OBVIOUS
  <2> HIDE DEF s, Good
  <2> QED  BY <2>1, <2>2
<1>2. ASSUME NEW m \in 1 .. n, m - 1 \in P PROVE m \in P
  <2>1. PICK s \in [0 .. n -> T] : Good(s, m - 1)  BY <1>2
  <2> DEFINE t == G[m][s[m - 1]]
             r == [s EXCEPT ![m] = t]
  <2>2. t \in T
    <3>1. s[m - 1] \in T  OBVIOUS
    <3> QED  BY <3>1
  <2>3. r \in [0 .. n -> T]  BY <2>2
  <2>4. \A j \in 1 .. m - 1 : r[j] = s[j] /\ r[j - 1] = s[j - 1]  OBVIOUS
  <2>5. r[m] = t /\ r[m - 1] = s[m - 1] /\ r[0] = s[0]  OBVIOUS
  <2> HIDE DEF r
  <2>6. ASSUME NEW j \in 1 .. m PROVE r[j] = G[j][r[j - 1]]
    <3>1. CASE j = m  BY <2>5, <3>1
    <3>2. CASE j # m
      <4>1. j \in 1 .. m - 1  BY <3>2
      <4> QED  BY <2>1, <2>4, <4>1
    <3> QED  BY <3>1, <3>2
  <2>7. Good(r, m) /\ m \in 0 .. n  BY <2>1, <2>5, <2>6
  <2> HIDE DEF Good
  <2> QED  BY <2>3, <2>7
<1> HIDE DEF P
<1>3. \A m \in 0 .. n : m \in P  BY <1>1, <1>2, Upwards
<1>4. n \in P  BY <1>3
<1> QED  BY <1>4 DEF P, Repetition

\* What Sums computes.
AreSums(s, n, v) ==
  s \in [0 .. n -> Int] /\ s[0] = 0 /\ \A j \in 1 .. n : s[j] = s[j - 1] + v[j]

\* Sums adds one value after the other, and Total is the last of them.
LEMMA SumsAre ==
  ASSUME NEW n \in Nat, NEW v \in [1 .. n -> Int]
  PROVE  AreSums(Sums(v), n, v) /\ Total(v) = Sums(v)[n] /\ Total(v) \in Int
<1> DEFINE G == [j \in 1 .. n |-> [t \in Int |-> t + v[j]]]
           IsSums(s) == s = [j \in 0 .. n |-> IF j = 0 THEN 0 ELSE s[j - 1] + v[j]]
<1>1. G \in StepsOf(n, Int)  BY DEF StepsOf
<1>2. \A j \in 1 .. n, t \in Int : G[j][t] = t + v[j]  OBVIOUS
<1> HIDE DEF G
<1>0. 0 \in Int  OBVIOUS
<1>3. PICK s : Repetition(s, n, Int, 0, G)  BY <1>0, <1>1, Repeated
<1>4. IsSums(s)
  <2> USE DEF Repetition
  <2>1. s \in [0 .. n -> Int] /\ \A j \in 1 .. n : s[j - 1] \in Int  BY <1>3
  <2>2. \A j \in 1 .. n : s[j] = s[j - 1] + v[j]
    BY <1>2, <1>3, <2>1
  <2>3. \A j \in 0 .. n : j = 0 \/ j \in 1 .. n  OBVIOUS
  <2>4. \A j \in 0 .. n : s[j] = IF j = 0 THEN 0 ELSE s[j - 1] + v[j]
    BY <1>3, <2>2, <2>3
  <2> QED  BY <2>1, <2>4
<1>5. Sums(v) = CHOOSE t : IsSums(t)  BY IsSequence DEF Sums
<1> DEFINE r == Sums(v)
<1>6. IsSums(r)
  <2> HIDE DEF IsSums
  <2> QED  BY <1>4, <1>5
<1> HIDE DEF r
<1>7. r[0] = 0 /\ \A j \in 1 .. n : r[j] = r[j - 1] + v[j]
  <2>1. 0 \in 0 .. n /\ \A j \in 1 .. n : j \in 0 .. n /\ j # 0  OBVIOUS
  <2> QED  BY <1>6, <2>1
<1>8. \A j \in 0 .. n : r[j] \in Int
  <2> DEFINE P == {j \in 0 .. n : r[j] \in Int}
  <2>1. 0 \in P  BY <1>7
  <2>2. ASSUME NEW j \in 1 .. n, j - 1 \in P PROVE j \in P
    BY <1>7, <2>2
  <2> HIDE DEF P
  <2>3. \A j \in 0 .. n : j \in P  BY <2>1, <2>2, Upwards
  <2> QED  BY <2>3 DEF P
<1>9. r \in [0 .. n -> Int]  BY <1>6, <1>8
<1>10. Total(v) = r[n]  BY IsSequence DEF Total, r
<1>11. AreSums(r, n, v)  BY <1>7, <1>9 DEF AreSums
<1>12. Total(v) \in Int  BY <1>8, <1>10
<1> QED  BY <1>10, <1>11, <1>12 DEF r

\* The squares of a sequence, place by place.
LEMMA SquaresAre ==
  ASSUME NEW n \in Nat, NEW v \in [1 .. n -> Int]
  PROVE  Squares(v) \in [1 .. n -> Int] /\ \A j \in 1 .. n : Squares(v)[j] = v[j] * v[j]
<1>1. Squares(v) = [j \in 1 .. n |-> v[j] * v[j]]  BY DEF Squares
<1>2. \A j \in 1 .. n : v[j] * v[j] \in Int  OBVIOUS
<1> QED  BY <1>1, <1>2

\* The sums of the squares of a sequence, step by step.
LEMMA SquareSums ==
  ASSUME NEW n \in Nat, NEW v \in [1 .. n -> Int]
  PROVE  \E s, r :
           /\ s \in [0 .. n -> Int] /\ s[0] = 0 /\ s[n] = Total(v)
           /\ r \in [0 .. n -> Int] /\ r[0] = 0 /\ r[n] = Total(Squares(v))
           /\ \A j \in 1 .. n : s[j] = s[j - 1] + v[j] /\ r[j] = r[j - 1] + v[j] * v[j]
<1> DEFINE s == Sums(v)
           w == Squares(v)
           r == Sums(w)
<1>1. w \in [1 .. n -> Int] /\ \A j \in 1 .. n : w[j] = v[j] * v[j]  BY SquaresAre
<1>2. AreSums(s, n, v) /\ s[n] = Total(v)  BY SumsAre
<1> HIDE DEF w
<1>3. AreSums(r, n, w) /\ r[n] = Total(w)  BY <1>1, SumsAre
<1> HIDE DEF s, r
<1>4. /\ s \in [0 .. n -> Int] /\ s[0] = 0 /\ s[n] = Total(v)
      /\ \A j \in 1 .. n : s[j] = s[j - 1] + v[j]
  BY <1>2 DEF AreSums
<1>5. /\ r \in [0 .. n -> Int] /\ r[0] = 0 /\ r[n] = Total(w)
      /\ \A j \in 1 .. n : r[j] = r[j - 1] + w[j]
  BY <1>3 DEF AreSums
<1>6. \A j \in 1 .. n : r[j] = r[j - 1] + v[j] * v[j]  BY <1>1, <1>5, Zenon
<1>7. r[n] = Total(Squares(v))  BY <1>5 DEF w
<1>8. r \in [0 .. n -> Int] /\ r[0] = 0 /\ r[n] = Total(Squares(v))  BY <1>5, <1>7
<1>9. \A j \in 1 .. n : s[j] = s[j - 1] + v[j] /\ r[j] = r[j - 1] + v[j] * v[j]
  BY <1>4, <1>6, Zenon
<1> QED  BY <1>4, <1>8, <1>9, Zenon

\* The square of x a + y, one value at a time.
LEMMA SquareOfLine ==
  ASSUME NEW x \in Int, NEW y \in Int, NEW a \in Int, NEW s \in Int, NEW r \in Int, NEW j \in Int
  PROVE  x * x * (r + a * a) + 2 * x * y * (s + a) + j * (y * y)
           = (x * x * r + 2 * x * y * s + (j - 1) * (y * y)) + (x * a + y) * (x * a + y)
OBVIOUS

\* The sums of values on a line are those of the values, on a line and a parabola.
LEMMA AffineTotals ==
  ASSUME NEW n \in Nat, NEW v \in [1 .. n -> Int], NEW x \in Int, NEW y \in Int,
         NEW w \in [1 .. n -> Int], \A j \in 1 .. n : w[j] = x * v[j] + y
  PROVE  /\ Total(w) = x * Total(v) + n * y
         /\ Total(Squares(w)) =
              x * x * Total(Squares(v)) + 2 * x * y * Total(v) + n * (y * y)
<1> DEFINE L(s, j) == x * s + j * y
           F(s, r, j) == x * x * r + 2 * x * y * s + j * (y * y)
<1>1. PICK s, r :
           /\ s \in [0 .. n -> Int] /\ s[0] = 0 /\ s[n] = Total(v)
           /\ r \in [0 .. n -> Int] /\ r[0] = 0 /\ r[n] = Total(Squares(v))
           /\ \A j \in 1 .. n : s[j] = s[j - 1] + v[j] /\ r[j] = r[j - 1] + v[j] * v[j]
  BY SquareSums
<1>2. PICK a, b :
           /\ a \in [0 .. n -> Int] /\ a[0] = 0 /\ a[n] = Total(w)
           /\ b \in [0 .. n -> Int] /\ b[0] = 0 /\ b[n] = Total(Squares(w))
           /\ \A j \in 1 .. n : a[j] = a[j - 1] + w[j] /\ b[j] = b[j - 1] + w[j] * w[j]
  BY SquareSums
<1> DEFINE P == {j \in 0 .. n : a[j] = L(s[j], j) /\ b[j] = F(s[j], r[j], j)}
<1>3. 0 \in P
  <2>1. a[0] = x * 0 + 0 * y /\ b[0] = x * x * 0 + 2 * x * y * 0 + 0 * (y * y)
    BY <1>2
  <2> QED  BY <1>1, <2>1
<1>4. ASSUME NEW j \in 1 .. n, j - 1 \in P PROVE j \in P
  <2>1. /\ j \in 0 .. n /\ j - 1 \in 0 .. n /\ j \in Int
        /\ s[j - 1] \in Int /\ r[j - 1] \in Int /\ v[j] \in Int
    <3>1. s \in [0 .. n -> Int] /\ r \in [0 .. n -> Int]  BY <1>1
    <3>2. j \in 0 .. n /\ j - 1 \in 0 .. n /\ j \in Int  OBVIOUS
    <3> QED  BY <3>1, <3>2
  <2>2. /\ s[j] = s[j - 1] + v[j] /\ r[j] = r[j - 1] + v[j] * v[j]
        /\ a[j] = a[j - 1] + w[j] /\ b[j] = b[j - 1] + w[j] * w[j]
        /\ w[j] = x * v[j] + y
    BY <1>1, <1>2
  <2>3. a[j - 1] = L(s[j - 1], j - 1) /\ b[j - 1] = F(s[j - 1], r[j - 1], j - 1)
    BY <1>4
  <2>4. L(s[j - 1] + v[j], j) = L(s[j - 1], j - 1) + (x * v[j] + y)
    <3> DEFINE e == v[j]
               f == s[j - 1]
    <3>1. e \in Int /\ f \in Int /\ j \in Int  BY <2>1
    <3> HIDE DEF e, f
    <3>2. L(f + e, j) = L(f, j - 1) + (x * e + y)
      BY ONLY <3>1, x \in Int, y \in Int
    <3> QED  BY <3>2 DEF e, f
  <2>5. F(s[j - 1] + v[j], r[j - 1] + v[j] * v[j], j)
          = F(s[j - 1], r[j - 1], j - 1) + (x * v[j] + y) * (x * v[j] + y)
    <3> DEFINE e == v[j]
               f == s[j - 1]
               g == r[j - 1]
    <3>1. e \in Int /\ f \in Int /\ g \in Int /\ j \in Int  BY <2>1
    <3> HIDE DEF e, f, g
    <3>2. F(f + e, g + e * e, j) = F(f, g, j - 1) + (x * e + y) * (x * e + y)
      BY ONLY <3>1, x \in Int, y \in Int, SquareOfLine
    <3> QED  BY <3>2 DEF e, f, g
  <2> HIDE DEF L, F
  <2> QED  BY <2>1, <2>2, <2>3, <2>4, <2>5
<1> HIDE DEF P
<1>5. \A j \in 0 .. n : j \in P  BY <1>3, <1>4, Upwards
<1>6. n \in P  BY <1>5
<1> QED  BY <1>1, <1>2, <1>6 DEF P

\* Values that are far out are rare: each of them takes its part of the squares.
LEMMA FarIsRare ==
  ASSUME NEW n \in Nat, NEW v \in [1 .. n -> Int], NEW x \in Int, NEW y \in Int,
         NEW t \in Nat, NEW C \in SUBSET (1 .. n), \A j \in C : t <= x * v[j] + y
  PROVE  /\ Cardinality(C) \in 0 .. n
         /\ Cardinality(C) * (t * t)
              <= x * x * Total(Squares(v)) + 2 * x * y * Total(v) + n * (y * y)
<1> DEFINE F(s, r, j) == x * x * r + 2 * x * y * s + j * (y * y)
           U(j) == C \cap (1 .. j)
<1>1. PICK s, r :
           /\ s \in [0 .. n -> Int] /\ s[0] = 0 /\ s[n] = Total(v)
           /\ r \in [0 .. n -> Int] /\ r[0] = 0 /\ r[n] = Total(Squares(v))
           /\ \A j \in 1 .. n : s[j] = s[j - 1] + v[j] /\ r[j] = r[j - 1] + v[j] * v[j]
  BY SquareSums
<1> DEFINE P == {j \in 0 .. n : /\ IsFiniteSet(U(j)) /\ Cardinality(U(j)) \in 0 .. j
                                /\ Cardinality(U(j)) * (t * t) <= F(s[j], r[j], j)}
<1>2. 0 \in P
  <2>1. U(0) = {}  OBVIOUS
  <2>2. IsFiniteSet(U(0)) /\ Cardinality(U(0)) = 0
    <3> HIDE DEF U
    <3> QED  BY <2>1, FS_EmptySet
  <2>3. F(0, 0, 0) = 0 /\ 0 * (t * t) = 0  OBVIOUS
  <2>4. 0 \in 0 .. n /\ 0 \in 0 .. 0  OBVIOUS
  <2> HIDE DEF U, F
  <2> QED  BY <1>1, <2>2, <2>3, <2>4
<1>3. ASSUME NEW j \in 1 .. n, j - 1 \in P PROVE j \in P
  <2>1. /\ j \in 0 .. n /\ j - 1 \in 0 .. n /\ j \in Int
        /\ s[j - 1] \in Int /\ r[j - 1] \in Int /\ v[j] \in Int
    <3>1. s \in [0 .. n -> Int] /\ r \in [0 .. n -> Int]  BY <1>1
    <3>2. j \in 0 .. n /\ j - 1 \in 0 .. n /\ j \in Int  OBVIOUS
    <3> QED  BY <3>1, <3>2
  <2> DEFINE line == x * v[j] + y
             rest == F(s[j - 1], r[j - 1], j - 1)
             c == Cardinality(U(j - 1))
  <2>2. line \in Int /\ rest \in Int /\ t * t \in Int
    <3> DEFINE a == s[j - 1]
               b == r[j - 1]
    <3>1. a \in Int /\ b \in Int /\ v[j] \in Int /\ j \in Int  BY <2>1
    <3> HIDE DEF a, b
    <3>2. x * x * b + 2 * x * y * a + (j - 1) * (y * y) \in Int  BY <3>1
    <3> QED  BY <3>1, <3>2 DEF a, b
  <2>3. F(s[j], r[j], j) = rest + line * line
    <3>1. F(s[j - 1] + v[j], r[j - 1] + v[j] * v[j], j) = rest + line * line
      <4> DEFINE e == v[j]
                 f == s[j - 1]
                 g == r[j - 1]
      <4>1. e \in Int /\ f \in Int /\ g \in Int /\ j \in Int  BY <2>1
      <4> HIDE DEF e, f, g
      <4>2. F(f + e, g + e * e, j) = F(f, g, j - 1) + (x * e + y) * (x * e + y)
        BY ONLY <4>1, x \in Int, y \in Int, SquareOfLine
      <4> QED  BY <4>2 DEF e, f, g
    <3>2. s[j] = s[j - 1] + v[j] /\ r[j] = r[j - 1] + v[j] * v[j]  BY <1>1
    <3> HIDE DEF F, rest, line
    <3> QED  BY <3>1, <3>2
  <2>4. IsFiniteSet(U(j - 1)) /\ c \in 0 .. j - 1 /\ c * (t * t) <= rest
    BY <1>3
  <2>5. CASE j \in C
    <3>1. U(j) = U(j - 1) \cup {j} /\ j \notin U(j - 1)  BY <2>1, <2>5
    <3>2. IsFiniteSet(U(j)) /\ Cardinality(U(j)) = c + 1
      <4> HIDE DEF U
      <4>1. IsFiniteSet(U(j - 1) \cup {j})
            /\ Cardinality(U(j - 1) \cup {j}) = Cardinality(U(j - 1)) + 1
        BY <2>4, <3>1, FS_AddElement
      <4> QED  BY <3>1, <4>1 DEF c
    <3>3. t <= line  BY <2>5
    <3> HIDE DEF line, rest, U, c, F
    <3>4. t * t <= line * line  BY ONLY <2>2, <3>3, t \in Nat
    <3>5. (c + 1) * (t * t) = c * (t * t) + t * t  BY ONLY <2>2, <2>4, j \in 1 .. n, n \in Nat
    <3>6. (c + 1) * (t * t) <= rest + line * line
      <4> DEFINE tt == t * t
                 ll == line * line
                 ct == c * tt
      <4>1. tt \in Int /\ ll \in Int /\ ct \in Int /\ (c + 1) * tt = ct + tt
        BY <2>2, <2>4, <3>5
      <4>2. tt <= ll /\ ct <= rest  BY <2>4, <3>4
      <4> HIDE DEF tt, ll, ct
      <4>3. ct + tt <= rest + ll  BY <2>2, <4>1, <4>2
      <4> QED  BY <4>1, <4>3 DEF tt, ll
    <3>7. Cardinality(U(j)) \in 0 .. j  BY <2>4, <3>2
    <3> QED  BY <2>1, <2>3, <3>2, <3>6, <3>7 DEF U
  <2>6. CASE j \notin C
    <3>1. U(j) = U(j - 1)  BY <2>1, <2>6
    <3> HIDE DEF line, rest, U, c, F
    <3>2. 0 <= line * line /\ line * line \in Int  BY ONLY <2>2
    <3>3. c * (t * t) <= rest + line * line
      <4> DEFINE ll == line * line
                 ct == c * (t * t)
      <4>1. ct \in Int /\ ll \in Int /\ 0 <= ll /\ ct <= rest  BY <2>2, <2>4, <3>2
      <4> HIDE DEF ll, ct
      <4>2. ct <= rest + ll  BY <2>2, <4>1
      <4> QED  BY <4>2 DEF ll, ct
    <3>4. Cardinality(U(j)) = c /\ IsFiniteSet(U(j))  BY <2>4, <3>1 DEF c
    <3>5. Cardinality(U(j)) \in 0 .. j  BY <2>4, <3>4
    <3> QED  BY <2>1, <2>3, <3>3, <3>4, <3>5
  <2> QED  BY <2>5, <2>6
<1> HIDE DEF P
<1>4. \A j \in 0 .. n : j \in P  BY <1>2, <1>3, Upwards
<1>5. n \in P  BY <1>4
<1>6. U(n) = C  OBVIOUS
<1> HIDE DEF U
<1> QED  BY <1>1, <1>5, <1>6 DEF P

-----------------------------------------------------------------------------
(***************************************************************************)
(* What an interval says of the values it was made of, which is what       *)
(* Cantelli's inequality says of a mean and a standard deviation.          *)
(***************************************************************************)

\* The part that c values take of the squares, when they are on a line that
\* serves Cantelli's inequality best.
LEMMA CantelliLine ==
  ASSUME NEW n \in Int, NEW a \in Int, NEW b \in Int, NEW u \in Int, NEW s \in Int,
         s = n * b - a * a
  PROVE  (u * n) * (u * n) * b + 2 * (u * n) * (s - u * a) * a
           + n * ((s - u * a) * (s - u * a)) = (n * s) * (u * u + s)
<1>1. (u * n) * (u * n) * b + 2 * (u * n) * (s - u * a) * a
           + n * ((s - u * a) * (s - u * a))
        = (u * u) * n * (n * b - a * a) + n * (s * s)
  BY ONLY n \in Int, a \in Int, b \in Int, u \in Int, s \in Int
<1>2. (u * u) * n * s + n * (s * s) = (n * s) * (u * u + s)
  BY ONLY n \in Int, u \in Int, s \in Int
<1> QED  BY <1>1, <1>2, s = n * b - a * a, Zenon

\* What is left of a factor on both sides.
LEMMA Cancel ==
  ASSUME NEW t \in Nat, t > 0, NEW x \in Int, NEW y \in Int, x * t <= y * t
  PROVE  x <= y
OBVIOUS

\* A spread is not negative.
LEMMA SpreadIsNatural ==
  ASSUME NEW n \in Nat \ {0}, NEW v \in [1 .. n -> Int]
  PROVE  Spread(v) \in Nat /\ Spread(v) = n * Total(Squares(v)) - Total(v) * Total(v)
<1> DEFINE a == Total(v)
           b == Total(Squares(v))
           s == n * b - a * a
<1>1. a \in Int /\ b \in Int
  <2>1. Squares(v) \in [1 .. n -> Int]  BY SquaresAre
  <2> HIDE DEF a, b
  <2>2. Total(v) \in Int /\ Total(Squares(v)) \in Int  BY <2>1, SumsAre
  <2> QED  BY <2>2 DEF a, b
<1>2. Spread(v) = s  BY IsSequence DEF Spread
<1>3. 0 * (0 * 0) <= n * n * b + 2 * n * (-a) * a + n * ((-a) * (-a))
  <2>1. {} \in SUBSET (1 .. n) /\ n \in Int /\ -a \in Int /\ 0 \in Nat  BY <1>1
  <2>2. \A j \in {} : 0 <= n * v[j] + (-a)  OBVIOUS
  <2>3. Cardinality({}) = 0  BY FS_EmptySet
  <2> HIDE DEF a, b
  <2>4. Cardinality({}) * (0 * 0)
          <= n * n * Total(Squares(v)) + 2 * n * (-a) * Total(v) + n * ((-a) * (-a))
    BY ONLY <2>1, <2>2, n \in Nat \ {0}, v \in [1 .. n -> Int], FarIsRare
  <2> QED  BY <2>3, <2>4, Zenon DEF a, b
<1> HIDE DEF a, b
<1>4. n * n * b + 2 * n * (-a) * a + n * ((-a) * (-a)) = s * n
  BY ONLY <1>1, n \in Nat \ {0}
<1>5. 0 * n <= s * n
  <2>1. 0 * (0 * 0) = 0 /\ 0 * n = 0  OBVIOUS
  <2> QED  BY <1>3, <1>4, <2>1, Zenon
<1>6. s \in Int  BY ONLY <1>1, n \in Nat \ {0}
<1> HIDE DEF s
<1>7. 0 <= s
  <2>1. 0 \in Int /\ n \in Nat /\ n > 0  OBVIOUS
  <2> QED  BY ONLY <1>5, <1>6, <2>1, Cancel
<1> QED  BY <1>2, <1>6, <1>7 DEF a, b, s

\* The last step of it: how many there may be.
LEMMA FewRemain ==
  ASSUME NEW n \in Nat \ {0}, NEW c \in Nat, NEW w \in Nat \ {0}, NEW s \in Nat, NEW q \in Nat,
         c * (w + s) <= n * s, q * s <= 10 * (n - 1) * w
  PROVE  c * (q + 10 * (n - 1)) <= 10 * n * (n - 1)
<1> DEFINE h == 10 * (n - 1)
<1>1. h \in Nat  OBVIOUS
<1>2. c * w <= (n - c) * s
  <2>1. c * (w + s) = c * w + c * s /\ (n - c) * s = n * s - c * s
    BY ONLY n \in Nat \ {0}, c \in Nat, w \in Nat \ {0}, s \in Nat
  <2> DEFINE cw == c * w
             cs == c * s
             ns == n * s
  <2>2. cw \in Int /\ cs \in Int /\ ns \in Int  OBVIOUS
  <2>3. cw + cs <= ns /\ (n - c) * s = ns - cs  BY <2>1
  <2> HIDE DEF cw, cs, ns
  <2>4. cw <= ns - cs  BY ONLY <2>2, <2>3
  <2> QED  BY <2>3, <2>4 DEF cw
<1> HIDE DEF h
<1>3. c * q <= h * (n - c)
  <2>1. CASE s = 0
    <3>1. c * w <= 0  BY ONLY <1>2, <2>1, n \in Nat \ {0}, c \in Nat
    <3>2. c = 0  BY ONLY <3>1, c \in Nat, w \in Nat \ {0}
    <3>3. c * q = 0 /\ h * (n - c) = h * n  BY <3>2
    <3>4. 0 <= h * n  BY ONLY <1>1, n \in Nat \ {0}
    <3> QED  BY <3>3, <3>4
  <2>2. CASE s # 0
    <3>1. c * (q * s) <= c * (h * w)
      <4> DEFINE x == q * s
                 y == h * w
      <4>1. x \in Nat /\ y \in Nat /\ x <= y  BY <1>1 DEF h
      <4> HIDE DEF x, y
      <4>2. c * x <= c * y  BY ONLY <4>1, c \in Nat
      <4> QED  BY <4>2 DEF x, y
    <3>2. h * (c * w) <= h * ((n - c) * s)
      <4> DEFINE x == c * w
                 y == (n - c) * s
      <4>1. x \in Int /\ y \in Int /\ x <= y  BY <1>2
      <4> HIDE DEF x, y
      <4>2. h * x <= h * y  BY ONLY <4>1, <1>1
      <4> QED  BY <4>2 DEF x, y
    <3>3. c * (q * s) = (c * q) * s /\ c * (h * w) = h * (c * w)
          /\ h * ((n - c) * s) = (h * (n - c)) * s
      BY ONLY <1>1, n \in Nat \ {0}, c \in Nat, w \in Nat \ {0}, s \in Nat, q \in Nat
    <3> DEFINE k1 == c * (q * s)
               k2 == c * (h * w)
               k3 == h * ((n - c) * s)
    <3>4. k1 \in Int /\ k2 \in Int /\ k3 \in Int /\ k1 <= k2 /\ k2 <= k3
      BY <1>1, <3>1, <3>2, <3>3
    <3> HIDE DEF k1, k2, k3
    <3>5. k1 <= k3  BY ONLY <3>4
    <3>6. (c * q) * s <= (h * (n - c)) * s  BY <3>3, <3>5, Zenon DEF k1, k3
    <3>7. c * q \in Int /\ h * (n - c) \in Int /\ s \in Nat /\ s > 0  BY <1>1, <2>2
    <3> QED  BY ONLY <3>6, <3>7, Cancel
  <2> QED  BY <2>1, <2>2
<1>4. c * (q + h) = c * q + h * c /\ h * (n - c) = n * h - h * c
  BY ONLY <1>1, n \in Nat \ {0}, c \in Nat, q \in Nat
<1> DEFINE cq == c * q
           hc == h * c
           nh == n * h
<1>5. cq \in Int /\ hc \in Int /\ nh \in Int /\ cq <= nh - hc
  BY <1>1, <1>3, <1>4
<1> HIDE DEF cq, hc, nh
<1>6. cq + hc <= nh  BY ONLY <1>5
<1>7. c * (q + h) <= n * h  BY <1>4, <1>6 DEF cq, hc, nh
<1>8. n * h = 10 * n * (n - 1)  BY DEF h
<1> QED  BY <1>7, <1>8 DEF h

\* Few values are beyond an end that is so many standard errors from their mean.
LEMMA SpreadBounds ==
  ASSUME NEW n \in Nat \ {0}, NEW v \in [1 .. n -> Int], NEW u \in Int, u # 0,
         NEW C \in SUBSET (1 .. n), \A j \in C : u * u <= u * (n * v[j] - Total(v)),
         NEW q \in Nat, q * Spread(v) <= 10 * (n - 1) * (u * u)
  PROVE  Few(C, n, q)
<1> DEFINE a == Total(v)
           b == Total(Squares(v))
           s == Spread(v)
           c == Cardinality(C)
           y == s - u * a
           w == u * u
           t == w + s
<1>1. a \in Int /\ b \in Int
  <2>1. Squares(v) \in [1 .. n -> Int]  BY SquaresAre
  <2> HIDE DEF a, b
  <2>2. Total(v) \in Int /\ Total(Squares(v)) \in Int  BY <2>1, SumsAre
  <2> QED  BY <2>2 DEF a, b
<1>2. s \in Nat /\ s = n * b - a * a  BY SpreadIsNatural
<1>3. w \in Nat \ {0}  BY ONLY u \in Int, u # 0
<1> HIDE DEF a, b, s, c
<1>4. y \in Int /\ u * n \in Int /\ t \in Nat /\ t > 0  BY <1>1, <1>2, <1>3
<1>5. \A j \in C : t <= (u * n) * v[j] + y
  <2> TAKE j \in C
  <2> DEFINE e == v[j]
  <2>1. e \in Int /\ w <= u * (n * e - a)  BY DEF a
  <2> HIDE DEF e
  <2>2. u * (n * e - a) + s = (u * n) * e + y
    BY ONLY <1>1, <1>2, <2>1, u \in Int, n \in Nat \ {0}
  <2> DEFINE l == u * (n * e - a)
  <2>3. l \in Int /\ w <= l /\ l + s = (u * n) * e + y
    BY <1>1, <2>1, <2>2
  <2> HIDE DEF l, w, y
  <2>4. w + s <= l + s  BY ONLY <1>2, <1>3, <2>3
  <2> QED  BY <2>3, <2>4 DEF e
<1>6. c \in 0 .. n /\ c * (t * t)
        <= (u * n) * (u * n) * b + 2 * (u * n) * y * a + n * (y * y)
  <2> HIDE DEF y, t
  <2>1. Cardinality(C) \in 0 .. n /\ Cardinality(C) * (t * t)
        <= (u * n) * (u * n) * Total(Squares(v)) + 2 * (u * n) * y * Total(v) + n * (y * y)
    BY ONLY <1>4, <1>5, n \in Nat \ {0}, v \in [1 .. n -> Int], C \in SUBSET (1 .. n), FarIsRare
  <2> QED  BY <2>1 DEF a, b, c
<1>7. (u * n) * (u * n) * b + 2 * (u * n) * y * a + n * (y * y) = (n * s) * t
  BY ONLY <1>1, <1>2, n \in Nat \ {0}, u \in Int, CantelliLine
<1>8. c \in Nat /\ c * (t * t) <= (n * s) * t  BY <1>6, <1>7
<1> HIDE DEF y, w
<1>9. c * t <= n * s
  <2> HIDE DEF t
  <2>1. c * (t * t) = (c * t) * t  BY ONLY <1>4, <1>8
  <2>2. (c * t) * t <= (n * s) * t  BY <1>8, <2>1, Zenon
  <2>3. c * t \in Int /\ n * s \in Int  BY ONLY <1>2, <1>4, <1>8, n \in Nat \ {0}
  <2> QED  BY ONLY <1>4, <2>2, <2>3, Cancel
<1>10. q * s <= 10 * (n - 1) * w  BY DEF s, w
<1>11. c * (q + 10 * (n - 1)) <= 10 * n * (n - 1)
  BY ONLY <1>2, <1>3, <1>8, <1>9, <1>10, q \in Nat, n \in Nat \ {0}, FewRemain
<1> QED  BY <1>11 DEF c, Few

\* What an interval says whose upper end is not above the margin ...
LEMMA ReachesTells ==
  ASSUME NEW n \in Nat \ {0}, NEW v \in [1 .. n -> Int], NEW m \in Nat, NEW q \in Nat,
         n * m * Floor <= n * m * Margin - Total(v),
         q * Spread(v) <= 10 * (n - 1) * ((n * m * Margin - Total(v))
                                          * (n * m * Margin - Total(v)))
  PROVE  NotSlower(v, m, q)
<1> DEFINE a == Total(v)
           M == m * Margin
           w == n * M - a
           u == w + 1
           C == {j \in 1 .. n : v[j] > M}
<1>0. Margin \in Nat /\ Floor \in Nat  BY ProcessExperimentAssumption
<1>1. a \in Int /\ M \in Nat  BY <1>0, SumsAre
<1>2. n * m * Margin = n * M /\ n * m * Floor \in Nat  BY ONLY <1>0, n \in Nat \ {0}, m \in Nat
<1> HIDE DEF a, M
<1>3. w \in Nat /\ u \in Nat \ {0}
  <2>1. n * M \in Int  BY <1>1
  <2> DEFINE z == n * M
             f == n * m * Floor
  <2>2. z \in Int /\ f \in Nat /\ f <= z - a  BY <1>2, <2>1 DEF a
  <2> HIDE DEF z, f
  <2>3. z - a \in Nat /\ z - a + 1 \in Nat \ {0}  BY ONLY <2>2, <1>1
  <2> QED  BY <2>3 DEF z
<1>4. \A j \in C : u * u <= u * (n * v[j] - a)
  <2> TAKE j \in C
  <2> DEFINE e == v[j]
  <2>1. e \in Int /\ e >= M + 1  BY <1>1
  <2> HIDE DEF e
  <2>2. n * e >= n * (M + 1)  BY ONLY <2>1, <1>1, n \in Nat \ {0}
  <2>3. n * (M + 1) = n * M + n  BY ONLY <1>1, n \in Nat \ {0}
  <2> DEFINE x == n * e
             z == n * M
  <2>4. x \in Int /\ z \in Int /\ x >= z + n  BY <1>1, <2>1, <2>2, <2>3
  <2> HIDE DEF x, z
  <2>5. z - a + 1 <= x - a  BY ONLY <1>1, <2>4, n \in Nat \ {0}
  <2>6. u <= x - a /\ x - a \in Int  BY <1>1, <2>4, <2>5 DEF z
  <2> HIDE DEF u
  <2> DEFINE p == x - a
  <2>7. p \in Int /\ u <= p  BY <2>6
  <2> HIDE DEF p
  <2>8. u * u <= u * p  BY ONLY <1>3, <2>7
  <2> QED  BY <2>8 DEF p, x, e
<1>5. q * Spread(v) <= 10 * (n - 1) * (u * u)
  <2>1. Spread(v) \in Nat  BY SpreadIsNatural
  <2> HIDE DEF C
  <2>2. q * Spread(v) <= 10 * (n - 1) * (w * w)  BY <1>2, Zenon DEF a
  <2> DEFINE h == 10 * (n - 1)
             k1 == q * Spread(v)
  <2>3. h \in Nat /\ k1 \in Nat  BY <2>1
  <2>4. k1 <= h * (w * w)  BY <2>2
  <2> HIDE DEF h, k1, w
  <2>5. w * w <= (w + 1) * (w + 1)  BY ONLY <1>3
  <2> DEFINE x == w * w
             z == (w + 1) * (w + 1)
  <2>6. x \in Int /\ z \in Int /\ x <= z  BY <1>3, <2>5
  <2>7. k1 <= h * x  BY <2>4
  <2> HIDE DEF x, z
  <2>8. h * x <= h * z /\ h * x \in Int /\ h * z \in Int  BY ONLY <2>3, <2>6
  <2>9. k1 <= h * z  BY ONLY <2>3, <2>7, <2>8
  <2> QED  BY <2>9 DEF h, k1, z, u
<1>6. Few(C, n, q)
  <2>1. C \in SUBSET (1 .. n) /\ u \in Int /\ u # 0  BY <1>3
  <2>2. \A j \in C : u * u <= u * (n * v[j] - Total(v))  BY <1>4 DEF a
  <2> HIDE DEF C, u
  <2> QED  BY ONLY <1>5, <2>1, <2>2, n \in Nat \ {0}, v \in [1 .. n -> Int], q \in Nat,
              SpreadBounds
<1>7. a + n * m * Floor <= n * m * Margin
  <2> DEFINE z == n * m * Margin
             f == n * m * Floor
  <2>1. z \in Int /\ f \in Int /\ f <= z - a  BY <1>0, <1>2 DEF a
  <2> HIDE DEF z, f
  <2>2. a + f <= z  BY ONLY <1>1, <2>1
  <2> QED  BY <2>2 DEF z, f
<1>8. Len(v) = n /\ DOMAIN v = 1 .. n  BY IsSequence
<1>9. {j \in DOMAIN v : v[j] > m * Margin} = C  BY <1>8 DEF M
<1> HIDE DEF C
<1> QED  BY <1>6, <1>7, <1>8, <1>9 DEF NotSlower, a

\* ... and one whose lower end is above it.
LEMMA ClearsTells ==
  ASSUME NEW n \in Nat \ {0}, NEW v \in [1 .. n -> Int], NEW m \in Nat, NEW q \in Nat,
         n * m * Floor < Total(v) - n * m * Margin,
         q * Spread(v) <= 10 * (n - 1) * ((Total(v) - n * m * Margin)
                                          * (Total(v) - n * m * Margin))
  PROVE  AllSlower(v, m, q)
<1> DEFINE a == Total(v)
           M == m * Margin
           w == a - n * M
           u == -w
           C == {j \in 1 .. n : v[j] <= M}
<1>0. Margin \in Nat /\ Floor \in Nat  BY ProcessExperimentAssumption
<1>1. a \in Int /\ M \in Nat  BY <1>0, SumsAre
<1>2. n * m * Margin = n * M /\ n * m * Floor \in Nat  BY ONLY <1>0, n \in Nat \ {0}, m \in Nat
<1> HIDE DEF a, M
<1>3. w \in Nat \ {0} /\ u \in Int /\ u # 0 /\ u < 0
  <2>1. n * M \in Int  BY <1>1
  <2> DEFINE z == n * M
             f == n * m * Floor
  <2>2. z \in Int /\ f \in Nat /\ f < a - z  BY <1>2, <2>1 DEF a
  <2> HIDE DEF z, f
  <2>3. a - z \in Nat \ {0}  BY ONLY <2>2, <1>1
  <2>4. w \in Nat \ {0}  BY <2>3 DEF z
  <2> HIDE DEF w
  <2> QED  BY <2>4
<1>4. \A j \in C : u * u <= u * (n * v[j] - a)
  <2> TAKE j \in C
  <2> DEFINE e == v[j]
  <2>1. e \in Int /\ e <= M  BY <1>1
  <2> HIDE DEF e
  <2>2. n * e <= n * M  BY ONLY <2>1, <1>1, n \in Nat \ {0}
  <2> DEFINE x == n * e
             z == n * M
  <2>3. x \in Int /\ z \in Int /\ x <= z  BY <1>1, <2>1, <2>2
  <2>4. u = -(a - z)  OBVIOUS
  <2> HIDE DEF x, z, u
  <2>5. x - a <= u /\ x - a \in Int  BY ONLY <1>1, <2>3, <2>4
  <2>6. u * u <= u * (x - a)
    <3> DEFINE p == -u
               r == -(x - a)
    <3>1. p \in Nat /\ r \in Nat /\ p <= r  BY ONLY <1>3, <2>5
    <3>2. u = -p /\ x - a = -r  BY ONLY <1>3, <2>5
    <3> HIDE DEF p, r
    <3>3. p * p <= p * r  BY ONLY <3>1
    <3>4. (-p) * (-p) = p * p /\ (-p) * (-r) = p * r  BY ONLY <3>1
    <3> QED  BY <3>2, <3>3, <3>4
  <2> QED  BY <2>6 DEF x, e
<1>5. q * Spread(v) <= 10 * (n - 1) * (u * u)
  <2> HIDE DEF C
  <2>1. q * Spread(v) <= 10 * (n - 1) * (w * w)  BY <1>2, Zenon DEF a
  <2> HIDE DEF w
  <2>2. u * u = w * w  BY ONLY <1>3
  <2> QED  BY <2>1, <2>2, Zenon
<1>6. Few(C, n, q)
  <2>1. C \in SUBSET (1 .. n)  OBVIOUS
  <2>2. \A j \in C : u * u <= u * (n * v[j] - Total(v))  BY <1>4 DEF a
  <2> HIDE DEF C, u
  <2> QED  BY ONLY <1>3, <1>5, <2>1, <2>2, n \in Nat \ {0}, v \in [1 .. n -> Int], q \in Nat,
              SpreadBounds
<1>7. a - n * m * Floor > n * m * Margin
  <2> DEFINE z == n * m * Margin
             f == n * m * Floor
  <2>1. z \in Int /\ f \in Int /\ f < a - z  BY <1>0, <1>2 DEF a
  <2> HIDE DEF z, f
  <2>2. a - f > z  BY ONLY <1>1, <2>1
  <2> QED  BY <2>2 DEF z, f
<1>8. Len(v) = n /\ DOMAIN v = 1 .. n  BY IsSequence
<1>9. {j \in DOMAIN v : v[j] <= m * Margin} = C  BY <1>8 DEF M
<1> HIDE DEF C
<1> QED  BY <1>6, <1>7, <1>8, <1>9 DEF AllSlower, a

\* A verdict tells on which side of the margin an end of the interval is.
LEMMA ClassifyTells ==
  ASSUME NEW e, NEW q \in Nat, e.n \in Nat, e.sum \in Int, e.spread \in Int, e.over \in Nat
  PROVE  /\ Classify(e, q) = "regression" => Clears(e, q, e.sum - e.n * Margin)
         /\ Classify(e, q) \in {"improvement", "equivalent", "non_inferior"} =>
              Reaches(e, q, e.n * Margin - e.sum)
<1> DEFINE x == e.sum - e.n * Margin
           y == -(e.sum + e.n * Gain)
           z == e.n * Margin - e.sum
<1>1. Classify(e, q) = "regression" => Clears(e, q, x)  BY Zenon DEF Classify
<1>2. ASSUME Classify(e, q) \in {"improvement", "equivalent", "non_inferior"}
      PROVE  Clears(e, q, y) \/ Reaches(e, q, z)
  BY <1>2 DEF Classify
<1>3. ASSUME Clears(e, q, y) PROVE Reaches(e, q, z)
  <2>0. Margin \in Nat /\ Gain \in Nat /\ Floor \in Nat  BY ProcessExperimentAssumption
  <2> DEFINE n == e.n
             s == e.sum
             f == n * Floor
             g == n * Gain
             m == n * Margin
             k == q * e.spread
             h == 10 * e.over
  <2>1. s \in Int /\ f \in Nat /\ g \in Nat /\ m \in Nat /\ k \in Int /\ h \in Nat
    BY <2>0
  <2>2. f < -(s + g) /\ k < h * (-(s + g)) * (-(s + g))  BY <1>3 DEF Clears
  <2> HIDE DEF n, s, f, g, m, k, h
  <2> DEFINE a == -(s + g)
             b == m - s
  <2>3. a \in Nat /\ b \in Nat /\ a <= b /\ f <= b  BY ONLY <2>1, <2>2
  <2>4. k < h * a * a  BY <2>2
  <2> HIDE DEF a, b
  <2>5. h * a * a <= h * b * b
    <3>1. a * a <= b * b  BY ONLY <2>3
    <3>2. h * a * a = h * (a * a) /\ h * b * b = h * (b * b)  BY ONLY <2>1, <2>3
    <3> DEFINE aa == a * a
               bb == b * b
    <3>3. aa \in Int /\ bb \in Int /\ aa <= bb  BY <2>3, <3>1
    <3> HIDE DEF aa, bb
    <3>4. h * aa <= h * bb  BY ONLY <2>1, <3>3
    <3> QED  BY <3>2, <3>4 DEF aa, bb
  <2> DEFINE u == h * a * a
             w == h * b * b
  <2>6. u \in Int /\ w \in Int /\ k < u /\ u <= w  BY <2>1, <2>3, <2>4, <2>5
  <2> HIDE DEF u, w
  <2>7. k <= w  BY ONLY <2>1, <2>6
  <2> QED  BY <2>3, <2>7 DEF Reaches, b, w, n, s, f, m, k, h
<1> HIDE DEF x, y, z
<1>4. Classify(e, q) \in {"improvement", "equivalent", "non_inferior"} => Reaches(e, q, z)
  BY <1>2, <1>3
<1> QED  BY <1>1, <1>4 DEF x, z

\* An estimate whose spread covers that of the differences of n processes: its
\* verdict tells how many of them may be on the other side of the margin.
LEMMA EstimateTells ==
  ASSUME NEW n \in Nat \ {0}, NEW v \in [1 .. n -> Int], NEW m \in Nat,
         NEW z \in Nat, z > 0, NEW q \in Nat,
         NEW e, e.n = n * m, e.sum = Total(v), e.over = z * (n - 1),
         e.spread \in Int, z * Spread(v) <= e.spread
  PROVE  /\ Classify(e, q) = "regression" => AllSlower(v, m, q)
         /\ Classify(e, q) \in {"improvement", "equivalent", "non_inferior"} =>
              NotSlower(v, m, q)
<1>0. Margin \in Nat /\ Floor \in Nat  BY ProcessExperimentAssumption
<1>1. Total(v) \in Int /\ Spread(v) \in Nat /\ n - 1 \in Nat /\ n * m \in Nat
  <2>1. Total(v) \in Int  BY SumsAre
  <2>2. Spread(v) \in Nat  BY SpreadIsNatural
  <2> QED  BY <2>1, <2>2
<1>2. e.n \in Nat /\ e.sum \in Int /\ e.over \in Nat  BY <1>1
<1>3. ASSUME NEW w \in Int, q * e.spread <= 10 * e.over * w * w
      PROVE  q * Spread(v) <= 10 * (n - 1) * (w * w)
  <2> DEFINE s == Spread(v)
             p == n - 1
             r == e.spread
  <2>1. s \in Nat /\ p \in Nat /\ r \in Int  BY <1>1
  <2>2. q * r <= 10 * (z * p) * w * w /\ z * s <= r  BY <1>3
  <2> HIDE DEF s, p, r
  <2>3. 10 * (z * p) * w * w = (10 * p * (w * w)) * z
    BY ONLY <2>1, z \in Nat, w \in Int
  <2>4. (q * s) * z <= q * r
    <3>1. (q * s) * z = q * (z * s)  BY ONLY <2>1, q \in Nat, z \in Nat
    <3> DEFINE x == z * s
    <3>2. x \in Int /\ x <= r  BY <2>1, <2>2
    <3> HIDE DEF x
    <3>3. q * x <= q * r  BY ONLY <2>1, <3>2, q \in Nat
    <3> QED  BY <3>1, <3>3 DEF x
  <2> DEFINE k1 == (q * s) * z
             k2 == q * r
             k3 == (10 * p * (w * w)) * z
  <2>5. k1 \in Int /\ k2 \in Int /\ k3 \in Int /\ k1 <= k2 /\ k2 <= k3
    BY <2>1, <2>2, <2>3, <2>4
  <2> HIDE DEF k1, k2, k3
  <2>6. k1 <= k3  BY ONLY <2>5
  <2>7. (q * s) * z <= (10 * p * (w * w)) * z  BY <2>6 DEF k1, k3
  <2>8. q * s \in Int /\ 10 * p * (w * w) \in Int  BY ONLY <2>1, q \in Nat, w \in Int
  <2>9. q * s <= 10 * p * (w * w)  BY ONLY <2>7, <2>8, z \in Nat, z > 0, Cancel
  <2> QED  BY <2>9 DEF s, p
<1>4. ASSUME Clears(e, q, e.sum - e.n * Margin) PROVE AllSlower(v, m, q)
  <2> DEFINE w == Total(v) - n * m * Margin
  <2>1. w \in Int  BY <1>0, <1>1
  <2>2. e.sum - e.n * Margin = w  OBVIOUS
  <2>3. e.n * Floor < w /\ q * e.spread < 10 * e.over * w * w  BY <1>4, <2>2 DEF Clears
  <2> DEFINE k == q * e.spread
             l == 10 * e.over * w * w
  <2>4. k \in Int /\ l \in Int /\ k < l
    <3> HIDE DEF w
    <3> QED  BY <1>2, <2>1, <2>3
  <2> HIDE DEF k, l
  <2>5. k <= l  BY ONLY <2>4
  <2>6. q * e.spread <= 10 * e.over * w * w  BY <2>5 DEF k, l
  <2> HIDE DEF w
  <2>7. q * Spread(v) <= 10 * (n - 1) * (w * w)  BY <1>3, <2>1, <2>6, Zenon
  <2>8. n * m * Floor < w  BY <2>3
  <2> QED  BY ONLY <2>7, <2>8, n \in Nat \ {0}, v \in [1 .. n -> Int], m \in Nat, q \in Nat,
              ClearsTells DEF w
<1>5. ASSUME Reaches(e, q, e.n * Margin - e.sum) PROVE NotSlower(v, m, q)
  <2> DEFINE w == n * m * Margin - Total(v)
  <2>1. w \in Int  BY <1>0, <1>1
  <2>2. e.n * Margin - e.sum = w  OBVIOUS
  <2>3. e.n * Floor <= w /\ q * e.spread <= 10 * e.over * w * w  BY <1>5, <2>2 DEF Reaches
  <2> HIDE DEF w
  <2>4. q * Spread(v) <= 10 * (n - 1) * (w * w)  BY <1>3, <2>1, <2>3, Zenon
  <2>5. n * m * Floor <= w  BY <2>3
  <2> QED  BY ONLY <2>4, <2>5, n \in Nat \ {0}, v \in [1 .. n -> Int], m \in Nat, q \in Nat,
              ReachesTells DEF w
<1> QED  BY <1>2, <1>4, <1>5, ClassifyTells

-----------------------------------------------------------------------------
(***************************************************************************)
(* What a population says of what was measured.                            *)
(***************************************************************************)

\* Every attempt has left its packet, and r is the aggregate of them.
Population(r) ==
  /\ request \in Request
  /\ Children
  /\ \A k \in Index : file[k] # None
  /\ IsAggregate(r)

\* A request has finitely many attempts.
LEMMA RequestFacts ==
  ASSUME request \in Request
  PROVE  /\ request.processes \in Nat /\ Index = 1 .. request.processes
         /\ IsFiniteSet(Index)
         /\ inventory \in Seq(DOMAIN Latency)
<1>1. request.processes \in Nat /\ inventory \in Seq(DOMAIN Latency)
  BY ProcessExperimentAssumption DEF inventory
<1>2. IsFiniteSet(1 .. request.processes)
  BY <1>1, FS_Interval
<1> QED BY <1>1, <1>2 DEF Index

\* What may be confirmed is of good attempts, and has a value for each arm and replicate.
LEMMA ConfirmableIsSound ==
  ASSUME NEW r, Population(r), Confirmable(r)
  PROVE  /\ Sound(file) /\ r.replicates = file /\ r.arms = inventory
         /\ DOMAIN file = Index /\ IsFiniteSet(Index) /\ Index # {} /\ 1 \in Index
         /\ \A k \in Index, a \in ToSet(inventory) : file[k].mean[a] \in Int
<1>1. request.processes \in Nat /\ Index = 1 .. request.processes /\ IsFiniteSet(Index)
  BY RequestFacts DEF Population
<1>2. Len(r.replicates) = r.planned /\ r.planned >= 3 /\ r.planned = request.processes
  BY DEF Confirmable, Population, IsAggregate
<1>3. request.processes # 1
  BY <1>1, <1>2
<1>4. r.replicates = file /\ r.arms = inventory
  BY <1>3 DEF Population, IsAggregate
<1>5. DOMAIN file = Index
  BY DEF Population, Children
<1>6. 1 \in Index
  BY <1>1, <1>2
<1>7. \A k \in Index, a \in ToSet(inventory) : file[k].mean[a] \in Int
  BY DEF Population, Children, IsPacket
<1>8. Sound(file)
  <2>1. Len(file) >= 3
    BY <1>2, <1>4
  <2>2. \A k \in Index : /\ file[k] # None /\ file[k].flaw = Sane
                         /\ file[k].place \in Verified /\ file[k].place = r.place
                         /\ file[k].binary = r.binary
    BY <1>4, <1>5 DEF Confirmable, Compatible, Population
  <2>3. \A k, m \in Index : file[k].run = file[m].run => k = m
    BY <1>4, <1>5 DEF Confirmable
  <2> QED BY <1>5, <2>1, <2>2, <2>3 DEF Sound
<1> QED BY <1>1, <1>4, <1>5, <1>6, <1>7, <1>8

\* The estimate of two arms of the same processes is of the differences that
\* these saw, and its verdict speaks of them.
LEMMA VerdictTells ==
  ASSUME NEW r, Population(r), Confirmable(r), NEW p \in Earlier, NEW q \in request.critical
  PROVE  LET e == Paired(r, inventory[p[1]], inventory[p[2]]) IN
         /\ Classify(e, q) = "regression" => AllSlower(Slower(p), 1, q)
         /\ Classify(e, q) \in {"improvement", "equivalent", "non_inferior"} =>
              NotSlower(Slower(p), 1, q)
<1> DEFINE a == inventory[p[1]]
           b == inventory[p[2]]
           n == request.processes
           v == Slower(p)
           e == Paired(r, a, b)
<1>1. /\ r.replicates = file /\ DOMAIN file = Index /\ 1 \in Index
      /\ \A k \in Index, c \in ToSet(inventory) : file[k].mean[c] \in Int
  BY ConfirmableIsSound
<1>2. Index = 1 .. n /\ n \in Nat \ {0} /\ q \in Nat
  <2>1. n \in Nat /\ Index = 1 .. n  BY RequestFacts DEF Population
  <2>2. q \in Nat  BY ProcessExperimentAssumption DEF Population
  <2> QED  BY <1>1, <2>1, <2>2
<1>3. a \in ToSet(inventory) /\ b \in ToSet(inventory)  BY DEF Earlier, ToSet
<1>4. v \in [1 .. n -> Int]
  <2> HIDE DEF a, b, n
  <2>1. v = [k \in Index |-> file[k].mean[b] - file[k].mean[a]]  BY DEF Slower, a, b
  <2>2. \A k \in Index : file[k].mean[b] - file[k].mean[a] \in Int  BY <1>1, <1>3
  <2> QED  BY <1>2, <2>1, <2>2
<1>5. e = [n |-> Len(v), sum |-> Total(v), spread |-> Spread(v), over |-> Len(v) - 1]
  <2> DEFINE d == [k \in DOMAIN r.replicates |->
                     r.replicates[k].mean[b] - r.replicates[k].mean[a]]
  <2>1. d = v  BY <1>1 DEF Slower
  <2>2. e = [n |-> Len(d), sum |-> Total(d), spread |-> Spread(d), over |-> Len(d) - 1]
    BY Zenon DEF Paired
  <2> HIDE DEF d, v, e
  <2> QED  BY <2>1, <2>2
<1> HIDE DEF v, n, e
<1>6. Len(v) = n  BY <1>2, <1>4, IsSequence
<1>7. Spread(v) \in Nat  BY <1>2, <1>4, SpreadIsNatural
<1>8. /\ e.n = n * 1 /\ e.sum = Total(v) /\ e.over = 1 * (n - 1)
      /\ e.spread \in Int /\ 1 * Spread(v) <= e.spread
  BY <1>2, <1>5, <1>6, <1>7
<1>9. 1 \in Nat /\ 1 > 0  OBVIOUS
<1>10. /\ Classify(e, q) = "regression" => AllSlower(v, 1, q)
       /\ Classify(e, q) \in {"improvement", "equivalent", "non_inferior"} =>
            NotSlower(v, 1, q)
  BY ONLY <1>2, <1>4, <1>8, <1>9, EstimateTells
<1> QED  BY <1>10 DEF e, v

\* Sum and spread of values on a line.
OnLine(n, v, x, y) == [j \in 1 .. n |-> x * v[j] + y]

LEMMA SpreadOfLine ==
  ASSUME NEW n \in Nat \ {0}, NEW v \in [1 .. n -> Int], NEW x \in Int, NEW y \in Int,
         NEW w, w = OnLine(n, v, x, y)
  PROVE  Total(w) = x * Total(v) + n * y /\ Spread(w) = x * x * Spread(v)
<1>0. w \in [1 .. n -> Int] /\ \A j \in 1 .. n : w[j] = x * v[j] + y
  <2>1. \A j \in 1 .. n : x * v[j] + y \in Int  OBVIOUS
  <2> QED  BY <2>1 DEF OnLine
<1> DEFINE a == Total(v)
           b == Total(Squares(v))
<1>1. a \in Int /\ b \in Int
  <2>1. Squares(v) \in [1 .. n -> Int]  BY SquaresAre
  <2> HIDE DEF a, b
  <2>2. Total(v) \in Int /\ Total(Squares(v)) \in Int  BY <2>1, SumsAre
  <2> QED  BY <2>2 DEF a, b
<1>2. Spread(v) = n * b - a * a  BY SpreadIsNatural
<1>3. Spread(w) = n * Total(Squares(w)) - Total(w) * Total(w)  BY <1>0, SpreadIsNatural
<1>4. Total(w) = x * a + n * y /\ Total(Squares(w)) = x * x * b + 2 * x * y * a + n * (y * y)
  <2>1. w \in [1 .. n -> Int] /\ n \in Nat  BY <1>0
  <2>2. \A j \in 1 .. n : w[j] = x * v[j] + y  BY <1>0
  <2> QED  BY ONLY v \in [1 .. n -> Int], x \in Int, y \in Int, <2>1, <2>2, AffineTotals
<1>5. Total(w) = x * Total(v) + n * y  BY <1>4
<1> HIDE DEF a, b
<1>6. n * (x * x * b + 2 * x * y * a + n * (y * y)) - (x * a + n * y) * (x * a + n * y)
        = x * x * (n * b - a * a)
  BY ONLY <1>1, n \in Nat \ {0}, x \in Int, y \in Int
<1>7. Spread(w) = x * x * Spread(v)  BY <1>2, <1>3, <1>4, <1>6, Zenon
<1> QED  BY <1>5, <1>7

\* The estimate of an arm in two populations covers the spread of the new one
\* around the old mean, and its verdict speaks of that.
LEMMA ComparisonTells ==
  ASSUME NEW r, Population(r), control \in Saved, Comparable(control, r),
         NEW a \in ToSet(inventory), NEW q \in request.critical
  PROVE  LET e == Independent(control, r, a) IN
         /\ Classify(e, q) = "regression" =>
              AllSlower(Since(a), Len(control.replicates), q)
         /\ Classify(e, q) \in {"improvement", "equivalent", "non_inferior"} =>
              NotSlower(Since(a), Len(control.replicates), q)
<1> DEFINE b == Column(control, a)
           c == Column(r, a)
           m == Len(control.replicates)
           n == request.processes
           v == Since(a)
           e == Independent(control, r, a)
<1>1. Confirmable(control) /\ Confirmable(r) /\ control.arms = r.arms
  BY DEF Comparable
<1>2. /\ r.replicates = file /\ r.arms = inventory /\ DOMAIN file = Index /\ 1 \in Index
      /\ \A k \in Index, d \in ToSet(inventory) : file[k].mean[d] \in Int
  BY <1>1, ConfirmableIsSound
<1>3. Index = 1 .. n /\ n \in Nat \ {0} /\ q \in Nat
  <2>1. n \in Nat /\ Index = 1 .. n  BY RequestFacts DEF Population
  <2>2. q \in Nat  BY ProcessExperimentAssumption DEF Population
  <2> QED  BY <1>2, <2>1, <2>2
<1>4. /\ m \in Nat /\ m >= 3 /\ DOMAIN control.replicates = 1 .. m
      /\ \A k \in 1 .. m : control.replicates[k].mean[a] \in Int
  <2>1. /\ control.replicates \in Seq(ToSet(control.replicates))
        /\ \A k \in DOMAIN control.replicates, d \in ToSet(control.arms) :
             control.replicates[k].mean[d] \in Int
    BY ProcessExperimentAssumption
  <2>2. m = control.planned /\ control.planned >= 3  BY <1>1 DEF Confirmable
  <2>3. DOMAIN control.replicates = 1 .. m /\ m \in Nat  BY <2>1
  <2> QED  BY <1>1, <1>2, <2>1, <2>2, <2>3
<1>5. b \in [1 .. m -> Int] /\ Len(b) = m
  <2>1. b = [k \in 1 .. m |-> control.replicates[k].mean[a]]  BY <1>4 DEF Column
  <2>2. b \in [1 .. m -> Int]
    <3> HIDE DEF b, m
    <3> QED  BY <1>4, <2>1
  <2> HIDE DEF b, m
  <2> QED  BY <1>4, <2>2, IsSequence
<1>6. c \in [1 .. n -> Int] /\ Len(c) = n /\ \A k \in 1 .. n : c[k] = file[k].mean[a]
  <2>1. DOMAIN r.replicates = 1 .. n /\ r.replicates = file  BY <1>2, <1>3
  <2>2. c = [k \in 1 .. n |-> file[k].mean[a]]
    <3> HIDE DEF n
    <3> QED  BY <2>1 DEF Column
  <2>3. \A k \in 1 .. n : file[k].mean[a] \in Int  BY <1>2, <1>3
  <2> HIDE DEF c, n
  <2>4. c \in [1 .. n -> Int] /\ \A k \in 1 .. n : c[k] = file[k].mean[a]  BY <2>2, <2>3
  <2> QED  BY <1>3, <2>4, IsSequence
<1>7. Total(b) \in Int /\ Total(c) \in Int /\ Spread(b) \in Nat /\ Spread(c) \in Nat
  <2> HIDE DEF b, c, m, n
  <2>1. m \in Nat /\ m \in Nat \ {0} /\ n \in Nat  BY <1>3, <1>4
  <2>2. Total(b) \in Int /\ Total(c) \in Int  BY <1>5, <1>6, <2>1, SumsAre
  <2>3. Spread(b) \in Nat /\ Spread(c) \in Nat  BY <1>3, <1>5, <1>6, <2>1, SpreadIsNatural
  <2> QED  BY <2>2, <2>3
<1> DEFINE y == -Total(b)
<1>8. v = [k \in 1 .. n |-> m * file[k].mean[a] - Total(b)]
  <2> HIDE DEF n
  <2> QED  BY <1>3 DEF Since
<1>9. e = [n |-> m * n, sum |-> m * Total(c) - n * Total(b),
           spread |-> n * n * (n - 1) * Spread(b) + m * m * (m - 1) * Spread(c),
           over |-> (m - 1) * (n - 1)]
  <2>1. e = [n |-> Len(b) * Len(c), sum |-> Len(b) * Total(c) - Len(c) * Total(b),
             spread |-> Len(c) * Len(c) * (Len(c) - 1) * Spread(b)
                        + Len(b) * Len(b) * (Len(b) - 1) * Spread(c),
             over |-> (Len(b) - 1) * (Len(c) - 1)]
    BY Zenon DEF Independent
  <2> HIDE DEF b, c, m, n, e
  <2> QED  BY <1>5, <1>6, <2>1, Zenon
<1> HIDE DEF b, c, m, n, v, e, y
<1>10. y \in Int /\ y = -Total(b)  BY <1>7 DEF y
<1>11. v \in [1 .. n -> Int] /\ v = OnLine(n, c, m, y)
  <2>1. \A k \in 1 .. n : c[k] \in Int /\ v[k] = m * c[k] - Total(b)
    BY <1>6, <1>8
  <2>2. \A d \in Int : m * d - Total(b) = m * d + y /\ m * d - Total(b) \in Int
    BY <1>4, <1>7, <1>10
  <2>3. \A k \in 1 .. n : v[k] = m * c[k] + y /\ v[k] \in Int  BY <2>1, <2>2
  <2>4. v = [k \in 1 .. n |-> v[k]]  BY <1>8
  <2> QED  BY <2>3, <2>4 DEF OnLine
<1>12. Total(v) = m * Total(c) + n * y /\ Spread(v) = m * m * Spread(c)
  <2>1. n \in Nat \ {0} /\ m \in Int  BY <1>3, <1>4
  <2>2. c \in [1 .. n -> Int] /\ y \in Int  BY <1>6, <1>10
  <2> QED  BY ONLY <1>11, <2>1, <2>2, SpreadOfLine
<1> DEFINE sb == Spread(b)
           sc == Spread(c)
           z == m - 1
<1>13. sb \in Nat /\ sc \in Nat /\ z \in Nat /\ z > 0  BY <1>4, <1>7
<1> HIDE DEF sb, sc
<1>14. /\ e.n = m * n /\ e.sum = m * Total(c) - n * Total(b)
       /\ e.spread = n * n * (n - 1) * sb + m * m * (m - 1) * sc
       /\ e.over = (m - 1) * (n - 1)
  BY <1>9, Zenon DEF sb, sc
<1>15. e.n = n * m  BY ONLY <1>3, <1>4, <1>14
<1>16. e.sum = Total(v)
  <2> DEFINE s == Total(b)
             t == Total(c)
  <2>1. s \in Int /\ t \in Int /\ y = -s /\ Total(v) = m * t + n * y /\ e.sum = m * t - n * s
    BY <1>7, <1>10, <1>12, <1>14
  <2> HIDE DEF s, t
  <2>2. m * t + n * (-s) = m * t - n * s  BY ONLY <2>1, <1>3, <1>4
  <2> QED  BY <2>1, <2>2
<1>17. e.spread \in Int /\ z * Spread(v) <= e.spread
  <2> DEFINE l == n * n * (n - 1) * sb
             h == m * m * (m - 1) * sc
  <2>1. l \in Nat
    <3>1. n * n * (n - 1) \in Nat  BY ONLY <1>3
    <3> DEFINE nn == n * n * (n - 1)
    <3> HIDE DEF nn
    <3>2. nn \in Nat => nn * sb \in Nat  BY ONLY <1>13
    <3> QED  BY <3>1, <3>2 DEF nn
  <2>2. h \in Int /\ z * (m * m * sc) = h  BY ONLY <1>4, <1>13
  <2>3. z * Spread(v) = h /\ e.spread = l + h  BY <1>12, <1>14, <2>2 DEF sc
  <2> HIDE DEF l, h, z
  <2> QED  BY <2>1, <2>2, <2>3
<1>18. e.over = z * (n - 1)  BY <1>14
<1> HIDE DEF z
<1>19. /\ Classify(e, q) = "regression" => AllSlower(v, m, q)
       /\ Classify(e, q) \in {"improvement", "equivalent", "non_inferior"} =>
            NotSlower(v, m, q)
  BY ONLY <1>3, <1>4, <1>11, <1>13, <1>15, <1>16, <1>17, <1>18, EstimateTells
<1> QED  BY <1>19 DEF e, v, m

\* A baseline is replaced only where no arm is slower than it.
LEMMA PromotableTells ==
  ASSUME NEW r, Population(r), control \in Saved,
         NEW q \in [ToSet(r.arms) -> request.critical], Promotable(control, r, q)
  PROVE  /\ Comparable(control, r) /\ ToSet(control.arms) = ToSet(inventory)
         /\ \A a \in ToSet(inventory) : \E x \in request.critical :
              NotSlower(Since(a), Len(control.replicates), x)
<1>1. Comparable(control, r)
  BY DEF Promotable
<1>2. control.arms = r.arms /\ r.arms = inventory
  BY <1>1, ConfirmableIsSound DEF Comparable
<1>3. ASSUME NEW a \in ToSet(inventory)
      PROVE  \E x \in request.critical : NotSlower(Since(a), Len(control.replicates), x)
  <2> DEFINE c == [arm |-> a, verdict |-> Classify(Independent(control, r, a), q[a])]
  <2>1. c \in Decisions(control, r, q)
    BY <1>1, <1>2 DEF Decisions
  <2>2. c.verdict \in {"improvement", "equivalent", "non_inferior"}
    <3> HIDE DEF c
    <3> QED BY <2>1 DEF Promotable
  <2>3. Classify(Independent(control, r, a), q[a])
          \in {"improvement", "equivalent", "non_inferior"}
    BY <2>2
  <2>4. q[a] \in request.critical
    BY <1>2
  <2>5. NotSlower(Since(a), Len(control.replicates), q[a])
    BY ONLY <1>1, <2>3, <2>4, Population(r), control \in Saved, a \in ToSet(inventory),
            ComparisonTells
  <2> QED BY <2>4, <2>5
<1> QED BY <1>1, <1>2, <1>3

\* A regression from the baseline is one of an arm that both have.
LEMMA RegressedTells ==
  ASSUME NEW r, Population(r), control \in Saved,
         NEW q \in [ToSet(r.arms) -> request.critical], Regressed(Decisions(control, r, q))
  PROVE  /\ Comparable(control, r)
         /\ \E x \in request.critical, a \in ToSet(inventory) \cap ToSet(control.arms) :
              AllSlower(Since(a), Len(control.replicates), x)
<1>1. Comparable(control, r)
  BY DEF Regressed, Decisions
<1>2. control.arms = r.arms /\ r.arms = inventory
  BY <1>1, ConfirmableIsSound DEF Comparable
<1>3. PICK a \in ToSet(inventory) :
        Classify(Independent(control, r, a), q[a]) = "regression"
  BY <1>1, <1>2 DEF Regressed, Decisions
<1>4. q[a] \in request.critical
  BY <1>2
<1>5. AllSlower(Since(a), Len(control.replicates), q[a])
  BY ONLY <1>1, <1>3, <1>4, Population(r), control \in Saved, a \in ToSet(inventory),
          ComparisonTells
<1> QED BY <1>1, <1>2, <1>4, <1>5

\* No population is compared with itself: it shares its measurements.
LEMMA NotWithItself ==
  ASSUME NEW r, Population(r), NEW q
  PROVE  /\ ~Comparable(r, r) /\ ~Promotable(r, r, q) /\ ~Regressed(Decisions(r, r, q))
<1>1. ~Comparable(r, r)
  <2>1. SUFFICES ASSUME Comparable(r, r) PROVE FALSE
    OBVIOUS
  <2>2. r.replicates = file /\ DOMAIN file = Index /\ 1 \in Index
    BY <2>1, ConfirmableIsSound DEF Comparable
  <2> QED BY <2>1, <2>2 DEF Comparable
<1> QED BY <1>1 DEF Promotable, Regressed, Decisions

\* What the exit code claims.
Passed ==
  /\ \E q \in request.critical : \A p \in Earlier : NotSlower(Slower(p), 1, q)
  /\ \A a \in Shared : \E q \in request.critical :
       NotSlower(Since(a), Len(control.replicates), q)
Failed ==
  \E q \in request.critical :
    \/ \E p \in Earlier : AllSlower(Slower(p), 1, q)
    \/ \E a \in Shared : AllSlower(Since(a), Len(control.replicates), q)

LEMMA ExitClaims ==
  ExitIsJustified <=>
    /\ Confirming /\ exit = 0 => Sound(file) /\ Passed
    /\ exit = 1 => Sound(file) /\ Failed
BY DEF ExitIsJustified, Passed, Failed

LEMMA ExitClaimsAfter ==
  ExitIsJustified' <=>
    /\ Confirming' /\ exit' = 0 => Sound(file)' /\ Passed'
    /\ exit' = 1 => Sound(file)' /\ Failed'
BY DEF ExitIsJustified, Passed, Failed

\* It is about the request and the packets alone.
LEMMA ClaimsKept ==
  ASSUME request' = request, control' = control, Index' = Index, file' = file
  PROVE  /\ Passed' <=> Passed
         /\ Failed' <=> Failed
<1>1. inventory' = inventory /\ Earlier' = Earlier /\ Shared' = Shared
  BY DEF inventory, Earlier, Shared
<1>2. \A p : Slower(p)' = Slower(p)
  BY <1>1 DEF Slower
<1>3. \A a : Since(a)' = Since(a)
  BY DEF Since
<1> QED BY <1>1, <1>2, <1>3 DEF Passed, Failed

\* A pass: no arm is slower than an earlier one, or than it was in the baseline.
LEMMA PassIsJustified ==
  ASSUME NEW r, Population(r), Confirmable(r), NEW q \in request.critical,
         {c.verdict : c \in Confirm(r, q)} \cap {"regression", "inconclusive"} = {},
         control \in Saved \cup {None},
         request.compare => \E x \in [ToSet(r.arms) -> request.critical] :
                              Promotable(control, r, x)
  PROVE  Passed
<1>1. r.arms = inventory
  BY ConfirmableIsSound
<1>2. ASSUME NEW p \in Earlier PROVE NotSlower(Slower(p), 1, q)
  <2> DEFINE a == inventory[p[1]]
             b == inventory[p[2]]
  <2>1. /\ p[1] \in DOMAIN inventory /\ p[2] \in DOMAIN inventory
        /\ p[1] < p[2] /\ a # b
    BY DEF Earlier
  <2>2. <<a, b>> \in Ordered(r.arms)
    BY <1>1, <2>1 DEF Ordered, Pairs
  <2> DEFINE o == <<a, b>>
             c == [pair |-> o, verdict |-> Classify(Paired(r, o[1], o[2]), q)]
  <2>3. c \in Confirm(r, q)
    <3> HIDE DEF a, b
    <3> QED BY <2>2 DEF Confirm
  <2>4. c.verdict \notin {"regression", "inconclusive"}
    <3> HIDE DEF c
    <3> QED BY <2>3
  <2>5. Classify(Paired(r, a, b), q) \in {"improvement", "equivalent", "non_inferior"}
    <3> HIDE DEF a, b
    <3> QED BY <2>4 DEF Classify
  <2> QED BY <2>5, VerdictTells
<1>3. ASSUME NEW a \in Shared
      PROVE  \E x \in request.critical : NotSlower(Since(a), Len(control.replicates), x)
  <2>1. request.compare /\ control \in Saved /\ a \in ToSet(inventory)
    BY <1>3 DEF Shared
  <2> QED BY <2>1, PromotableTells
<1> QED BY <1>2, <1>3 DEF Passed

\* A failure of the experiment: a later arm is slower than an earlier one.
LEMMA FailIsJustified ==
  ASSUME NEW r, Population(r), Confirmable(r), NEW q \in request.critical,
         "regression" \in {c.verdict : c \in Confirm(r, q)}
  PROVE  Failed
<1>1. r.arms = inventory
  BY ConfirmableIsSound
<1>2. PICK o \in Ordered(r.arms) : Classify(Paired(r, o[1], o[2]), q) = "regression"
  BY DEF Confirm
<1>3. PICK m, n \in DOMAIN inventory : m < n /\ o = <<inventory[m], inventory[n]>>
  BY <1>1, <1>2 DEF Ordered
<1> DEFINE p == <<m, n>>
<1>4. inventory[m] # inventory[n]
  <2> SUFFICES ASSUME inventory[m] = inventory[n] PROVE FALSE
    OBVIOUS
  <2>1. inventory[m] \in ToSet(r.arms)  BY <1>1 DEF ToSet
  <2>2. o \in {<<a, a>> : a \in ToSet(r.arms)}  BY <1>3, <2>1
  <2> QED  BY <2>2 DEF Ordered, Pairs
<1>5. p \in Earlier /\ p[1] = m /\ p[2] = n
  BY <1>3, <1>4 DEF Earlier
<1> HIDE DEF p
<1>6. AllSlower(Slower(p), 1, q)
  <2>1. Classify(Paired(r, inventory[p[1]], inventory[p[2]]), q) = "regression"
    BY <1>2, <1>3, <1>5
  <2> QED  BY <1>5, <2>1, VerdictTells
<1> QED BY <1>5, <1>6 DEF Failed

\* A failure against the baseline: likewise.
LEMMA RegressionIsJustified ==
  ASSUME NEW r, Population(r), request.compare, control # None, control \in Saved,
         NEW q \in [ToSet(r.arms) -> request.critical], Regressed(Decisions(control, r, q))
  PROVE  Failed
<1>1. PICK x \in request.critical, a \in ToSet(inventory) \cap ToSet(control.arms) :
        AllSlower(Since(a), Len(control.replicates), x)
  BY RegressedTells
<1>2. a \in Shared
  BY <1>1 DEF Shared
<1> QED BY <1>1, <1>2 DEF Failed

-----------------------------------------------------------------------------
(***************************************************************************)
(* The aggregate, and what is loaded.                                      *)
(***************************************************************************)

\* What the contract of the experiment replaces.
LEMMA ContractReplaces ==
  ASSUME NEW p, NEW mode, NEW planned,
         {"independent", "mode", "planned", "replicates", "arms"} \subseteq DOMAIN p
  PROVE  LET r == [p EXCEPT !.independent = TRUE, !.mode = mode, !.planned = planned] IN
         r.planned = planned /\ r.replicates = p.replicates /\ r.arms = p.arms
  OBVIOUS

\* What replacing the fields of an aggregate changes.
LEMMA PopulationReplaces ==
  ASSUME NEW p, NEW run, NEW mean, NEW flaw, NEW runs,
         {"run", "mean", "flaw", "replicates", "arms"} \subseteq DOMAIN p
  PROVE  LET r == [p EXCEPT !.run = run, !.mean = mean, !.flaw = flaw,
                            !.replicates = runs] IN
         DOMAIN r = DOMAIN p /\ r.replicates = runs /\ r.arms = p.arms
  OBVIOUS

\* The aggregate of all attempts is one, of their files.
LEMMA AggregatedIs ==
  ASSUME request \in Request, Children, request.processes > 0, Done(request.processes)
  PROVE  IsAggregate(Aggregated(results))
<1> DEFINE n == request.processes
<1>1. n \in Nat /\ Index = 1 .. n /\ 1 \in 1 .. n
  BY RequestFacts
<1>2. results = file /\ results[1] = file[1] /\ IsPacket(file[1])
  <2>1. results = file
    BY <1>1 DEF Done, Children
  <2>2. file[1] # None
    BY <1>1 DEF Done
  <2> QED BY <1>1, <2>1, <2>2 DEF Children
<1>3. Len(results) = n
  <2>1. results \in Seq({file[k] : k \in 1 .. n})
    BY <1>1 DEF Done
  <2>2. DOMAIN results = 1 .. n
    BY DEF Done
  <2> QED BY <1>1, <2>1, <2>2
<1> DEFINE c == Combine(results)
           p == file[1]
<1>4. /\ {"independent", "mode", "planned", "replicates", "arms"} \subseteq DOMAIN c
      /\ c.arms = inventory
      /\ c.replicates = IF n = 1 THEN <<>> ELSE file
  <2>1. CASE n = 1
    <3>1. c = p
      BY <1>2, <1>3, <2>1 DEF Combine
    <3> HIDE DEF c
    <3> QED BY <1>2, <2>1, <3>1 DEF IsPacket
  <2>2. CASE n # 1
    <3>1. PICK run, mean, flaw :
            c = [p EXCEPT !.run = run, !.mean = mean, !.flaw = flaw, !.replicates = results]
      BY <1>2, <1>3, <2>2 DEF Combine
    <3>2. DOMAIN c = DOMAIN p /\ c.replicates = results /\ c.arms = p.arms
      <4>1. {"run", "mean", "flaw", "replicates", "arms"} \subseteq DOMAIN p
        BY <1>2 DEF IsPacket
      <4> HIDE DEF c, p
      <4> QED BY ONLY <3>1, <4>1, PopulationReplaces
    <3> HIDE DEF c
    <3> QED BY <1>2, <2>2, <3>2 DEF IsPacket
  <2> QED BY <2>1, <2>2
<1>5. LET r == Aggregated(results) IN
      r.planned = n /\ r.replicates = c.replicates /\ r.arms = c.arms
  <2>1. Aggregated(results) = [c EXCEPT !.independent = TRUE, !.mode = request.mode,
                                        !.planned = n]
    BY DEF Aggregated
  <2> HIDE DEF c, n
  <2> QED BY ONLY <1>4, <2>1, ContractReplaces
<1> HIDE DEF c
<1> QED BY <1>4, <1>5 DEF IsAggregate

\* One more packet is loaded.
LEMMA LoadedAre ==
  ASSUME NEW f, NEW n \in Nat
  PROVE  Append([k \in 1 .. n |-> f[k]], f[n + 1]) = [k \in 1 .. (n + 1) |-> f[k]]
<1> DEFINE S == {f[k] : k \in 1 .. (n + 1)}
           s == [k \in 1 .. n |-> f[k]]
           t == Append(s, f[n + 1])
<1>1. s \in Seq(S) /\ f[n + 1] \in S /\ Len(s) = n
  <2>1. s \in [1 .. n -> S]
    OBVIOUS
  <2>2. s \in Seq(S)
    <3> HIDE DEF s, S
    <3> QED BY <2>1
  <2>3. DOMAIN s = 1 .. n
    OBVIOUS
  <2> HIDE DEF s
  <2> QED BY <2>2, <2>3
<1>2. /\ t \in Seq(S) /\ Len(t) = n + 1
      /\ \A k \in 1 .. n : t[k] = s[k]
      /\ t[n + 1] = f[n + 1]
  <2> HIDE DEF s, S
  <2> QED BY <1>1, AppendProperties
<1>3. DOMAIN t = 1 .. (n + 1) /\ t = [k \in DOMAIN t |-> t[k]]
  <2> HIDE DEF t, S
  <2> QED BY <1>2
<1>4. \A k \in 1 .. (n + 1) : t[k] = f[k]
  <2> HIDE DEF t
  <2> QED BY <1>2
<1> HIDE DEF t
<1>5. t = [k \in 1 .. (n + 1) |-> f[k]]
  BY <1>3, <1>4
<1> QED BY <1>5 DEF t

-----------------------------------------------------------------------------
(***************************************************************************)
(* Every step keeps the invariant: who changes what.                       *)
(***************************************************************************)

\* No step changes what was asked, or the baseline it is compared with.
LEMMA Unasked ==
  ASSUME [Next]_vars
  PROVE  request' = request /\ control' = control
BY DEF Next, Supervisor, Start, Admit, PlanAttempts, Prepare, RecordRunning, Spawn, Poll,
       RecordOutcome, Judge, Load, Aggregate, Finish, Return, SaveBaseline,
       CompareBaseline, Verdict, WatchFails, ChildSaves, ChildExits, Elapse, Rebuild, Kill,
       vars, world

\* Only a child that saves changes a file.
LEMMA FileKept ==
  ASSUME [Next]_vars
  PROVE  file' = file \/ ChildSaves
BY DEF Next, Supervisor, Start, Admit, PlanAttempts, Prepare, RecordRunning, Spawn, Poll,
       RecordOutcome, Judge, Load, Aggregate, Finish, Return, SaveBaseline,
       CompareBaseline, Verdict, WatchFails, ChildExits, Elapse, Rebuild, Kill,
       vars, disk

\* Only a start or an exit makes a child what it is.
LEMMA ChildKept ==
  ASSUME [Next]_vars
  PROVE  child' = child \/ child' = None \/ Spawn \/ ChildExits
BY DEF Next, Supervisor, Start, Admit, PlanAttempts, Prepare, RecordRunning, Poll,
       RecordOutcome, Judge, Load, Aggregate, Finish, Return, SaveBaseline,
       CompareBaseline, Verdict, WatchFails, ChildSaves, Elapse, Rebuild, Kill, vars

\* Only four steps write the manifest.
LEMMA ManifestKept ==
  ASSUME [Next]_vars
  PROVE  manifest' = manifest \/ PlanAttempts \/ RecordRunning \/ RecordOutcome \/ Finish
BY DEF Next, Supervisor, Start, Admit, Prepare, Spawn, Poll,
       Judge, Load, Aggregate, Return, SaveBaseline,
       CompareBaseline, Verdict, WatchFails, ChildSaves, ChildExits, Elapse, Rebuild, Kill,
       vars, disk

\* Only Load takes a result into memory.
LEMMA LoadedKept ==
  ASSUME [Next]_vars
  PROVE  (results' = results /\ i' = i) \/ Load
BY DEF Next, Supervisor, Start, Admit, PlanAttempts, Prepare, RecordRunning, Spawn, Poll,
       RecordOutcome, Judge, Aggregate, Finish, Return, SaveBaseline,
       CompareBaseline, Verdict, WatchFails, ChildSaves, ChildExits, Elapse, Rebuild, Kill,
       vars, local

\* Only Aggregate makes and stores the aggregate.
LEMMA AggregateKept ==
  ASSUME [Next]_vars
  PROVE  (aggregate' = aggregate /\ store' = store) \/ Aggregate
BY DEF Next, Supervisor, Start, Admit, PlanAttempts, Prepare, RecordRunning, Spawn, Poll,
       RecordOutcome, Judge, Load, Finish, Return, SaveBaseline,
       CompareBaseline, Verdict, WatchFails, ChildSaves, ChildExits, Elapse, Rebuild, Kill,
       vars, local, disk

\* Only the last two steps write the baseline.
LEMMA BaselineKept ==
  ASSUME [Next]_vars
  PROVE  baseline' = baseline \/ SaveBaseline \/ CompareBaseline
BY DEF Next, Supervisor, Start, Admit, PlanAttempts, Prepare, RecordRunning, Spawn, Poll,
       RecordOutcome, Judge, Load, Aggregate, Finish, Return,
       Verdict, WatchFails, ChildSaves, ChildExits, Elapse, Rebuild, Kill, vars, disk

\* Which steps decide the exit code.
LEMMA ExitKept ==
  ASSUME [Next]_vars, exit' # exit
  PROVE  exit' \in {2, 101, 137} \/ (CompareBaseline /\ exit' = 1) \/ (Verdict /\ exit' \in {0, 1})
BY DEF Next, Supervisor, Start, Admit, PlanAttempts, Prepare, RecordRunning, Spawn, Poll,
       RecordOutcome, Judge, Load, Aggregate, Finish, Return, SaveBaseline,
       CompareBaseline, Verdict, WatchFails, ChildSaves, ChildExits, Elapse, Rebuild, Kill,
       vars, Exits, Panic, Write

\* How the supervisor moves: in place, away, or one step along its way.
LEMMA Flow ==
  ASSUME [Next]_vars
  PROVE  \/ pc' = pc /\ status' = status /\ exit' = exit
         \/ pc' = "exited" /\ (pc = "compare" \/ pc = "verdict" \/ exit' \in {2, 101, 137})
         \/ exit' = exit /\ pc = "start" /\ pc' = "admit" /\ Valid
         \/ exit' = exit /\ pc = "admit" /\ pc' = "plan"
         \/ exit' = exit /\ pc = "plan" /\ pc' = "launch"
         \/ exit' = exit /\ pc = "launch" /\ pc' = "record"
         \/ exit' = exit /\ pc = "record" /\ pc' = "spawn"
         \/ exit' = exit /\ pc = "spawn" /\ pc' \in {"poll", "outcome"}
         \/ exit' = exit /\ pc = "poll" /\ pc' = "outcome"
         \/ exit' = exit /\ pc = "outcome" /\ pc' = "judge" /\ status' = status
         \/ exit' = exit /\ pc = "judge" /\ pc' = "load" /\ status = "ok" /\ status' = status
         \/ exit' = exit /\ pc = "load" /\ pc' \in {"launch", "aggregate"}
         \/ exit' = exit /\ pc = "aggregate" /\ pc' = "finish"
         \/ exit' = exit /\ pc = "finish" /\ pc' = "return"
         \/ exit' = exit /\ pc = "return" /\ pc' = "save"
         \/ exit' = exit /\ pc = "save" /\ pc' = "compare"
         \/ exit' = exit /\ pc = "compare" /\ pc' = "verdict"
BY DEF Next, Supervisor, Start, Admit, PlanAttempts, Prepare, RecordRunning, Spawn, Poll,
       RecordOutcome, Judge, Load, Aggregate, Finish, Return, SaveBaseline,
       CompareBaseline, Verdict, WatchFails, ChildSaves, ChildExits, Elapse, Rebuild, Kill,
       vars, Exits, Panic, Write

\* Every step keeps what was requested, ...
LEMMA RequestedStep ==
  ASSUME Requested, [Next]_vars
  PROVE  Requested'
<1>1. request' = request
  BY Unasked
<1>2. Valid' = Valid
  BY <1>1 DEF Valid, Confirming
<1>3. pc' \notin {"start", "exited"} => Valid
  BY Flow DEF Requested
<1>4. pc' # "exited" => exit' = None
  BY Flow DEF Requested
<1> QED BY <1>1, <1>2, <1>3, <1>4 DEF Requested

\* What the request settles stays.
LEMMA Unchanging ==
  ASSUME [Next]_vars
  PROVE  /\ Index' = Index /\ inventory' = inventory
         /\ request.processes' = request.processes
         /\ request.compare' = request.compare
BY Unasked DEF Index, inventory

\* A packet is saved where there is none.
LEMMA FileStep ==
  ASSUME Children, [Next]_vars
  PROVE  /\ \A k \in Index : file[k] # None => file'[k] = file[k]
         /\ file' = [k \in Index |-> file'[k]]
         /\ (\A k \in Index : file[k] # None) => file' = file
<1>1. CASE file' = file
  BY <1>1 DEF Children
<1>2. CASE ChildSaves
  <2>1. PICK p : file' = [file EXCEPT ![child.at] = p]
    BY <1>2 DEF ChildSaves
  <2>2. child # None /\ file[child.at] = None /\ child.at \in Index
    BY <1>2 DEF ChildSaves, Children
  <2>3. DOMAIN file = Index
    BY DEF Children
  <2> QED BY <2>1, <2>2, <2>3
<1> QED BY <1>1, <1>2, FileKept

\* What a child may save is a packet of its own.
LEMMA PacketIs ==
  ASSUME Requested, NEW p \in Packets
  PROVE  IsPacket(p)
<1>1. PICK c \in Condition, m \in Means :
        p = [run |-> <<"child", child.at>>, arms |-> inventory, mode |-> request.mode,
             planned |-> request.processes, binary |-> child.binary,
             independent |-> FALSE,
             place |-> c[1], flaw |-> c[2], replicates |-> <<>>, mean |-> m]
  BY DEF Packets
<1>2. \A a \in ToSet(inventory) : m[a] \in Int
  <2>1. inventory \in Seq(DOMAIN Latency)
    BY RequestFacts DEF Requested
  <2>2. ToSet(inventory) \subseteq DOMAIN Latency
    BY <2>1 DEF ToSet
  <2>3. \A a \in ToSet(inventory) : m[a] \in Latency[a]
    BY DEF Means
  <2> QED BY <2>2, <2>3, ProcessExperimentAssumption
<1> QED BY <1>1, <1>2 DEF IsPacket

\* ... whose children run and what they save, ...
LEMMA ChildrenStep ==
  ASSUME Requested, Children, Attempted, [Next]_vars
  PROVE  Children'
<1>1. child' # None => "at" \in DOMAIN child' /\ child'.at \in Index
  <2>1. CASE child' = child \/ child' = None
    BY <2>1 DEF Children
  <2>2. CASE Spawn
    <3>1. i \in Index
      BY <2>2 DEF Spawn, Attempted, Attempting
    <3>2. child' = [at |-> i, binary |-> binary, st |-> "running"] \/ child' = child
      BY <2>2 DEF Spawn
    <3> QED BY <3>1, <3>2 DEF Children
  <2>3. CASE ChildExits
    <3>1. PICK st : child' = [child EXCEPT !.st = st]
      BY <2>3 DEF ChildExits
    <3>2. "at" \in DOMAIN child /\ child.at \in Index
      BY <2>3 DEF ChildExits, Children
    <3> QED BY <3>1, <3>2
  <2> QED BY <2>1, <2>2, <2>3, ChildKept
<1>2. \A k \in Index : file'[k] # None => IsPacket(file'[k])
  <2>1. CASE file' = file
    BY <2>1 DEF Children
  <2>2. CASE ChildSaves
    <3>1. PICK p \in Packets : file' = [file EXCEPT ![child.at] = p]
      BY <2>2 DEF ChildSaves
    <3>2. IsPacket(p)
      BY <3>1, PacketIs
    <3>3. DOMAIN file = Index
      BY DEF Children
    <3>4. \A k \in Index : file'[k] = file[k] \/ file'[k] = p
      BY <3>1, <3>3
    <3> QED BY <3>2, <3>4 DEF Children
  <2> QED BY <2>1, <2>2, FileKept
<1>3. \A k \in Index : IsPacket(file'[k]) => IsPacket(file[k])'
  BY Unchanging DEF IsPacket
<1> QED BY <1>1, <1>2, <1>3, FileStep, Unchanging DEF Children

\* The manifest keeps its form, and every entry but the current one.
LEMMA ManifestStep ==
  ASSUME Requested, Attempted, Recorded, [Next]_vars, pc \in Attempting \cup Gathered
  PROVE  /\ IsManifest(manifest')
         /\ \A k \in Index : k = i \/ manifest'.attempt[k] = manifest.attempt[k]
         /\ pc \notin {"record", "outcome"} => manifest'.attempt = manifest.attempt
         /\ pc # "finish" => manifest'.evidence = manifest.evidence
<1>1. IsManifest(manifest)
  BY DEF Recorded
<1>2. CASE manifest' = manifest
  BY <1>1, <1>2
<1>3. CASE PlanAttempts
  BY <1>3 DEF PlanAttempts, Attempting, Gathered, Judging
<1>4. CASE RecordRunning
  <2>1. CASE manifest' = [manifest EXCEPT !.attempt[i] = "running"]
    BY <1>1, <1>4, <2>1 DEF IsManifest, RecordRunning
  <2> QED BY <1>2, <1>4, <2>1 DEF RecordRunning, Write
<1>5. CASE RecordOutcome
  <2>1. CASE \E a, s : manifest' = [manifest EXCEPT !.attempt[i] = a, !.status = s]
    BY <1>1, <1>5, <2>1 DEF IsManifest, RecordOutcome
  <2> QED BY <1>2, <1>5, <2>1 DEF RecordOutcome, Write
<1>6. CASE Finish
  <2>1. CASE \E s : manifest' = [manifest EXCEPT !.status = s, !.evidence = aggregate]
    BY <1>1, <1>6, <2>1 DEF IsManifest, Finish
  <2> QED BY <1>2, <1>6, <2>1 DEF Finish, Write
<1> QED BY <1>2, <1>3, <1>4, <1>5, <1>6, ManifestKept

\* What is done stays done, when the manifest keeps those entries.
LEMMA DoneKept ==
  ASSUME Children, [Next]_vars, NEW n, 1 .. n \subseteq Index, Done(n),
         results' = results,
         \A k \in 1 .. n : manifest'.attempt[k] = manifest.attempt[k]
  PROVE  /\ results' = [k \in 1 .. n |-> file'[k]]
         /\ \A k \in 1 .. n : file'[k] # None /\ manifest'.attempt[k] = "completed"
<1>1. \A k \in 1 .. n : file'[k] = file[k]
  BY FileStep DEF Done
<1> QED BY <1>1 DEF Done

\* Loading takes in the file of a completed attempt, and goes on to the next.
LEMMA LoadStep ==
  ASSUME Requested, Children, Attempted, Recorded, [Next]_vars,
         Load, pc' # "exited"
  PROVE  /\ results' = [k \in 1 .. i |-> file'[k]]
         /\ \A k \in 1 .. i : file'[k] # None /\ manifest'.attempt[k] = "completed"
         /\ \/ i = request.processes /\ pc' = "aggregate"
            \/ i + 1 \in Index /\ i' = i + 1 /\ pc' = "launch"
<1>1. /\ i \in Index /\ Done(i - 1) /\ manifest.attempt[i] = "completed"
      /\ request.processes \in Nat /\ Index = 1 .. request.processes
  <2>1. pc = "load"
    BY DEF Load
  <2> QED BY <2>1, RequestFacts DEF Attempted, Attempting, Requested
<1>2. /\ file[i] # None /\ results' = Append(results, file[i])
      /\ \/ i = request.processes /\ pc' = "aggregate"
         \/ i # request.processes /\ i' = i + 1 /\ pc' = "launch"
      /\ manifest' = manifest /\ file' = file
  BY DEF Load, Exits, disk
<1> PICK n \in Nat : n = i - 1
  BY <1>1
<1>3. results' = [k \in 1 .. i |-> file[k]]
  <2>1. results' = Append([k \in 1 .. n |-> file[k]], file[n + 1])
    BY <1>1, <1>2 DEF Done
  <2>2. \A f : Append([k \in 1 .. n |-> f[k]], f[n + 1]) = [k \in 1 .. (n + 1) |-> f[k]]
    BY LoadedAre
  <2>3. n + 1 = i
    BY <1>1
  <2> QED BY <2>1, <2>2, <2>3
<1>4. \A k \in 1 .. i : file[k] # None /\ manifest.attempt[k] = "completed"
  BY <1>1, <1>2 DEF Done
<1>5. i = request.processes \/ i + 1 \in Index
  BY <1>1
<1> QED BY <1>1, <1>2, <1>3, <1>4, <1>5

\* ... which attempts are through, ...
LEMMA AttemptedStep ==
  ASSUME Requested, Children, Attempted, Recorded, [Next]_vars
  PROVE  Attempted'
<1>1. request \in Request /\ request.processes \in Nat /\ Index = 1 .. request.processes
  BY RequestFacts DEF Requested
<1>2. pc' \in Before => i' = 1 /\ results' = <<>> /\ manifest' = None
  <2>1. SUFFICES ASSUME pc' \in Before PROVE i' = 1 /\ results' = <<>> /\ manifest' = None
    OBVIOUS
  <2>2. pc \in Before
    BY <2>1, Flow DEF Before
  <2>3. ~Load /\ ~RecordRunning /\ ~RecordOutcome /\ ~Finish
    BY <2>2 DEF Before, Load, RecordRunning, RecordOutcome, Finish
  <2>4. ~PlanAttempts \/ manifest' = manifest
    BY <2>1 DEF PlanAttempts, Write, Before
  <2> QED BY <2>2, <2>3, <2>4, ManifestKept, LoadedKept DEF Attempted
<1>3. pc' \in Attempting => i' \in Index /\ Done(i - 1)'
  <2>1. SUFFICES ASSUME pc' \in Attempting PROVE i' \in Index /\ Done(i - 1)'
    OBVIOUS
  <2>2. CASE pc = "plan"
    <3>1. i = 1 /\ results = <<>> /\ ~Load
      BY <2>2 DEF Attempted, Before, Load
    <3>2. i' = 1 /\ results' = <<>>
      BY <3>1, LoadedKept
    <3>3. 1 \in Index
      BY <1>1, <2>2 DEF Requested, Valid
    <3>4. i' - 1 = 0
      BY <3>2
    <3> QED BY <3>2, <3>3, <3>4 DEF Done
  <2>3. CASE pc = "load" /\ pc' = "launch"
    <3>1. CASE Load
      <4>1. /\ results' = [k \in 1 .. i |-> file'[k]]
            /\ \A k \in 1 .. i : file'[k] # None /\ manifest'.attempt[k] = "completed"
            /\ i + 1 \in Index /\ i' = i + 1
        BY <2>3, <3>1, LoadStep
      <4>2. i' - 1 = i
        BY <1>1, <2>3, <4>1 DEF Attempted, Attempting
      <4> QED BY <4>1, <4>2 DEF Done
    <3>2. CASE ~Load
      <4>1. pc' = pc
        BY <2>3, <3>2 DEF Next, Supervisor, Start, Admit, PlanAttempts, Prepare,
           RecordRunning, Spawn, Poll, RecordOutcome, Judge, Aggregate, Finish, Return,
           SaveBaseline, CompareBaseline, Verdict, WatchFails, ChildSaves, ChildExits,
           Elapse, Rebuild, Kill, vars
      <4> QED BY <2>3, <4>1
    <3> QED BY <3>1, <3>2
  <2>4. CASE pc # "plan" /\ ~(pc = "load" /\ pc' = "launch")
    <3>1. pc \in Attempting
      BY <2>1, <2>4, Flow DEF Attempting
    <3>2. i \in Index /\ Done(i - 1)
      BY <3>1 DEF Attempted
    <3>3. results' = results /\ i' = i
      <4>1. CASE Load
        <5>1. pc' \in {"launch", "aggregate", "exited"} /\ pc = "load"
          BY <4>1 DEF Load, Exits
        <5> QED BY <2>1, <2>4, <5>1 DEF Attempting
      <4> QED BY <4>1, LoadedKept
    <3> PICK n \in Nat : n = i - 1
      BY <1>1, <3>2
    <3>4. 1 .. n \subseteq Index /\ \A k \in 1 .. n : manifest'.attempt[k] = manifest.attempt[k]
      <4>1. 1 .. n \subseteq Index /\ \A k \in 1 .. n : k # i
        BY <1>1, <3>2
      <4> QED BY <3>1, <4>1, ManifestStep
    <3>5. Done(n)
      BY <3>2
    <3>6. /\ results' = [k \in 1 .. n |-> file'[k]]
          /\ \A k \in 1 .. n : file'[k] # None /\ manifest'.attempt[k] = "completed"
      BY <3>3, <3>4, <3>5, DoneKept
    <3>7. i' - 1 = n
      BY <3>3
    <3> QED BY <3>2, <3>3, <3>6, <3>7 DEF Done
  <2> QED BY <2>2, <2>3, <2>4
<1>4. ASSUME pc' \in Attempting, pc' = "load" \/ (pc' = "judge" /\ status' = "ok")
      PROVE  manifest'.attempt[i'] = "completed"
  <2>1. CASE RecordOutcome /\ pc' # "exited"
    <3>1. /\ pc = "outcome" /\ pc' = "judge" /\ status' = status /\ i' = i
          /\ \E s : manifest' = [manifest EXCEPT
                      !.attempt[i] = IF status = "ok" THEN "completed" ELSE "failed",
                      !.status = s]
      BY <2>1 DEF RecordOutcome, Write, Panic, Exits
    <3>2. IsManifest(manifest) /\ i \in Index
      BY <3>1 DEF Recorded, Attempted, Attempting
    <3>3. status = "ok"
      BY <1>4, <3>1
    <3> QED BY <3>1, <3>2, <3>3 DEF IsManifest
  <2>2. CASE ~(RecordOutcome /\ pc' # "exited")
    <3>1. pc = "load" \/ (pc = "judge" /\ status = "ok")
      <4>1. pc' = "load" \/ pc' = "judge"
        BY <1>4
      <4>2. CASE pc = "outcome" /\ pc' = "judge"
        BY <2>2, <4>2 DEF Next, Supervisor, Start, Admit, PlanAttempts, Prepare,
           RecordRunning, Spawn, Poll, Judge, Load, Aggregate, Finish, Return,
           SaveBaseline, CompareBaseline, Verdict, WatchFails, ChildSaves, ChildExits,
           Elapse, Rebuild, Kill, vars
      <4> QED BY <1>4, <4>1, <4>2, Flow
    <3>2. i' = i
      <4>1. Load => pc' \in {"launch", "aggregate", "exited"}
        BY DEF Load, Exits
      <4> QED BY <1>4, <4>1, LoadedKept
    <3>3. manifest'.attempt = manifest.attempt
      BY <3>1, ManifestStep DEF Attempting
    <3> QED BY <3>1, <3>2, <3>3 DEF Attempted, Attempting
  <2> QED BY <2>1, <2>2
<1>5. ASSUME pc' \in Gathered PROVE Done(request.processes)'
  <2> PICK n \in Nat : n = request.processes
    BY <1>1
  <2>1. /\ results' = [k \in 1 .. n |-> file'[k]]
        /\ \A k \in 1 .. n : file'[k] # None /\ manifest'.attempt[k] = "completed"
    <3>1. CASE Load
      <4>1. pc' # "exited" /\ pc' # "launch"
        BY <1>5 DEF Gathered, Judging
      <4> QED BY <3>1, <4>1, LoadStep
    <3>2. CASE ~Load
      <4>1. pc \in Gathered
        <5>1. pc \in Gathered \/ pc = "load"
          BY <1>5, Flow DEF Gathered, Judging
        <5>2. pc # "load"
          <6>1. SUFFICES ASSUME pc = "load" PROVE pc' \notin Gathered
            BY <1>5
          <6> QED BY <3>2, <6>1 DEF Next, Supervisor, Start, Admit, PlanAttempts, Prepare,
                 RecordRunning, Spawn, Poll, RecordOutcome, Judge, Aggregate, Finish, Return,
                 SaveBaseline, CompareBaseline, Verdict, WatchFails, ChildSaves, ChildExits,
                 Elapse, Rebuild, Kill, vars, Gathered, Judging, Exits
        <5> QED BY <5>1, <5>2
      <4>2. Done(n) /\ 1 .. n \subseteq Index
        BY <1>1, <4>1 DEF Attempted
      <4>3. results' = results
        BY <3>2, LoadedKept
      <4>4. manifest'.attempt = manifest.attempt
        BY <4>1, ManifestStep DEF Gathered, Judging
      <4> QED BY <4>2, <4>3, <4>4, DoneKept
    <3> QED BY <3>1, <3>2
  <2>2. request.processes' = n
    BY Unchanging
  <2> QED BY <2>1, <2>2 DEF Done
<1> QED BY <1>2, <1>3, <1>4, <1>5, Unchanging DEF Attempted

\* ... what the manifest records, ...
LEMMA RecordedStep ==
  ASSUME Requested, Children, Attempted, Recorded, [Next]_vars
  PROVE  Recorded'
<1>1. ASSUME pc' \in Attempting \cup Gathered
      PROVE  /\ IsManifest(manifest')
             /\ pc' \in Attempting \cup {"aggregate", "finish"} => manifest'.evidence = None
  <2>1. CASE pc = "plan"
    <3>1. manifest' = [status |-> "running", binary |-> binary, evidence |-> None,
                       attempt |-> [k \in Index |-> "planned"]]
      <4>1. pc' # pc /\ pc' # "exited"
        BY <1>1, <2>1 DEF Attempting, Gathered, Judging
      <4>2. PlanAttempts
        BY <2>1, <4>1 DEF Next, Supervisor, Start, Admit, Prepare, RecordRunning, Spawn,
           Poll, RecordOutcome, Judge, Load, Aggregate, Finish, Return, SaveBaseline,
           CompareBaseline, Verdict, WatchFails, ChildSaves, ChildExits, Elapse, Rebuild,
           Kill, vars
      <4> QED BY <4>1, <4>2 DEF PlanAttempts, Write, Panic, Exits
    <3> QED BY <3>1 DEF IsManifest
  <2>2. CASE pc # "plan"
    <3>1. pc \in Attempting \cup Gathered
      BY <1>1, <2>2, Flow DEF Attempting, Gathered, Judging
    <3>2. pc' \in Attempting \cup {"aggregate", "finish"} =>
            pc \in Attempting \cup {"aggregate", "finish"}
      BY <2>2, Flow DEF Attempting, Gathered, Judging
    <3>3. pc' \in Attempting \cup {"aggregate", "finish"} =>
            manifest'.evidence = manifest.evidence
      <4>1. CASE pc = "finish"
        <5>1. pc' = "finish" => manifest' = manifest
          BY <4>1, ManifestKept DEF PlanAttempts, RecordRunning, RecordOutcome, Finish,
             Write, Panic, Exits
        <5>2. pc' \in Attempting \cup {"aggregate", "finish"} => pc' = "finish"
          BY <4>1, Flow DEF Attempting
        <5> QED BY <5>1, <5>2
      <4>2. CASE pc # "finish"
        BY <3>1, <4>2, ManifestStep
      <4> QED BY <4>1, <4>2
    <3> QED BY <3>1, <3>2, <3>3, ManifestStep DEF Recorded
  <2> QED BY <2>1, <2>2
<1>2. ASSUME manifest' # None, manifest'.evidence # None
      PROVE  \A k \in Index : file'[k] # None
  <2>1. \A k \in Index : file[k] # None
    <3>1. CASE manifest' = manifest
      BY <1>2, <3>1 DEF Recorded
    <3>2. CASE manifest' # manifest
      <4>1. pc # "plan"
        BY <1>2, <3>2, ManifestKept DEF PlanAttempts, RecordRunning, RecordOutcome, Finish,
           Write
      <4>2. pc \in Attempting \cup {"finish"}
        BY <3>2, <4>1, ManifestKept DEF PlanAttempts, RecordRunning, RecordOutcome, Finish,
           Attempting
      <4>3. pc = "finish"
        <5>1. SUFFICES ASSUME pc \in Attempting, pc # "finish" PROVE FALSE
          BY <4>2
        <5>2. manifest'.evidence = manifest.evidence
          BY <5>1, ManifestStep
        <5>3. manifest.evidence = None
          BY <5>1 DEF Recorded
        <5> QED BY <1>2, <5>2, <5>3
      <4>4. Done(request.processes) /\ Index = 1 .. request.processes
        BY <4>3, RequestFacts DEF Attempted, Gathered, Judging, Requested
      <4> QED BY <4>4 DEF Done
    <3> QED BY <3>1, <3>2
  <2> QED BY <2>1, FileStep
<1>3. /\ pc' \in Attempting \cup Gathered => IsManifest(manifest)'
      /\ pc' \in Attempting \cup {"aggregate", "finish"} => manifest'.evidence = None
  BY <1>1, Unchanging DEF IsManifest, Gathered, Judging
<1>4. Index' = Index
  BY Unchanging
<1> QED BY <1>2, <1>3, <1>4 DEF Recorded

\* Once every attempt is through, files do not change.
LEMMA AllSaved ==
  ASSUME Requested, Attempted, pc \in Gathered
  PROVE  \A k \in Index : file[k] # None
<1>1. Index = 1 .. request.processes
  BY RequestFacts DEF Requested
<1> QED BY <1>1 DEF Attempted, Done

\* ... what the aggregate is of, ...
LEMMA CombinedStep ==
  ASSUME Requested, Children, Attempted, Combined, [Next]_vars
  PROVE  Combined'
<1>1. ASSUME pc' \in Judging PROVE aggregate' \in store' /\ IsAggregate(aggregate)'
  <2>1. pc \in Gathered
    BY <1>1, Flow DEF Gathered, Judging
  <2>2. file' = file
    BY <2>1, AllSaved, FileStep
  <2>3. CASE Aggregate
    <3>1. pc = "aggregate" /\ aggregate' = Aggregated(results) /\ aggregate' \in store'
      BY <1>1, <2>3 DEF Aggregate, Panic, Exits, Judging
    <3>2. request \in Request /\ Done(request.processes) /\ request.processes > 0
      BY <3>1 DEF Requested, Valid, Attempted, Gathered
    <3>3. IsAggregate(aggregate')
      BY <3>1, <3>2, AggregatedIs
    <3> QED BY <2>2, <3>1, <3>3, Unchanging DEF IsAggregate
  <2>4. CASE aggregate' = aggregate /\ store' = store /\ ~Aggregate
    <3>1. pc \in Judging
      <4>1. SUFFICES ASSUME pc = "aggregate" PROVE FALSE
        BY <2>1 DEF Gathered
      <4>2. pc' = pc \/ pc' = "exited"
        BY <2>4, <4>1 DEF Next, Supervisor, Start, Admit, PlanAttempts, Prepare,
           RecordRunning, Spawn, Poll, RecordOutcome, Judge, Load, Finish, Return,
           SaveBaseline, CompareBaseline, Verdict, WatchFails, ChildSaves, ChildExits,
           Elapse, Rebuild, Kill, vars
      <4> QED BY <1>1, <4>1, <4>2 DEF Judging
    <3>2. aggregate \in store /\ IsAggregate(aggregate)
      BY <3>1 DEF Combined
    <3> QED BY <2>2, <2>4, <3>2, Unchanging DEF IsAggregate
  <2> QED BY <2>3, <2>4, AggregateKept
<1> QED BY <1>1 DEF Combined

\* What is judged is the whole population.
LEMMA JudgedPopulation ==
  ASSUME Requested, Children, Attempted, Combined, pc \in Judging
  PROVE  Population(aggregate)
<1>1. pc \in Gathered
  BY DEF Gathered
<1> QED BY <1>1, AllSaved DEF Population, Requested, Combined

\* ... which baseline it is compared with, ...
LEMMA ComparedStep ==
  ASSUME Requested, Children, Attempted, Combined, Compared, [Next]_vars
  PROVE  Compared'
<1>1. control' = control
  BY Unasked
<1>2. ASSUME pc' \in Before \cup Attempting \cup {"aggregate", "finish", "return", "save"}
      PROVE  baseline' = control
  <2>1. pc \in Before \cup Attempting \cup {"aggregate", "finish", "return", "save"}
    BY <1>2, Flow DEF Before, Attempting
  <2>2. baseline' = baseline
    BY <1>2, BaselineKept DEF SaveBaseline, CompareBaseline, Exits, Before, Attempting
  <2> QED BY <2>1, <2>2 DEF Compared
<1>3. ASSUME pc' = "compare" PROVE baseline' = control \/ baseline' = aggregate'
  <2>1. pc \in {"save", "compare"}
    BY <1>3, Flow
  <2>2. aggregate' = aggregate
    BY <2>1, AggregateKept DEF Aggregate
  <2>3. CASE SaveBaseline
    <3>1. pc = "save" /\ (baseline' = baseline \/ baseline' = aggregate)
      BY <2>3 DEF SaveBaseline
    <3> QED BY <2>2, <3>1 DEF Compared
  <2>4. CASE ~SaveBaseline
    <3>1. baseline' = baseline
      BY <1>3, <2>4, BaselineKept DEF CompareBaseline, Exits
    <3> QED BY <2>1, <2>2, <3>1 DEF Compared
  <2> QED BY <2>3, <2>4
<1>4. ASSUME pc' = "verdict", request.compare
      PROVE  \E q \in [ToSet(aggregate'.arms) -> request.critical] :
               Promotable(control, aggregate', q)
  <2>1. pc \in {"compare", "verdict"}
    BY <1>4, Flow
  <2>2. aggregate' = aggregate
    BY <2>1, AggregateKept DEF Aggregate
  <2>3. CASE pc = "verdict"
    BY <1>4, <2>2, <2>3 DEF Compared
  <2>4. CASE pc = "compare"
    <3>1. PICK q \in [ToSet(aggregate.arms) -> request.critical] :
            Promotable(baseline, aggregate, q)
      <4>1. pc' # pc /\ pc' # "exited"
        BY <1>4, <2>4
      <4>2. CompareBaseline
        BY <2>4, <4>1 DEF Next, Supervisor, Start, Admit, PlanAttempts, Prepare,
           RecordRunning, Spawn, Poll, RecordOutcome, Judge, Load, Aggregate, Finish, Return,
           SaveBaseline, Verdict, WatchFails, ChildSaves, ChildExits, Elapse, Rebuild,
           Kill, vars
      <4> QED BY <1>4, <4>1, <4>2 DEF CompareBaseline, Exits
    <3>2. Population(aggregate)
      BY <2>4, JudgedPopulation DEF Judging
    <3>3. baseline = control
      <4>1. ~Promotable(aggregate, aggregate, q)
        BY <3>2, NotWithItself
      <4> QED BY <2>4, <3>1, <4>1 DEF Compared
    <3> QED BY <2>2, <3>1, <3>3
  <2> QED BY <2>1, <2>3, <2>4
<1>5. pc' = "verdict" /\ request'.compare =>
        (\E q \in [ToSet(aggregate.arms) -> request.critical] :
           Promotable(control, aggregate, q))'
  BY <1>1, <1>4, Unasked
<1> QED BY <1>1, <1>2, <1>3, <1>5, Unchanging DEF Compared

\* ... and that a complete manifest has its evidence.
LEMMA CompleteStep ==
  ASSUME Requested, Children, Attempted, Recorded, Combined, CompleteIsEvidence, [Next]_vars
  PROVE  CompleteIsEvidence'
<1>1. SUFFICES ASSUME manifest' # None, manifest'.evidence # None
               PROVE  /\ manifest'.evidence \in store'
                      /\ \A k \in Index : manifest'.attempt[k] = "completed"
                      /\ request.processes > 1 => manifest'.evidence.replicates = file'
                      /\ manifest'.status = "complete" => Sound(file')
  BY Unchanging DEF CompleteIsEvidence, Sound
<1>2. store \subseteq store'
  BY AggregateKept DEF Aggregate, Panic
<1>3. CASE manifest' = manifest
  <2>1. file' = file
    BY <1>1, <1>3, FileStep DEF Recorded
  <2> QED BY <1>1, <1>2, <1>3, <2>1 DEF CompleteIsEvidence
<1>4. CASE manifest' # manifest
  <2>1. pc \notin Attempting /\ pc # "plan"
    <3>1. pc # "plan"
      BY <1>1, <1>4, ManifestKept DEF PlanAttempts, RecordRunning, RecordOutcome, Finish,
         Write
    <3>2. SUFFICES ASSUME pc \in Attempting PROVE FALSE
      BY <3>1
    <3>3. manifest'.evidence = manifest.evidence /\ manifest.evidence = None
      BY <3>2, ManifestStep DEF Recorded, Attempting
    <3> QED BY <1>1, <3>3
  <2>2. /\ pc = "finish"
        /\ manifest' = [manifest EXCEPT
              !.status = IF Confirmable(aggregate) THEN "complete" ELSE "unconfirmed",
              !.evidence = aggregate]
    BY <1>4, <2>1, ManifestKept DEF PlanAttempts, RecordRunning, RecordOutcome, Finish,
       Write, Attempting
  <2>3. Population(aggregate) /\ aggregate \in store
    BY <2>2, JudgedPopulation DEF Judging, Combined
  <2>4. file' = file
    BY <2>3, FileStep DEF Population
  <2>5. /\ manifest'.evidence = aggregate /\ manifest'.attempt = manifest.attempt
        /\ manifest'.status = "complete" => Confirmable(aggregate)
    <3>1. IsManifest(manifest)
      BY <2>2 DEF Recorded, Gathered, Judging
    <3>2. PICK s : s = IF Confirmable(aggregate) THEN "complete" ELSE "unconfirmed"
      OBVIOUS
    <3>3. manifest' = [manifest EXCEPT !.status = s, !.evidence = aggregate]
      BY <2>2, <3>2
    <3>4. /\ manifest'.evidence = aggregate /\ manifest'.attempt = manifest.attempt
          /\ manifest'.status = s
      BY <3>1, <3>3 DEF IsManifest
    <3>5. s = "complete" => Confirmable(aggregate)
      BY <3>2
    <3> QED BY <3>4, <3>5
  <2>6. \A k \in Index : manifest.attempt[k] = "completed"
    BY <2>2, RequestFacts DEF Attempted, Done, Gathered, Judging, Requested
  <2>7. request.processes > 1 => aggregate.replicates = file
    <3>1. request.processes \in Nat
      BY RequestFacts DEF Requested
    <3> QED BY <2>3, <3>1 DEF Population, IsAggregate
  <2>8. Confirmable(aggregate) => Sound(file)
    BY <2>3, ConfirmableIsSound
  <2> QED BY <1>2, <2>3, <2>4, <2>5, <2>6, <2>7, <2>8
<1> QED BY <1>3, <1>4

\* An exit with zero or one is justified when it is taken; and from then on all
\* packets that it speaks of are there to stay.
LEMMA ExitStep ==
  ASSUME Requested, Children, Attempted, Combined, Compared, ExitIsJustified, [Next]_vars
  PROVE  ExitIsJustified'
<1>1. request' = request /\ control' = control /\ Index' = Index
  BY Unasked, Unchanging
<1>2. CASE exit' = exit
  <2>1. CASE file' = file
    <3>1. Sound(file)' = Sound(file) /\ Confirming' = Confirming
      BY <1>1, <2>1 DEF Sound, Confirming
    <3>2. (Passed' <=> Passed) /\ (Failed' <=> Failed)
      BY <1>1, <2>1, ClaimsKept
    <3> QED BY <1>2, <3>1, <3>2, ExitClaims, ExitClaimsAfter
  <2>2. CASE file' # file
    <3>1. PICK k \in Index : file[k] = None
      BY <2>2, FileStep
    <3>2. ~Sound(file)
      BY <3>1 DEF Sound, Children
    <3>3. ~(Confirming /\ exit = 0) /\ exit # 1
      BY <3>2, ExitClaims
    <3>4. ~(Confirming' /\ exit' = 0) /\ exit' # 1
      BY <1>1, <1>2, <3>3 DEF Confirming
    <3> QED BY <3>4, ExitClaimsAfter
  <2> QED BY <2>1, <2>2
<1>3. CASE exit' # exit
  <2>1. CASE exit' \in {2, 101, 137}
    <3>1. exit' # 0 /\ exit' # 1
      BY <2>1
    <3> QED BY <3>1, ExitClaimsAfter
  <2>2. CASE CompareBaseline /\ exit' = 1
    <3>1. /\ pc = "compare" /\ request.compare /\ baseline # None /\ file' = file
          /\ \E q \in [ToSet(aggregate.arms) -> request.critical] :
               Regressed(Decisions(baseline, aggregate, q))
      BY <1>3, <2>2 DEF CompareBaseline, Exits
    <3>2. Population(aggregate)
      BY <3>1, JudgedPopulation DEF Judging
    <3>3. PICK q \in [ToSet(aggregate.arms) -> request.critical] :
            Regressed(Decisions(baseline, aggregate, q))
      BY <3>1
    <3>4. baseline = control /\ control \in Saved
      <4>1. ~Regressed(Decisions(aggregate, aggregate, q))
        BY <3>2, NotWithItself
      <4> QED BY <3>1, <3>3, <4>1 DEF Compared
    <3>5. Sound(file)
      <4>1. Comparable(control, aggregate)
        BY <3>2, <3>3, <3>4, RegressedTells
      <4> QED BY <3>2, <4>1, ConfirmableIsSound DEF Comparable
    <3>6. Failed
      BY <3>1, <3>2, <3>3, <3>4, RegressionIsJustified
    <3>7. exit' # 0 /\ Sound(file)' /\ Failed'
      BY <1>1, <2>2, <3>1, <3>5, <3>6, ClaimsKept DEF Sound
    <3> QED BY <3>7, ExitClaimsAfter
  <2>3. CASE Verdict /\ exit' \in {0, 1}
    <3>1. pc = "verdict" /\ file' = file
      BY <2>3 DEF Verdict, disk
    <3>2. Population(aggregate)
      BY <3>1, JudgedPopulation DEF Judging
    <3>3. /\ Passed' <=> Passed
          /\ Failed' <=> Failed
          /\ Sound(file)' <=> Sound(file)
          /\ Confirming' <=> Confirming
      BY <1>1, <3>1, ClaimsKept DEF Sound, Confirming
    <3>4. CASE ~Confirming
      <4>1. exit' = 0
        BY <2>3, <3>4 DEF Verdict, Exits
      <4> QED BY <3>3, <3>4, <4>1, ExitClaimsAfter
    <3>5. CASE Confirming
      <4>1. Confirmable(aggregate)
        BY <2>3, <3>5 DEF Verdict, Exits
      <4> DEFINE verdicts(q) == {c.verdict : c \in Confirm(aggregate, q)}
      <4>2. PICK q \in request.critical :
              /\ exit' = 1 => "regression" \in verdicts(q)
              /\ exit' = 0 => verdicts(q) \cap {"regression", "inconclusive"} = {}
        <5> HIDE DEF verdicts
        <5>1. \/ ~Confirming
              \/ ~Confirmable(aggregate) /\ exit' = 2
              \/ \E q \in request.critical :
                   \/ "regression" \in verdicts(q) /\ exit' = 1
                   \/ exit' = 2
                   \/ /\ verdicts(q) \cap {"regression", "inconclusive"} = {}
                      /\ exit' = 0
          BY <2>3 DEF Verdict, Exits, verdicts
        <5> QED BY <2>3, <3>5, <4>1, <5>1
      <4>3. Sound(file)
        BY <3>2, <4>1, ConfirmableIsSound
      <4>4. CASE exit' = 0
        <5>1. Passed
          <6>1. /\ control \in Saved \cup {None}
                /\ request.compare =>
                     \E x \in [ToSet(aggregate.arms) -> request.critical] :
                       Promotable(control, aggregate, x)
            BY <3>1 DEF Compared
          <6> QED BY <3>2, <4>1, <4>2, <4>4, <6>1, PassIsJustified
        <5>2. exit' # 1
          BY <4>4
        <5> QED BY <3>3, <4>3, <5>1, <5>2, ExitClaimsAfter
      <4>5. CASE exit' = 1
        <5>1. Failed
          BY <3>2, <4>1, <4>2, <4>5, FailIsJustified
        <5>2. exit' # 0
          BY <4>5
        <5> QED BY <3>3, <4>3, <5>1, <5>2, ExitClaimsAfter
      <4> QED BY <2>3, <4>4, <4>5
    <3> QED BY <3>4, <3>5
  <2> QED BY <1>3, <2>1, <2>2, <2>3, ExitKept
<1> QED BY <1>2, <1>3

-----------------------------------------------------------------------------
(***************************************************************************)
(* The theorems.                                                           *)
(***************************************************************************)

\* The invariant holds at first, ...
LEMMA ExperimentInit == Init => ExperimentInv
<1> SUFFICES ASSUME Init PROVE ExperimentInv
  OBVIOUS
<1> USE DEF Init
<1>1. exit # 0 /\ exit # 1
  BY ProcessExperimentAssumption
<1>2. Requested
  BY DEF Requested
<1>3. Children
  BY DEF Children
<1>4. Attempted
  BY DEF Attempted, Before, Attempting, Gathered, Judging
<1>5. Recorded
  BY DEF Recorded, Attempting, Gathered, Judging
<1>6. Combined
  BY DEF Combined, Judging
<1>7. Compared
  BY DEF Compared
<1>8. CompleteIsEvidence
  BY DEF CompleteIsEvidence
<1>9. ExitIsJustified
  BY <1>1 DEF ExitIsJustified
<1> QED BY <1>2, <1>3, <1>4, <1>5, <1>6, <1>7, <1>8, <1>9 DEF ExperimentInv

\* ... and every step keeps it.
LEMMA ExperimentStep == ExperimentInv /\ [Next]_vars => ExperimentInv'
<1> SUFFICES ASSUME ExperimentInv, [Next]_vars PROVE ExperimentInv'
  OBVIOUS
<1>1. /\ Requested /\ Children /\ Attempted /\ Recorded /\ Combined /\ Compared
      /\ CompleteIsEvidence /\ ExitIsJustified
  BY DEF ExperimentInv
<1>2. Requested' /\ Children' /\ Attempted' /\ Recorded'
  BY <1>1, RequestedStep, ChildrenStep, AttemptedStep, RecordedStep
<1>3. Combined' /\ Compared' /\ CompleteIsEvidence' /\ ExitIsJustified'
  BY <1>1, CombinedStep, ComparedStep, CompleteStep, ExitStep
<1> QED BY <1>2, <1>3 DEF ExperimentInv

\* The invariant of the supervisor and its children.
THEOREM ExperimentInvariance == Spec => []ExperimentInv
<1>1. Init => ExperimentInv
  BY ExperimentInit
<1>2. ExperimentInv /\ [Next]_vars => ExperimentInv'
  BY ExperimentStep
<1> QED BY <1>1, <1>2, PTL DEF Spec

\* A manifest that names evidence has seen every attempt complete, and one that
\* says "complete" names a sound population: run_processes_planned.
THEOREM CompleteTheorem == Spec => []CompleteIsEvidence
<1>1. ExperimentInv => CompleteIsEvidence
  BY DEF ExperimentInv
<1> QED BY <1>1, ExperimentInvariance, PTL

\* Zero and one are claims about the mean of what the processes saw, and about
\* all but a few of them: postprocess_result and inference.rs.
THEOREM ExitTheorem == Spec => []ExitIsJustified
<1>1. ExperimentInv => ExitIsJustified
  BY DEF ExperimentInv
<1> QED BY <1>1, ExperimentInvariance, PTL

\* A baseline is replaced by what was measured, and for a reason.
LEMMA BaselineStep ==
  ASSUME ExperimentInv, [Next]_vars, baseline' # baseline
  PROVE  /\ Sound(file) /\ baseline'.replicates = file
         /\ request.save \/
              /\ request.update /\ baseline # None
              /\ ToSet(baseline.arms) = ToSet(inventory)
              /\ \A a \in ToSet(inventory) : \E q \in request.critical :
                   NotSlower(Since(a), Len(control.replicates), q)
<1>1. Requested /\ Children /\ Attempted /\ Combined /\ Compared
  BY DEF ExperimentInv
<1>2. CASE SaveBaseline
  <2>1. pc = "save" /\ request.save /\ Confirmable(aggregate) /\ baseline' = aggregate
    BY <1>2 DEF SaveBaseline
  <2>2. Population(aggregate)
    BY <1>1, <2>1, JudgedPopulation DEF Judging
  <2>3. Sound(file) /\ aggregate.replicates = file
    BY <2>1, <2>2, ConfirmableIsSound
  <2> QED BY <2>1, <2>3
<1>3. CASE CompareBaseline
  <2>1. /\ pc = "compare" /\ request.update /\ baseline # None /\ baseline' = aggregate
        /\ \E q \in [ToSet(aggregate.arms) -> request.critical] :
             Promotable(baseline, aggregate, q)
    BY <1>3 DEF CompareBaseline
  <2>2. PICK q \in [ToSet(aggregate.arms) -> request.critical] :
          Promotable(baseline, aggregate, q)
    BY <2>1
  <2>3. Population(aggregate)
    BY <1>1, <2>1, JudgedPopulation DEF Judging
  <2>4. baseline = control /\ control \in Saved
    <3>1. ~Promotable(aggregate, aggregate, q)
      BY <2>3, NotWithItself
    <3> QED BY <1>1, <2>1, <2>2, <3>1 DEF Compared
  <2>5. /\ Comparable(control, aggregate) /\ ToSet(control.arms) = ToSet(inventory)
        /\ \A a \in ToSet(inventory) : \E x \in request.critical :
             NotSlower(Since(a), Len(control.replicates), x)
    BY <2>2, <2>3, <2>4, PromotableTells
  <2>6. Sound(file) /\ aggregate.replicates = file
    BY <2>3, <2>5, ConfirmableIsSound DEF Comparable
  <2> QED BY <2>1, <2>4, <2>5, <2>6
<1> QED BY <1>2, <1>3, BaselineKept

\* A named baseline changes into a sound population only, and a promotion was
\* earned against the mean of the old one: postprocess_result and baseline.rs.
THEOREM BaselineTheorem == Spec => BaselineIsEarned
<1>1. ExperimentInv /\ [Next]_vars =>
        [baseline' # baseline =>
           /\ Sound(file) /\ baseline'.replicates = file
           /\ request.save \/
                /\ request.update /\ baseline # None
                /\ ToSet(baseline.arms) = ToSet(inventory)
                /\ \A a \in ToSet(inventory) : \E q \in request.critical :
                     NotSlower(Since(a), Len(control.replicates), q)]_vars
  BY BaselineStep
<1> QED BY <1>1, ExperimentInvariance, PTL DEF Spec, BaselineIsEarned

-----------------------------------------------------------------------------
(***************************************************************************)
(* The plan of a child.                                                    *)
(***************************************************************************)

PickOne(S) == CHOOSE v \in S : TRUE

\* Where a value comes from: the command line, the environment, the default.
Sources(args, env, name, default) ==
  IF Values(args, name) # {} THEN Values(args, name)
  ELSE IF Values(env, name) # {} THEN Values(env, name) ELSE {default}

\* A setting is taken from the arguments, else from the environment.
LEMMA ValueIs ==
  ASSUME NEW p, NEW name, NEW default
  PROVE  Value(p, name, default) = PickOne(Sources(p.args, p.env, name, default))
BY DEF Value, Sources, PickOne

\* Of one value, that one is picked.
LEMMA PickOnly ==
  ASSUME NEW x
  PROVE  PickOne({x}) = x
BY DEF PickOne

Settings == {"mode", "processes", "rounds", "margin", "workload-id", "scope"}

\* A child is given the settings of its parent, ...
LEMMA ArgsKept ==
  ASSUME NEW args, NEW name \in Settings \cup Passes \cup {"no-busy-gate", "dry-run"}
  PROVE  Values(ChildArgs(args), name) = Values(args, name)
BY DEF Values, ChildArgs, Settings, Passes, Repeats, Review

\* ... not its repetitions, ...
LEMMA ArgsTaken ==
  ASSUME NEW args, NEW name \in Repeats \cup Review \cup {"update-on-pass"}
  PROVE  name \notin Names(ChildArgs(args)) /\ Values(ChildArgs(args), name) = {}
BY DEF Values, Names, ChildArgs

\* ... and nothing of its own.
LEMMA ArgsFewer ==
  ASSUME NEW args
  PROVE  ChildArgs(args) \subseteq args /\ Names(ChildArgs(args)) \subseteq Names(args)
BY DEF ChildArgs, Names

\* What a plan exports under a name.
LEMMA ExportedIs ==
  ASSUME NEW plan
  PROVE  /\ Values(Exported(plan), "subprocess") = {1}
         /\ Values(Exported(plan), "mode") = {plan.mode}
         /\ Values(Exported(plan), "processes") = {plan.processes}
         /\ Values(Exported(plan), "margin") = {plan.margin}
         /\ Values(Exported(plan), "rounds") = {plan.rounds} \ {Absent}
         /\ Values(Exported(plan), "workload-id") = {plan.workload} \ {Absent}
         /\ Values(Exported(plan), "scope") = {plan.scope} \ {Absent}
         /\ Values(Exported(plan), "format") = {}
<1> DEFINE E == Exported(plan)
<1>1. \A o \in E :
        \/ o[1] = "subprocess" /\ o[2] = 1
        \/ o[1] = "mode" /\ o[2] = plan.mode
        \/ o[1] = "processes" /\ o[2] = plan.processes
        \/ o[1] = "margin" /\ o[2] = plan.margin
        \/ o[1] = "rounds" /\ o[2] = plan.rounds /\ plan.rounds # Absent
        \/ o[1] = "workload-id" /\ o[2] = plan.workload /\ plan.workload # Absent
        \/ o[1] = "scope" /\ o[2] = plan.scope /\ plan.scope # Absent
  BY DEF Exported
<1>2. /\ <<"subprocess", 1>> \in E /\ <<"mode", plan.mode>> \in E
      /\ <<"processes", plan.processes>> \in E /\ <<"margin", plan.margin>> \in E
      /\ plan.rounds # Absent => <<"rounds", plan.rounds>> \in E
      /\ plan.workload # Absent => <<"workload-id", plan.workload>> \in E
      /\ plan.scope # Absent => <<"scope", plan.scope>> \in E
  BY DEF Exported
<1>3. \A name, x : <<name, x>> \in E => x \in Values(E, name)
  BY DEF Values
<1>4. \A name : \A x \in Values(E, name) : \E o \in E : o[1] = name /\ o[2] = x
  BY DEF Values
<1> HIDE DEF E
<1>5. Values(E, "subprocess") = {1}
  BY <1>1, <1>2, <1>3, <1>4
<1>6. Values(E, "mode") = {plan.mode}
  BY <1>1, <1>2, <1>3, <1>4
<1>7. Values(E, "processes") = {plan.processes}
  BY <1>1, <1>2, <1>3, <1>4
<1>8. Values(E, "margin") = {plan.margin}
  BY <1>1, <1>2, <1>3, <1>4
<1>9. Values(E, "rounds") = {plan.rounds} \ {Absent}
  BY <1>1, <1>2, <1>3, <1>4
<1>10. Values(E, "workload-id") = {plan.workload} \ {Absent}
  BY <1>1, <1>2, <1>3, <1>4
<1>11. Values(E, "scope") = {plan.scope} \ {Absent}
  BY <1>1, <1>2, <1>3, <1>4
<1>12. Values(E, "format") = {}
  BY <1>1, <1>4
<1> QED BY <1>5, <1>6, <1>7, <1>8, <1>9, <1>10, <1>11, <1>12 DEF E

\* In the environment of a child the plan goes before the parent's.
LEMMA EnvironmentIs ==
  ASSUME NEW env, NEW plan, NEW name
  PROVE  Values(ChildEnv(env, plan), name) =
           IF Values(Exported(plan), name) # {} THEN Values(Exported(plan), name)
           ELSE Values(env, name)
<1> DEFINE E == Exported(plan)
<1>1. ChildEnv(env, plan) = {o \in env : o[1] \notin Names(E)} \cup E
  BY DEF ChildEnv
<1> HIDE DEF E
<1>2. name \in Names(E) <=> Values(E, name) # {}
  BY DEF Names, Values
<1>3. Values(ChildEnv(env, plan), name) =
        Values({o \in env : o[1] \notin Names(E)}, name) \cup Values(E, name)
  BY <1>1 DEF Values
<1>4. Values({o \in env : o[1] \notin Names(E)}, name) =
        IF name \in Names(E) THEN {} ELSE Values(env, name)
  BY DEF Values
<1> QED BY <1>2, <1>3, <1>4 DEF E

\* The program that starts children has found its command line acceptable and
\* resolved it to a plan: on top of its suite's, or, when it repeats itself, on
\* top of the default one.
PlannedBy(p) ==
  /\ Acceptable(p.args)
  /\ \/ p.plan = Resolved(p, suite) /\ Resolvable(p, suite) /\ p.plan.mode # "iterate"
     \/ /\ p.plan.mode = "iterate" /\ Resolvable(p, Default)
        /\ \E n : p.plan = [Resolved(p, Default) EXCEPT !.processes = n]

IsStarted(c, p) ==
  c.args = ChildArgs(p.args) /\ c.env = ChildEnv(p.env, p.plan)

\* What a child makes of a setting: the program's own value, or, where the
\* program has come to no value, the one of the child's own default.
LEMMA Inherited ==
  ASSUME NEW c, NEW p, IsStarted(c, p), NEW name \in Settings,
         NEW value, NEW base, NEW default,
         value = Value(p, name, base),
         \/ Values(Exported(p.plan), name) = {value}
         \/ value = Absent /\ Values(Exported(p.plan), name) = {}
  PROVE  \/ Value(c, name, default) = value
         \/ /\ Value(c, name, default) = default /\ value = Absent /\ base = Absent
            /\ Values(Exported(p.plan), name) = {}
<1> DEFINE args == Values(p.args, name)
           own == Values(p.env, name)
           exported == Values(Exported(p.plan), name)
<1>1. /\ Values(c.args, name) = args
      /\ Values(c.env, name) = IF exported # {} THEN exported ELSE own
  BY ArgsKept, EnvironmentIs DEF IsStarted
<1>2. /\ Value(c, name, default) = PickOne(Sources(c.args, c.env, name, default))
      /\ value = PickOne(Sources(p.args, p.env, name, base))
  BY ValueIs
<1> HIDE DEF args, own, exported
<1>3. CASE args # {}
  <2>1. Sources(c.args, c.env, name, default) = args
    BY <1>1, <1>3 DEF Sources
  <2>2. Sources(p.args, p.env, name, base) = args
    BY <1>3 DEF Sources, args
  <2> QED BY <1>2, <2>1, <2>2
<1>4. CASE args = {} /\ exported # {}
  <2>1. exported = {value}
    BY <1>4 DEF exported
  <2>2. Sources(c.args, c.env, name, default) = {value}
    BY <1>1, <1>4, <2>1 DEF Sources
  <2> QED BY <1>2, <2>2, PickOnly
<1>5. CASE args = {} /\ exported = {} /\ own # {}
  <2>1. Sources(c.args, c.env, name, default) = own
    BY <1>1, <1>5 DEF Sources
  <2>2. Sources(p.args, p.env, name, base) = own
    BY <1>5 DEF Sources, args, own
  <2> QED BY <1>2, <2>1, <2>2
<1>6. CASE args = {} /\ exported = {} /\ own = {}
  <2>1. Sources(c.args, c.env, name, default) = {default}
    BY <1>1, <1>6 DEF Sources
  <2>2. Sources(p.args, p.env, name, base) = {base}
    BY <1>6 DEF Sources, args, own
  <2>3. value = Absent
    BY <1>6 DEF exported
  <2>4. Value(c, name, default) = default /\ value = base
    BY <1>2, <2>1, <2>2, PickOnly
  <2> QED BY <1>6, <2>3, <2>4 DEF exported
<1> QED BY <1>3, <1>4, <1>5, <1>6

\* A child comes to the plan of the program that has started it.
LEMMA ChildResolves ==
  ASSUME NEW c, NEW p, PlannedBy(p), IsStarted(c, p)
  PROVE  /\ Resolved(c, suite).mode = p.plan.mode
         /\ Resolved(c, suite).margin = p.plan.margin
         /\ p.plan.mode # "iterate" => Resolved(c, suite) = p.plan
         /\ p.plan.mode = "iterate" => Resolved(c, suite).processes = 1
         /\ Resolved(c, suite).rounds \in {p.plan.rounds, suite.rounds}
<1> DEFINE r == Resolved(c, suite)
<1>1. PICK base : /\ base = suite \/ base = Default
                  /\ p.plan.mode # "iterate" => base = suite
                  /\ p.plan.mode   = Value(p, "mode", base.mode)
                  /\ p.plan.rounds = Value(p, "rounds", base.rounds)
                  /\ p.plan.margin = Value(p, "margin", base.margin)
                  /\ p.plan.workload = Value(p, "workload-id", base.workload)
                  /\ p.plan.scope  = Value(p, "scope", base.scope)
                  /\ p.plan.mode # "iterate" =>
                       p.plan.processes = Value(p, "processes", base.processes)
                  /\ p.plan.mode # "iterate" => p.plan = Resolved(p, suite)
  <2>1. CASE p.plan = Resolved(p, suite) /\ p.plan.mode # "iterate"
    <3>1. /\ p.plan.mode   = Value(p, "mode", suite.mode)
          /\ p.plan.rounds = Value(p, "rounds", suite.rounds)
          /\ p.plan.margin = Value(p, "margin", suite.margin)
          /\ p.plan.workload = Value(p, "workload-id", suite.workload)
          /\ p.plan.scope  = Value(p, "scope", suite.scope)
      BY <2>1 DEF Resolved
    <3>2. p.plan.processes = IF p.plan.mode = "iterate" THEN 1
                             ELSE Value(p, "processes", suite.processes)
      BY <2>1 DEF Resolved
    <3> QED BY <2>1, <3>1, <3>2
  <2>2. CASE /\ p.plan.mode = "iterate"
             /\ \E n : p.plan = [Resolved(p, Default) EXCEPT !.processes = n]
    <3>1. PICK n : p.plan = [Resolved(p, Default) EXCEPT !.processes = n]
      BY <2>2
    <3>2. /\ Resolved(p, Default).mode   = Value(p, "mode", Default.mode)
          /\ Resolved(p, Default).rounds = Value(p, "rounds", Default.rounds)
          /\ Resolved(p, Default).margin = Value(p, "margin", Default.margin)
          /\ Resolved(p, Default).workload = Value(p, "workload-id", Default.workload)
          /\ Resolved(p, Default).scope  = Value(p, "scope", Default.scope)
          /\ DOMAIN Resolved(p, Default) =
               {"mode", "processes", "rounds", "margin", "workload", "scope"}
      BY DEF Resolved
    <3>3. /\ p.plan.mode = Resolved(p, Default).mode
          /\ p.plan.rounds = Resolved(p, Default).rounds
          /\ p.plan.margin = Resolved(p, Default).margin
          /\ p.plan.workload = Resolved(p, Default).workload
          /\ p.plan.scope = Resolved(p, Default).scope
      BY <3>1, <3>2
    <3> QED BY <2>2, <3>2, <3>3
  <2> QED BY <2>1, <2>2 DEF PlannedBy
<1>2. /\ r.mode = Value(c, "mode", suite.mode)
      /\ r.rounds = Value(c, "rounds", suite.rounds)
      /\ r.margin = Value(c, "margin", suite.margin)
      /\ r.workload = Value(c, "workload-id", suite.workload)
      /\ r.scope = Value(c, "scope", suite.scope)
      /\ r.processes = IF r.mode = "iterate" THEN 1
                       ELSE Value(c, "processes", suite.processes)
  BY DEF Resolved
<1> DEFINE q == p.plan
           E(name) == Values(Exported(q), name)
<1>3. /\ E("mode") = {q.mode} /\ E("processes") = {q.processes} /\ E("margin") = {q.margin}
      /\ E("rounds") = {q.rounds} \ {Absent} /\ E("workload-id") = {q.workload} \ {Absent}
      /\ E("scope") = {q.scope} \ {Absent}
  BY ExportedIs
<1>4. \A name \in Settings : \A v, b, d :
        /\ v = Value(p, name, b)
        /\ E(name) = {v} \/ (v = Absent /\ E(name) = {})
        => \/ Value(c, name, d) = v
           \/ Value(c, name, d) = d /\ v = Absent /\ b = Absent /\ E(name) = {}
  BY Inherited
<1> HIDE DEF r, q, E
<1>5. /\ "mode" \in Settings /\ "processes" \in Settings /\ "margin" \in Settings
      /\ "rounds" \in Settings /\ "workload-id" \in Settings /\ "scope" \in Settings
  BY DEF Settings
<1>6. r.mode = q.mode
  BY <1>1, <1>2, <1>3, <1>4, <1>5 DEF q
<1>7. r.margin = q.margin
  BY <1>1, <1>2, <1>3, <1>4, <1>5 DEF q
<1>8. q.mode # "iterate" => r.processes = q.processes
  BY <1>1, <1>2, <1>3, <1>4, <1>5, <1>6 DEF q
<1>9. r.rounds = q.rounds \/ (r.rounds = suite.rounds /\ q.rounds = Absent /\ base.rounds = Absent)
  <2>1. E("rounds") = {q.rounds} \/ (q.rounds = Absent /\ E("rounds") = {})
    BY <1>3
  <2> QED BY <1>1, <1>2, <1>4, <1>5, <2>1 DEF q
<1>10. r.workload = q.workload
       \/ (r.workload = suite.workload /\ q.workload = Absent /\ base.workload = Absent)
  <2>1. E("workload-id") = {q.workload} \/ (q.workload = Absent /\ E("workload-id") = {})
    BY <1>3
  <2> QED BY <1>1, <1>2, <1>4, <1>5, <2>1 DEF q
<1>11. r.scope = q.scope
       \/ (r.scope = suite.scope /\ q.scope = Absent /\ base.scope = Absent)
  <2>1. E("scope") = {q.scope} \/ (q.scope = Absent /\ E("scope") = {})
    BY <1>3
  <2> QED BY <1>1, <1>2, <1>4, <1>5, <2>1 DEF q
<1>12. q.mode # "iterate" => r = q
  <2>1. SUFFICES ASSUME q.mode # "iterate" PROVE r = q
    OBVIOUS
  <2>2. base = suite /\ q = Resolved(p, suite)
    BY <1>1, <2>1 DEF q
  <2>3. r.rounds = q.rounds /\ r.workload = q.workload /\ r.scope = q.scope
    BY <1>9, <1>10, <1>11, <2>2
  <2>4. /\ r = [mode |-> r.mode, processes |-> r.processes, rounds |-> r.rounds,
                margin |-> r.margin, workload |-> r.workload, scope |-> r.scope]
        /\ q = [mode |-> q.mode, processes |-> q.processes, rounds |-> q.rounds,
                margin |-> q.margin, workload |-> q.workload, scope |-> q.scope]
    BY <2>2 DEF r, Resolved
  <2> QED BY <1>6, <1>7, <1>8, <2>1, <2>3, <2>4
<1>13. q.mode = "iterate" => r.processes = 1
  BY <1>2, <1>6
<1>14. r.rounds \in {q.rounds, suite.rounds}
  BY <1>9
<1> QED BY <1>6, <1>7, <1>12, <1>13, <1>14 DEF r, q

\* What is resolved depends on command line and environment alone.
LEMMA SameResolved ==
  ASSUME NEW p, NEW q, q.args = p.args, q.env = p.env, NEW base
  PROVE  /\ Resolved(q, base) = Resolved(p, base)
         /\ Resolvable(q, base) <=> Resolvable(p, base)
         /\ IsChild(q) <=> IsChild(p)
<1>1. \A name, d : Value(q, name, d) = Value(p, name, d)
  BY ValueIs
<1>2. Resolved(q, base) = Resolved(p, base)
  BY <1>1 DEF Resolved
<1>3. IsChild(q) <=> IsChild(p)
  BY DEF IsChild
<1>4. Resolvable(q, base) <=> Resolvable(p, base)
  BY <1>2, <1>3 DEF Resolvable
<1> QED BY <1>2, <1>3, <1>4

\* What was planned by a process is so after its next step.
LEMMA SamePlanned ==
  ASSUME NEW p, NEW q, q.args = p.args, q.env = p.env, q.plan = p.plan, PlannedBy(p)
  PROVE  PlannedBy(q)
<1>1. /\ Resolved(q, suite) = Resolved(p, suite) /\ Resolvable(q, suite) <=> Resolvable(p, suite)
  BY SameResolved
<1>2. /\ Resolved(q, Default) = Resolved(p, Default)
      /\ Resolvable(q, Default) <=> Resolvable(p, Default)
  BY SameResolved
<1> QED BY <1>1, <1>2 DEF PlannedBy

\* A child parses what the program has parsed.
LEMMA ChildAccepts ==
  ASSUME NEW c, NEW p, Acceptable(p.args), IsStarted(c, p)
  PROVE  /\ Acceptable(c.args) /\ IsChild(c)
         /\ Names(c.args) \cap Repeats = {} /\ "format" \notin Names(c.args)
         /\ Names(c.args) \subseteq Names(p.args)
<1>1. c.args \subseteq p.args /\ Names(c.args) \subseteq Names(p.args)
  BY ArgsFewer DEF IsStarted
<1>2. \A name \in Repeats \cup Review \cup {"update-on-pass"} :
        name \notin Names(c.args) /\ Values(c.args, name) = {}
  BY ArgsTaken DEF IsStarted
<1>3. \A name \in Passes : Values(c.args, name) = Values(p.args, name)
  BY ArgsKept DEF IsStarted
<1>4. "subprocess" \in Names(c.env)
  <2>1. <<"subprocess", 1>> \in c.env
    BY DEF IsStarted, ChildEnv, Exported
  <2> QED BY <2>1 DEF Names
<1>5. Acceptable(c.args)
  <2>1. Names(c.args) \subseteq Valued \cup Flags
    BY <1>1 DEF Acceptable
  <2>2. \A o, q \in c.args : o[1] = q[1] => o = q
    BY <1>1 DEF Acceptable
  <2>3. \A n \in Passes \cup Repeats : 0 \notin Values(c.args, n)
    BY <1>2, <1>3 DEF Acceptable
  <2>4. /\ "format" \notin Names(c.args) /\ Values(c.args, "format") = {}
        /\ "max-regression" \notin Names(c.args) /\ Values(c.args, "max-regression") = {}
        /\ "update-on-pass" \notin Names(c.args) /\ "save-baseline" \notin Names(c.args)
    BY <1>2 DEF Review
  <2>5. Names(c.args) \cap Repeats = {}
    BY <1>2
  <2> QED BY <2>1, <2>2, <2>3, <2>4, <2>5 DEF Acceptable
<1>6. "format" \notin Names(c.args) /\ Names(c.args) \cap Repeats = {}
  BY <1>2 DEF Review
<1> QED BY <1>1, <1>4, <1>5, <1>6 DEF IsChild

\* What a child need not accept though the program has.
Excused(p) ==
  \/ /\ "format" \in Names(p.args)
     /\ ~(Values(p.env, "format") \subseteq Formats)
  \/ Passes \subseteq Names(p.args) \/ suite.rounds = 0

\* A child resolves the plan that its parent has resolved.
LEMMA ChildAgrees ==
  ASSUME NEW c, NEW p, PlannedBy(p), ValidPlan(p.plan), IsStarted(c, p), ~Excused(p)
  PROVE  Resolvable(c, suite)
<1> DEFINE r == Resolved(c, suite)
<1>1. /\ IsChild(c) /\ Names(c.args) \subseteq Names(p.args)
  BY ChildAccepts DEF PlannedBy
<1>2. /\ r.mode = p.plan.mode /\ r.margin = p.plan.margin
      /\ p.plan.mode # "iterate" => r = p.plan
      /\ p.plan.mode = "iterate" => r.processes = 1
      /\ r.rounds \in {p.plan.rounds, suite.rounds}
  BY ChildResolves
<1> HIDE DEF r
<1>3. ValidPlan(r)
  <2>1. CASE p.plan.mode # "iterate"
    BY <1>2, <2>1
  <2>2. CASE p.plan.mode = "iterate"
    BY <1>2, <2>2 DEF ValidPlan, Excused
  <2> QED BY <2>1, <2>2
<1>4. r.mode # "iterate" => Names(c.args) \cap (Repeats \cup Passes) = {}
  <2>1. SUFFICES ASSUME r.mode # "iterate"
                 PROVE  Names(c.args) \cap (Repeats \cup Passes) = {}
    OBVIOUS
  <2>2. p.plan = Resolved(p, suite) /\ Resolvable(p, suite) /\ p.plan.mode # "iterate"
    BY <1>2, <2>1 DEF PlannedBy
  <2>3. Names(p.args) \cap (Repeats \cup Passes) = {}
    BY <2>2 DEF Resolvable
  <2> QED BY <1>1, <2>3
<1>5. Values(c.env, "format") \subseteq Formats
  <2>1. Values(c.env, "format") = Values(p.env, "format")
    BY ExportedIs, EnvironmentIs DEF IsStarted
  <2>2. Values(p.env, "format") \subseteq Formats
    BY DEF PlannedBy, Resolvable, Excused
  <2> QED BY <2>1, <2>2
<1> QED BY <1>1, <1>3, <1>4, <1>5 DEF Resolvable, r

-----------------------------------------------------------------------------
(***************************************************************************)
(* The inductive invariant.                                                *)
(***************************************************************************)

Fields == {"at", "args", "env", "plan", "passes", "exit"}

ParentState ==
  /\ DOMAIN parent = Fields
  /\ parent.at \notin {"parse", "exit"} => Acceptable(parent.args)
  /\ parent.at = "repeat" => Names(parent.args) \cap Repeats # {}
  /\ parent.at = "planned" => PlannedBy(parent)
  /\ parent.at = "supervise" => PlannedBy(parent) /\ ValidPlan(parent.plan)

ChildState(c) ==
  /\ DOMAIN c = Fields
  /\ c.at \in {"parse", "passes", "engine", "measure", "saved", "exit"}
  /\ c.plan # Absent => c.plan = Resolved(c, suite)
  /\ c.exit = 2 => Excused(parent)

Following ==
  offspring # Absent =>
    /\ parent.at \in {"supervise", "exit"}
    /\ PlannedBy(parent) /\ ValidPlan(parent.plan)
    /\ IsStarted(offspring, parent)
    /\ ChildState(offspring)

MainInv == ParentState /\ Following

\* The invariant says what was to be shown.
LEMMA MainInvImplies ==
  ASSUME MainInv
  PROVE  ChildrenRunThePlan
<1>1. CASE offspring = Absent
  BY <1>1 DEF ChildrenRunThePlan
<1>2. CASE offspring # Absent
  <2>1. /\ PlannedBy(parent) /\ IsStarted(offspring, parent) /\ ChildState(offspring)
    BY <1>2 DEF MainInv, Following
  <2>2. /\ Resolved(offspring, suite).mode = parent.plan.mode
        /\ Resolved(offspring, suite).margin = parent.plan.margin
        /\ parent.plan.mode # "iterate" => Resolved(offspring, suite) = parent.plan
    BY <2>1, ChildResolves
  <2> QED BY <2>1, <2>2 DEF ChildrenRunThePlan, ChildState, Excused
<1> QED BY <1>1, <1>2

\* A step of a program keeps its command line and its environment.
LEMMA MovesKeep ==
  ASSUME NEW p, NEW q, Moves(p, q), DOMAIN p = Fields
  PROVE  DOMAIN q = Fields /\ q.args = p.args /\ q.env = p.env
BY DEF Moves, ParseProcesses, Repeat, ParsePasses, RunEngine, MeasureOnce, Refuse, Fields

\* Whoever names more than one of two names both.
LEMMA BothPasses ==
  ASSUME NEW names, Cardinality(names \cap Passes) > 1
  PROVE  Passes \subseteq names
<1>1. SUFFICES ASSUME NEW x \in Passes, x \notin names PROVE FALSE
  OBVIOUS
<1>2. PICK y \in Passes : names \cap Passes \subseteq {y}
  BY <1>1 DEF Passes
<1>3. IsFiniteSet({y}) /\ Cardinality({y}) = 1
  BY FS_Singleton
<1>4. Cardinality(names \cap Passes) \in Nat /\ Cardinality(names \cap Passes) =< 1
  BY <1>2, <1>3, FS_Subset, FS_CardinalityType
<1> QED BY <1>4

\* A step of a child follows its parent's plan.
LEMMA ChildStep ==
  ASSUME MainInv, offspring # Absent, NEW q, Moves(offspring, q)
  PROVE  ChildState(q) /\ IsStarted(q, parent)
<1> DEFINE c == offspring
<1>1. /\ PlannedBy(parent) /\ ValidPlan(parent.plan) /\ IsStarted(c, parent)
      /\ ChildState(c)
  BY DEF MainInv, Following
<1>2. DOMAIN c = Fields
  BY <1>1 DEF ChildState
<1>3. DOMAIN q = Fields /\ q.args = c.args /\ q.env = c.env
  BY <1>2, MovesKeep
<1>4. IsStarted(q, parent)
  BY <1>1, <1>3 DEF IsStarted
<1>5. /\ Acceptable(c.args) /\ IsChild(c)
      /\ Names(c.args) \subseteq Names(parent.args)
  BY <1>1, ChildAccepts DEF PlannedBy
<1>6. Resolved(q, suite) = Resolved(c, suite)
  BY <1>3, SameResolved
<1>7. ~Resolvable(c, suite) => Excused(parent)
  BY <1>1, ChildAgrees
<1>8. ASSUME c.at = "parse", q = ParseProcesses(c) PROVE ChildState(q)
  <2>1. q = [c EXCEPT !.at = "passes"]
    BY <1>5, <1>8 DEF ParseProcesses
  <2>2. q.at = "passes" /\ q.plan = c.plan /\ q.exit = c.exit
    BY <1>2, <2>1 DEF Fields
  <2> QED BY <1>1, <1>3, <1>6, <2>2 DEF ChildState
<1>9. ASSUME c.at = "passes", q = ParsePasses(c) PROVE ChildState(q)
  <2>1. CASE Cardinality(Names(c.args) \cap Passes) > 1
    <3>1. Excused(parent)
      BY <1>5, <2>1, BothPasses DEF Excused
    <3>2. q.at = "exit" /\ q.plan = c.plan
      BY <1>2, <1>9, <2>1 DEF ParsePasses, Refuse, Fields
    <3> QED BY <1>1, <1>3, <1>6, <3>1, <3>2 DEF ChildState
  <2>2. CASE ~(Cardinality(Names(c.args) \cap Passes) > 1)
    <3>1. PICK n : q = [c EXCEPT !.at = "engine", !.passes = n]
      BY <1>9, <2>2 DEF ParsePasses
    <3>2. q.at = "engine" /\ q.plan = c.plan /\ q.exit = c.exit
      BY <1>2, <3>1 DEF Fields
    <3> QED BY <1>1, <1>3, <1>6, <3>2 DEF ChildState
  <2> QED BY <2>1, <2>2
<1>10. ASSUME c.at = "engine", q = RunEngine(c) PROVE ChildState(q)
  <2> DEFINE plan == Resolved(c, suite)
  <2>1. \/ /\ ~Resolvable(c, suite) /\ q = [c EXCEPT !.at = "exit", !.exit = 2]
        \/ \E e : e # 2 /\ q = [c EXCEPT !.at = "exit", !.exit = e, !.plan = plan]
        \/ q = [c EXCEPT !.at = "measure", !.plan = plan]
    <3>1. q = IF ~Resolvable(c, suite) THEN Refuse(c)
              ELSE IF plan.mode # "iterate" /\ "no-busy-gate" \in Names(c.args)
              THEN [c EXCEPT !.at = "exit", !.exit = 101, !.plan = plan]
              ELSE IF "dry-run" \in Names(c.args)
              THEN [c EXCEPT !.at = "exit", !.exit = 0, !.plan = plan]
              ELSE [c EXCEPT !.at = "measure", !.plan = plan]
      <4> HIDE DEF c
      <4> QED BY <1>5, <1>10 DEF RunEngine
    <3> HIDE DEF plan, c
    <3>2. 101 # 2 /\ 0 # 2
      OBVIOUS
    <3> QED BY <3>1, <3>2 DEF Refuse
  <2> HIDE DEF plan
  <2>2. CASE ~Resolvable(c, suite) /\ q = [c EXCEPT !.at = "exit", !.exit = 2]
    <3>1. q.at = "exit" /\ q.plan = c.plan
      BY <1>2, <2>2 DEF Fields
    <3> QED BY <1>1, <1>3, <1>6, <1>7, <2>2, <3>1 DEF ChildState
  <2>3. CASE \E e : e # 2 /\ q = [c EXCEPT !.at = "exit", !.exit = e, !.plan = plan]
    <3>1. q.at = "exit" /\ q.plan = plan /\ q.exit # 2
      BY <1>2, <2>3 DEF Fields
    <3> QED BY <1>1, <1>3, <1>6, <3>1 DEF ChildState, plan
  <2>4. CASE q = [c EXCEPT !.at = "measure", !.plan = plan]
    <3>1. q.at = "measure" /\ q.plan = plan /\ q.exit = c.exit
      BY <1>2, <2>4 DEF Fields
    <3> QED BY <1>1, <1>3, <1>6, <3>1 DEF ChildState, plan
  <2> QED BY <2>1, <2>2, <2>3, <2>4
<1>11. ASSUME c.at = "measure", q = MeasureOnce(c) PROVE ChildState(q)
  <2>1. /\ q.at \in {"engine", "saved"} /\ q.plan = c.plan /\ q.exit = c.exit
    BY <1>2, <1>5, <1>11 DEF MeasureOnce, Fields
  <2> QED BY <1>1, <1>3, <1>6, <2>1 DEF ChildState
<1>12. c.at # "repeat"
  BY <1>1 DEF ChildState
<1> QED BY <1>4, <1>8, <1>9, <1>10, <1>11, <1>12 DEF Moves

\* The program finds its command line acceptable before all else, and plans
\* only what it has resolved.
LEMMA ParentStep ==
  ASSUME MainInv, ParentMoves
  PROVE  ParentState'
<1> DEFINE p == parent
           q == parent'
<1>1. Moves(p, q) /\ suite' = suite
  BY DEF ParentMoves
<1>2. /\ DOMAIN p = Fields
      /\ p.at \notin {"parse", "exit"} => Acceptable(p.args)
      /\ p.at = "repeat" => Names(p.args) \cap Repeats # {}
  BY DEF MainInv, ParentState
<1>3. DOMAIN q = Fields /\ q.args = p.args /\ q.env = p.env
  BY <1>1, <1>2, MovesKeep
<1>4. /\ q.at \notin {"parse", "exit"} => Acceptable(q.args)
      /\ q.at = "repeat" => Names(q.args) \cap Repeats # {}
      /\ q.at # "supervise"
  <2>1. CASE p.at = "parse" /\ q = ParseProcesses(p)
    BY <1>2, <1>3, <2>1 DEF ParseProcesses, Refuse, Fields
  <2>2. CASE p.at = "repeat" /\ q = Repeat(p)
    BY <1>2, <1>3, <2>2 DEF Repeat, Refuse, Fields
  <2>3. CASE p.at = "passes" /\ q = ParsePasses(p)
    BY <1>2, <1>3, <2>3 DEF ParsePasses, Refuse, Fields
  <2>4. CASE p.at = "engine" /\ q = RunEngine(p)
    BY <1>2, <1>3, <2>4 DEF RunEngine, Refuse, Fields
  <2>5. CASE p.at = "measure" /\ q = MeasureOnce(p)
    BY <1>2, <1>3, <2>5 DEF MeasureOnce, Fields
  <2> HIDE DEF p, q
  <2> QED BY <1>1, <2>1, <2>2, <2>3, <2>4, <2>5 DEF Moves
<1>5. ASSUME q.at = "planned" PROVE PlannedBy(q)
  <2>1. CASE p.at = "repeat" /\ q = Repeat(p)
    <3>1. Acceptable(p.args) /\ Names(p.args) \cap Repeats # {}
      BY <1>2, <2>1
    <3>2. PICK n : /\ Resolvable(p, Default)
                   /\ q = [p EXCEPT !.at = "planned",
                             !.plan = [Resolved(p, Default) EXCEPT !.processes = n]]
      BY <1>2, <1>5, <2>1 DEF Repeat, Refuse, Fields
    <3>3. q.plan = [Resolved(p, Default) EXCEPT !.processes = n]
      BY <1>2, <3>2 DEF Fields
    <3>4. Resolved(p, Default).mode = "iterate"
      BY <3>1, <3>2 DEF Resolvable
    <3>5. q.plan.mode = "iterate"
      BY <3>3, <3>4 DEF Resolved
    <3>6. Resolved(q, Default) = Resolved(p, Default) /\ Resolvable(q, Default)
      BY <1>3, <3>2, SameResolved
    <3> QED BY <1>3, <3>1, <3>3, <3>5, <3>6 DEF PlannedBy
  <2>2. CASE p.at = "engine" /\ q = RunEngine(p)
    <3>1. Acceptable(p.args)
      BY <1>2, <2>2
    <3>2. /\ Resolvable(p, suite) /\ Resolved(p, suite).mode # "iterate"
          /\ q = [p EXCEPT !.at = "planned", !.plan = Resolved(p, suite)]
      BY <1>2, <1>5, <2>2 DEF RunEngine, Refuse, Fields
    <3>3. q.plan = Resolved(p, suite)
      BY <1>2, <3>2 DEF Fields
    <3>4. Resolved(q, suite) = Resolved(p, suite) /\ Resolvable(q, suite)
      BY <1>3, <3>2, SameResolved
    <3> QED BY <1>3, <3>1, <3>2, <3>3, <3>4 DEF PlannedBy
  <2>3. CASE p.at = "parse" /\ q = ParseProcesses(p)
    BY <1>2, <1>5, <2>3 DEF ParseProcesses, Refuse, Fields
  <2>4. CASE p.at = "passes" /\ q = ParsePasses(p)
    BY <1>2, <1>5, <2>4 DEF ParsePasses, Refuse, Fields
  <2>5. CASE p.at = "measure" /\ q = MeasureOnce(p)
    BY <1>2, <1>5, <2>5 DEF MeasureOnce, Fields
  <2> HIDE DEF p, q
  <2> QED BY <1>1, <2>1, <2>2, <2>3, <2>4, <2>5 DEF Moves
<1>6. q.at = "planned" => PlannedBy(parent)'
  <2>1. PlannedBy(parent') => PlannedBy(parent)'
    BY <1>1 DEF PlannedBy
  <2> QED BY <1>5, <2>1
<1> QED BY <1>3, <1>4, <1>6 DEF ParentState

\* The invariant holds at first, ...
LEMMA MainInvInit == MainInit => MainInv
<1> SUFFICES ASSUME MainInit PROVE MainInv
  OBVIOUS
<1>1. PICK args, env : parent = Process(args, env)
  BY DEF MainInit
<1>2. parent.at = "parse" /\ DOMAIN parent = Fields
  BY <1>1 DEF Process, Fields
<1>3. ParentState
  BY <1>2 DEF ParentState
<1>4. Following
  BY DEF MainInit, Following
<1> QED BY <1>3, <1>4 DEF MainInv

\* Where the program and what it was given stay, so does what is said of it.
LEMMA PlannedKept ==
  ASSUME suite' = suite, parent'.args = parent.args, parent'.env = parent.env,
         parent'.plan = parent.plan
  PROVE  /\ PlannedBy(parent) => PlannedBy(parent)'
         /\ Excused(parent)' <=> Excused(parent)
         /\ ValidPlan(parent.plan) => ValidPlan(parent'.plan)
<1>1. PlannedBy(parent) => PlannedBy(parent')
  BY SamePlanned
<1>2. PlannedBy(parent') => PlannedBy(parent)'
  BY DEF PlannedBy
<1>3. Excused(parent)' <=> Excused(parent)
  BY DEF Excused
<1> QED BY <1>1, <1>2, <1>3

\* ... and every step keeps it.
LEMMA MainInvStep == MainInv /\ [MainNext]_mainVars => MainInv'
<1> SUFFICES ASSUME MainInv, [MainNext]_mainVars PROVE MainInv'
  OBVIOUS
<1>1. ParentState /\ Following
  BY DEF MainInv
<1>2. CASE UNCHANGED mainVars
  BY <1>1, <1>2 DEF mainVars, MainInv, ParentState, Following, PlannedBy, ChildState,
     IsStarted, Excused
<1>3. CASE ParentMoves
  <2>1. ParentState'
    BY <1>3, ParentStep
  <2>2. offspring = Absent
    BY <1>1, <1>3 DEF Following, ParentMoves, Moves
  <2>3. Following'
    BY <1>3, <2>2 DEF ParentMoves, Following
  <2> QED BY <2>1, <2>3 DEF MainInv
<1>4. CASE ChildMoves
  <2>1. offspring # Absent /\ Moves(offspring, offspring') /\ suite' = suite /\ parent' = parent
    BY <1>4 DEF ChildMoves
  <2>2. ChildState(offspring') /\ IsStarted(offspring', parent)
    BY <2>1, ChildStep
  <2>3. ChildState(offspring)' /\ IsStarted(offspring, parent)'
    BY <2>1, <2>2 DEF ChildState, IsStarted, Excused
  <2>4. ParentState'
    BY <1>1, <2>1 DEF ParentState, PlannedBy
  <2>5. Following'
    BY <1>1, <2>1, <2>3, PlannedKept DEF Following
  <2> QED BY <2>4, <2>5 DEF MainInv
<1>5. CASE BeginExperiment
  <2>1. /\ parent.at = "planned" /\ suite' = suite /\ offspring' = offspring
        /\ \/ ValidPlan(parent.plan) /\ parent' = [parent EXCEPT !.at = "supervise"]
           \/ parent' = Refuse(parent)
    BY <1>5 DEF BeginExperiment
  <2>2. DOMAIN parent = Fields /\ Acceptable(parent.args) /\ PlannedBy(parent)
    BY <1>1, <2>1 DEF ParentState
  <2>3. /\ DOMAIN parent' = Fields /\ parent'.args = parent.args
        /\ parent'.env = parent.env /\ parent'.plan = parent.plan
        /\ \/ ValidPlan(parent.plan) /\ parent'.at = "supervise"
           \/ parent'.at = "exit"
    BY <2>1, <2>2 DEF Refuse, Fields
  <2>4. PlannedBy(parent)' /\ (ValidPlan(parent.plan) => ValidPlan(parent'.plan))
    BY <2>1, <2>2, <2>3, PlannedKept
  <2>5. ParentState'
    BY <2>2, <2>3, <2>4 DEF ParentState
  <2>6. Following'
    BY <1>1, <2>1 DEF Following
  <2> QED BY <2>5, <2>6 DEF MainInv
<1>6. CASE StartChild
  <2>1. /\ parent.at = "supervise" /\ suite' = suite /\ parent' = parent
        /\ offspring' = Process(ChildArgs(parent.args), ChildEnv(parent.env, parent.plan))
    BY <1>6 DEF StartChild
  <2>2. PlannedBy(parent) /\ ValidPlan(parent.plan)
    BY <1>1, <2>1 DEF ParentState
  <2>3. /\ DOMAIN offspring' = Fields /\ offspring'.at = "parse"
        /\ offspring'.plan = Absent /\ offspring'.exit # 2
        /\ offspring'.args = ChildArgs(parent.args)
        /\ offspring'.env = ChildEnv(parent.env, parent.plan)
    BY <2>1, BenchMainAssumption DEF Process, Fields
  <2>4. ChildState(offspring)' /\ IsStarted(offspring, parent)'
    BY <2>1, <2>3 DEF ChildState, IsStarted
  <2>5. ParentState'
    BY <1>1, <2>1 DEF ParentState, PlannedBy
  <2>6. Following'
    BY <2>1, <2>2, <2>4, PlannedKept DEF Following
  <2> QED BY <2>5, <2>6 DEF MainInv
<1>7. CASE ReapChild
  <2>1. CASE offspring.at = "saved"
    <3>1. /\ offspring' = Absent /\ suite' = suite /\ parent.at = "supervise"
          /\ \E at : parent' = [parent EXCEPT !.at = at] /\ at \in {"review", "supervise"}
      BY <1>7, <2>1 DEF ReapChild
    <3>2. PlannedBy(parent) /\ ValidPlan(parent.plan) /\ DOMAIN parent = Fields
      BY <1>1, <3>1 DEF ParentState
    <3>3. /\ DOMAIN parent' = Fields /\ parent'.args = parent.args
          /\ parent'.env = parent.env /\ parent'.plan = parent.plan
          /\ parent'.at \in {"review", "supervise"}
      BY <3>1, <3>2 DEF Fields
    <3>4. PlannedBy(parent)' /\ ValidPlan(parent'.plan)
      BY <3>1, <3>2, <3>3, PlannedKept
    <3>5. ParentState'
      BY <3>2, <3>3, <3>4 DEF ParentState, PlannedBy
    <3>6. Following'
      BY <3>1 DEF Following
    <3> QED BY <3>5, <3>6 DEF MainInv
  <2>2. CASE offspring.at # "saved"
    <3>1. /\ offspring' = offspring /\ suite' = suite /\ parent' = Refuse(parent)
          /\ offspring # Absent
      BY <1>7, <2>2 DEF ReapChild
    <3>2. /\ PlannedBy(parent) /\ ValidPlan(parent.plan) /\ DOMAIN parent = Fields
          /\ IsStarted(offspring, parent) /\ ChildState(offspring)
      BY <1>1, <3>1 DEF ParentState, Following
    <3>3. /\ DOMAIN parent' = Fields /\ parent'.args = parent.args
          /\ parent'.env = parent.env /\ parent'.plan = parent.plan
          /\ parent'.at = "exit"
      BY <3>1, <3>2 DEF Refuse, Fields
    <3>4. PlannedBy(parent)' /\ ValidPlan(parent'.plan) /\ (Excused(parent)' <=> Excused(parent))
      BY <3>1, <3>2, <3>3, PlannedKept
    <3>5. ParentState'
      BY <3>3 DEF ParentState
    <3>6. IsStarted(offspring, parent)' /\ ChildState(offspring)'
      BY <3>1, <3>2, <3>3, <3>4 DEF IsStarted, ChildState
    <3>7. Following'
      BY <3>3, <3>4, <3>6 DEF Following
    <3> QED BY <3>5, <3>7 DEF MainInv
  <2> QED BY <2>1, <2>2
<1> QED BY <1>2, <1>3, <1>4, <1>5, <1>6, <1>7 DEF MainNext

\* A child comes to the plan that the program has recorded: the main! macro and
\* run_processes_planned.
THEOREM ChildrenTheorem == MainSpec => []ChildrenRunThePlan
<1>1. MainInit => MainInv
  BY MainInvInit
<1>2. MainInv /\ [MainNext]_mainVars => MainInv'
  BY MainInvStep
<1>3. MainInv => ChildrenRunThePlan
  BY MainInvImplies
<1> QED BY <1>1, <1>2, <1>3, PTL DEF MainSpec
=============================================================================
