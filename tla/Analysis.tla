-------------------------------- MODULE Analysis --------------------------------
(***************************************************************************)
(* What a group's rounds are turned into: the estimate of the iterations   *)
(* of a sample and the list of comparisons of src/src/engine.rs, and the   *)
(* summaries, outlier fences, intervals, ranks and verdict of stats.rs.    *)
(*                                                                         *)
(* Times are whole numbers that every division here divides: they are      *)
(* multiples of a Unit that every number of rounds divides.  A median, a   *)
(* fence and a rank are doubled, a bound of the bootstrap is the sum it is *)
(* the mean of.                                                            *)
(***************************************************************************)
EXTENDS Integers, Sequences, FiniteSets, SequencesExt, FiniteSetsExt, Totals

CONSTANTS
  Cost,        \* nanoseconds that an iteration may take
  Disturbance, \* nanoseconds that the first call may take in addition
  Settings,      \* sample_target_ns, min_sample_ns and the range of iterations
  TimerTick,        \* timer_resolution_ns while estimating
  Observation, \* rounds of two arms: iterations and the time of each
  MaxRounds,
  Unit,        \* what the times of an iteration are multiples of
  Resolution,  \* timer_resolution_ns of the rounds
  Noise,       \* noise_threshold, in percent
  FewRanks,    \* below it the rank test answers nothing: 10 in the code
  MaxArms,
  Unknown      \* no value

ASSUME AnalysisAssumption ==
  /\ MaxRounds \in Nat \ {0} /\ Resolution \in Nat /\ Noise \in Nat
  /\ FewRanks \in Nat \ {0} /\ MaxArms \in Nat \ {0} /\ TimerTick \in Nat
  /\ Cost \subseteq Nat /\ Disturbance \subseteq Nat
  /\ Settings \subseteq [target : Nat, shortest : Nat, fewest : Nat, most : Nat]
  /\ \A c \in Settings : c.fewest <= c.most
  /\ Unit \in Nat \ {0} /\ \A n \in 1 .. MaxRounds : Unit % n = 0
  /\ \A r \in Observation :
       /\ r.iterations \in Nat \ {0} /\ r.base \in Int /\ r.candidate \in Int
       /\ r.base % (Unit * r.iterations) = 0 /\ r.candidate % (Unit * r.iterations) = 0

VARIABLES
  stage,              \* estimating, estimated, measuring, analysed, listing, compared
  steady, settings,     \* the cost of the benchmark, and its group's settings
  iters, tries,       \* estimate_iterations' loop
  estimate,           \* iterations per sample
  rounds,             \* what the two arms took
  analysis,           \* PairedAnalysis, with the first arm's slope
  inventory           \* the comparisons of the group

estimating == <<steady, settings, iters, tries, estimate>>
analysisVars == <<stage, estimating, rounds, analysis, inventory>>

AnalysisInit ==
  /\ stage = "estimating"
  /\ steady \in Cost /\ settings \in Settings
  /\ iters = 1 /\ tries = 0 /\ estimate = Unknown
  /\ rounds = <<>> /\ analysis = Unknown /\ inventory = Unknown

(***************************************************************************)
(* Estimating.                                                             *)
(***************************************************************************)

\* The largest of three targets.  Twice the second caps the first two, which
\* is no bound: it is never below their maximum.
Wanted(elapsed) ==
  LET each      == Max({Max({elapsed, 1000}) \div iters, 1})
      precision == Max({TimerTick * 1000, 10000}) \div each
      target    == settings.target \div each
      shortest  == IF target >= 20 THEN 0 ELSE settings.shortest \div each
  IN Max({Min({Max({precision, target}), Max({2 * target, precision})}), shortest})

Clamped(n) == Min({Max({n, 1, settings.fewest}), settings.most})

Elapsed == {iters * steady + d : d \in IF tries = 0 THEN Disturbance ELSE {0}}

EstimateAgain ==
  /\ stage = "estimating" /\ tries < 4
  /\ \E e \in Elapsed :
       /\ Wanted(e) > 2 * iters
       /\ iters' = Wanted(e) /\ tries' = tries + 1
  /\ UNCHANGED <<stage, steady, settings, estimate, rounds, analysis, inventory>>

\* Settled, or the fifth call.
Estimated ==
  /\ stage = "estimating" /\ stage' = "estimated"
  /\ \E e \in Elapsed :
       /\ ~(Wanted(e) > 2 * iters /\ tries < 4)
       /\ estimate' = Clamped(Wanted(e))
  /\ UNCHANGED <<steady, settings, iters, tries, rounds, analysis, inventory>>

\* The rounds; what was estimated with is not looked at again.
BeginRounds ==
  /\ stage = "estimated" /\ stage' = "measuring"
  /\ steady' = Unknown /\ settings' = Unknown /\ iters' = Unknown
  /\ tries' = Unknown /\ estimate' = Unknown
  /\ UNCHANGED <<rounds, analysis, inventory>>

Measure ==
  /\ stage = "measuring" /\ Len(rounds) < MaxRounds
  /\ \E r \in Observation : rounds' = Append(rounds, r)
  /\ UNCHANGED <<stage, estimating, analysis, inventory>>

(***************************************************************************)
(* Summaries.                                                              *)
(***************************************************************************)

Distance(a, b) == Max({a - b, b - a})

\* The k-th smallest value has less than k below it, and k up to it.
Below(values, v) == {i \in DOMAIN values : values[i] < v}
UpTo(values, v) == {i \in DOMAIN values : values[i] <= v}
Smallest(values, k) ==
  CHOOSE v \in ToSet(values) :
    Cardinality(Below(values, v)) < k /\ k <= Cardinality(UpTo(values, v))
Ascending(values) == [k \in DOMAIN values |-> Smallest(values, k)]

\* The values at some places, in their order.
Selected(values, places) ==
  [j \in 1 .. Cardinality(places) |->
     values[CHOOSE k \in places : Cardinality(places \cap 1 .. k) = j]]

New == [n |-> 0, min |-> Unknown, max |-> Unknown, mean |-> 0, m2 |-> 0]

PushOldMean(s, v) ==
  LET n    == s.n + 1
      mean == s.mean + (v - s.mean) \div n
  IN [n |-> n, mean |-> mean,
      min |-> IF s.n = 0 THEN v ELSE Min({s.min, v}),
      max |-> IF s.n = 0 THEN v ELSE Max({s.max, v}),
      m2  |-> s.m2 + (v - s.mean) * (v - s.mean)]

\* Welford's step.
Push(s, v) ==
  LET n    == s.n + 1
      mean == s.mean + (v - s.mean) \div n
  IN [n |-> n, mean |-> mean,
      min |-> IF s.n = 0 THEN v ELSE Min({s.min, v}),
      max |-> IF s.n = 0 THEN v ELSE Max({s.max, v}),
      m2  |-> s.m2 + (v - s.mean) * (v - mean)]

\* The summaries of the first values.
Summaries(values) ==
  LET summary[n \in 0 .. Len(values)] ==
        IF n = 0 THEN New ELSE Push(summary[n - 1], values[n])
  IN summary

\* Twice the median of sorted values.
Middle(sorted) ==
  LET n == Len(sorted) IN sorted[(n + 1) \div 2] + sorted[n \div 2 + 1]

\* With twice the median, and four times the median absolute deviation.
FromSlice(values) ==
  LET s      == Summaries(values)[Len(values)]
      median == Middle(Ascending(values))
      away   == [k \in DOMAIN values |-> Distance(2 * values[k], median)]
  IN [n |-> s.n, mean |-> s.mean, min |-> s.min, max |-> s.max, m2 |-> s.m2,
      median |-> median, mad |-> Middle(Ascending(away))]

\* The engine's own running form, n squared times the variance.
StreamingVariance(values) ==
  Len(values) * Total(Squares(values)) - Total(values) * Total(values)

(***************************************************************************)
(* The comparison of two arms.                                             *)
(***************************************************************************)

Base(r) == r.base \div r.iterations
Diff(r) == r.candidate \div r.iterations - Base(r)
Bases(rs) == [k \in DOMAIN rs |-> Base(rs[k])]
Diffs(rs) == [k \in DOMAIN rs |-> Diff(rs[k])]

\* Tukey's fences, doubled.
Fences(values) ==
  LET s   == Ascending(values)
      q1  == s[Len(s) \div 4 + 1]
      q3  == s[(Len(s) * 3) \div 4 + 1]
      iqr == Max({q3 - q1, 1})
  IN (2 * q1 - 3 * iqr) .. (2 * q3 + 3 * iqr)

Within(rs) ==
  {k \in DOMAIN rs : Len(rs) >= 4 => 2 * Diff(rs[k]) \in Fences(Diffs(rs))}
Kept(rs) == Selected(rs, Within(rs))

\* Percentiles of the means of resamples, as sums: anything between the
\* extremes, of which three stand for all.
Bootstrap(values) ==
  LET sums == {Len(values) * Min(ToSet(values)), Total(values),
               Len(values) * Max(ToSet(values))}
  IN {b \in sums \X sums : b[1] <= b[2]}

\* Values that tie may come out of the sort in any order.
Order == [n \in 0 .. MaxRounds |-> SetToSeqs(1 .. n)]
Rankings(values) ==
  {p \in Order[Len(values)] :
     \A k \in 1 .. Len(p) - 1 : values[p[k]] <= values[p[k + 1]]}

\* What Spearman's rho times n (n^2 - 1) may come out as.
Miss(p) == Total([k \in DOMAIN p |-> (p[k] - k) * (p[k] - k)])
Drifts(values) ==
  LET n == Len(values) IN
  IF n < 3 THEN {0}
  ELSE {n * (n * n - 1) - 6 * Miss(p) : p \in Rankings(values)}

\* Twice the average rank, of sizes that tie.
Rank(sizes, x) ==
  LET s  == Ascending(sizes)
      at == {k \in DOMAIN s : s[k] = x}
  IN (Min(at) - 1) + Max(at) + 1

Sizes(values) == [k \in DOMAIN values |-> Distance(values[k], 0)]

Nonzero(values) == Selected(values, {k \in DOMAIN values : values[k] # 0})

\* How far the ranks of the positive differences are from half of all.
SignedRank(values) ==
  LET d == Nonzero(values)
      n == Len(d)
      positive == [k \in DOMAIN d |-> IF d[k] > 0 THEN Rank(Sizes(d), Sizes(d)[k])
                                      ELSE 0]
  IN IF n < FewRanks THEN Unknown
     ELSE Distance(2 * Total(positive), n * (n + 1))

FirstIterations(rs) == rs[1].iterations

MedianIterations(rs) ==
  Ascending([k \in DOMAIN rs |-> rs[k].iterations])[Len(rs) \div 2 + 1]

\* The difference is below two ticks of the timer.
Limited(diff, rs) ==
  Resolution > 0 /\
  Distance(diff.mean, 0) * MedianIterations(rs) < 2 * Resolution

Outside(bounds, base, n) ==
  LET band == Noise * Distance(base.mean, 0) * n
  IN 100 * bounds[1] > band \/ 100 * bounds[2] < -band

\* Least squares through the origin, as numerator and denominator.
Slope(rs) ==
  IF Len(rs) < 3 THEN Unknown
  ELSE <<Total([k \in DOMAIN rs |-> rs[k].iterations * rs[k].base]),
         Total([k \in DOMAIN rs |-> rs[k].iterations * rs[k].iterations])>>

\* One for each interval that the bootstrap may come to.
Analyses(rs) ==
  LET kept == Kept(rs)
      d    == Diffs(kept)
      diff == FromSlice(d)
      base == FromSlice(Bases(kept))
  IN {[kept |-> kept, outliers |-> Cardinality(DOMAIN rs \ Within(rs)),
       diff |-> diff, base |-> base, ci |-> b, drift |-> Drifts(d),
       wilcoxon |-> SignedRank(d), limited |-> Limited(diff, rs),
       significant |-> ~Limited(diff, rs) /\ Outside(b, base, Len(d)),
       slope |-> Slope(rs)] : b \in Bootstrap(d)}

Analyse ==
  /\ stage = "measuring" /\ stage' = "analysed" /\ rounds # <<>>
  /\ analysis' \in Analyses(rounds)
  /\ UNCHANGED <<estimating, rounds, inventory>>

(***************************************************************************)
(* The comparisons of a group.                                             *)
(***************************************************************************)

\* The first arm is the baseline when none, or an unknown one, is named.
Listed(arms, base, only) ==
  {<<"baseline", base, i>> : i \in (1 .. arms) \ {base}} \cup
  {t \in {"other"} \X (1 .. arms) \X (1 .. arms) :
     ~only /\ t[2] < t[3] /\ base \notin {t[2], t[3]}}

\* The next part; what was analysed is not looked at again.
Retain ==
  /\ stage = "analysed" /\ stage' = "listing"
  /\ rounds' = <<>> /\ analysis' = Unknown
  /\ UNCHANGED <<estimating, inventory>>

Compare ==
  /\ stage = "listing" /\ stage' = "compared"
  /\ \E arms \in 1 .. MaxArms, option \in {"auto", "all", "baseline"} :
     \E base \in 1 .. arms :
       LET only == option = "baseline" \/ (option = "auto" /\ arms > 3) IN
       inventory' = [arms |-> arms, only |-> only,
                     pairs |-> Listed(arms, base, only)]
  /\ UNCHANGED <<estimating, rounds, analysis>>

AnalysisNext ==
  \/ EstimateAgain \/ Estimated \/ BeginRounds \/ Measure \/ Analyse
  \/ Retain \/ Compare

AnalysisSpec == AnalysisInit /\ [][AnalysisNext]_analysisVars

(***************************************************************************)
(* Properties.                                                             *)
(***************************************************************************)

\* A difference that is called significant is one: the whole interval is beyond
\* the noise on one side, where a round that was kept is as well; the mean is
\* two ticks or more in at least half of all rounds, whatever the iterations of
\* each; and the rounds that the fences threw out are fewer than the ones that
\* it rests on (stats.rs:379-480).
SignificanceIsEarned ==
  stage = "analysed" /\ analysis.significant =>
    LET rs   == analysis.kept
        d    == Diffs(rs)
        band == Noise * Distance(Total(Bases(rs)), 0)
    IN /\ \/ /\ 100 * analysis.ci[1] > band
             /\ \E k \in DOMAIN d : 100 * Len(d) * d[k] > band
          \/ /\ 100 * analysis.ci[2] < -band
             /\ \E k \in DOMAIN d : 100 * Len(d) * d[k] < -band
       /\ 2 * Cardinality({k \in DOMAIN rounds :
                Distance(Total(d), 0) * rounds[k].iterations
                  >= 2 * Resolution * Len(d)}) >= Len(rounds)
       /\ analysis.outliers < Len(rs)

\* A settled estimate does not make the sample of a steady benchmark longer
\* than twice its target, the precision or the shortest sample ask for.
SampleFits ==
  stage = "estimated" =>
    \/ estimate \in {1, settings.fewest}
    \/ estimate * steady <= Max({2 * settings.target, 1000 * TimerTick, 10000,
                                 settings.shortest})

\* "The 2x cap on sample_target": a benchmark that has its twenty iterations in
\* a sample does not run longer than twice the target for precision's sake
\* (engine.rs:1153-1155).
SampleWithinTwiceTarget ==
  stage = "estimated" /\ settings.target >= 20 * steady =>
    estimate * steady <= 2 * settings.target

\* The streaming mean and variance are those of the definition, and of the
\* form that decides on more rounds.
MomentsAgree ==
  stage = "analysed" =>
    LET d == Diffs(analysis.kept)
        s == analysis.diff
    IN /\ s.n = Len(d) /\ s.n * s.mean = Total(d)
       /\ s.min = Min(ToSet(d)) /\ s.max = Max(ToSet(d))
       /\ s.m2 = Total([k \in DOMAIN d |-> (d[k] - s.mean) * (d[k] - s.mean)])
       /\ s.n * s.m2 = StreamingVariance(d)

\* Ranks share what ties occupy: they add up to all, and exchanging the arms
\* does not change the test.
RanksAgree ==
  stage = "analysed" =>
    LET d == Nonzero(Diffs(analysis.kept))
        n == Len(d)
    IN /\ Total([k \in DOMAIN d |-> Rank(Sizes(d), Sizes(d)[k])]) = n * (n + 1)
       /\ SignedRank([k \in DOMAIN d |-> -d[k]]) = SignedRank(d)

\* Differences that grow, or shrink, with every round drift fully.
DriftAgrees ==
  stage = "analysed" =>
    LET d == Diffs(analysis.kept)
        n == Len(d)
        full == n * (n * n - 1)
    IN n >= 3 =>
      /\ analysis.drift \subseteq -full .. full
      /\ (\A k \in 1 .. n - 1 : d[k] < d[k + 1]) => analysis.drift = {full}
      /\ (\A k \in 1 .. n - 1 : d[k] > d[k + 1]) => analysis.drift = {-full}

\* A benchmark without overhead has its cost as slope.
SlopeAgrees ==
  stage = "analysed" /\ analysis.slope # Unknown =>
    \A c \in ToSet(Bases(rounds)) :
      (\A k \in DOMAIN rounds : rounds[k].base = c * rounds[k].iterations) =>
        analysis.slope[1] = c * analysis.slope[2]

\* Every pair of arms that confirmation asks for is compared, and once.
EveryPairOnce ==
  stage = "compared" =>
    LET n == inventory.arms
        asked == IF inventory.only THEN n - 1 ELSE (n * (n - 1)) \div 2
    IN /\ Cardinality(inventory.pairs) = asked
       /\ Cardinality({{t[2], t[3]} : t \in inventory.pairs}) = asked

\* What the report prints is what its definition says, whatever was measured:
\* engine.rs:1102-1178 and 922-965, stats.rs:43-112 and 520-615.
ReportAgrees ==
  /\ SampleFits /\ MomentsAgree /\ RanksAgree /\ DriftAgrees /\ SlopeAgrees
  /\ EveryPairOnce
=============================================================================
