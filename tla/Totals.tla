--------------------------------- MODULE Totals ---------------------------------
(***************************************************************************)
(* Sums of a sequence of integers, of which src/src/stats.rs makes means   *)
(* and variances.                                                          *)
(***************************************************************************)
EXTENDS Integers, Sequences

\* The sums of the first values, and of all.
Sums(values) ==
  LET sum[n \in 0 .. Len(values)] == IF n = 0 THEN 0 ELSE sum[n - 1] + values[n]
  IN sum
Total(values) == Sums(values)[Len(values)]

Squares(values) == [k \in DOMAIN values |-> values[k] * values[k]]
=============================================================================
