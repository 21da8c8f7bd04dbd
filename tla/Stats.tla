-------------------------------- MODULE Stats ---------------------------------
(***************************************************************************)
(* The window statistics of sample and load.run (utils/stats/stats.go),    *)
(* over whole numbers; a mean or a rate is the pair <<sum, count>>.        *)
(***************************************************************************)
EXTENDS Integers, Sequences, FiniteSets, SequencesExt

(* The place of a sample in the order; of equal ones, the earlier is first.*)
Place(xs, i) == Cardinality({j \in DOMAIN xs : xs[j] < xs[i] \/ (xs[j] = xs[i] /\ j <= i)})
Sorted(xs) == [k \in DOMAIN xs |-> xs[CHOOSE i \in DOMAIN xs : Place(xs, i) = k]]

Total(xs) == FoldSeq(+, 0, xs)
At(xs, i) == IF i \in DOMAIN xs THEN xs[i] ELSE 0

(* The nearest rank, clamped to the samples.                               *)
Percentile(sorted, p) ==
  LET idx == (p * Len(sorted) + 99) \div 100
  IN IF sorted = <<>> THEN 0
     ELSE sorted[IF idx < 1 THEN 1 ELSE IF idx > Len(sorted) THEN Len(sorted) ELSE idx]

Summarize(lats, errors) ==
  LET sorted == Sorted(lats)
      n == Len(lats)
  IN [n |-> n, errors |-> errors, errorRate |-> <<errors, n>>,
      min |-> At(sorted, 1), max |-> At(sorted, n), mean |-> <<Total(sorted), n>>,
      p50 |-> Percentile(sorted, 50), p95 |-> Percentile(sorted, 95),
      p99 |-> Percentile(sorted, 99)]
=============================================================================
