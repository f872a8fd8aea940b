------------------------------ MODULE Analytics ------------------------------
(***************************************************************************)
(* What the hub computes from the step metrics of a pipeline.              *)
(*                                                                         *)
(* A definition ending in Bug is a mistake the code could have had.        *)
(***************************************************************************)
EXTENDS Integers, Sequences, FiniteSets

\* PercentileIndex, had the product not been made one less.
PercentileIndexBug(n, pct) ==
    LET idx == (pct * n) \div 100
    IN  1 + (IF idx <= n - 1 THEN idx ELSE n - 1)

\* The index that percentile takes of a sorted sequence of n values, from 1.
PercentileIndex(n, pct) ==
    LET idx == (IF pct * n = 0 THEN 0 ELSE pct * n - 1) \div 100
    IN  1 + (IF idx <= n - 1 THEN idx ELSE n - 1)

\* The measured latencies in ascending order; 0 stands for none measured.
SortedLatencies(rows) ==
    LET keys == {k \in DOMAIN rows : rows[k].latency_ms # 0}
        rank(k) == Cardinality({j \in keys :
                       \/ rows[j].latency_ms < rows[k].latency_ms
                       \/ rows[j].latency_ms = rows[k].latency_ms /\ j < k})
    IN  [i \in 1 .. Cardinality(keys) |->
            rows[CHOOSE k \in keys : rank(k) = i - 1].latency_ms]

\* None (0) when nothing was measured.
Percentile(sorted, pct) ==
    IF sorted = <<>> THEN 0 ELSE sorted[PercentileIndex(Len(sorted), pct)]

PipelineAnalytics(rows) ==
    LET healthy == {k \in DOMAIN rows : rows[k].health = "healthy"}
    IN  [total_steps |-> Cardinality(DOMAIN rows),
         succeeded |-> Cardinality(healthy),
         failed |-> Cardinality(DOMAIN rows) - Cardinality(healthy),
         p50_latency_ms |-> Percentile(SortedLatencies(rows), 50),
         p95_latency_ms |-> Percentile(SortedLatencies(rows), 95)]
=============================================================================
