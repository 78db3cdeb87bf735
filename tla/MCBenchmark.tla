----------------------------- MODULE MCBenchmark -----------------------------
(* Instances of the benchmark drivers for TLC. *)
EXTENDS Benchmark

\* Two groups and the last event of the group builders, all probes of reject-heavy,
\* two swaps of the pool; a builder with much to draw gets fewer events.
MCCounts ==
  [w \in Workloads \union TailWorkloads |->
     CASE w \in {"partial-fill", "sweep"} -> {3, 5, 7}
       [] w = "cross-heavy" -> {3, 4}
       [] w = "reject-heavy" -> {9}
       [] w = "modify-heavy" -> {3, 4}
       [] w = "cancel-heavy" -> {4, 5}
       [] w \in TailWorkloads -> {1, 3}
       [] OTHER -> {3}]
==============================================================================
