---------------------------- MODULE MCBenchmark ----------------------------
(* The instance of Benchmark that TLC checks. *)
EXTENDS Benchmark, TLC

CONSTANTS a1, a2

\* One application may miss the directory that is opened, the other watches them all.
MCCount == (a1 :> 1) @@ (a2 :> 3)
=============================================================================
