-------------------------- MODULE MCBenchmarkJobs --------------------------
(* One benchmark and one comparison with one cancel request, TLC's instance *)
(* of BenchmarkJobs: the constants are given in BenchmarkJobs.cfg.          *)
EXTENDS BenchmarkJobs
=============================================================================
