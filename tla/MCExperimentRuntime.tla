------------------------- MODULE MCExperimentRuntime -------------------------
(* Two runs on one target, in different processes and of every kind: one  *)
(* may take over the lock of the other's dead process.                    *)
EXTENDS ExperimentRuntime, TLC

CONSTANTS r1, r2, p1, p2, cpu, latency

MCRuns == {r1, r2}
MCProcs == {p1, p2}
MCProcOf == (r1 :> p1) @@ (r2 :> p2)
MCScenarioOf == (r1 :> cpu) @@ (r2 :> latency)
MCScenarios == {cpu, latency}
=============================================================================
