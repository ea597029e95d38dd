------------------------ MODULE MCRecoveryTreatments ------------------------
(* Two runs over two scenarios that share the deployment, one repetition of *)
(* scaling out and observing.                                               *)
EXTENDS RecoveryTreatments, TLC

CONSTANTS r1, r2, cpu, delay

MCRuns == {r1, r2}
MCScenarios == <<cpu, delay>>
RunSymmetry == Permutations(MCRuns)
MCActions == <<"scale_out", "observe_only">>
=============================================================================
