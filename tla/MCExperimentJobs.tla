--------------------------- MODULE MCExperimentJobs ---------------------------
(* Two jobs, so that bulk deletion and shutdown meet jobs in different    *)
(* states, and two concurrent requests.                                   *)
EXTENDS ExperimentJobs, TLC

\* Jobs differ in nothing but their id (safety runs only).
MCSymmetry == Permutations(Jobs)
=============================================================================
