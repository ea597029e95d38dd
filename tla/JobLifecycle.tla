---------------------------- MODULE JobLifecycle ----------------------------
(***************************************************************************)
(* What the persistent job store promises its readers: the statuses a job  *)
(* row goes through.  It hides the runner, its threads, the HTTP handlers  *)
(* and the two-step database operations.  ExperimentJobs implements it.    *)
(***************************************************************************)
CONSTANT Jobs

VARIABLES
    status,     \* the row's status; "fresh" and "deleted" mean no row
    result      \* the status stored together with result_json, or "none"

jobVars == <<status, result>>

Nonterminal == {"queued", "running", "cancelling"}
TerminalStatuses == {"completed", "failed", "blocked", "cancelled", "interrupted"}
Statuses == Nonterminal \cup TerminalStatuses \cup {"fresh", "deleted"}

JobTypeOK ==
    /\ status \in [Jobs -> Statuses]
    /\ result \in [Jobs -> TerminalStatuses \cup {"none"}]

JobInit ==
    /\ status = [j \in Jobs |-> "fresh"]
    /\ result = [j \in Jobs |-> "none"]

Become(j, s) == status' = [status EXCEPT ![j] = s] /\ UNCHANGED result

JobSubmit(j) == status[j] = "fresh" /\ Become(j, "queued")

JobStart(j) == status[j] \in {"queued", "cancelling"} /\ Become(j, "running")

JobCancel(j) == status[j] \in Nonterminal /\ Become(j, "cancelling")

\* A result is stored once, and only for a job that was started.
JobFinish(j) ==
    /\ status[j] \in {"running", "cancelling"}
    /\ result[j] = "none"
    /\ \E s \in TerminalStatuses :
          /\ status' = [status EXCEPT ![j] = s]
          /\ result' = [result EXCEPT ![j] = s]

\* A cancel request decided on an older status reopens a finished job.
JobReopen(j) ==
    /\ status[j] \in TerminalStatuses
    /\ result[j] # "none"
    /\ Become(j, "cancelling")

\* Restart settles all jobs that were left open, and only those.
JobInterruptAll ==
    /\ status' = [j \in Jobs |-> IF status[j] \in Nonterminal
                                 THEN "interrupted" ELSE status[j]]
    /\ UNCHANGED result

\* Only jobs that have their result, or were interrupted, can be deleted.
JobDelete(S) ==
    /\ \A j \in S :
          /\ status[j] \in Nonterminal \cup TerminalStatuses
          /\ result[j] # "none" \/ status[j] = "interrupted"
    /\ status' = [j \in Jobs |-> IF j \in S THEN "deleted" ELSE status[j]]
    /\ result' = [j \in Jobs |-> IF j \in S THEN "none" ELSE result[j]]

JobNext ==
    \/ \E j \in Jobs :
          \/ JobSubmit(j) \/ JobStart(j) \/ JobCancel(j) \/ JobFinish(j)
          \/ JobReopen(j)
    \/ \E S \in SUBSET Jobs : JobDelete(S)
    \/ JobInterruptAll

JobSpec == JobInit /\ [][JobNext]_jobVars
=============================================================================
