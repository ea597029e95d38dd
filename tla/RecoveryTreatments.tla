------------------------- MODULE RecoveryTreatments -------------------------
(***************************************************************************)
(* The matrix of recovery treatments (recovery_runner.py) that a real      *)
(* recovery comparison runs: for every repetition, scenario and action,    *)
(* reset the deployment, inject the scenario's fault, wait until it shows, *)
(* execute the action, wait for the recovery, record, reset again.         *)
(*                                                                         *)
(* One kubectl call is one step.  A call may fail, and one that timed out  *)
(* may have taken effect.  Runs take no operation lock, so several can     *)
(* work on the deployment at once; the scenarios share one deployment, as  *)
(* in config/recovery_action_experiments.json.                             *)
(***************************************************************************)
EXTENDS Integers, Sequences

CONSTANTS
    Runs,           \* matrix runs: comparison jobs, command line calls
    Scenarios,      \* config.scenarios, a sequence
    Actions,        \* config.actions, a sequence
    Repeats,        \* config.repetitions
    Baseline,       \* config.baseline_replicas
    Scaled          \* config.scale_replicas

Kinds == {"observe_only", "rollout_restart", "scale_out"}

Names == {Scenarios[i] : i \in DOMAIN Scenarios}

ASSUME TreatmentsAssumption ==
    /\ Scenarios \in Seq(Names) /\ Len(Scenarios) > 0
    /\ Actions \in Seq(Kinds) /\ Len(Actions) > 0
    /\ Repeats \in Nat \ {0}
    /\ Baseline \in Nat \ {0} /\ Scaled \in Nat /\ Scaled > Baseline

\* build_treatment_matrix: repetitions, then scenarios, then actions
Total == Repeats * Len(Scenarios) * Len(Actions)
ScenarioAt(i) == Scenarios[(((i - 1) \div Len(Actions)) % Len(Scenarios)) + 1]
ActionAt(i) == Actions[((i - 1) % Len(Actions)) + 1]

VARIABLES
    chaos,          \* the chaos objects in the cluster, named by scenario
    replicas,       \* of the deployment
    pc, index, rec, \* each run: its step, treatment and current record
    \* what the outcomes.jsonl of the runs tell of the past: the scenarios
    \* with a record that says cleanup_valid FALSE
    unclean,
    shared          \* history: two treatments were under way at once

clusterVars == <<chaos, replicas>>
runVars == <<pc, index, rec>>
treatmentsVars == <<clusterVars, runVars, unclean, shared>>

(* A record, abstracted; alone is not in the file: no other fault was in   *)
(* the cluster when the treatment's own was injected.                      *)
Record == [valid : BOOLEAN, safe : BOOLEAN, success : BOOLEAN,
           delta : {0, Scaled - Baseline}, cleanup : BOOLEAN, alone : BOOLEAN]
EmptyRecord == [valid |-> FALSE, safe |-> FALSE, success |-> FALSE,
                delta |-> 0, cleanup |-> FALSE, alone |-> FALSE]

Steps == {"delete", "scale", "rollout", "before", "apply", "detect", "execute",
          "recover", "measure", "end_delete", "end_scale", "end_rollout", "record"}

TreatmentsTypeOK ==
    /\ chaos \subseteq Names
    /\ replicas \in {Baseline, Scaled}
    /\ pc \in [Runs -> Steps \cup {"idle", "next", "ended", "dead"}]
    /\ index \in [Runs -> 0..Total]
    /\ rec \in [Runs -> Record]
    /\ unclean \subseteq Names
    /\ shared \in BOOLEAN

TreatmentsInit ==
    /\ chaos = {} /\ replicas = Baseline
    /\ pc = [r \in Runs |-> "idle"]
    /\ index = [r \in Runs |-> 0]
    /\ rec = [r \in Runs |-> EmptyRecord]
    /\ unclean = {} /\ shared = FALSE

Scenario(r) == ScenarioAt(index[r])
Active(r) == pc[r] \in Steps
Go(r, step) == pc' = [pc EXCEPT ![r] = step]

\* A kubectl call with the effect E ends in `ok`, or in `failed`, done or not
Kubectl(r, E, unchanged, ok, failed) ==
    \/ E /\ Go(r, ok)
    \/ Go(r, failed) /\ (E \/ UNCHANGED unchanged)

----------------------------------------------------------------------------
\* run_recovery_matrix: resolves the queries of all scenarios, empties the file
Begin(r) ==
    /\ pc[r] = "idle"
    /\ Go(r, "next")
    /\ UNCHANGED <<clusterVars, index, rec, unclean, shared>>

\* tracked_treatment: an event set between two treatments ends the matrix
NextTreatment(r) ==
    /\ pc[r] = "next"
    /\ \/ /\ index[r] < Total
          /\ Go(r, "delete")
          /\ index' = [index EXCEPT ![r] = @ + 1]
          /\ shared' = (shared \/ \E q \in Runs \ {r} : Active(q))
       \/ Go(r, "ended") /\ UNCHANGED <<index, shared>>
    /\ UNCHANGED <<clusterVars, rec, unclean>>

Local == <<index, rec, unclean, shared>>

\* _reset_treatment, before the treatment: an error ends the treatment
ResetDelete(r) ==
    /\ pc[r] = "delete"
    /\ Kubectl(r, chaos' = chaos \ {Scenario(r)}, chaos, "scale", "end_delete")
    /\ UNCHANGED <<replicas, Local>>

\* Mutant: a failed scale before the treatment is not noticed
ResetScaleUnchecked(r) ==
    /\ pc[r] = "scale"
    /\ Kubectl(r, replicas' = Baseline, replicas, "rollout", "rollout")
    /\ UNCHANGED <<chaos, Local>>

ResetScale(r) ==
    /\ pc[r] = "scale"
    /\ Kubectl(r, replicas' = Baseline, replicas, "rollout", "end_delete")
    /\ UNCHANGED <<chaos, Local>>

ResetRollout(r) ==
    /\ pc[r] = "rollout"
    /\ Go(r, "before") \/ Go(r, "end_delete")
    /\ UNCHANGED <<clusterVars, Local>>

\* the snapshot and the metric before the fault
Before(r) ==
    /\ pc[r] = "before"
    /\ Go(r, "apply") \/ Go(r, "end_delete")
    /\ UNCHANGED <<clusterVars, Local>>

Apply(r) ==
    /\ pc[r] = "apply"
    /\ Kubectl(r, chaos' = chaos \cup {Scenario(r)}, chaos, "detect", "end_delete")
    /\ rec' = [rec EXCEPT ![r].alone = chaos \subseteq {Scenario(r)}]
    /\ UNCHANGED <<replicas, index, unclean, shared>>

\* _wait_for_evidence or _wait_for_pod_replacement, bounded by their timeout
Detect(r) ==
    /\ pc[r] = "detect"
    /\ Go(r, "execute") \/ Go(r, "end_delete")
    /\ UNCHANGED <<clusterVars, Local>>

(* execute_recovery: its result says whether the command succeeded; one    *)
(* that timed out is invalid but may have scaled.                          *)
Execute(r) ==
    /\ pc[r] = "execute"
    /\ \E ok \in BOOLEAN :
          /\ rec' = [rec EXCEPT ![r].safe = ok]
          /\ IF ActionAt(index[r]) = "scale_out"
             THEN replicas' = Scaled \/ (~ok /\ UNCHANGED replicas)
             ELSE UNCHANGED replicas
    /\ Go(r, "recover")
    /\ UNCHANGED <<chaos, index, unclean, shared>>

Recover(r) ==
    /\ pc[r] = "recover"
    /\ Go(r, "measure") \/ Go(r, "end_delete")
    /\ UNCHANGED <<clusterVars, Local>>

\* the snapshot after the action fills the record, or raises
Measure(r) ==
    /\ pc[r] = "measure"
    /\ Go(r, "end_delete")
    /\ \/ \E available \in BOOLEAN :
             rec' = [rec EXCEPT ![r].valid = TRUE, ![r].delta = replicas - Baseline,
                                ![r].success = rec[r].safe /\ available]
       \/ UNCHANGED rec
    /\ UNCHANGED <<clusterVars, index, unclean, shared>>

\* Mutant: a treatment without a measurement skips the final delete
EndDeleteMeasuredOnly(r) ==
    /\ pc[r] = "end_delete"
    /\ IF rec[r].valid
       THEN Kubectl(r, chaos' = chaos \ {Scenario(r)}, chaos, "end_scale", "record")
       ELSE Go(r, "end_scale") /\ UNCHANGED chaos
    /\ UNCHANGED <<replicas, Local>>

\* _reset_treatment in the finally block: any error leaves cleanup_valid FALSE
EndDelete(r) ==
    /\ pc[r] = "end_delete"
    /\ Kubectl(r, chaos' = chaos \ {Scenario(r)}, chaos, "end_scale", "record")
    /\ UNCHANGED <<replicas, Local>>

EndScale(r) ==
    /\ pc[r] = "end_scale"
    /\ Kubectl(r, replicas' = Baseline, replicas, "end_rollout", "record")
    /\ UNCHANGED <<chaos, Local>>

EndRollout(r) ==
    /\ pc[r] = "end_rollout"
    /\ Go(r, "record")
    /\ \E ok \in BOOLEAN : rec' = [rec EXCEPT ![r].cleanup = ok]
    /\ UNCHANGED <<clusterVars, index, unclean, shared>>

\* the record is appended and flushed
WriteRecord(r) ==
    /\ pc[r] = "record"
    /\ unclean' = IF rec[r].cleanup THEN unclean ELSE unclean \cup {Scenario(r)}
    /\ rec' = [rec EXCEPT ![r] = EmptyRecord]
    /\ Go(r, "next")
    /\ UNCHANGED <<clusterVars, index, shared>>

(* The process ends inside a treatment: killed, or a shutdown that does    *)
(* not wait longer than five seconds for the thread.                       *)
Crash(r) ==
    /\ Active(r)
    /\ Go(r, "dead")
    /\ UNCHANGED <<clusterVars, Local>>

RunStep(r) ==
    \/ NextTreatment(r) \/ ResetDelete(r) \/ ResetScale(r) \/ ResetRollout(r)
    \/ Before(r) \/ Apply(r) \/ Detect(r) \/ Execute(r) \/ Recover(r)
    \/ Measure(r) \/ EndDelete(r) \/ EndScale(r) \/ EndRollout(r) \/ WriteRecord(r)

TreatmentsNext == \E r \in Runs : Begin(r) \/ RunStep(r) \/ Crash(r)

TreatmentsSpec == TreatmentsInit /\ [][TreatmentsNext]_treatmentsVars

----------------------------------------------------------------------------
Died == \E r \in Runs : pc[r] = "dead"

(* A fault in the cluster is answered for: by a run whose treatment of it  *)
(* still has to delete it or died, or by a record that says cleanup failed.*)
AnswersFor(r, s) ==
    /\ index[r] > 0 /\ Scenario(r) = s
    /\ \/ pc[r] = "dead"
       \/ pc[r] \in {"detect", "execute", "recover", "measure", "end_delete"}
       \/ pc[r] = "record" /\ ~rec[r].cleanup

InjectedFaultAccountedFor ==
    \A s \in chaos : s \in unclean \/ \E r \in Runs : AnswersFor(r, s)

(* What a valid measurement says is the treatment's own effect, as long as *)
(* no two runs were under way at once: replicas change only by the         *)
(* scale-out of this treatment, even after a failed cleanup, because the   *)
(* reset before the treatment has to succeed; and no other fault was in    *)
(* the cluster unless a record or a crash tells of one left behind.        *)
MeasuredOwnEffect ==
    ~shared =>
        \A r \in Runs : rec[r].valid =>
            /\ rec[r].delta # 0 => ActionAt(index[r]) = "scale_out"
            /\ rec[r].alone \/ unclean # {} \/ Died
=============================================================================
