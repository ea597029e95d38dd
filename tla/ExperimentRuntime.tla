-------------------------- MODULE ExperimentRuntime --------------------------
(***************************************************************************)
(* One bounded experiment on a Kubernetes target, from preflight to        *)
(* cleanup (experiment_runtime.py), with the Chaos Mesh adapter it drives  *)
(* (chaos_adapter.py).  Several runs, in one or more processes, share the  *)
(* target, its operation lock and the cluster.                             *)
(*                                                                         *)
(* The operation lock is the abstract lock that OperationLock provides     *)
(* while clearers do not overlap: free, or owned, and a dead owner's lock  *)
(* can be taken over.  kubectl may fail, or time out with or without       *)
(* having done its work; the event sink (the job store) may raise.         *)
(***************************************************************************)
EXTENDS Naturals

CONSTANTS
    Runs,           \* calls of ExperimentRuntime.run for the same target
    Procs, ProcOf,  \* the processes they run in
    ScenarioOf,     \* the registered scenario: names the Chaos Mesh resource
    Scenarios,
    Free            \* the operation lock is not taken

ASSUME RuntimeAssumption ==
    /\ ProcOf \in [Runs -> Procs]
    /\ ScenarioOf \in [Runs -> Scenarios]
    /\ Free \notin Runs

VARIABLES
    kind,           \* of request: "chaos" or "aiopslab" (real mode), or "dry"
    pc,             \* the next step of each run
    status,         \* primary_status
    applied,        \* application is not None
    cleanupError,   \* report["cleanup_error"] and human_review_required
    cleanedUp,      \* history: kubectl delete succeeded for the run
    signal,         \* the cancellation event
    lock,           \* owner of the operation lock
    faults,         \* Chaos Mesh resources in the cluster, by scenario
    live            \* running processes

vars == <<kind, pc, status, applied, cleanupError, cleanedUp, signal, lock, faults, live>>

Steps == {"validate", "enter", "preflight", "apply", "wait", "reason", "report",
          "finally", "cleanup", "unlock", "finish", "returned", "raised"}

\* primary_status: set by the except clauses, or the coordinator's final_status
RunStatuses == {"failed", "blocked", "cancelled", "interrupted", "verdict"}

TypeOK ==
    /\ kind \in [Runs -> {"chaos", "aiopslab", "dry"}]
    /\ pc \in [Runs -> Steps]
    /\ status \in [Runs -> RunStatuses]
    /\ applied \in [Runs -> BOOLEAN]
    /\ cleanupError \in [Runs -> BOOLEAN]
    /\ cleanedUp \in [Runs -> BOOLEAN]
    /\ signal \in [Runs -> BOOLEAN]
    /\ lock \in Runs \cup {Free}
    /\ faults \subseteq Scenarios
    /\ live \subseteq Procs

Init ==
    /\ kind \in [Runs -> {"chaos", "aiopslab", "dry"}]
    /\ pc = [r \in Runs |-> "validate"]
    /\ status = [r \in Runs |-> "failed"]
    /\ applied = [r \in Runs |-> FALSE]
    /\ cleanupError = [r \in Runs |-> FALSE]
    /\ cleanedUp = [r \in Runs |-> FALSE]
    /\ signal = [r \in Runs |-> FALSE]
    /\ lock = Free
    /\ faults = {}
    /\ live = Procs

----------------------------------------------------------------------------
Alive(r) == ProcOf[r] \in live
Real(r) == kind[r] \in {"chaos", "aiopslab"}
Goto(r, step) == pc' = [pc EXCEPT ![r] = step]

\* Mutant: an expired deadline is reported as a cancellation
ControlErrorAlwaysCancelled(r) == "cancelled"

(* RuntimeControl.check raises if the cancellation event is set, or else   *)
(* if the deadline has passed, which may be the case at any check.         *)
ControlOk(r) == ~signal[r]
ControlError(r) == IF signal[r] THEN "cancelled" ELSE "interrupted"

\* An except clause records the status; the finally block follows.
Fail(r, s) ==
    /\ status' = [status EXCEPT ![r] = s]
    /\ Goto(r, "finally")

\* The ways a stage can end early: a control check, or one of the raised errors.
StageRaises(r, errors) == \E s \in errors \cup {ControlError(r)} : Fail(r, s)

\* _validate_request, the coordinator factory, admission and mode checks
Validate(r) ==
    /\ Alive(r) /\ pc[r] = "validate"
    /\ \/ Goto(r, "enter") /\ UNCHANGED status
       \/ \E s \in {"blocked", "failed"} : Fail(r, s)
    /\ UNCHANGED <<kind, applied, cleanupError, cleanedUp, signal, lock, faults, live>>

LockAvailable == lock # Free => ~Alive(lock)

\* control.check, then the lock: a null context unless the mode is real
Enter(r) ==
    /\ Alive(r) /\ pc[r] = "enter"
    /\ \/ /\ ControlOk(r) /\ Real(r) /\ LockAvailable
          /\ lock' = r
          /\ Goto(r, "preflight") /\ UNCHANGED status
       \/ /\ ControlOk(r) /\ Real(r) /\ ~LockAvailable
          /\ Fail(r, "blocked")
          /\ UNCHANGED lock
       \/ /\ ControlOk(r) /\ ~Real(r)
          /\ Goto(r, "preflight") /\ UNCHANGED <<status, lock>>
       \/ StageRaises(r, {}) /\ UNCHANGED lock
    /\ UNCHANGED <<kind, applied, cleanupError, cleanedUp, signal, faults, live>>

\* the PREFLIGHT event; chaos preflight, the INJECTING_FAULT event and checks
Preflight(r) ==
    /\ Alive(r) /\ pc[r] = "preflight"
    /\ \/ /\ kind[r] = "chaos"
          /\ \/ ControlOk(r) /\ Goto(r, "apply") /\ UNCHANGED status
             \/ StageRaises(r, {"blocked", "failed"})
       \/ /\ kind[r] # "chaos"
          /\ \/ ControlOk(r) /\ Goto(r, "reason") /\ UNCHANGED status
             \/ StageRaises(r, {"failed"})
    /\ UNCHANGED <<kind, applied, cleanupError, cleanedUp, signal, lock, faults, live>>

(* ChaosMeshAdapter.inject, kubectl apply: it raises before any command,   *)
(* or the command succeeds, or it fails or times out with the resource     *)
(* created or not.  The adapter returns an application in every case.      *)
Apply(r) ==
    /\ Alive(r) /\ pc[r] = "apply"
    /\ \/ Fail(r, "failed") /\ UNCHANGED <<applied, faults>>
       \/ /\ Goto(r, "wait")
          /\ faults' = faults \cup {ScenarioOf[r]}
          /\ UNCHANGED <<status, applied>>
       \/ /\ applied' = [applied EXCEPT ![r] = TRUE]
          /\ faults' \in {faults, faults \cup {ScenarioOf[r]}}
          /\ Fail(r, "failed")
    /\ UNCHANGED <<kind, cleanupError, cleanedUp, signal, lock, live>>

\* Mutant: the application of a failed injection is dropped
WaitDropsInvalid(r) ==
    /\ Alive(r) /\ pc[r] = "wait"
    /\ \/ /\ ControlOk(r) /\ Goto(r, "reason")
          /\ applied' = [applied EXCEPT ![r] = TRUE] /\ UNCHANGED status
       \/ StageRaises(r, {"failed"}) /\ UNCHANGED applied
    /\ UNCHANGED <<kind, cleanupError, cleanedUp, signal, lock, faults, live>>

\* kubectl wait for AllInjected, then the checks after the injection
Wait(r) ==
    /\ Alive(r) /\ pc[r] = "wait"
    /\ applied' = [applied EXCEPT ![r] = TRUE]
    /\ \/ ControlOk(r) /\ Goto(r, "reason") /\ UNCHANGED status
       \/ StageRaises(r, {"failed"})
    /\ UNCHANGED <<kind, cleanupError, cleanedUp, signal, lock, faults, live>>

(* coordinator.run: its verdict, or an error that left it; then the check  *)
(* that lets a cancellation or the deadline override the verdict.          *)
Reason(r) ==
    /\ Alive(r) /\ pc[r] = "reason"
    /\ \/ /\ ControlOk(r)
          /\ status' = [status EXCEPT ![r] = "verdict"]
          /\ Goto(r, "report")
       \/ StageRaises(r, {"failed", "blocked"})
    /\ UNCHANGED <<kind, applied, cleanupError, cleanedUp, signal, lock, faults, live>>

\* events for the stages of the report; the sink may raise
Report(r) ==
    /\ Alive(r) /\ pc[r] = "report"
    /\ \/ Goto(r, "finally") /\ UNCHANGED status
       \/ Fail(r, "failed")
    /\ UNCHANGED <<kind, applied, cleanupError, cleanedUp, signal, lock, faults, live>>

(* finally: the CLEANUP event is emitted first.  If the sink raises here   *)
(* the exception leaves run(): no cleanup, no release of the lock.         *)
Finally(r) ==
    /\ Alive(r) /\ pc[r] = "finally"
    /\ \/ ~applied[r] /\ Goto(r, "unlock")
       \/ applied[r] /\ Goto(r, "cleanup")
       \/ applied[r] /\ Goto(r, "raised")
    /\ UNCHANGED <<kind, status, applied, cleanupError, cleanedUp, signal, lock, faults,
                   live>>

\* kubectl delete --ignore-not-found: done; failed; or timed out, done or not
Delete(r) ==
    \/ /\ faults' = faults \ {ScenarioOf[r]}
       /\ cleanedUp' = [cleanedUp EXCEPT ![r] = TRUE]
    \/ /\ faults' \in {faults, faults \ {ScenarioOf[r]}}
       /\ UNCHANGED cleanedUp

(* The adapter answers with a ChaosCleanup object.  _mapping accepts only  *)
(* mappings, so whatever kubectl did is recorded as "invalid cleanup       *)
(* result"; an exception is recorded as well.                              *)
Cleanup(r) ==
    /\ Alive(r) /\ pc[r] = "cleanup"
    /\ Delete(r)
    /\ cleanupError' = [cleanupError EXCEPT ![r] = TRUE]
    /\ Goto(r, "unlock")
    /\ UNCHANGED <<kind, status, applied, signal, lock, live>>

\* Mutant: the lock is given back only after a verdict
UnlockOnVerdict(r) ==
    /\ Alive(r) /\ pc[r] = "unlock"
    /\ lock' = IF lock = r /\ status[r] = "verdict" THEN Free ELSE lock
    /\ Goto(r, "finish")
    /\ UNCHANGED <<kind, status, applied, cleanupError, cleanedUp, signal, faults, live>>

\* lock_context.__exit__, only if the lock was acquired
Unlock(r) ==
    /\ Alive(r) /\ pc[r] = "unlock"
    /\ lock' = IF lock = r THEN Free ELSE lock
    /\ Goto(r, "finish")
    /\ UNCHANGED <<kind, status, applied, cleanupError, cleanedUp, signal, faults, live>>

\* _finish: events, evaluation, artifacts and session; any of them may raise
Finish(r) ==
    /\ Alive(r) /\ pc[r] = "finish"
    /\ \E end \in {"returned", "raised"} : Goto(r, end)
    /\ UNCHANGED <<kind, status, applied, cleanupError, cleanedUp, signal, lock, faults,
                   live>>

Step(r) ==
    \/ Validate(r) \/ Enter(r) \/ Preflight(r) \/ Apply(r) \/ Wait(r) \/ Reason(r)
    \/ Report(r) \/ Finally(r) \/ Cleanup(r) \/ Unlock(r) \/ Finish(r)

----------------------------------------------------------------------------
Ended(r) == pc[r] \in {"returned", "raised"}

\* the job runner sets the cancellation event
Cancel(r) ==
    /\ Alive(r) /\ ~Ended(r) /\ ~signal[r]
    /\ signal' = [signal EXCEPT ![r] = TRUE]
    /\ UNCHANGED <<kind, pc, status, applied, cleanupError, cleanedUp, lock, faults, live>>

Crash(p) ==
    /\ p \in live
    /\ live' = live \ {p}
    /\ UNCHANGED <<kind, pc, status, applied, cleanupError, cleanedUp, signal, lock, faults>>

Next ==
    \/ \E r \in Runs : Step(r) \/ Cancel(r)
    \/ \E p \in Procs : Crash(p)

Spec == Init /\ [][Next]_vars

\* Every command has a timeout, and the coordinator returns if the Go guard's
\* process does: a running process takes its next step.
FairSpec == Spec /\ \A r \in Runs : WF_vars(Step(r))

----------------------------------------------------------------------------
\* r may be changing the cluster: from taking the lock to giving it back.
Inside(r) ==
    /\ Alive(r) /\ Real(r)
    /\ pc[r] \in {"preflight", "apply", "wait", "reason", "report", "cleanup"}

(* At most one running process works on the target in real mode, over the  *)
(* whole lifecycle from preflight to cleanup.                              *)
OneRunPerTarget == \A r, s \in Runs : Inside(r) /\ Inside(s) => r = s

(* A fault in the cluster is always accounted for: a running run that is   *)
(* going to remove it, a process that died, a recorded cleanup error, or   *)
(* an exception that left run() for its caller.                            *)
FaultAccountedFor ==
    \A f \in faults :
        \E r \in Runs :
            /\ ScenarioOf[r] = f
            /\ \/ pc[r] \in {"wait", "reason", "report", "finally", "cleanup"}
               \/ cleanupError[r]
               \/ pc[r] = "raised"

(* A run reports "cancelled" only if its cancellation event was set, and   *)
(* a coordinator verdict only if the fault it was reached under has been   *)
(* given to cleanup: what the job runner builds on.                        *)
StatusHonest ==
    \A r \in Runs :
        /\ status[r] = "cancelled" => signal[r]
        /\ status[r] = "verdict" /\ pc[r] = "returned" /\ applied[r] => cleanupError[r]

(* A run that has returned no longer owns the lock, whichever exception or *)
(* cancellation ended it.                                                  *)
ReturnedReleasedLock == \A r \in Runs : pc[r] = "returned" => lock # r

(* The lock of a running process is given back, unless the sink raised in  *)
(* the finally block.                                                      *)
LockReleased ==
    \A r \in Runs : lock = r ~> (lock # r \/ ~Alive(r) \/ pc[r] = "raised")

(* "real mode always applies cleanup and operation locking": a run that    *)
(* applied a fault and has ended has tried to remove it.  It does not hold *)
(* when the event sink raises on the CLEANUP event.                        *)
CleanupAlwaysApplied ==
    \A r \in Runs : Ended(r) /\ applied[r] => cleanupError[r] \/ cleanedUp[r]
=============================================================================
