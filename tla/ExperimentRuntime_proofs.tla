---------------------- MODULE ExperimentRuntime_proofs ----------------------
(***************************************************************************)
(* What an experiment run guarantees, proved for every set of runs,        *)
(* processes and scenarios.                                                *)
(***************************************************************************)
EXTENDS ExperimentRuntime, TLAPS

\* Only a Chaos Mesh run injects, only an injection leaves an application, and
\* there is none before the lock is taken.
ChaosInjects ==
    \A r \in Runs :
        /\ pc[r] \in {"validate", "enter"} => ~applied[r]
        /\ pc[r] \in {"apply", "wait"} => Real(r)
        /\ applied[r] => Real(r)

\* A real run owns the lock from the preflight to the cleanup, in the finally
\* block too if it has a fault to remove, and not before or after.
OwnsLock ==
    \A r \in Runs :
        /\ Inside(r) => lock = r
        /\ Alive(r) /\ applied[r] /\ pc[r] = "finally" => lock = r
        /\ pc[r] \in {"validate", "enter", "finish", "returned"} => lock # r

\* The run that answers for a fault has recorded its application, or is about
\* to: FaultAccountedFor alone would lose the fault of a run in the finally
\* block that skips the cleanup.
Answers(r) ==
    \/ pc[r] = "wait"
    \/ applied[r] /\ pc[r] \in {"reason", "report", "finally", "cleanup"}
    \/ cleanupError[r]
    \/ pc[r] = "raised"

FaultAnswered == \A f \in faults : \E r \in Runs : ScenarioOf[r] = f /\ Answers(r)

\* Past the finally block an application has been given to the cleanup.
CleanupTried ==
    \A r \in Runs :
        /\ applied[r] /\ pc[r] \in {"unlock", "finish", "returned"} => cleanupError[r]
        /\ status[r] = "cancelled" => signal[r]

RuntimeInv == TypeOK /\ ChaosInjects /\ OwnsLock /\ FaultAnswered /\ CleanupTried

-----------------------------------------------------------------------------
USE RuntimeAssumption DEF RuntimeAssumption

(* The initial state satisfies the inductive invariant.                    *)
LEMMA RuntimeInit == Init => RuntimeInv
<1> SUFFICES ASSUME Init PROVE RuntimeInv
  OBVIOUS
<1> USE DEF Init
<1>1. TypeOK
  BY DEF TypeOK, Steps, RunStatuses
<1>2. ChaosInjects /\ OwnsLock
  BY DEF ChaosInjects, OwnsLock, Inside, Real, Alive
<1>3. FaultAnswered /\ CleanupTried
  BY DEF FaultAnswered, CleanupTried
<1> QED
  BY <1>1, <1>2, <1>3 DEF RuntimeInv

(* Every step preserves the types.                                         *)
LEMMA RuntimeTypes == TypeOK /\ [Next]_vars => TypeOK'
<1> SUFFICES ASSUME TypeOK, [Next]_vars PROVE TypeOK'
  OBVIOUS
<1> USE DEF TypeOK, Steps, RunStatuses, Goto, Fail, StageRaises, ControlError
<1>1. ASSUME NEW r \in Runs, Validate(r) PROVE TypeOK'
  BY <1>1 DEF Validate
<1>2. ASSUME NEW r \in Runs, Enter(r) PROVE TypeOK'
  BY <1>2 DEF Enter
<1>3. ASSUME NEW r \in Runs, Preflight(r) PROVE TypeOK'
  BY <1>3 DEF Preflight
<1>4. ASSUME NEW r \in Runs, Apply(r) PROVE TypeOK'
  <2>1. pc' \in [Runs -> Steps] /\ status' \in [Runs -> RunStatuses]
    BY <1>4 DEF Apply
  <2>2. applied' \in [Runs -> BOOLEAN]
    BY <1>4 DEF Apply
  <2>3. faults' \subseteq Scenarios
    BY <1>4 DEF Apply
  <2> QED
    BY <1>4, <2>1, <2>2, <2>3 DEF Apply
<1>5. ASSUME NEW r \in Runs, Wait(r) PROVE TypeOK'
  BY <1>5 DEF Wait
<1>6. ASSUME NEW r \in Runs, Reason(r) PROVE TypeOK'
  BY <1>6 DEF Reason
<1>7. ASSUME NEW r \in Runs, Report(r) \/ Finally(r) \/ Unlock(r) \/ Finish(r)
      PROVE  TypeOK'
  BY <1>7 DEF Report, Finally, Unlock, Finish
<1>8. ASSUME NEW r \in Runs, Cleanup(r) PROVE TypeOK'
  BY <1>8 DEF Cleanup, Delete
<1>9. ASSUME NEW r \in Runs, Cancel(r) PROVE TypeOK'
  BY <1>9 DEF Cancel
<1>10. ASSUME NEW p \in Procs, Crash(p) PROVE TypeOK'
  BY <1>10 DEF Crash
<1>11. CASE UNCHANGED vars
  BY <1>11 DEF vars
<1> QED
  BY <1>1, <1>2, <1>3, <1>4, <1>5, <1>6, <1>7, <1>8, <1>9, <1>10, <1>11
     DEF Next, Step

(* What every step of a run does to the lock and to the other runs.        *)
LEMMA OnlyOwnStep ==
    ASSUME TypeOK, NEW r \in Runs, Step(r)
    PROVE  /\ kind' = kind /\ live' = live /\ signal' = signal
           /\ \A s \in Runs \ {r} :
                /\ pc'[s] = pc[s] /\ applied'[s] = applied[s]
                /\ cleanupError'[s] = cleanupError[s] /\ status'[s] = status[s]
           /\ Alive(r)
<1> USE DEF TypeOK, Goto, Fail, StageRaises
<1>1. CASE Validate(r)  BY <1>1 DEF Validate
<1>2. CASE Enter(r)     BY <1>2 DEF Enter
<1>3. CASE Preflight(r) BY <1>3 DEF Preflight
<1>4. CASE Apply(r)     BY <1>4 DEF Apply
<1>5. CASE Wait(r)      BY <1>5 DEF Wait
<1>6. CASE Reason(r)    BY <1>6 DEF Reason
<1>7. CASE Report(r)    BY <1>7 DEF Report
<1>8. CASE Finally(r)   BY <1>8 DEF Finally
<1>9. CASE Cleanup(r)   BY <1>9 DEF Cleanup, Delete
<1>10. CASE Unlock(r)   BY <1>10 DEF Unlock
<1>11. CASE Finish(r)   BY <1>11 DEF Finish
<1> QED
  BY <1>1, <1>2, <1>3, <1>4, <1>5, <1>6, <1>7, <1>8, <1>9, <1>10, <1>11 DEF Step

(* Every step keeps the lock with the run that works on the target.        *)
LEMMA OwnsLockStep ==
    TypeOK /\ ChaosInjects /\ OwnsLock /\ [Next]_vars => ChaosInjects' /\ OwnsLock'
<1> SUFFICES ASSUME TypeOK, ChaosInjects, OwnsLock, [Next]_vars
             PROVE  ChaosInjects' /\ OwnsLock'
  OBVIOUS
<1> USE DEF TypeOK, Goto, Fail, StageRaises, ChaosInjects, OwnsLock, Inside, Real,
            Alive
<1>1. ASSUME NEW r \in Runs, Validate(r) PROVE ChaosInjects' /\ OwnsLock'
  BY <1>1 DEF Validate
<1>2. ASSUME NEW r \in Runs, Enter(r) PROVE ChaosInjects' /\ OwnsLock'
  BY <1>2 DEF Enter, LockAvailable
<1>3. ASSUME NEW r \in Runs, Preflight(r) PROVE ChaosInjects' /\ OwnsLock'
  BY <1>3 DEF Preflight
<1>4. ASSUME NEW r \in Runs, Apply(r) PROVE ChaosInjects' /\ OwnsLock'
  BY <1>4 DEF Apply
<1>5. ASSUME NEW r \in Runs, Wait(r) PROVE ChaosInjects' /\ OwnsLock'
  BY <1>5 DEF Wait
<1>6. ASSUME NEW r \in Runs, Reason(r) PROVE ChaosInjects' /\ OwnsLock'
  BY <1>6 DEF Reason
<1>7. ASSUME NEW r \in Runs, Report(r) PROVE ChaosInjects' /\ OwnsLock'
  BY <1>7 DEF Report
<1>8. ASSUME NEW r \in Runs, Finally(r) PROVE ChaosInjects' /\ OwnsLock'
  BY <1>8 DEF Finally
<1>9. ASSUME NEW r \in Runs, Cleanup(r) PROVE ChaosInjects' /\ OwnsLock'
  BY <1>9 DEF Cleanup, Delete
<1>10. ASSUME NEW r \in Runs, Unlock(r) PROVE ChaosInjects' /\ OwnsLock'
  BY <1>10 DEF Unlock
<1>11. ASSUME NEW r \in Runs, Finish(r) PROVE ChaosInjects' /\ OwnsLock'
  BY <1>11 DEF Finish
<1>12. ASSUME NEW r \in Runs, Cancel(r) PROVE ChaosInjects' /\ OwnsLock'
  BY <1>12 DEF Cancel
<1>13. ASSUME NEW p \in Procs, Crash(p) PROVE ChaosInjects' /\ OwnsLock'
  BY <1>13 DEF Crash
<1>14. CASE UNCHANGED vars
  BY <1>14 DEF vars
<1> QED
  BY <1>1, <1>2, <1>3, <1>4, <1>5, <1>6, <1>7, <1>8, <1>9, <1>10, <1>11, <1>12,
     <1>13, <1>14 DEF Next, Step

(* Every step leaves each fault with a run that answers for it.            *)
LEMMA FaultAnsweredStep ==
    TypeOK /\ FaultAnswered /\ [Next]_vars => FaultAnswered'
<1> SUFFICES ASSUME TypeOK, FaultAnswered, [Next]_vars,
                    NEW f \in faults'
             PROVE  \E r \in Runs : ScenarioOf[r] = f /\ Answers(r)'
  BY DEF FaultAnswered
<1> USE DEF TypeOK, Goto, Fail, StageRaises
\* A run that answers for a fault goes on doing so, whatever it does.
<1>1. ASSUME NEW s \in Runs, Answers(s), NEW r \in Runs, Step(r)
      PROVE  Answers(s)'
  <2>1. CASE s # r
    BY <1>1, <2>1, OnlyOwnStep DEF Answers
  <2>2. CASE s = r
    <3> USE <1>1, <2>2 DEF Answers
    <3>1. CASE Validate(r)  BY <3>1 DEF Validate
    <3>2. CASE Enter(r)     BY <3>2 DEF Enter
    <3>3. CASE Preflight(r) BY <3>3 DEF Preflight
    <3>4. CASE Apply(r)     BY <3>4 DEF Apply
    <3>5. CASE Wait(r)      BY <3>5 DEF Wait
    <3>6. CASE Reason(r)    BY <3>6 DEF Reason
    <3>7. CASE Report(r)    BY <3>7 DEF Report
    <3>8. CASE Finally(r)   BY <3>8 DEF Finally
    <3>9. CASE Cleanup(r)   BY <3>9 DEF Cleanup, Delete
    <3>10. CASE Unlock(r)   BY <3>10 DEF Unlock
    <3>11. CASE Finish(r)   BY <3>11 DEF Finish
    <3> QED
      BY <3>1, <3>2, <3>3, <3>4, <3>5, <3>6, <3>7, <3>8, <3>9, <3>10, <3>11
         DEF Step
  <2> QED
    BY <2>1, <2>2
\* Only Apply creates a fault, and the run that does answers for it.
<1>2. ASSUME NEW r \in Runs, Apply(r), f \notin faults
      PROVE  ScenarioOf[r] = f /\ Answers(r)'
  BY <1>2 DEF Apply, Answers
<1>3. ASSUME NEW r \in Runs, Step(r), ~ Apply(r)
      PROVE  f \in faults
  BY <1>3 DEF Step, Validate, Enter, Preflight, Wait, Reason, Report, Finally,
              Cleanup, Delete, Unlock, Finish
<1>4. CASE \E r \in Runs : Step(r)
  <2>1. PICK r \in Runs : Step(r)
    BY <1>4
  <2>2. CASE f \in faults
    <3>1. PICK s \in Runs : ScenarioOf[s] = f /\ Answers(s)
      BY <2>2 DEF FaultAnswered
    <3> QED
      BY <1>1, <2>1, <3>1
  <2>3. CASE f \notin faults
    BY <1>2, <1>3, <2>1, <2>3
  <2> QED
    BY <2>2, <2>3
<1>5. CASE \/ \E r \in Runs : Cancel(r)
           \/ \E p \in Procs : Crash(p)
           \/ UNCHANGED vars
  <2>1. UNCHANGED <<faults, pc, applied, cleanupError>>
    BY <1>5 DEF Cancel, Crash, vars
  <2> QED
    BY <2>1 DEF FaultAnswered, Answers
<1> QED
  BY <1>4, <1>5 DEF Next

(* Every step keeps the record of cleanups and cancellations.              *)
LEMMA CleanupTriedStep ==
    TypeOK /\ CleanupTried /\ [Next]_vars => CleanupTried'
<1> SUFFICES ASSUME TypeOK, CleanupTried, [Next]_vars PROVE CleanupTried'
  OBVIOUS
<1> USE DEF TypeOK, Goto, Fail, StageRaises, ControlError, CleanupTried
<1>1. ASSUME NEW r \in Runs, Validate(r) PROVE CleanupTried'
  BY <1>1 DEF Validate
<1>2. ASSUME NEW r \in Runs, Enter(r) PROVE CleanupTried'
  BY <1>2 DEF Enter
<1>3. ASSUME NEW r \in Runs, Preflight(r) PROVE CleanupTried'
  BY <1>3 DEF Preflight
<1>4. ASSUME NEW r \in Runs, Apply(r) PROVE CleanupTried'
  BY <1>4 DEF Apply
<1>5. ASSUME NEW r \in Runs, Wait(r) PROVE CleanupTried'
  BY <1>5 DEF Wait
<1>6. ASSUME NEW r \in Runs, Reason(r) PROVE CleanupTried'
  BY <1>6 DEF Reason
<1>7. ASSUME NEW r \in Runs, Report(r) \/ Finally(r) \/ Unlock(r) \/ Finish(r)
      PROVE  CleanupTried'
  BY <1>7 DEF Report, Finally, Unlock, Finish
<1>8. ASSUME NEW r \in Runs, Cleanup(r) PROVE CleanupTried'
  BY <1>8 DEF Cleanup, Delete
<1>9. ASSUME NEW r \in Runs, Cancel(r) PROVE CleanupTried'
  BY <1>9 DEF Cancel
<1>10. ASSUME NEW p \in Procs, Crash(p) PROVE CleanupTried'
  BY <1>10 DEF Crash
<1>11. CASE UNCHANGED vars
  BY <1>11 DEF vars
<1> QED
  BY <1>1, <1>2, <1>3, <1>4, <1>5, <1>6, <1>7, <1>8, <1>9, <1>10, <1>11
     DEF Next, Step

-----------------------------------------------------------------------------
(* The inductive invariant holds throughout every experiment.              *)
THEOREM RuntimeInvariant == Spec => []RuntimeInv
<1>1. RuntimeInv /\ [Next]_vars => RuntimeInv'
  BY RuntimeTypes, OwnsLockStep, FaultAnsweredStep, CleanupTriedStep
     DEF RuntimeInv
<1> QED
  BY RuntimeInit, <1>1, PTL DEF Spec

(* Types are kept: the status of a run is one that the except clauses or   *)
(* the coordinator can give it.                                            *)
THEOREM RuntimeTypeOK == Spec => []TypeOK
<1>1. RuntimeInv => TypeOK
  BY DEF RuntimeInv
<1> QED
  BY RuntimeInvariant, <1>1, PTL

(* At most one running process works on the target in real mode, whatever  *)
(* number of runs and processes there are and whenever they die.           *)
THEOREM OneRunTheorem == Spec => []OneRunPerTarget
<1>1. RuntimeInv => OneRunPerTarget
  BY DEF RuntimeInv, OwnsLock, OneRunPerTarget
<1> QED
  BY RuntimeInvariant, <1>1, PTL

(* No fault is left in the cluster without a run that answers for it.      *)
THEOREM FaultTheorem == Spec => []FaultAccountedFor
<1>1. RuntimeInv => FaultAccountedFor
  BY DEF RuntimeInv, FaultAnswered, Answers, FaultAccountedFor
<1> QED
  BY RuntimeInvariant, <1>1, PTL

(* The status a run returns with tells the truth about cancellation and    *)
(* cleanup.                                                                *)
THEOREM StatusTheorem == Spec => []StatusHonest
<1>1. RuntimeInv => StatusHonest
  BY DEF RuntimeInv, CleanupTried, StatusHonest
<1> QED
  BY RuntimeInvariant, <1>1, PTL

(* A run that has returned has given the lock back.                        *)
THEOREM ReleaseTheorem == Spec => []ReturnedReleasedLock
<1>1. RuntimeInv => ReturnedReleasedLock
  BY DEF RuntimeInv, OwnsLock, ReturnedReleasedLock
<1> QED
  BY RuntimeInvariant, <1>1, PTL
=============================================================================
