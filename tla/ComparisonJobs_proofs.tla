-------------------------- MODULE ComparisonJobs_proofs -------------------------
(***************************************************************************)
(* What the benchmark and comparison jobs guarantee, proved for every set  *)
(* of jobs and requests, and that both tables implement JobLifecycle; then *)
(* what a real comparison may conclude from the records of its treatment   *)
(* matrix and what it owes the cluster, for any number of concurrent runs, *)
(* any scenarios and actions.  Neither part uses the other's assumptions   *)
(* on constants.                                                           *)
(***************************************************************************)
EXTENDS BenchmarkJobs, RecoveryTreatments, TLAPS

-----------------------------------------------------------------------------
(* The jobs.                                                               *)

\* A cancel request that is under way is about a job.
WellTyped ==
    /\ TypeOK
    /\ \A k \in Clients : client[k] # "idle" => at[k] \in Jobs

\* A row exists exactly from its submission on; until the thread is registered
\* only a cancel request touches it.
SubmissionShape ==
    \A j \in Jobs :
        /\ submit[j] = "new" <=> status[j] = "fresh"
        /\ submit[j] = "new" => worker[j] = "none" /\ result[j] = "none"
        /\ submit[j] = "created" =>
               /\ Running /\ worker[j] = "none" /\ result[j] = "none"
               /\ status[j] \in {"queued", "cancelling"}

\* A thread works on a row that is open and has no result yet.
ThreadOwnsRow ==
    \A j \in Jobs : Working(j) =>
        /\ Running /\ submit[j] = "done" /\ result[j] = "none"
        /\ status[j] \in IF worker[j] \in {"get", "transition"}
                         THEN {"queued", "cancelling"} ELSE {"running", "cancelling"}

\* A terminal row has its result, unless a restart interrupted it.
TerminalHasResult ==
    \A j \in Jobs :
        status[j] \in Terminal => result[j] # "none" \/ status[j] = "interrupted"

\* A row somebody is about to mark as cancelling was not closed by a restart in
\* between.
WriterReadOpenRow ==
    /\ ~Running => \A k \in Clients : client[k] = "idle"
    /\ \A k \in Clients : client[k] = "write" =>
           (status[at[k]] = "interrupted" => result[at[k]] # "none")
    /\ server = "stop_write" =>
           /\ target \in Jobs
           /\ status[target] = "interrupted" => result[target] # "none"

\* A child is watched by its thread, or its thread ended with the process and
\* its job will never have a result: ResultMeansNoChild alone does not say why
\* a thread that stores a result has no child any more.
ChildIsWatched ==
    \A j \in Jobs :
        /\ child[j] \in {"running", "exited"} => worker[j] \in {"exec", "stop"}
        /\ child[j] # "none" => j \in Benchmarks
        /\ child[j] = "orphan" => worker[j] = "gone" /\ result[j] = "none"

TableFacts ==
    /\ SubmissionShape /\ ThreadOwnsRow /\ TerminalHasResult
    /\ WriterReadOpenRow
    /\ ChildIsWatched

BenchmarkInv == WellTyped /\ TableFacts

-----------------------------------------------------------------------------
USE BenchmarkAssumption DEF BenchmarkAssumption

(* The initial state satisfies the inductive invariant.                    *)
LEMMA BenchmarkInit == Init => BenchmarkInv
<1> SUFFICES ASSUME Init PROVE BenchmarkInv
  OBVIOUS
<1> USE DEF Init, Nonterminal, Terminal, Working, Running
<1>1. WellTyped
  BY DEF WellTyped, TypeOK
<1>2. SubmissionShape /\ ThreadOwnsRow /\ TerminalHasResult
  BY DEF SubmissionShape, ThreadOwnsRow, TerminalHasResult
<1>3. WriterReadOpenRow /\ ChildIsWatched
  BY DEF WriterReadOpenRow, ChildIsWatched
<1> QED
  BY <1>1, <1>2, <1>3 DEF BenchmarkInv, TableFacts

(* Every step preserves the types.                                         *)
LEMMA BenchmarkTypes == WellTyped /\ [Next]_vars => WellTyped'
<1> SUFFICES ASSUME WellTyped, [Next]_vars PROVE WellTyped'
  OBVIOUS
<1> USE DEF WellTyped, TypeOK, Nonterminal, Terminal, dbVars, registryVars,
            threadVars, clientVars, serverVars
<1>1. ASSUME NEW j \in Jobs, SubmitCreate(j) PROVE WellTyped'
  BY <1>1 DEF SubmitCreate
<1>2. ASSUME NEW j \in Jobs, SubmitRegister(j) PROVE WellTyped'
  BY <1>2 DEF SubmitRegister
<1>3. ASSUME NEW j \in Jobs, WorkerStep(j) PROVE WellTyped'
  <2> USE DEF StepWorker, Settle, Raised
  <2>1. CASE \/ WorkerGet(j) \/ WorkerTransition(j) \/ WorkerStoreError(j)
             \/ ReportsDirFails(j)
    BY <2>1 DEF WorkerGet, WorkerTransition, WorkerStoreError, ReportsDirFails
  <2>2. CASE WorkerPreflight(j)
    BY <2>2 DEF WorkerPreflight
  <2>3. CASE WorkerLoop(j)
    BY <2>3 DEF WorkerLoop
  <2>4. CASE TreatmentEnds(j)
    BY <2>4 DEF TreatmentEnds
  <2>5. CASE ChildCollected(j)
    BY <2>5 DEF ChildCollected
  <2>6. CASE ChildCancelled(j)
    BY <2>6 DEF ChildCancelled
  <2>7. CASE ChildStopped(j)
    BY <2>7 DEF ChildStopped
  <2>8. CASE WorkerFinally(j)
    BY <2>8 DEF WorkerFinally
  <2>9. CASE WorkerResult(j)
    BY <2>9 DEF WorkerResult
  <2>10. CASE WorkerPop(j)
    BY <2>10 DEF WorkerPop
  <2> QED
    BY <1>3, <2>1, <2>2, <2>3, <2>4, <2>5, <2>6, <2>7, <2>8, <2>9, <2>10
       DEF WorkerStep
<1>4. ASSUME NEW j \in Benchmarks, ChildDeadline(j) \/ ChildExits(j) PROVE WellTyped'
  BY <1>4 DEF ChildDeadline, ChildExits, StepWorker, Jobs
<1>5. ASSUME NEW j \in Benchmarks, DeleteOne(j) PROVE WellTyped'
  BY <1>5 DEF DeleteOne, RemoveRows
<1>6. ASSUME NEW k \in Clients, NEW j \in Jobs, CancelRead(k, j) PROVE WellTyped'
  BY <1>6 DEF CancelRead, Client
<1>7. ASSUME NEW k \in Clients, CancelWrite(k) PROVE WellTyped'
  <2>1. CASE HasRow(at[k])
    <3>1. at[k] \in Jobs
      BY <1>7 DEF CancelWrite
    <3>2. status' = [status EXCEPT ![at[k]] = "cancelling"]
      BY <1>7, <2>1 DEF CancelWrite, MarkCancelling
    <3>3. cancelRequested' = [cancelRequested EXCEPT ![at[k]] = TRUE]
      BY <1>7, <2>1 DEF CancelWrite, MarkCancelling
    <3>4. Client(k, "signal", at[k])
      BY <1>7, <2>1 DEF CancelWrite
    <3> QED
      BY <1>7, <3>1, <3>2, <3>3, <3>4 DEF CancelWrite, Client
  <2>2. CASE ~HasRow(at[k])
    BY <1>7, <2>2 DEF CancelWrite, Client, MarkCancelling
  <2> QED
    BY <2>1, <2>2
<1>8. ASSUME NEW k \in Clients, CancelSignal(k) PROVE WellTyped'
  BY <1>8 DEF CancelSignal, Client
<1>9. CASE DeleteAll
  BY <1>9 DEF DeleteAll, RemoveRows
<1>10. CASE ShutdownBegin \/ ShutdownStep \/ ShutdownRaises
  <2>1. CASE ShutdownBegin
    BY <2>1 DEF ShutdownBegin, Jobs
  <2>2. ASSUME NEW j \in Jobs, ShutdownRow(j) PROVE WellTyped'
    BY <2>2 DEF ShutdownRow
  <2>3. CASE ShutdownWrite
    BY <2>3 DEF ShutdownWrite, MarkCancelling
  <2>4. CASE ShutdownJoined \/ ShutdownComparisons
    BY <2>4 DEF ShutdownJoined, ShutdownComparisons
  <2>5. CASE ShutdownRaises
    BY <2>5 DEF ShutdownRaises
  <2> QED
    BY <1>10, <2>1, <2>2, <2>3, <2>4, <2>5 DEF ShutdownStep
<1>11. CASE ProcessEnds
  BY <1>11 DEF ProcessEnds
<1>12. CASE Restart
  BY <1>12 DEF Restart
<1>13. CASE UNCHANGED vars
  BY <1>13 DEF vars
<1> QED
  BY <1>1, <1>2, <1>3, <1>4, <1>5, <1>6, <1>7, <1>8, <1>9, <1>10, <1>11, <1>12,
     <1>13 DEF Next

(* Every step keeps the facts about rows, requests and children.           *)
LEMMA BenchmarkStep == BenchmarkInv /\ [Next]_vars => TableFacts'
<1> SUFFICES ASSUME BenchmarkInv, [Next]_vars PROVE TableFacts'
  OBVIOUS
<1> USE DEF BenchmarkInv, WellTyped, TypeOK, TableFacts, SubmissionShape,
            ThreadOwnsRow, TerminalHasResult, WriterReadOpenRow, ChildIsWatched,
            Nonterminal, Terminal, Working, HasRow, Running,
            dbVars, registryVars, threadVars, clientVars, serverVars
<1>1. ASSUME NEW j \in Jobs, SubmitCreate(j) PROVE TableFacts'
  BY <1>1 DEF SubmitCreate
<1>2. ASSUME NEW j \in Jobs, SubmitRegister(j) PROVE TableFacts'
  BY <1>2 DEF SubmitRegister
<1>3. ASSUME NEW j \in Jobs, WorkerStep(j) PROVE TableFacts'
  <2> USE DEF StepWorker, Settle, Raised
  <2>1. CASE WorkerGet(j) \/ WorkerStoreError(j) \/ ReportsDirFails(j)
    BY <2>1 DEF WorkerGet, WorkerStoreError, ReportsDirFails
  <2>2. CASE WorkerTransition(j)
    BY <2>2 DEF WorkerTransition
  <2>3. CASE WorkerPreflight(j)
    BY <2>3 DEF WorkerPreflight
  <2>4. CASE WorkerLoop(j)
    BY <2>4 DEF WorkerLoop
  <2>5. CASE TreatmentEnds(j)
    BY <2>5 DEF TreatmentEnds, Jobs
  <2>6. CASE ChildCollected(j)
    BY <2>6 DEF ChildCollected
  <2>7. CASE ChildCancelled(j)
    BY <2>7 DEF ChildCancelled
  <2>8. CASE ChildStopped(j)
    BY <2>8 DEF ChildStopped
  <2>9. CASE WorkerFinally(j)
    BY <2>9 DEF WorkerFinally
  <2>10. CASE WorkerResult(j)
    BY <2>10 DEF WorkerResult
  <2>11. CASE WorkerPop(j)
    BY <2>11 DEF WorkerPop
  <2> QED
    BY <1>3, <2>1, <2>2, <2>3, <2>4, <2>5, <2>6, <2>7, <2>8, <2>9, <2>10, <2>11
       DEF WorkerStep
<1>4. ASSUME NEW j \in Benchmarks, ChildDeadline(j) PROVE TableFacts'
  BY <1>4 DEF ChildDeadline, StepWorker, Jobs
<1>5. ASSUME NEW j \in Benchmarks, ChildExits(j) PROVE TableFacts'
  BY <1>5 DEF ChildExits, Jobs
<1>6. ASSUME NEW j \in Benchmarks, DeleteOne(j) PROVE TableFacts'
  BY <1>6 DEF DeleteOne, RemoveRows, Jobs
<1>7. ASSUME NEW k \in Clients, NEW j \in Jobs, CancelRead(k, j) PROVE TableFacts'
  BY <1>7 DEF CancelRead, Client
<1>8. ASSUME NEW k \in Clients, CancelWrite(k) PROVE TableFacts'
  BY <1>8 DEF CancelWrite, Client, MarkCancelling
<1>9. ASSUME NEW k \in Clients, CancelSignal(k) PROVE TableFacts'
  BY <1>9 DEF CancelSignal, Client
<1>10. CASE DeleteAll
  BY <1>10 DEF DeleteAll, RemoveRows
<1>11. CASE ShutdownBegin \/ ShutdownStep \/ ShutdownRaises
  <2>1. CASE ShutdownBegin \/ ShutdownJoined \/ ShutdownComparisons \/ ShutdownRaises
    BY <2>1 DEF ShutdownBegin, ShutdownJoined, ShutdownComparisons, ShutdownRaises
  <2>2. ASSUME NEW j \in Jobs, ShutdownRow(j) PROVE TableFacts'
    BY <2>2 DEF ShutdownRow
  <2>3. CASE ShutdownWrite
    BY <2>3 DEF ShutdownWrite, MarkCancelling
  <2> QED
    BY <1>11, <2>1, <2>2, <2>3 DEF ShutdownStep
<1>12. CASE ProcessEnds
  BY <1>12 DEF ProcessEnds
<1>13. CASE Restart
  BY <1>13 DEF Restart
<1>14. CASE UNCHANGED vars
  BY <1>14 DEF vars
<1> QED
  BY <1>1, <1>2, <1>3, <1>4, <1>5, <1>6, <1>7, <1>8, <1>9, <1>10, <1>11, <1>12,
     <1>13, <1>14 DEF Next

(* In every reachable state the inductive invariant holds.                 *)
THEOREM BenchmarkInvariant == Spec => []BenchmarkInv
<1>1. BenchmarkInv /\ [Next]_vars => BenchmarkInv'
  BY BenchmarkTypes, BenchmarkStep DEF BenchmarkInv
<1> QED
  BY BenchmarkInit, <1>1, PTL DEF Spec

(* A stored result means that the benchmark no longer acts on the cluster: *)
(* on no path, the deadline and a cancellation that races it included,     *)
(* does a thread record its verdict with the child still alive.            *)
THEOREM NoChildTheorem == Spec => []ResultMeansNoChild
<1>1. BenchmarkInv => ResultMeansNoChild
  BY DEF BenchmarkInv, WellTyped, TypeOK, TableFacts, ThreadOwnsRow, ChildIsWatched,
         Working, ResultMeansNoChild, Jobs
<1> QED
  BY BenchmarkInvariant, <1>1, PTL

-----------------------------------------------------------------------------
(* The rows of both tables implement the abstract lifecycle.               *)

(* A statement that writes rows is a step of the abstract lifecycle.       *)
LEMMA WriteIsLifecycleStep ==
    ASSUME BenchmarkInv, [Next]_vars
    PROVE  [Lifecycle!JobNext]_(Lifecycle!jobVars)
<1> USE DEF Lifecycle!JobNext, Lifecycle!jobVars, BenchmarkInv, WellTyped, TypeOK,
            TableFacts, SubmissionShape, ThreadOwnsRow, TerminalHasResult,
            WriterReadOpenRow, Nonterminal, Terminal, Working, HasRow,
            Lifecycle!Nonterminal, Lifecycle!TerminalStatuses, Lifecycle!Become
<1> DEFINE Abstract == [Lifecycle!JobNext]_(Lifecycle!jobVars)
<1>1. ASSUME NEW j \in Jobs, SubmitCreate(j) PROVE Lifecycle!JobSubmit(j)
  BY <1>1 DEF SubmitCreate, Lifecycle!JobSubmit
<1>2. ASSUME NEW j \in Jobs, WorkerTransition(j) PROVE Lifecycle!JobStart(j)
  BY <1>2 DEF WorkerTransition, Lifecycle!JobStart
<1>3. ASSUME NEW j \in Jobs, WorkerResult(j) PROVE Abstract
  <2>1. HasRow(j)
    BY <1>3 DEF WorkerResult
  <2>2. Lifecycle!JobFinish(j)
    BY <1>3, <2>1 DEF WorkerResult, Lifecycle!JobFinish
  <2> QED
    BY <2>2
<1>4. ASSUME NEW j \in Jobs, MarkCancelling(j), UNCHANGED result,
             status[j] = "interrupted" => result[j] # "none"
      PROVE  Abstract
  <2>1. CASE ~HasRow(j)
    BY <1>4, <2>1 DEF MarkCancelling
  <2>2. CASE status[j] \in Nonterminal
    BY <1>4, <2>2 DEF MarkCancelling, Lifecycle!JobCancel
  <2>3. CASE status[j] \in Terminal
    BY <1>4, <2>3 DEF MarkCancelling, Lifecycle!JobReopen
  <2> QED
    BY <2>1, <2>2, <2>3
<1>5. ASSUME NEW k \in Clients, CancelWrite(k) PROVE Abstract
  BY <1>4, <1>5 DEF CancelWrite
<1>6. CASE ShutdownWrite
  BY <1>4, <1>6 DEF ShutdownWrite
<1>7. ASSUME NEW S \in SUBSET Jobs, \A j \in S : status[j] \in Terminal, RemoveRows(S)
      PROVE  Lifecycle!JobDelete(S)
  BY <1>7 DEF RemoveRows, Lifecycle!JobDelete
<1>8. ASSUME NEW j \in Benchmarks, DeleteOne(j) PROVE Abstract
  <2>1. {j} \in SUBSET Jobs
    BY DEF Jobs
  <2>2. Lifecycle!JobDelete({j})
    BY <1>7, <1>8, <2>1 DEF DeleteOne
  <2> QED
    BY <2>1, <2>2, Zenon
<1>9. CASE DeleteAll
  <2> DEFINE done == {j \in Benchmarks : status[j] \in Terminal}
  <2>1. done \in SUBSET Jobs
    BY DEF Jobs
  <2>2. RemoveRows(done)
    BY <1>9 DEF DeleteAll
  <2>3. Lifecycle!JobDelete(done)
    BY <1>7, <2>1, <2>2
  <2> QED
    BY <2>1, <2>3, Zenon
<1>10. CASE Restart
  BY <1>10 DEF Restart, Lifecycle!JobInterruptAll
<1>11. CASE \/ \E j \in Jobs :
                  \/ SubmitRegister(j) \/ WorkerGet(j) \/ WorkerPreflight(j)
                  \/ WorkerLoop(j) \/ TreatmentEnds(j) \/ ChildCollected(j)
                  \/ ChildCancelled(j) \/ ChildStopped(j) \/ WorkerFinally(j)
                  \/ WorkerPop(j) \/ WorkerStoreError(j) \/ ReportsDirFails(j)
            \/ \E j \in Benchmarks : ChildDeadline(j) \/ ChildExits(j)
            \/ \E k \in Clients, j \in Jobs : CancelRead(k, j)
            \/ \E k \in Clients : CancelSignal(k)
            \/ \E j \in Jobs : ShutdownRow(j)
            \/ ShutdownBegin \/ ShutdownJoined \/ ShutdownComparisons
            \/ ShutdownRaises \/ ProcessEnds \/ UNCHANGED vars
  <2>1. UNCHANGED <<status, result>>
    BY <1>11, Zenon
       DEF SubmitRegister, WorkerGet, WorkerPreflight, WorkerLoop, TreatmentEnds,
           ChildCollected, ChildCancelled, ChildStopped, WorkerFinally, WorkerPop,
           WorkerStoreError, ReportsDirFails, ShutdownRaises, ChildDeadline, ChildExits, CancelRead, CancelSignal,
           ShutdownRow, ShutdownBegin, ShutdownJoined, ShutdownComparisons,
           ProcessEnds, vars, dbVars
  <2> QED
    BY <2>1
<1> QED
  BY <1>1, <1>2, <1>3, <1>5, <1>6, <1>8, <1>9, <1>10, <1>11
     DEF Next, WorkerStep, ShutdownStep

(* Both tables only go through the statuses of the abstract lifecycle, for *)
(* every number of jobs: a bulk deletion removes several rows at once.     *)
THEOREM RefinementTheorem == Spec => RefinesLifecycle
<1>1. Init => Lifecycle!JobInit
  BY DEF Init, Lifecycle!JobInit
<1>2. BenchmarkInv /\ [Next]_vars => [Lifecycle!JobNext]_(Lifecycle!jobVars)
  BY WriteIsLifecycleStep
<1> QED
  BY <1>1, <1>2, BenchmarkInvariant, PTL DEF Spec, RefinesLifecycle, Lifecycle!JobSpec

-----------------------------------------------------------------------------
(* Once signalled a job can only be recorded as something else.            *)

\* The thread has not taken its last look at the cancellation event.
Looks(j) == Working(j) /\ worker[j] # "result"

\* The job has no completed result and its thread will not store one.
Doomed(j) ==
    /\ result[j] # "completed"
    /\ submit[j] = "done" /\ worker[j] # "none"
    /\ Looks(j) => signal[j]
    /\ worker[j] = "result" => outcome[j] # "completed"

(* Being doomed is stable, whichever of the event and the row cancellation *)
(* and shutdown write first.                                               *)
LEMMA DoomedStable ==
    ASSUME NEW j \in Jobs, BenchmarkInv, Doomed(j), [Next]_vars
    PROVE  Doomed(j)'
<1> USE DEF BenchmarkInv, WellTyped, TypeOK, Doomed, Looks, Working, Terminal,
            dbVars, registryVars, threadVars, clientVars, serverVars
<1>1. ASSUME NEW i \in Jobs, SubmitCreate(i) \/ SubmitRegister(i) PROVE Doomed(j)'
  BY <1>1 DEF SubmitCreate, SubmitRegister
<1>2. ASSUME NEW i \in Jobs, WorkerStep(i) PROVE Doomed(j)'
  <2> USE DEF StepWorker, Settle, Raised
  <2>1. CASE \/ WorkerGet(i) \/ WorkerTransition(i) \/ WorkerStoreError(i)
             \/ ReportsDirFails(i)
    BY <2>1 DEF WorkerGet, WorkerTransition, WorkerStoreError, ReportsDirFails
  <2>2. CASE WorkerPreflight(i) \/ TreatmentEnds(i)
    BY <2>2 DEF WorkerPreflight, TreatmentEnds
  <2>3. CASE WorkerLoop(i)
    BY <2>3 DEF WorkerLoop
  <2>4. CASE ChildCollected(i) \/ ChildCancelled(i) \/ ChildStopped(i)
    BY <2>4 DEF ChildCollected, ChildCancelled, ChildStopped
  <2>5. CASE WorkerFinally(i)
    BY <2>5 DEF WorkerFinally
  <2>6. CASE WorkerResult(i)
    BY <2>6 DEF WorkerResult
  <2>7. CASE WorkerPop(i)
    BY <2>7 DEF WorkerPop
  <2> QED
    BY <1>2, <2>1, <2>2, <2>3, <2>4, <2>5, <2>6, <2>7 DEF WorkerStep
<1>3. ASSUME NEW i \in Benchmarks, ChildDeadline(i) \/ ChildExits(i) PROVE Doomed(j)'
  BY <1>3 DEF ChildDeadline, ChildExits, StepWorker, Jobs
<1>4. ASSUME NEW S \in SUBSET Jobs, RemoveRows(S) PROVE Doomed(j)'
  BY <1>4 DEF RemoveRows
<1>5. ASSUME NEW i \in Benchmarks, DeleteOne(i) PROVE Doomed(j)'
  BY <1>4, <1>5 DEF DeleteOne, Jobs
<1>6. CASE DeleteAll
  BY <1>4, <1>6 DEF DeleteAll, Jobs
<1>7. ASSUME NEW k \in Clients, NEW i \in Jobs, CancelRead(k, i) PROVE Doomed(j)'
  BY <1>7 DEF CancelRead
<1>8. ASSUME NEW k \in Clients, CancelWrite(k) \/ CancelSignal(k) PROVE Doomed(j)'
  BY <1>8 DEF CancelWrite, CancelSignal
<1>9. CASE ShutdownBegin \/ ShutdownStep \/ ShutdownRaises
  BY <1>9 DEF ShutdownBegin, ShutdownStep, ShutdownRow, ShutdownWrite,
              ShutdownJoined, ShutdownComparisons, ShutdownRaises
<1>10. CASE ProcessEnds \/ Restart
  BY <1>10 DEF ProcessEnds, Restart
<1>11. CASE UNCHANGED vars
  BY <1>11 DEF vars
<1> QED
  BY <1>1, <1>2, <1>3, <1>5, <1>6, <1>7, <1>8, <1>9, <1>10, <1>11 DEF Next

(* A job whose event was set before its thread took the last look at it is *)
(* never stored as completed.                                              *)
THEOREM SignalledTheorem == Spec => SignalledNeverCompletes
<1>1. ASSUME NEW j \in Jobs
      PROVE  Spec => [](signal[j] /\ Working(j) /\ worker[j] # "result"
                           => [](result[j] # "completed"))
  <2>1. BenchmarkInv /\ signal[j] /\ Working(j) /\ worker[j] # "result" => Doomed(j)
    BY DEF BenchmarkInv, TableFacts, ThreadOwnsRow, Working, Doomed
  <2>2. BenchmarkInv /\ Doomed(j) /\ [Next]_vars => Doomed(j)'
    BY DoomedStable
  <2>3. Doomed(j) => result[j] # "completed"
    BY DEF Doomed
  <2> QED
    BY <2>1, <2>2, <2>3, BenchmarkInvariant, PTL DEF Spec
<1> QED
  BY <1>1 DEF SignalledNeverCompletes

HIDE BenchmarkAssumption DEF BenchmarkAssumption

-----------------------------------------------------------------------------
(* The treatments.  The first property is nearly inductive: it only has to *)
(* know that a record says its cleanup succeeded in the step "record" at   *)
(* the earliest, when the fault is gone.  The second needs to follow the   *)
(* replicas and the faults through a treatment, and uses the first one     *)
(* where the fault is injected: whatever else is in the cluster at that    *)
(* moment is somebody's to answer for.                                     *)

Injected == {"detect", "execute", "recover", "measure", "end_delete", "end_scale",
             "end_rollout", "record", "dead"}
Measured == {"end_delete", "end_scale", "end_rollout", "record", "dead"}

\* A record says of a cleanup only what the last reset has done.
CleanupIsLast ==
    \A r \in Runs : rec[r].cleanup => pc[r] \in {"record", "dead"}

\* a fresh record until the fault is injected, an invalid one until the end
RecordFollowsPc ==
    \A r \in Runs : rec[r].valid => pc[r] \in Measured

\* one treatment at a time until the history says otherwise
Exclusive ==
    ~shared => \A q, r \in Runs : Active(q) /\ Active(r) => q = r

\* The reset before a treatment has put the replicas back, and within it
\* only a scale-out moves them.
ReplicasFollowPc ==
    ~shared => \A r \in Runs :
        /\ pc[r] \in {"rollout", "before", "apply", "detect", "execute"} =>
              replicas = Baseline
        /\ pc[r] \in {"recover", "measure"} /\ ActionAt(index[r]) # "scale_out" =>
              replicas = Baseline

\* a treatment whose fault was not the only one has been told so
AloneOrTold ==
    ~shared => \A r \in Runs :
        pc[r] \in {"detect", "execute", "recover", "measure"} \/ rec[r].valid =>
            rec[r].alone \/ unclean # {} \/ Died

DeltaOfAction ==
    ~shared => \A r \in Runs :
        rec[r].valid /\ rec[r].delta # 0 => ActionAt(index[r]) = "scale_out"

\* a treatment is one of the matrix
IndexFollowsPc ==
    \A r \in Runs : Active(r) \/ pc[r] = "dead" => index[r] > 0

TreatmentsInv ==
    /\ TreatmentsTypeOK
    /\ InjectedFaultAccountedFor
    /\ CleanupIsLast /\ RecordFollowsPc /\ IndexFollowsPc
    /\ Exclusive /\ ReplicasFollowPc /\ AloneOrTold /\ DeltaOfAction

-----------------------------------------------------------------------------
\* the fields of a record are what the recovery runner fills in
USE TreatmentsAssumption

(* Treatment i of the matrix is of one of the scenarios.                   *)
LEMMA MatrixScenario == \A i \in Nat \ {0} : ScenarioAt(i) \in Names
<1> DEFINE K == Len(Scenarios)  L == Len(Actions)
<1>1. K \in Nat \ {0} /\ L \in Nat \ {0} /\ DOMAIN Scenarios = 1..K
  BY DEF TreatmentsAssumption
<1> HIDE DEF K, L
<1>2. ASSUME NEW i \in Nat \ {0} PROVE ((((i - 1) \div L) % K) + 1) \in 1..K
  <2>1. (i - 1) \div L \in Nat
    BY <1>1
  <2>2. ASSUME NEW n \in Nat PROVE n % K \in 0..(K - 1)
    BY <1>1
  <2>3. ((i - 1) \div L) % K \in 0..(K - 1)
    BY <2>1, <2>2
  <2> QED
    BY <1>1, <2>3
<1> QED
  BY <1>1, <1>2 DEF ScenarioAt, Names, K, L

(* A record whose fields are replaced by values of their types is a record.*)
LEMMA RecordUpdate ==
    \A R \in Record :
        /\ \A b \in BOOLEAN :
              /\ [R EXCEPT !.safe = b] \in Record
              /\ [R EXCEPT !.alone = b] \in Record
              /\ [R EXCEPT !.cleanup = b] \in Record
        /\ \A d \in {0, Scaled - Baseline}, b \in BOOLEAN :
              [R EXCEPT !.valid = TRUE, !.delta = d, !.success = b] \in Record
  BY DEF Record

(* The initial state satisfies the inductive invariant.                    *)
LEMMA TreatmentsInvInit == TreatmentsInit => TreatmentsInv
<1> SUFFICES ASSUME TreatmentsInit PROVE TreatmentsInv
  OBVIOUS
<1> USE DEF TreatmentsInit, EmptyRecord, Steps, Active
<1>1. TreatmentsTypeOK
  <2>1. Total \in Nat /\ Scaled - Baseline \in Int
    BY DEF Total, TreatmentsAssumption
  <2>2. rec \in [Runs -> Record]
    BY <2>1 DEF Record
  <2>3. Total \in Nat => 0 \in 0..Total
    OBVIOUS
  <2> QED
    BY <2>1, <2>2, <2>3 DEF TreatmentsTypeOK, TreatmentsAssumption
<1>2. InjectedFaultAccountedFor /\ CleanupIsLast /\ RecordFollowsPc /\ IndexFollowsPc
  BY DEF InjectedFaultAccountedFor, CleanupIsLast, RecordFollowsPc, IndexFollowsPc
<1>3. Exclusive /\ ReplicasFollowPc /\ AloneOrTold /\ DeltaOfAction
  BY DEF Exclusive, ReplicasFollowPc, AloneOrTold, DeltaOfAction
<1> QED
  BY <1>1, <1>2, <1>3 DEF TreatmentsInv

(* Every step preserves the types.                                         *)
LEMMA TreatmentsTypes ==
    ASSUME TreatmentsTypeOK, IndexFollowsPc, [TreatmentsNext]_treatmentsVars
    PROVE  TreatmentsTypeOK'
<1> USE DEF TreatmentsTypeOK, Steps, Go, Kubectl, Local, clusterVars, runVars
<1>0. Baseline \in Nat /\ Scaled \in Nat /\ Total \in Nat
  BY DEF TreatmentsAssumption, Total
<1>1. ASSUME NEW r \in Runs, Begin(r) PROVE TreatmentsTypeOK'
  BY <1>1 DEF Begin
<1>2. ASSUME NEW r \in Runs, NextTreatment(r) PROVE TreatmentsTypeOK'
  <2>1. index[r] < Total => index[r] + 1 \in 0..Total
    BY <1>0
  <2> HIDE DEF Steps
  <2>2. "delete" \in Steps
    BY DEF Steps
  <2> QED
    BY <1>0, <1>2, <2>1, <2>2, Zenon DEF NextTreatment
<1>3. ASSUME NEW r \in Runs, ResetDelete(r) \/ EndDelete(r) PROVE TreatmentsTypeOK'
  BY <1>3 DEF ResetDelete, EndDelete
<1>4. ASSUME NEW r \in Runs, ResetScale(r) \/ EndScale(r) PROVE TreatmentsTypeOK'
  BY <1>4 DEF ResetScale, EndScale
<1>5. ASSUME NEW r \in Runs, ResetRollout(r) \/ Before(r) \/ Detect(r) \/ Recover(r)
      PROVE  TreatmentsTypeOK'
  BY <1>5 DEF ResetRollout, Before, Detect, Recover
<1>6. ASSUME NEW r \in Runs, Apply(r) PROVE TreatmentsTypeOK'
  <2>1. Scenario(r) \in Names
    BY <1>0, <1>6, MatrixScenario DEF Apply, IndexFollowsPc, Active, Scenario
  <2>2. rec' \in [Runs -> Record]
    BY <1>6, RecordUpdate DEF Apply
  <2> QED
    BY <1>6, <2>1, <2>2 DEF Apply
<1>7. ASSUME NEW r \in Runs, Execute(r) PROVE TreatmentsTypeOK'
  <2>1. rec' \in [Runs -> Record]
    <3>1. PICK ok \in BOOLEAN : rec' = [rec EXCEPT ![r].safe = ok]
      BY <1>7 DEF Execute
    <3>2. [rec[r] EXCEPT !.safe = ok] \in Record
      BY RecordUpdate
    <3> QED
      BY <3>1, <3>2
  <2> QED
    BY <1>7, <2>1 DEF Execute
<1>8. ASSUME NEW r \in Runs, Measure(r) PROVE TreatmentsTypeOK'
  <2>1. replicas - Baseline \in {0, Scaled - Baseline}
    BY <1>0
  <2>2. rec' \in [Runs -> Record]
    <3>1. CASE UNCHANGED rec
      BY <3>1
    <3>2. ASSUME NEW b \in BOOLEAN,
                 rec' = [rec EXCEPT ![r].valid = TRUE, ![r].delta = replicas - Baseline,
                                    ![r].success = b]
          PROVE  rec' \in [Runs -> Record]
      <4>1. [rec[r] EXCEPT !.valid = TRUE, !.delta = replicas - Baseline,
                           !.success = b] \in Record
        BY <2>1, RecordUpdate
      <4> QED
        BY <3>2, <4>1
    <3>3. ASSUME NEW b \in BOOLEAN PROVE (rec[r].safe /\ b) \in BOOLEAN
      OBVIOUS
    <3> QED
      BY <1>8, <3>1, <3>2, <3>3 DEF Measure
  <2> QED
    BY <1>8, <2>2 DEF Measure
<1>9. ASSUME NEW r \in Runs, EndRollout(r) PROVE TreatmentsTypeOK'
  <2>1. rec' \in [Runs -> Record]
    <3>1. PICK ok \in BOOLEAN : rec' = [rec EXCEPT ![r].cleanup = ok]
      BY <1>9 DEF EndRollout
    <3>2. [rec[r] EXCEPT !.cleanup = ok] \in Record
      BY RecordUpdate
    <3> QED
      BY <3>1, <3>2
  <2> QED
    BY <1>9, <2>1 DEF EndRollout
<1>10. ASSUME NEW r \in Runs, WriteRecord(r) PROVE TreatmentsTypeOK'
  <2>1. Scenario(r) \in Names
    BY <1>0, <1>10, MatrixScenario DEF WriteRecord, IndexFollowsPc, Active, Scenario
  <2>2. EmptyRecord \in Record
    BY DEF EmptyRecord, Record
  <2> QED
    BY <1>10, <2>1, <2>2 DEF WriteRecord
<1>11. ASSUME NEW r \in Runs, Crash(r) PROVE TreatmentsTypeOK'
  BY <1>11 DEF Crash
<1>12. CASE UNCHANGED treatmentsVars
  BY <1>12 DEF treatmentsVars
<1> QED
  BY <1>1, <1>2, <1>3, <1>4, <1>5, <1>6, <1>7, <1>8, <1>9, <1>10, <1>11, <1>12
     DEF TreatmentsNext, RunStep

(* Every step preserves the shape of a treatment and of its record.        *)
LEMMA TreatmentShape ==
    ASSUME TreatmentsInv, [TreatmentsNext]_treatmentsVars
    PROVE  CleanupIsLast' /\ RecordFollowsPc' /\ IndexFollowsPc'
<1> USE DEF TreatmentsInv, TreatmentsTypeOK, Steps, Active, Go, Kubectl, Local, clusterVars, runVars,
            CleanupIsLast, RecordFollowsPc, IndexFollowsPc, Measured, EmptyRecord, Record
<1> DEFINE Shape == CleanupIsLast /\ RecordFollowsPc /\ IndexFollowsPc
<1>1. ASSUME NEW r \in Runs, Begin(r) PROVE Shape'
  BY <1>1 DEF Begin
<1>2. ASSUME NEW r \in Runs, NextTreatment(r) PROVE Shape'
  <2>1. index[r] + 1 > 0
    BY DEF Total, TreatmentsAssumption
  <2>2. CleanupIsLast' /\ RecordFollowsPc'
    BY <1>2 DEF NextTreatment
  <2>3. IndexFollowsPc'
    BY <1>2, <2>1 DEF NextTreatment
  <2> QED
    BY <2>2, <2>3
<1>3. ASSUME NEW r \in Runs, ResetDelete(r) PROVE Shape'
  BY <1>3 DEF ResetDelete
<1>4. ASSUME NEW r \in Runs, ResetScale(r) PROVE Shape'
  BY <1>4 DEF ResetScale
<1>5. ASSUME NEW r \in Runs, ResetRollout(r) PROVE Shape'
  BY <1>5 DEF ResetRollout
<1>6. ASSUME NEW r \in Runs, Before(r) PROVE Shape'
  BY <1>6 DEF Before
<1>7. ASSUME NEW r \in Runs, Apply(r) PROVE Shape'
  BY <1>7 DEF Apply
<1>8. ASSUME NEW r \in Runs, Detect(r) PROVE Shape'
  BY <1>8 DEF Detect
<1>9. ASSUME NEW r \in Runs, Execute(r) PROVE Shape'
  BY <1>9 DEF Execute
<1>10. ASSUME NEW r \in Runs, Recover(r) PROVE Shape'
  BY <1>10 DEF Recover
<1>11. ASSUME NEW r \in Runs, Measure(r) PROVE Shape'
  BY <1>11 DEF Measure
<1>12. ASSUME NEW r \in Runs, EndDelete(r) PROVE Shape'
  BY <1>12 DEF EndDelete
<1>13. ASSUME NEW r \in Runs, EndScale(r) PROVE Shape'
  BY <1>13 DEF EndScale
<1>14. ASSUME NEW r \in Runs, EndRollout(r) PROVE Shape'
  BY <1>14 DEF EndRollout
<1>15. ASSUME NEW r \in Runs, WriteRecord(r) PROVE Shape'
  BY <1>15 DEF WriteRecord
<1>16. ASSUME NEW r \in Runs, Crash(r) PROVE Shape'
  BY <1>16 DEF Crash
<1>17. CASE UNCHANGED treatmentsVars
  BY <1>17 DEF treatmentsVars
<1> QED
  BY <1>1, <1>2, <1>3, <1>4, <1>5, <1>6, <1>7, <1>8, <1>9, <1>10, <1>11, <1>12, <1>13, <1>14, <1>15, <1>16, <1>17
     DEF TreatmentsNext, RunStep

(* Every step preserves that two treatments under way have been noticed.   *)
LEMMA TreatmentsExclusive ==
    ASSUME TreatmentsInv, [TreatmentsNext]_treatmentsVars PROVE Exclusive'
<1> USE DEF TreatmentsInv, TreatmentsTypeOK, Steps, Active, Go, Kubectl, Local, clusterVars, runVars,
            Exclusive
<1>1. ASSUME NEW r \in Runs, Begin(r) PROVE Exclusive'
  BY <1>1 DEF Begin
<1>2. ASSUME NEW r \in Runs, NextTreatment(r) PROVE Exclusive'
  <2>1. CASE Go(r, "ended") /\ UNCHANGED <<index, shared>>
    BY <2>1
  <2>2. CASE Go(r, "delete") /\ shared' = (shared \/ \E q \in Runs \ {r} : Active(q))
    <3>1. SUFFICES ASSUME ~shared', NEW p \in Runs, NEW q \in Runs, Active(p)', Active(q)'
                   PROVE  p = q
      OBVIOUS
    <3>2. \A o \in Runs \ {r} : ~Active(o)
      BY <2>2, <3>1, Zenon
    <3>3. \A o \in Runs \ {r} : Active(o)' <=> Active(o)
      BY <2>2
    <3> QED
      BY <3>1, <3>2, <3>3, Zenon
  <2> QED
    BY <1>2, <2>1, <2>2 DEF NextTreatment
<1>3. ASSUME NEW r \in Runs, ResetDelete(r) PROVE Exclusive'
  BY <1>3 DEF ResetDelete
<1>4. ASSUME NEW r \in Runs, ResetScale(r) PROVE Exclusive'
  BY <1>4 DEF ResetScale
<1>5. ASSUME NEW r \in Runs, ResetRollout(r) PROVE Exclusive'
  BY <1>5 DEF ResetRollout
<1>6. ASSUME NEW r \in Runs, Before(r) PROVE Exclusive'
  BY <1>6 DEF Before
<1>7. ASSUME NEW r \in Runs, Apply(r) PROVE Exclusive'
  BY <1>7 DEF Apply
<1>8. ASSUME NEW r \in Runs, Detect(r) PROVE Exclusive'
  BY <1>8 DEF Detect
<1>9. ASSUME NEW r \in Runs, Execute(r) PROVE Exclusive'
  BY <1>9 DEF Execute
<1>10. ASSUME NEW r \in Runs, Recover(r) PROVE Exclusive'
  BY <1>10 DEF Recover
<1>11. ASSUME NEW r \in Runs, Measure(r) PROVE Exclusive'
  BY <1>11 DEF Measure
<1>12. ASSUME NEW r \in Runs, EndDelete(r) PROVE Exclusive'
  BY <1>12 DEF EndDelete
<1>13. ASSUME NEW r \in Runs, EndScale(r) PROVE Exclusive'
  BY <1>13 DEF EndScale
<1>14. ASSUME NEW r \in Runs, EndRollout(r) PROVE Exclusive'
  BY <1>14 DEF EndRollout
<1>15. ASSUME NEW r \in Runs, WriteRecord(r) PROVE Exclusive'
  BY <1>15 DEF WriteRecord
<1>16. ASSUME NEW r \in Runs, Crash(r) PROVE Exclusive'
  BY <1>16 DEF Crash
<1>17. CASE UNCHANGED treatmentsVars
  BY <1>17 DEF treatmentsVars
<1> QED
  BY <1>1, <1>2, <1>3, <1>4, <1>5, <1>6, <1>7, <1>8, <1>9, <1>10, <1>11, <1>12, <1>13, <1>14, <1>15, <1>16, <1>17
     DEF TreatmentsNext, RunStep

(* Every step preserves that each fault is answered for.                   *)
LEMMA FaultStep ==
    ASSUME TreatmentsInv, [TreatmentsNext]_treatmentsVars PROVE InjectedFaultAccountedFor'
<1> USE DEF TreatmentsInv, TreatmentsTypeOK, Steps, Active, Go, Kubectl, Local, clusterVars, runVars,
            InjectedFaultAccountedFor, AnswersFor, Scenario, CleanupIsLast, IndexFollowsPc
<1>1. ASSUME NEW r \in Runs, Begin(r) PROVE InjectedFaultAccountedFor'
  BY <1>1 DEF Begin
<1>2. ASSUME NEW r \in Runs, NextTreatment(r) PROVE InjectedFaultAccountedFor'
  BY <1>2 DEF NextTreatment
<1>3. ASSUME NEW r \in Runs, ResetDelete(r) PROVE InjectedFaultAccountedFor'
  BY <1>3 DEF ResetDelete
<1>4. ASSUME NEW r \in Runs, ResetScale(r) PROVE InjectedFaultAccountedFor'
  BY <1>4 DEF ResetScale
<1>5. ASSUME NEW r \in Runs, ResetRollout(r) PROVE InjectedFaultAccountedFor'
  BY <1>5 DEF ResetRollout
<1>6. ASSUME NEW r \in Runs, Before(r) PROVE InjectedFaultAccountedFor'
  BY <1>6 DEF Before
<1>7. ASSUME NEW r \in Runs, Apply(r) PROVE InjectedFaultAccountedFor'
  BY <1>7 DEF Apply
<1>8. ASSUME NEW r \in Runs, Detect(r) PROVE InjectedFaultAccountedFor'
  BY <1>8 DEF Detect
<1>9. ASSUME NEW r \in Runs, Execute(r) PROVE InjectedFaultAccountedFor'
  BY <1>9 DEF Execute
<1>10. ASSUME NEW r \in Runs, Recover(r) PROVE InjectedFaultAccountedFor'
  BY <1>10 DEF Recover
<1>11. ASSUME NEW r \in Runs, Measure(r) PROVE InjectedFaultAccountedFor'
  BY <1>11 DEF Measure
<1>12. ASSUME NEW r \in Runs, EndDelete(r) PROVE InjectedFaultAccountedFor'
  BY <1>12 DEF EndDelete
<1>13. ASSUME NEW r \in Runs, EndScale(r) PROVE InjectedFaultAccountedFor'
  BY <1>13 DEF EndScale
<1>14. ASSUME NEW r \in Runs, EndRollout(r) PROVE InjectedFaultAccountedFor'
  BY <1>14 DEF EndRollout
<1>15. ASSUME NEW r \in Runs, WriteRecord(r) PROVE InjectedFaultAccountedFor'
  BY <1>15 DEF WriteRecord
<1>16. ASSUME NEW r \in Runs, Crash(r) PROVE InjectedFaultAccountedFor'
  BY <1>16 DEF Crash
<1>17. CASE UNCHANGED treatmentsVars
  BY <1>17 DEF treatmentsVars
<1> QED
  BY <1>1, <1>2, <1>3, <1>4, <1>5, <1>6, <1>7, <1>8, <1>9, <1>10, <1>11, <1>12, <1>13, <1>14, <1>15, <1>16, <1>17
     DEF TreatmentsNext, RunStep

(* Every step preserves where the replicas are in a treatment.             *)
LEMMA ReplicasStep ==
    ASSUME TreatmentsInv, [TreatmentsNext]_treatmentsVars PROVE ReplicasFollowPc'
<1> USE DEF TreatmentsInv, TreatmentsTypeOK, Steps, Active, Go, Kubectl, Local, clusterVars, runVars,
            Exclusive, ReplicasFollowPc
<1>1. ASSUME NEW r \in Runs, Begin(r) PROVE ReplicasFollowPc'
  BY <1>1 DEF Begin
<1>2. ASSUME NEW r \in Runs, NextTreatment(r) PROVE ReplicasFollowPc'
  BY <1>2 DEF NextTreatment
<1>3. ASSUME NEW r \in Runs, ResetDelete(r) PROVE ReplicasFollowPc'
  BY <1>3 DEF ResetDelete
<1>4. ASSUME NEW r \in Runs, ResetScale(r) PROVE ReplicasFollowPc'
  BY <1>4 DEF ResetScale
<1>5. ASSUME NEW r \in Runs, ResetRollout(r) PROVE ReplicasFollowPc'
  BY <1>5 DEF ResetRollout
<1>6. ASSUME NEW r \in Runs, Before(r) PROVE ReplicasFollowPc'
  BY <1>6 DEF Before
<1>7. ASSUME NEW r \in Runs, Apply(r) PROVE ReplicasFollowPc'
  BY <1>7 DEF Apply
<1>8. ASSUME NEW r \in Runs, Detect(r) PROVE ReplicasFollowPc'
  BY <1>8 DEF Detect
<1>9. ASSUME NEW r \in Runs, Execute(r) PROVE ReplicasFollowPc'
  BY <1>9 DEF Execute
<1>10. ASSUME NEW r \in Runs, Recover(r) PROVE ReplicasFollowPc'
  BY <1>10 DEF Recover
<1>11. ASSUME NEW r \in Runs, Measure(r) PROVE ReplicasFollowPc'
  BY <1>11 DEF Measure
<1>12. ASSUME NEW r \in Runs, EndDelete(r) PROVE ReplicasFollowPc'
  BY <1>12 DEF EndDelete
<1>13. ASSUME NEW r \in Runs, EndScale(r) PROVE ReplicasFollowPc'
  BY <1>13 DEF EndScale
<1>14. ASSUME NEW r \in Runs, EndRollout(r) PROVE ReplicasFollowPc'
  BY <1>14 DEF EndRollout
<1>15. ASSUME NEW r \in Runs, WriteRecord(r) PROVE ReplicasFollowPc'
  BY <1>15 DEF WriteRecord
<1>16. ASSUME NEW r \in Runs, Crash(r) PROVE ReplicasFollowPc'
  BY <1>16 DEF Crash
<1>17. CASE UNCHANGED treatmentsVars
  BY <1>17 DEF treatmentsVars
<1> QED
  BY <1>1, <1>2, <1>3, <1>4, <1>5, <1>6, <1>7, <1>8, <1>9, <1>10, <1>11, <1>12, <1>13, <1>14, <1>15, <1>16, <1>17
     DEF TreatmentsNext, RunStep

(* Every step preserves that a treatment whose fault was not the only one  *)
(* is told so.                                                             *)
LEMMA AloneStep ==
    ASSUME TreatmentsInv, [TreatmentsNext]_treatmentsVars PROVE AloneOrTold'
<1> USE DEF TreatmentsInv, TreatmentsTypeOK, Steps, Active, Go, Kubectl, Local, clusterVars, runVars,
            AloneOrTold, RecordFollowsPc, Measured, Died, EmptyRecord, Record
<1>1. ASSUME NEW r \in Runs, Begin(r) PROVE AloneOrTold'
  BY <1>1 DEF Begin
<1>2. ASSUME NEW r \in Runs, NextTreatment(r) PROVE AloneOrTold'
  BY <1>2 DEF NextTreatment
<1>3. ASSUME NEW r \in Runs, ResetDelete(r) PROVE AloneOrTold'
  BY <1>3 DEF ResetDelete
<1>4. ASSUME NEW r \in Runs, ResetScale(r) PROVE AloneOrTold'
  BY <1>4 DEF ResetScale
<1>5. ASSUME NEW r \in Runs, ResetRollout(r) PROVE AloneOrTold'
  BY <1>5 DEF ResetRollout
<1>6. ASSUME NEW r \in Runs, Before(r) PROVE AloneOrTold'
  BY <1>6 DEF Before
<1>7. ASSUME NEW r \in Runs, Apply(r) PROVE AloneOrTold'
  <2>1. CASE shared
    BY <2>1, <1>7 DEF Apply
  <2>2. CASE chaos \subseteq {Scenario(r)}
    BY <2>2, <1>7 DEF Apply
  <2>3. CASE ~shared /\ ~(chaos \subseteq {Scenario(r)})
    <3>1. PICK s \in chaos : s # Scenario(r)
      BY <2>3, Zenon
    <3>2. CASE s \in unclean
      BY <3>2, <1>7 DEF Apply
    <3>3. CASE \E q \in Runs : AnswersFor(q, s)
      <4>1. PICK q \in Runs : AnswersFor(q, s)
        BY <3>3
      <4>2. q # r
        BY <3>1, <4>1, Zenon DEF AnswersFor
      <4>3. ~Active(q)
        BY <1>7, <2>3, <4>2 DEF Exclusive, Apply
      <4>4. pc[q] = "dead" /\ pc'[q] = "dead"
        BY <1>7, <4>1, <4>2, <4>3 DEF AnswersFor, Apply
      <4> QED
        BY <4>4
    <3> QED
      BY <3>1, <3>2, <3>3 DEF InjectedFaultAccountedFor
  <2> QED
    BY <2>1, <2>2, <2>3
<1>8. ASSUME NEW r \in Runs, Detect(r) PROVE AloneOrTold'
  BY <1>8 DEF Detect
<1>9. ASSUME NEW r \in Runs, Execute(r) PROVE AloneOrTold'
  <2>1. \A q \in Runs \ {r} : rec'[q] = rec[q] /\ pc'[q] = pc[q]
    BY <1>9 DEF Execute
  <2>2. rec'[r].alone = rec[r].alone
    BY <1>9 DEF Execute
  <2>3. UNCHANGED <<shared, unclean>> /\ pc[r] = "execute" /\ (Died => Died')
    BY <1>9 DEF Execute
  <2> QED
    BY <2>1, <2>2, <2>3
<1>10. ASSUME NEW r \in Runs, Recover(r) PROVE AloneOrTold'
  BY <1>10 DEF Recover
<1>11. ASSUME NEW r \in Runs, Measure(r) PROVE AloneOrTold'
  <2>1. \A q \in Runs \ {r} : rec'[q] = rec[q] /\ pc'[q] = pc[q]
    BY <1>11 DEF Measure
  <2>2. rec'[r].alone = rec[r].alone
    BY <1>11 DEF Measure
  <2>3. UNCHANGED <<shared, unclean>> /\ pc[r] = "measure" /\ (Died => Died')
    BY <1>11 DEF Measure
  <2> QED
    BY <2>1, <2>2, <2>3
<1>12. ASSUME NEW r \in Runs, EndDelete(r) PROVE AloneOrTold'
  BY <1>12 DEF EndDelete
<1>13. ASSUME NEW r \in Runs, EndScale(r) PROVE AloneOrTold'
  BY <1>13 DEF EndScale
<1>14. ASSUME NEW r \in Runs, EndRollout(r) PROVE AloneOrTold'
  <2>1. \A q \in Runs \ {r} : rec'[q] = rec[q] /\ pc'[q] = pc[q]
    BY <1>14 DEF EndRollout
  <2>2. rec'[r].alone = rec[r].alone /\ rec'[r].valid = rec[r].valid
    BY <1>14 DEF EndRollout
  <2>3. UNCHANGED <<shared, unclean>> /\ pc'[r] = "record" /\ (Died => Died')
    BY <1>14 DEF EndRollout
  <2> QED
    BY <2>1, <2>2, <2>3
<1>15. ASSUME NEW r \in Runs, WriteRecord(r) PROVE AloneOrTold'
  BY <1>15 DEF WriteRecord
<1>16. ASSUME NEW r \in Runs, Crash(r) PROVE AloneOrTold'
  BY <1>16 DEF Crash
<1>17. CASE UNCHANGED treatmentsVars
  BY <1>17 DEF treatmentsVars
<1> QED
  BY <1>1, <1>2, <1>3, <1>4, <1>5, <1>6, <1>7, <1>8, <1>9, <1>10, <1>11, <1>12, <1>13, <1>14, <1>15, <1>16, <1>17
     DEF TreatmentsNext, RunStep

(* Every step preserves that a change of the replicas in a valid record is *)
(* the one of its own action.                                              *)
LEMMA DeltaStep ==
    ASSUME TreatmentsInv, [TreatmentsNext]_treatmentsVars PROVE DeltaOfAction'
<1> USE DEF TreatmentsInv, TreatmentsTypeOK, Steps, Active, Go, Kubectl, Local, clusterVars, runVars,
            DeltaOfAction, RecordFollowsPc, Measured, EmptyRecord, Record
<1>1. ASSUME NEW r \in Runs, Begin(r) PROVE DeltaOfAction'
  BY <1>1 DEF Begin
<1>2. ASSUME NEW r \in Runs, NextTreatment(r) PROVE DeltaOfAction'
  BY <1>2 DEF NextTreatment
<1>3. ASSUME NEW r \in Runs, ResetDelete(r) PROVE DeltaOfAction'
  BY <1>3 DEF ResetDelete
<1>4. ASSUME NEW r \in Runs, ResetScale(r) PROVE DeltaOfAction'
  BY <1>4 DEF ResetScale
<1>5. ASSUME NEW r \in Runs, ResetRollout(r) PROVE DeltaOfAction'
  BY <1>5 DEF ResetRollout
<1>6. ASSUME NEW r \in Runs, Before(r) PROVE DeltaOfAction'
  BY <1>6 DEF Before
<1>7. ASSUME NEW r \in Runs, Apply(r) PROVE DeltaOfAction'
  BY <1>7 DEF Apply
<1>8. ASSUME NEW r \in Runs, Detect(r) PROVE DeltaOfAction'
  BY <1>8 DEF Detect
<1>9. ASSUME NEW r \in Runs, Execute(r) PROVE DeltaOfAction'
  BY <1>9 DEF Execute
<1>10. ASSUME NEW r \in Runs, Recover(r) PROVE DeltaOfAction'
  BY <1>10 DEF Recover
<1>11. ASSUME NEW r \in Runs, Measure(r) PROVE DeltaOfAction'
  <2>1. Baseline \in Nat
    BY DEF TreatmentsAssumption
  <2>2. ~shared => (replicas - Baseline # 0 => ActionAt(index[r]) = "scale_out")
    BY <1>11, <2>1 DEF ReplicasFollowPc, Measure
  <2> HIDE DEF Record
  <2>3. UNCHANGED <<shared, index>>
    BY <1>11 DEF Measure
  <2>4. \A q \in Runs \ {r} : rec'[q] = rec[q]
    BY <1>11 DEF Measure
  <2>5. UNCHANGED rec \/ (rec[r] \in Record => rec'[r].delta = replicas - Baseline)
    BY <1>11 DEF Measure, Record
  <2> QED
    BY <2>2, <2>3, <2>4, <2>5
<1>12. ASSUME NEW r \in Runs, EndDelete(r) PROVE DeltaOfAction'
  BY <1>12 DEF EndDelete
<1>13. ASSUME NEW r \in Runs, EndScale(r) PROVE DeltaOfAction'
  BY <1>13 DEF EndScale
<1>14. ASSUME NEW r \in Runs, EndRollout(r) PROVE DeltaOfAction'
  BY <1>14 DEF EndRollout
<1>15. ASSUME NEW r \in Runs, WriteRecord(r) PROVE DeltaOfAction'
  BY <1>15 DEF WriteRecord
<1>16. ASSUME NEW r \in Runs, Crash(r) PROVE DeltaOfAction'
  BY <1>16 DEF Crash
<1>17. CASE UNCHANGED treatmentsVars
  BY <1>17 DEF treatmentsVars
<1> QED
  BY <1>1, <1>2, <1>3, <1>4, <1>5, <1>6, <1>7, <1>8, <1>9, <1>10, <1>11, <1>12, <1>13, <1>14, <1>15, <1>16, <1>17
     DEF TreatmentsNext, RunStep

-----------------------------------------------------------------------------
(* The steps of all runs together keep the invariant.                      *)
LEMMA TreatmentsStep == TreatmentsInv /\ [TreatmentsNext]_treatmentsVars => TreatmentsInv'
  BY TreatmentsTypes, TreatmentShape, TreatmentsExclusive, FaultStep, ReplicasStep,
     AloneStep, DeltaStep DEF TreatmentsInv

(* The inductive invariant holds in every reachable state.                 *)
THEOREM TreatmentsInvariant == TreatmentsSpec => []TreatmentsInv
  BY TreatmentsInvInit, TreatmentsStep, PTL DEF TreatmentsSpec

(* Whatever call fails or times out and whenever a run dies, a fault that  *)
(* is still in the cluster is one that a run has yet to delete, that a     *)
(* dead run left, or that a record with a failed cleanup tells of          *)
(* (_reset_treatment in the finally block).                                *)
THEOREM FaultTheorem == TreatmentsSpec => []InjectedFaultAccountedFor
  BY TreatmentsInvariant, PTL DEF TreatmentsInv

(* While no two runs were under way at once, the change of the replicas in *)
(* a valid record is its own scale-out, and its fault was the only one     *)
(* unless a record or a dead run tells of another                          *)
(* (run_recovery_treatment).                                               *)
THEOREM OwnEffectTheorem == TreatmentsSpec => []MeasuredOwnEffect
<1>1. TreatmentsInv => MeasuredOwnEffect
  BY DEF TreatmentsInv, MeasuredOwnEffect, AloneOrTold, DeltaOfAction
<1> QED
  BY <1>1, TreatmentsInvariant, PTL
=============================================================================
