--------------------------- MODULE JobsAndLock_proofs ---------------------------
(***************************************************************************)
(* What the experiment jobs and the lock their runs operate the target     *)
(* under guarantee: the job store and its runner for every set of jobs and *)
(* requests, and that they implement JobLifecycle; then the lock file, for *)
(* every set of contenders, processes and hosts.  Neither part uses the    *)
(* other's assumptions on constants.                                       *)
(***************************************************************************)
EXTENDS ExperimentJobs, OperationLock, TLAPS

-----------------------------------------------------------------------------
(* The experiment jobs.                                                    *)

\* A request at a step about a job has one.
RequestHasJob ==
    \A k \in Clients : client[k] \notin {"idle", "delete_check"} => at[k] \in Jobs

WellTyped == TypeOK /\ RequestHasJob

\* A row exists exactly from its submission on, and nothing happens to a job
\* between the creation of its row and the registration of its thread but a
\* cancel request.
SubmissionShape ==
    \A j \in Jobs :
        /\ submit[j] = "new" <=> status[j] = "fresh"
        /\ submit[j] = "new" => worker[j] = "none" /\ result[j] = "none"
        /\ submit[j] = "created" =>
               /\ Running /\ worker[j] = "none" /\ result[j] = "none"
               /\ status[j] \in {"queued", "cancelling"}

\* A thread works on a row that is open and has no result yet.
ThreadOwnsRow ==
    \A j \in Jobs : Working(j) =>
        /\ Running /\ submit[j] = "done" /\ result[j] = "none"
        /\ status[j] \in IF worker[j] \in {"get", "transition"}
                         THEN {"queued", "cancelling"} ELSE {"running", "cancelling"}

\* A terminal row has its result, unless a restart interrupted it.
TerminalHasResult ==
    \A j \in Jobs :
        status[j] \in Terminal => result[j] # "none" \/ status[j] = "interrupted"

\* A row somebody is about to mark as cancelling was not closed by a restart in
\* between: OpenJobHasOwner alone would let a late request reopen it for ever.
WriterReadOpenRow ==
    /\ \A k \in Clients : client[k] = "cancel_write" =>
           (status[at[k]] = "interrupted" => result[at[k]] # "none")
    /\ server = "stop_write" =>
           /\ target \in Jobs
           /\ status[target] = "interrupted" => result[target] # "none"

\* A row somebody is about to delete stays without a thread.
DeleterReadClosedRow ==
    \A k \in Clients : client[k] = "delete_write" =>
        result[at[k]] # "none" \/ status[at[k]] \in {"interrupted", "deleted"}

\* Requests and shutdown end with the process.
DownIsQuiet == ~Running => \A k \in Clients : client[k] = "idle"

RowFacts ==
    /\ SubmissionShape
    /\ ThreadOwnsRow
    /\ TerminalHasResult
    /\ OpenJobHasOwner

RequestFacts ==
    /\ WriterReadOpenRow
    /\ DeleterReadClosedRow
    /\ DownIsQuiet

JobsInv == WellTyped /\ RowFacts /\ RequestFacts

-----------------------------------------------------------------------------
USE JobsAssumption DEF JobsAssumption

(* The initial state satisfies the inductive invariant.                    *)
LEMMA JobsInit == Init => JobsInv
<1> SUFFICES ASSUME Init PROVE JobsInv
  OBVIOUS
<1> USE DEF Init, Nonterminal, Terminal, Working, Running
<1>1. WellTyped
  BY DEF WellTyped, TypeOK, RequestHasJob, WorkerSteps, ClientSteps, ServerSteps
<1>2. SubmissionShape /\ ThreadOwnsRow /\ TerminalHasResult
  BY DEF SubmissionShape, ThreadOwnsRow, TerminalHasResult
<1>3. WriterReadOpenRow /\ DeleterReadClosedRow /\ DownIsQuiet /\ OpenJobHasOwner
  BY DEF WriterReadOpenRow, DeleterReadClosedRow, DownIsQuiet, OpenJobHasOwner
<1> QED
  BY <1>1, <1>2, <1>3 DEF JobsInv, RowFacts, RequestFacts

(* Every step preserves the types.                                         *)
LEMMA JobsTypes == WellTyped /\ [Next]_vars => WellTyped'
<1> SUFFICES ASSUME WellTyped, [Next]_vars PROVE WellTyped'
  OBVIOUS
<1> USE DEF WellTyped, TypeOK, RequestHasJob, Nonterminal, Terminal, WorkerSteps, ClientSteps, ServerSteps,
            dbVars, runnerVars, clientVars, serverVars, StepWorker, Client,
            MarkCancelling
<1>1. ASSUME NEW j \in Jobs, SubmitCreate(j) \/ SubmitRegister(j) PROVE WellTyped'
  <2>1. CASE SubmitCreate(j)
    BY <2>1 DEF SubmitCreate
  <2>2. CASE SubmitRegister(j)
    BY <2>2 DEF SubmitRegister
  <2> QED
    BY <1>1, <2>1, <2>2
<1>2. ASSUME NEW j \in Jobs, WorkerStep(j) PROVE WellTyped'
  <2>1. CASE WorkerGet(j) \/ WorkerTransition(j) \/ WorkerStoreError(j)
    BY <2>1 DEF WorkerGet, WorkerTransition, WorkerStoreError
  <2>2. CASE WorkerLoop(j)
    BY <2>2 DEF WorkerLoop
  <2>3. CASE WorkerEmit(j) \/ WorkerNotify(j)
    BY <2>3 DEF WorkerEmit, WorkerNotify
  <2>4. ASSUME NEW mapped \in Terminal, WorkerAttemptEnds(j, mapped) PROVE WellTyped'
    BY <2>4 DEF WorkerAttemptEnds
  <2>5. CASE WorkerAttemptRaises(j) \/ WorkerFinally(j)
    BY <2>5 DEF WorkerAttemptRaises, WorkerFinally
  <2>6. CASE WorkerResult(j)
    BY <2>6 DEF WorkerResult
  <2>7. CASE WorkerPop(j)
    BY <2>7 DEF WorkerPop
  <2> QED
    BY <1>2, <2>1, <2>2, <2>3, <2>4, <2>5, <2>6, <2>7 DEF WorkerStep
<1>3. ASSUME NEW k \in Clients, NEW j \in Jobs,
             CancelRead(k, j) \/ DeleteOne(k, j) \/ StreamOpen(k, j)
      PROVE  WellTyped'
  BY <1>3 DEF CancelRead, DeleteOne, StreamOpen
<1>4. ASSUME NEW k \in Clients, DeleteAll(k) \/ ClientContinues(k) PROVE WellTyped'
  <2>1. CASE DeleteAll(k)
    BY <2>1 DEF DeleteAll
  <2>2. CASE CancelWrite(k)
    BY <2>2 DEF CancelWrite
  <2>3. CASE CancelSignal(k)
    BY <2>3 DEF CancelSignal
  <2>4. CASE DeleteCheck(k)
    <3>1. todo' \in [Clients -> SUBSET Jobs]
      BY <2>4 DEF DeleteCheck
    <3>2. /\ client' \in [Clients -> ClientSteps]
          /\ at' \in [Clients -> Jobs \cup {NoJob}]
          /\ cursor' \in [Clients -> 0..MaxEvents]
      BY <2>4 DEF DeleteCheck
    <3> QED
      BY <2>4, <3>1, <3>2 DEF DeleteCheck
  <2>5. CASE DeleteWrite(k)
    <3>1. todo' \in [Clients -> SUBSET Jobs]
      BY <2>5 DEF DeleteWrite
    <3>2. CASE NoRow(at[k])
      BY <2>5, <3>1, <3>2 DEF DeleteWrite
    <3>3. CASE ~NoRow(at[k])
      <4>1. at[k] \in Jobs /\ 0 \in 0..MaxEvents
        BY <2>5 DEF DeleteWrite
      <4>2. events' \in [Jobs -> 0..MaxEvents]
        BY <2>5, <3>3, <4>1 DEF DeleteWrite
      <4>3. /\ status' \in [Jobs -> Nonterminal \cup Terminal \cup {"fresh", "deleted"}]
            /\ result' \in [Jobs -> Terminal \cup {"none"}]
            /\ cancelRequested' \in [Jobs -> BOOLEAN]
        BY <2>5, <3>3, <4>1 DEF DeleteWrite
      <4> QED
        BY <2>5, <3>1, <4>2, <4>3 DEF DeleteWrite
    <3> QED
      BY <3>2, <3>3
  <2>6. CASE StreamEvents(k)
    BY <2>6 DEF StreamEvents, Later
  <2>7. CASE StreamGet(k) \/ StreamJob(k)
    BY <2>7 DEF StreamGet, StreamJob
  <2>8. CASE StreamWait(k)
    BY <2>8 DEF StreamWait, Later
  <2> QED
    BY <1>4, <2>1, <2>2, <2>3, <2>4, <2>5, <2>6, <2>7, <2>8 DEF ClientContinues
<1>5. CASE ShutdownBegin \/ ShutdownStep \/ ShutdownRaises
  <2>1. CASE ShutdownBegin
    BY <2>1 DEF ShutdownBegin
  <2>2. CASE ShutdownWrite
    BY <2>2 DEF ShutdownWrite
  <2>3. CASE ShutdownSignal
    BY <2>3 DEF ShutdownSignal
  <2>4. ASSUME NEW j \in Jobs, ShutdownCheck(j) PROVE WellTyped'
    BY <2>4 DEF ShutdownCheck
  <2>5. CASE ShutdownRaises
    BY <2>5 DEF ShutdownRaises
  <2> QED
    BY <1>5, <2>1, <2>2, <2>3, <2>4, <2>5 DEF ShutdownStep
<1>6. CASE ProcessEnds
  BY <1>6 DEF ProcessEnds
<1>7. CASE Restart
  BY <1>7 DEF Restart
<1>8. CASE UNCHANGED vars
  BY <1>8 DEF vars
<1> QED
  BY <1>1, <1>2, <1>3, <1>4, <1>5, <1>6, <1>7, <1>8 DEF Next

(* Every step keeps the facts about rows and requests.                     *)
LEMMA JobsStep == JobsInv /\ [Next]_vars => RowFacts' /\ RequestFacts'
<1> SUFFICES ASSUME JobsInv, [Next]_vars PROVE RowFacts' /\ RequestFacts'
  OBVIOUS
<1> USE DEF JobsInv, WellTyped, TypeOK, RequestHasJob, RowFacts, RequestFacts,
            SubmissionShape, ThreadOwnsRow, TerminalHasResult, OpenJobHasOwner,
            WriterReadOpenRow, DeleterReadClosedRow, DownIsQuiet,
            Nonterminal, Terminal, Working, NoRow, Running,
            dbVars, runnerVars, clientVars, serverVars
<1>1. ASSUME NEW j \in Jobs, SubmitCreate(j) \/ SubmitRegister(j)
      PROVE  RowFacts' /\ RequestFacts'
  <2>1. CASE SubmitCreate(j)
    BY <2>1 DEF SubmitCreate
  <2>2. CASE SubmitRegister(j)
    BY <2>2 DEF SubmitRegister
  <2> QED
    BY <1>1, <2>1, <2>2
<1>2. ASSUME NEW j \in Jobs, WorkerStep(j) PROVE RowFacts' /\ RequestFacts'
  <2> USE DEF StepWorker
  <2>1. CASE WorkerGet(j)
    BY <2>1 DEF WorkerGet
  <2>2. CASE WorkerTransition(j)
    BY <2>2 DEF WorkerTransition
  <2>3. CASE WorkerLoop(j)
    BY <2>3 DEF WorkerLoop
  <2>4. CASE WorkerEmit(j) \/ WorkerNotify(j)
    BY <2>4 DEF WorkerEmit, WorkerNotify
  <2>5. ASSUME NEW mapped \in Terminal, WorkerAttemptEnds(j, mapped)
        PROVE  RowFacts' /\ RequestFacts'
    BY <2>5 DEF WorkerAttemptEnds
  <2>6. CASE WorkerAttemptRaises(j) \/ WorkerFinally(j)
    BY <2>6 DEF WorkerAttemptRaises, WorkerFinally
  <2>7. CASE WorkerResult(j)
    BY <2>7 DEF WorkerResult
  <2>8. CASE WorkerPop(j)
    BY <2>8 DEF WorkerPop
  <2>9. CASE WorkerStoreError(j)
    BY <2>9 DEF WorkerStoreError
  <2> QED
    BY <1>2, <2>1, <2>2, <2>3, <2>4, <2>5, <2>6, <2>7, <2>8, <2>9 DEF WorkerStep
<1>3. ASSUME NEW k \in Clients, NEW j \in Jobs,
             CancelRead(k, j) \/ DeleteOne(k, j) \/ StreamOpen(k, j)
      PROVE  RowFacts' /\ RequestFacts'
  <2> USE DEF Client
  <2>1. CASE CancelRead(k, j)
    BY <2>1 DEF CancelRead
  <2>2. CASE DeleteOne(k, j)
    BY <2>2 DEF DeleteOne
  <2>3. CASE StreamOpen(k, j)
    BY <2>3 DEF StreamOpen
  <2> QED
    BY <1>3, <2>1, <2>2, <2>3
<1>4. ASSUME NEW k \in Clients, DeleteAll(k) \/ ClientContinues(k)
      PROVE  RowFacts' /\ RequestFacts'
  <2> USE DEF Client
  <2>1. CASE DeleteAll(k)
    BY <2>1 DEF DeleteAll
  <2>2. CASE CancelWrite(k)
    BY <2>2 DEF CancelWrite, MarkCancelling
  <2>3. CASE CancelSignal(k)
    BY <2>3 DEF CancelSignal
  <2>4. CASE DeleteCheck(k)
    BY <2>4 DEF DeleteCheck
  <2>5. CASE DeleteWrite(k)
    <3>1. CASE NoRow(at[k])
      BY <2>5, <3>1 DEF DeleteWrite
    <3>2. CASE ~NoRow(at[k])
      <4> DEFINE d == at[k]
      <4>1. /\ d \in Jobs /\ ~Working(d) /\ submit[d] = "done" /\ Running
            /\ status' = [status EXCEPT ![d] = "deleted"]
            /\ result' = [result EXCEPT ![d] = "none"]
            /\ UNCHANGED <<submit, worker, server, target>>
            /\ \A c \in Clients : client'[c] = IF c = k THEN "delete_check" ELSE client[c]
            /\ \A c \in Clients \ {k} : at'[c] = at[c]
        BY <2>5, <3>2 DEF DeleteWrite
      <4> HIDE DEF d
      <4> QED
        BY <4>1
    <3> QED
      BY <3>1, <3>2
  <2>6. CASE StreamEvents(k)
    BY <2>6 DEF StreamEvents
  <2>7. CASE StreamGet(k)
    BY <2>7 DEF StreamGet
  <2>8. CASE StreamWait(k)
    BY <2>8 DEF StreamWait
  <2>9. CASE StreamJob(k)
    BY <2>9 DEF StreamJob
  <2> QED
    BY <1>4, <2>1, <2>2, <2>3, <2>4, <2>5, <2>6, <2>7, <2>8, <2>9 DEF ClientContinues
<1>5. CASE ShutdownBegin \/ ShutdownStep \/ ShutdownRaises
  <2>1. CASE ShutdownBegin
    BY <2>1 DEF ShutdownBegin
  <2>2. CASE ShutdownWrite
    BY <2>2 DEF ShutdownWrite, MarkCancelling
  <2>3. CASE ShutdownSignal \/ ShutdownRaises
    BY <2>3 DEF ShutdownSignal, ShutdownRaises
  <2>4. ASSUME NEW j \in Jobs, ShutdownCheck(j) PROVE RowFacts' /\ RequestFacts'
    BY <2>4 DEF ShutdownCheck
  <2> QED
    BY <1>5, <2>1, <2>2, <2>3, <2>4 DEF ShutdownStep
<1>6. CASE ProcessEnds
  BY <1>6 DEF ProcessEnds
<1>7. CASE Restart
  BY <1>7 DEF Restart
<1>8. CASE UNCHANGED vars
  BY <1>8 DEF vars
<1> QED
  BY <1>1, <1>2, <1>3, <1>4, <1>5, <1>6, <1>7, <1>8 DEF Next

(* In every reachable state the inductive invariant holds.                 *)
THEOREM JobsInvariant == Spec => []JobsInv
<1>1. JobsInv /\ [Next]_vars => JobsInv'
  BY JobsTypes, JobsStep DEF JobsInv
<1> QED
  BY JobsInit, <1>1, PTL DEF Spec

(* Every open row has somebody who will close it: a submission about to    *)
(* start its thread, that thread, or one of the two known exceptions.      *)
THEOREM OwnerTheorem == Spec => []OpenJobHasOwner
<1>1. JobsInv => OpenJobHasOwner
  BY DEF JobsInv, RowFacts
<1> QED
  BY JobsInvariant, <1>1, PTL

(* No row is deleted under the thread that works on it, however the checks *)
(* and the writes of cancellation, deletion and shutdown interleave.       *)
THEOREM NoDeleteTheorem == Spec => []NoDeleteUnderWorker
<1>1. JobsInv => NoDeleteUnderWorker
  BY DEF JobsInv, RowFacts, ThreadOwnsRow, NoDeleteUnderWorker, Working, NoRow
<1> QED
  BY JobsInvariant, <1>1, PTL

-----------------------------------------------------------------------------
(* The rows implement the abstract lifecycle.                              *)

(* A statement that writes a row is a step of the abstract lifecycle.      *)
LEMMA WriteIsLifecycleStep ==
    ASSUME JobsInv, [Next]_vars
    PROVE  [Lifecycle!JobNext]_(Lifecycle!jobVars)
<1> USE DEF Lifecycle!JobNext, Lifecycle!jobVars, JobsInv, WellTyped, TypeOK,
            RequestHasJob, RowFacts, RequestFacts, SubmissionShape, ThreadOwnsRow,
            TerminalHasResult, WriterReadOpenRow, DeleterReadClosedRow,
            Nonterminal, Terminal, Working, NoRow,
            Lifecycle!Nonterminal, Lifecycle!TerminalStatuses, Lifecycle!Become
<1> DEFINE Abstract == [Lifecycle!JobNext]_(Lifecycle!jobVars)
<1>1. ASSUME NEW j \in Jobs, SubmitCreate(j) PROVE Lifecycle!JobSubmit(j)
  BY <1>1 DEF SubmitCreate, Lifecycle!JobSubmit
<1>2. ASSUME NEW j \in Jobs, WorkerTransition(j) PROVE Lifecycle!JobStart(j)
  BY <1>2 DEF WorkerTransition, Lifecycle!JobStart
<1>3. ASSUME NEW j \in Jobs, WorkerResult(j) PROVE Lifecycle!JobFinish(j)
  BY <1>3 DEF WorkerResult, Lifecycle!JobFinish
<1>4. ASSUME NEW j \in Jobs, MarkCancelling(j), UNCHANGED result,
             status[j] = "interrupted" => result[j] # "none"
      PROVE  Abstract
  <2>1. CASE NoRow(j)
    BY <1>4, <2>1 DEF MarkCancelling
  <2>2. CASE status[j] \in Nonterminal
    BY <1>4, <2>2 DEF MarkCancelling, Lifecycle!JobCancel
  <2>3. CASE status[j] \in Terminal
    BY <1>4, <2>3 DEF MarkCancelling, Lifecycle!JobReopen
  <2> QED
    BY <2>1, <2>2, <2>3
<1>5. ASSUME NEW k \in Clients, CancelWrite(k) PROVE Abstract
  BY <1>4, <1>5 DEF CancelWrite
<1>6. ASSUME NEW k \in Clients, DeleteWrite(k) PROVE Abstract
  <2>1. CASE NoRow(at[k])
    BY <1>6, <2>1 DEF DeleteWrite, dbVars
  <2>2. CASE ~NoRow(at[k])
    <3>1. Lifecycle!JobDelete({at[k]})
      BY <1>6, <2>2 DEF DeleteWrite, Lifecycle!JobDelete
    <3>2. {at[k]} \in SUBSET Jobs
      BY <1>6 DEF DeleteWrite
    <3> QED
      BY <3>1, <3>2, Zenon
  <2> QED
    BY <2>1, <2>2
<1>7. CASE ShutdownWrite
  BY <1>4, <1>7 DEF ShutdownWrite
<1>8. CASE Restart
  BY <1>8 DEF Restart, Lifecycle!JobInterruptAll
<1>9. CASE \/ \E j \in Jobs : \/ SubmitRegister(j) \/ WorkerGet(j) \/ WorkerLoop(j)
                             \/ WorkerEmit(j) \/ WorkerNotify(j)
                             \/ WorkerAttemptRaises(j)
                             \/ WorkerFinally(j) \/ WorkerPop(j) \/ WorkerStoreError(j)
                             \/ \E mapped \in Terminal : WorkerAttemptEnds(j, mapped)
           \/ \E k \in Clients, j \in Jobs :
                 CancelRead(k, j) \/ DeleteOne(k, j) \/ StreamOpen(k, j)
           \/ \E k \in Clients :
                 \/ DeleteAll(k) \/ CancelSignal(k) \/ DeleteCheck(k) \/ StreamEvents(k)
                 \/ StreamGet(k) \/ StreamWait(k) \/ StreamJob(k)
           \/ \E j \in Jobs : ShutdownCheck(j)
           \/ ShutdownBegin \/ ShutdownSignal \/ ShutdownRaises \/ ProcessEnds
           \/ UNCHANGED vars
  <2>1. UNCHANGED <<status, result>>
    BY <1>9, Zenon
       DEF SubmitRegister, WorkerGet, WorkerLoop, WorkerEmit, WorkerNotify,
           WorkerAttemptRaises,
           WorkerFinally, WorkerPop, WorkerStoreError, WorkerAttemptEnds, CancelRead,
           DeleteOne, StreamOpen, DeleteAll, CancelSignal, DeleteCheck, StreamEvents,
           StreamGet, StreamWait, StreamJob, ShutdownCheck, ShutdownBegin,
           ShutdownSignal, ShutdownRaises, ProcessEnds, vars, dbVars
  <2> QED
    BY <2>1
<1> QED
  BY <1>1, <1>2, <1>3, <1>5, <1>6, <1>7, <1>8, <1>9
     DEF Next, WorkerStep, ClientContinues, ShutdownStep

(* The rows only go through the statuses of the abstract lifecycle.        *)
THEOREM RefinementTheorem == Spec => RefinesLifecycle
<1>1. Init => Lifecycle!JobInit
  BY DEF Init, Lifecycle!JobInit
<1>2. JobsInv /\ [Next]_vars => [Lifecycle!JobNext]_(Lifecycle!jobVars)
  BY WriteIsLifecycleStep
<1> QED
  BY <1>1, <1>2, JobsInvariant, PTL DEF Spec, RefinesLifecycle, Lifecycle!JobSpec

-----------------------------------------------------------------------------
(* Once signalled a job can only be recorded as something else.            *)

Looks(j) == worker[j] \in {"get", "transition", "loop", "run", "notify"}

\* The job has no completed result and its thread will not store one.
Doomed(j) ==
    /\ result[j] # "completed"
    /\ submit[j] = "done" /\ worker[j] # "none"
    /\ Looks(j) \/ worker[j] = "finally" => signal[j]
    /\ worker[j] = "result" => outcome[j] # "completed"

(* Being doomed is stable.                                                 *)
LEMMA DoomedStable ==
    ASSUME NEW j \in Jobs, JobsInv, Doomed(j), [Next]_vars
    PROVE  Doomed(j)'
<1> USE DEF JobsInv, WellTyped, TypeOK, Doomed, Looks, Terminal,
            dbVars, runnerVars, clientVars, serverVars, StepWorker
<1>1. ASSUME NEW i \in Jobs, SubmitCreate(i) \/ SubmitRegister(i) PROVE Doomed(j)'
  BY <1>1 DEF SubmitCreate, SubmitRegister
<1>2. ASSUME NEW i \in Jobs, WorkerStep(i) PROVE Doomed(j)'
  <2>1. CASE WorkerGet(i) \/ WorkerTransition(i) \/ WorkerStoreError(i)
    BY <2>1 DEF WorkerGet, WorkerTransition, WorkerStoreError
  <2>2. CASE WorkerLoop(i)
    BY <2>2 DEF WorkerLoop
  <2>3. CASE WorkerEmit(i) \/ WorkerNotify(i)
    BY <2>3 DEF WorkerEmit, WorkerNotify
  <2>4. ASSUME NEW mapped \in Terminal, WorkerAttemptEnds(i, mapped) PROVE Doomed(j)'
    BY <2>4 DEF WorkerAttemptEnds
  <2>5. CASE WorkerAttemptRaises(i) \/ WorkerFinally(i)
    BY <2>5 DEF WorkerAttemptRaises, WorkerFinally
  <2>6. CASE WorkerResult(i)
    BY <2>6 DEF WorkerResult
  <2>7. CASE WorkerPop(i)
    BY <2>7 DEF WorkerPop
  <2> QED
    BY <1>2, <2>1, <2>2, <2>3, <2>4, <2>5, <2>6, <2>7 DEF WorkerStep
<1>3. ASSUME NEW k \in Clients, NEW i \in Jobs,
             CancelRead(k, i) \/ DeleteOne(k, i) \/ StreamOpen(k, i)
      PROVE  Doomed(j)'
  BY <1>3 DEF CancelRead, DeleteOne, StreamOpen
<1>4. ASSUME NEW k \in Clients, DeleteAll(k) \/ ClientContinues(k) PROVE Doomed(j)'
  <2>1. CASE CancelSignal(k)
    BY <2>1 DEF CancelSignal
  <2>2. CASE DeleteWrite(k)
    BY <2>2 DEF DeleteWrite
  <2>3. CASE \/ DeleteAll(k) \/ CancelWrite(k) \/ DeleteCheck(k) \/ StreamEvents(k)
             \/ StreamGet(k) \/ StreamWait(k) \/ StreamJob(k)
    BY <2>3 DEF DeleteAll, CancelWrite, DeleteCheck, StreamEvents, StreamGet,
                StreamWait, StreamJob
  <2> QED
    BY <1>4, <2>1, <2>2, <2>3 DEF ClientContinues
<1>5. CASE ShutdownBegin \/ ShutdownStep \/ ShutdownRaises
  BY <1>5 DEF ShutdownBegin, ShutdownStep, ShutdownWrite, ShutdownSignal, ShutdownCheck,
              ShutdownRaises
<1>6. CASE ProcessEnds \/ Restart
  BY <1>6 DEF ProcessEnds, Restart
<1>7. CASE UNCHANGED vars
  BY <1>7 DEF vars
<1> QED
  BY <1>1, <1>2, <1>3, <1>4, <1>5, <1>6, <1>7 DEF Next

(* A job whose cancellation signal was set while its thread still ran      *)
(* attempts is never recorded as completed.                                *)
THEOREM SignalledTheorem == Spec => SignalledNeverCompletes
<1>1. ASSUME NEW j \in Jobs
      PROVE  Spec => [](signal[j] /\ Looks(j) => [](result[j] # "completed"))
  <2>1. JobsInv /\ signal[j] /\ Looks(j) => Doomed(j)
    BY DEF JobsInv, RowFacts, SubmissionShape, ThreadOwnsRow, Working, Looks, Doomed
  <2>2. JobsInv /\ Doomed(j) /\ [Next]_vars => Doomed(j)'
    BY DoomedStable
  <2>3. Doomed(j) => result[j] # "completed"
    BY DEF Doomed
  <2> QED
    BY <2>1, <2>2, <2>3, JobsInvariant, PTL DEF Spec
<1> QED
  BY <1>1 DEF SignalledNeverCompletes, Looks

-----------------------------------------------------------------------------
(* The operation lock.                                                     *)
HIDE JobsAssumption DEF JobsAssumption

(* The path names nothing exactly when no contender created its inode.     *)
FileShape == file.creator = NoOne => file = NoFile

(* A holder whose inode the path names has its payload in it.              *)
HeldIsWritten ==
    \A c \in Contenders : Holding(c) /\ file.creator = c => file.written

(* Nobody uses the file the path names: its owner is dead or, after an I/O *)
(* error, has let it stay.                                                 *)
DeadFile ==
    /\ file # NoFile
    /\ ~Using(file.creator)
    /\ ~Alive(file.creator) \/ file.creator \in unremoved

(* Only such a file is an hour old.                                        *)
OldIsDead == file.old => DeadFile

(* While clearers have not overlapped: whoever uses the lock is the one    *)
(* the path names, and the one clearer is about to remove a dead owner's   *)
(* file.                                                                   *)
UserOwnsFile == \A c \in Contenders : Using(c) => file.creator = c

OneClearer ==
    \A c, d \in Contenders : Clearing(c) /\ Clearing(d) => c = d

ClearsDeadFile ==
    \A c \in Contenders :
        Clearing(c) =>
            \/ DeadFile
            \/ /\ pc[c] = "recheck"
               /\ seen[c] \in Contenders
               /\ ~Alive(seen[c])

Exclusive == UserOwnsFile /\ OneClearer /\ ClearsDeadFile

(* Without a crash and an I/O error at a release nobody gets past the      *)
(* staleness verdict.                                                      *)
NobodyClears ==
    /\ ~overlapped
    /\ \A c \in Contenders : pc[c] \notin {"recheck", "unlink", "reopen"}

LockInv ==
    /\ LockTypeOK
    /\ FileShape
    /\ HeldIsWritten
    /\ NoLeakedLock
    /\ OldIsDead
    /\ overlapped \/ Exclusive
    /\ live = Procs /\ unremoved = {} => NobodyClears

-----------------------------------------------------------------------------
USE LockAssumption DEF LockAssumption

(* The initial state satisfies the inductive invariant.                    *)
LEMMA LockInvInit == LockInit => LockInv
<1> SUFFICES ASSUME LockInit PROVE LockInv
  OBVIOUS
<1> USE DEF LockInit, NoFile
<1>1. LockTypeOK
  BY DEF LockTypeOK, Files, Steps
<1>2. FileShape /\ HeldIsWritten /\ NoLeakedLock /\ OldIsDead
  BY DEF FileShape, HeldIsWritten, Holding, NoLeakedLock, OldIsDead
<1>3. Exclusive
  BY DEF Exclusive, UserOwnsFile, OneClearer, ClearsDeadFile, Using, Clearing
<1>4. NobodyClears
  BY DEF NobodyClears
<1> QED
  BY <1>1, <1>2, <1>3, <1>4 DEF LockInv

(* Every step preserves the types.                                         *)
LEMMA LockTypes == LockTypeOK /\ [LockNext]_lockVars => LockTypeOK'
<1> SUFFICES ASSUME LockTypeOK, [LockNext]_lockVars PROVE LockTypeOK'
  OBVIOUS
<1> USE DEF LockTypeOK, Files, NoFile, Steps, Goto
<1>1. ASSUME NEW c \in Contenders,
             \/ Open(c) \/ Write(c) \/ WriteFails(c) \/ ReadOwner(c)
             \/ Judge(c) \/ Recheck(c) \/ Unlink(c) \/ Reopen(c)
             \/ ExitRead(c) \/ ExitUnlink(c)
             \/ WriteAndUnlinkFail(c) \/ EnterFails(c) \/ ExitUnlinkFails(c)
      PROVE  LockTypeOK'
  <2>1. CASE Open(c)
    BY <2>1 DEF Open, CreateOr
  <2>2. CASE Write(c)
    BY <2>2 DEF Write
  <2>3. CASE WriteFails(c)
    BY <2>3 DEF WriteFails
  <2>4. CASE ReadOwner(c)
    BY <2>4 DEF ReadOwner, OwnerRead, OwnerToken
  <2>5. CASE Judge(c)
    BY <2>5 DEF Judge
  <2>6. CASE Recheck(c)
    BY <2>6 DEF Recheck
  <2>7. CASE Unlink(c)
    BY <2>7 DEF Unlink
  <2>8. CASE Reopen(c)
    BY <2>8 DEF Reopen, CreateOr
  <2>9. CASE ExitRead(c)
    BY <2>9 DEF ExitRead, FileStays
  <2>10. CASE ExitUnlink(c)
    BY <2>10 DEF ExitUnlink
  <2>11. CASE WriteAndUnlinkFail(c)
    BY <2>11 DEF WriteAndUnlinkFail, FileStays
  <2>12. CASE EnterFails(c)
    BY <2>12 DEF EnterFails
  <2>13. CASE ExitUnlinkFails(c)
    BY <2>13 DEF ExitUnlinkFails, FileStays
  <2> QED
    BY <1>1, <2>1, <2>2, <2>3, <2>4, <2>5, <2>6, <2>7, <2>8, <2>9, <2>10,
       <2>11, <2>12, <2>13
<1>2. ASSUME NEW p \in Procs, Crash(p) PROVE LockTypeOK'
  BY <1>2 DEF Crash
<1>3. CASE GrowOld
  BY <1>3 DEF GrowOld
<1>4. CASE UNCHANGED lockVars
  BY <1>4 DEF lockVars
<1> QED
  BY <1>1, <1>2, <1>3, <1>4 DEF LockNext

(* The file written for the first time, the aged file and the removed file *)
(* keep the facts that hold whether or not clearers overlapped.            *)
LEMMA FileFacts ==
    LockInv /\ [LockNext]_lockVars
        => FileShape' /\ HeldIsWritten' /\ NoLeakedLock' /\ OldIsDead'
<1> SUFFICES ASSUME LockInv, [LockNext]_lockVars
             PROVE  FileShape' /\ HeldIsWritten' /\ NoLeakedLock' /\ OldIsDead'
  OBVIOUS
<1> USE DEF LockInv, LockTypeOK, Files, NoFile, FileShape, HeldIsWritten,
            NoLeakedLock, OldIsDead, DeadFile, Alive, Holding, Using
<1>1. ASSUME NEW c \in Contenders,
             \/ Open(c) \/ Write(c) \/ WriteFails(c) \/ ReadOwner(c)
             \/ Judge(c) \/ Recheck(c) \/ Unlink(c) \/ Reopen(c)
             \/ ExitRead(c) \/ ExitUnlink(c)
             \/ WriteAndUnlinkFail(c) \/ EnterFails(c) \/ ExitUnlinkFails(c)
      PROVE  FileShape' /\ HeldIsWritten' /\ NoLeakedLock' /\ OldIsDead'
  <2>1. CASE Open(c)
    BY <2>1 DEF Open, CreateOr, Goto
  <2>2. CASE Write(c)
    BY <2>2 DEF Write, Goto
  <2>3. CASE WriteFails(c)
    BY <2>3 DEF WriteFails, Goto
  <2>4. CASE ReadOwner(c)
    BY <2>4 DEF ReadOwner, Goto
  <2>5. CASE Judge(c)
    BY <2>5 DEF Judge, Goto
  <2>6. CASE Recheck(c)
    BY <2>6 DEF Recheck, Goto
  <2>7. CASE Unlink(c)
    BY <2>7 DEF Unlink, Goto
  <2>8. CASE Reopen(c)
    BY <2>8 DEF Reopen, CreateOr, Goto
  <2>9. CASE ExitRead(c)
    BY <2>9 DEF ExitRead, OwnerRead, OwnerToken, FileStays, Goto
  <2>10. CASE ExitUnlink(c)
    BY <2>10 DEF ExitUnlink, Goto
  <2>11. CASE WriteAndUnlinkFail(c)
    BY <2>11 DEF WriteAndUnlinkFail, FileStays, Goto
  <2>12. CASE EnterFails(c)
    BY <2>12 DEF EnterFails, Goto
  <2>13. CASE ExitUnlinkFails(c)
    BY <2>13 DEF ExitUnlinkFails, FileStays, Goto
  <2> QED
    BY <1>1, <2>1, <2>2, <2>3, <2>4, <2>5, <2>6, <2>7, <2>8, <2>9, <2>10,
       <2>11, <2>12, <2>13
<1>2. ASSUME NEW p \in Procs, Crash(p)
      PROVE  FileShape' /\ HeldIsWritten' /\ NoLeakedLock' /\ OldIsDead'
  BY <1>2 DEF Crash
<1>3. CASE GrowOld
  BY <1>3 DEF GrowOld
<1>4. CASE UNCHANGED lockVars
  BY <1>4 DEF lockVars
<1> QED
  BY <1>1, <1>2, <1>3, <1>4 DEF LockNext

(* A stale verdict needs a dead process: the owner read, or the creator of *)
(* the file the path names.                                                *)
LEMMA StaleMeansDead ==
    ASSUME LockInv, NEW c \in Contenders, JudgedStale(c)
    PROVE  DeadFile \/ (seen[c] \in Contenders /\ ~Alive(seen[c]))
BY DEF LockInv, LockTypeOK, JudgedStale, DeadLocalProcess, ExpiredUnknownOwner,
       SameHost, OldIsDead, DeadFile

(* Exclusion is preserved by every step that leaves clearers apart.        *)
LEMMA ExclusiveStep ==
    LockInv /\ [LockNext]_lockVars /\ ~overlapped' => Exclusive'
<1> SUFFICES ASSUME LockInv, [LockNext]_lockVars, ~overlapped' PROVE Exclusive'
  OBVIOUS
<1>0. ~overlapped
  BY DEF LockNext, lockVars, Open, Write, WriteFails, ReadOwner, Judge, Recheck, Unlink,
         Reopen, ExitRead, ExitUnlink, CreateOr, Goto, Crash, GrowOld,
         WriteAndUnlinkFail, EnterFails, ExitUnlinkFails
<1> USE <1>0 DEF LockInv, LockTypeOK, Files, NoFile, FileShape, Exclusive,
        UserOwnsFile, OneClearer, ClearsDeadFile, DeadFile, Alive, Using, Clearing
<1>1. ASSUME NEW c \in Contenders,
             \/ Open(c) \/ Write(c) \/ WriteFails(c) \/ ReadOwner(c)
             \/ Judge(c) \/ Recheck(c) \/ Unlink(c) \/ Reopen(c)
             \/ ExitRead(c) \/ ExitUnlink(c)
             \/ WriteAndUnlinkFail(c) \/ EnterFails(c) \/ ExitUnlinkFails(c)
      PROVE  Exclusive'
  <2>1. CASE Open(c)
    BY <2>1 DEF Open, CreateOr, Goto
  <2>2. CASE Write(c)
    BY <2>2 DEF Write, Goto
  <2>3. CASE WriteFails(c)
    BY <2>3 DEF WriteFails, Goto
  <2>4. CASE ReadOwner(c)
    BY <2>4 DEF ReadOwner, Goto
  <2>5. CASE Judge(c)
    BY <2>5, StaleMeansDead DEF Judge, Goto
  <2>6. CASE Recheck(c)
    BY <2>6 DEF Recheck, OwnerRead, OwnerToken, Goto
  <2>7. CASE Unlink(c)
    BY <2>7 DEF Unlink, Goto
  <2>8. CASE Reopen(c)
    BY <2>8 DEF Reopen, CreateOr, Goto
  <2>9. CASE ExitRead(c)
    BY <2>9 DEF ExitRead, FileStays, Goto
  <2>10. CASE ExitUnlink(c)
    BY <2>10 DEF ExitUnlink, Goto
  <2>11. CASE WriteAndUnlinkFail(c)
    BY <2>11 DEF WriteAndUnlinkFail, FileStays, Goto
  <2>12. CASE EnterFails(c)
    BY <2>12 DEF EnterFails, Goto
  <2>13. CASE ExitUnlinkFails(c)
    BY <2>13 DEF ExitUnlinkFails, FileStays, Goto
  <2> QED
    BY <1>1, <2>1, <2>2, <2>3, <2>4, <2>5, <2>6, <2>7, <2>8, <2>9, <2>10,
       <2>11, <2>12, <2>13
<1>2. ASSUME NEW p \in Procs, Crash(p) PROVE Exclusive'
  BY <1>2 DEF Crash
<1>3. CASE GrowOld
  BY <1>3 DEF GrowOld
<1>4. CASE UNCHANGED lockVars
  BY <1>4 DEF lockVars
<1> QED
  BY <1>1, <1>2, <1>3, <1>4 DEF LockNext

(* Without a crash and an I/O error at a release no step begins to clear a *)
(* lock.                                                                   *)
LEMMA NobodyClearsStep ==
    LockInv /\ [LockNext]_lockVars /\ live' = Procs /\ unremoved' = {}
        => NobodyClears'
<1> SUFFICES ASSUME LockInv, [LockNext]_lockVars, live' = Procs, unremoved' = {}
             PROVE  NobodyClears'
  OBVIOUS
<1>0. live = Procs /\ unremoved = {} /\ NobodyClears
  BY DEF LockInv, LockTypeOK, LockNext, lockVars, Open, Write, WriteFails, ReadOwner,
         Judge, Recheck, Unlink, Reopen, ExitRead, ExitUnlink, Crash, GrowOld,
         WriteAndUnlinkFail, EnterFails, ExitUnlinkFails, FileStays
<1>1. ASSUME NEW c \in Contenders PROVE ~JudgedStale(c)
  BY <1>0, StaleMeansDead DEF LockInv, LockTypeOK, Files, FileShape, DeadFile, Alive
<1> USE <1>0 DEF LockInv, LockTypeOK, NobodyClears, Clearing
<1>2. ASSUME NEW c \in Contenders,
             \/ Open(c) \/ Write(c) \/ WriteFails(c) \/ ReadOwner(c)
             \/ Judge(c) \/ Recheck(c) \/ Unlink(c) \/ Reopen(c)
             \/ ExitRead(c) \/ ExitUnlink(c)
             \/ WriteAndUnlinkFail(c) \/ EnterFails(c) \/ ExitUnlinkFails(c)
      PROVE  NobodyClears'
  <2>1. CASE Judge(c)
    BY <1>1, <2>1 DEF Judge, Goto
  <2>2. CASE \/ Open(c) \/ Write(c) \/ WriteFails(c) \/ ReadOwner(c)
             \/ ExitRead(c) \/ ExitUnlink(c)
             \/ WriteAndUnlinkFail(c) \/ EnterFails(c) \/ ExitUnlinkFails(c)
    BY <2>2 DEF WriteAndUnlinkFail, EnterFails, ExitUnlinkFails, Open, CreateOr, Write, WriteFails, ReadOwner, ExitRead,
                ExitUnlink, Goto
  <2>3. CASE Recheck(c) \/ Unlink(c) \/ Reopen(c)
    BY <2>3 DEF Recheck, Unlink, Reopen
  <2> QED
    BY <1>2, <2>1, <2>2, <2>3
<1>3. ASSUME NEW p \in Procs, Crash(p) PROVE NobodyClears'
  BY <1>3 DEF Crash
<1>4. CASE GrowOld
  BY <1>4 DEF GrowOld
<1>5. CASE UNCHANGED lockVars
  BY <1>5 DEF lockVars
<1> QED
  BY <1>2, <1>3, <1>4, <1>5 DEF LockNext

(* LockInv is inductive, hence an invariant of the lock.                   *)
THEOREM LockInvariant == LockSpec => []LockInv
<1>1. LockInv /\ [LockNext]_lockVars => LockInv'
  <2> SUFFICES ASSUME LockInv, [LockNext]_lockVars PROVE LockInv'
    OBVIOUS
  <2>1. LockTypeOK'
    BY LockTypes DEF LockInv
  <2>2. overlapped' \/ Exclusive'
    BY ExclusiveStep
  <2>3. live' = Procs /\ unremoved' = {} => NobodyClears'
    BY NobodyClearsStep
  <2> QED
    BY <2>1, <2>2, <2>3, FileFacts DEF LockInv
<1> QED
  BY LockInvInit, <1>1, PTL DEF LockSpec

-----------------------------------------------------------------------------
(* The variables of the lock always have their types.                      *)
THEOREM LockTypesTheorem == LockSpec => []LockTypeOK
<1>1. LockInv => LockTypeOK
  BY DEF LockInv
<1> QED
  BY LockInvariant, <1>1, PTL

(* operation_lock.py keeps at most one running with-body per target as     *)
(* long as no two contenders were between the staleness verdict and the    *)
(* unlink at the same time.                                                *)
THEOREM MutexTheorem == LockSpec => []MutexUnlessClearersOverlap
<1>1. LockInv => MutexUnlessClearersOverlap
  BY DEF LockInv, Exclusive, UserOwnsFile, MutexUnlessClearersOverlap,
         MutualExclusion, Holding, Using
<1> QED
  BY LockInvariant, <1>1, PTL

(* While every process is running and no I/O error let a released file     *)
(* stay, the lock excludes unconditionally.                                *)
THEOREM NoCrashTheorem == LockSpec => []MutexWithoutCrash
<1>1. LockInv => MutexWithoutCrash
  BY DEF LockInv, NobodyClears, Exclusive, UserOwnsFile, MutexWithoutCrash,
         MutualExclusion, Holding, Using
<1> QED
  BY LockInvariant, <1>1, PTL

(* A running process leaves its lock file behind only when reading or      *)
(* removing it failed.                                                     *)
THEOREM NoLeakTheorem == LockSpec => []NoLeakedLock
<1>1. LockInv => NoLeakedLock
  BY DEF LockInv
<1> QED
  BY LockInvariant, <1>1, PTL

(* No step takes the file of a running holder away while clearers are      *)
(* apart: after the step the path still names the holder's inode.          *)
THEOREM HolderKeepsFileTheorem == LockSpec => HolderKeepsFile
<1> DEFINE Keeps ==
        \A c \in Contenders :
            Holding(c) /\ Holding(c)' /\ ~overlapped' /\ file.creator = c
               => file'.creator = c
<1>1. LockInv' /\ [LockNext]_lockVars => Keeps
  BY DEF LockInv, Exclusive, UserOwnsFile, Holding, Using
<1> QED
  BY LockInvariant, <1>1, PTL DEF LockSpec, HolderKeepsFile
=============================================================================
