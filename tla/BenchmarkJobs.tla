---------------------------- MODULE BenchmarkJobs ----------------------------
(***************************************************************************)
(* The two other kinds of persistent job of the control plane: AIOpsLab    *)
(* benchmarks (aiopslab_jobs.py, aiopslab_job_runner.py), which run a      *)
(* child process per repetition (aiopslab_benchmark.py), and recovery      *)
(* comparisons (recovery_comparison_jobs.py,                               *)
(* recovery_comparison_runner.py), which run a matrix of treatments.       *)
(*                                                                         *)
(* As in ExperimentJobs one SQL statement is one step and request_cancel   *)
(* is two; deletion, here under the store lock, is one.                    *)
(***************************************************************************)
EXTENDS Naturals, FiniteSets

CONSTANTS
    Benchmarks,     \* AIOpsLab job ids
    Comparisons,    \* recovery comparison job ids
    Clients,        \* concurrent cancel requests
    Repetitions,    \* repetitions of a benchmark, treatments of a comparison
    NoJob           \* the job of an idle request

ASSUME BenchmarkAssumption ==
    /\ Benchmarks \cap Comparisons = {}
    /\ NoJob \notin Benchmarks \cup Comparisons
    /\ Repetitions \in Nat \ {0}

Jobs == Benchmarks \cup Comparisons

VARIABLES
    status, result, cancelRequested,            \* the two job tables
    submit, registered, signal,                 \* submission and registry
    worker, round, outcome,                     \* the job's thread
    child,                                      \* its benchmark process
    client, at,                                 \* cancel requests
    server, pending, target                     \* the process and its shutdown

dbVars == <<status, result, cancelRequested>>
registryVars == <<submit, registered, signal>>
threadVars == <<worker, round, outcome, child>>
clientVars == <<client, at>>
serverVars == <<server, pending, target>>
vars == <<dbVars, registryVars, threadVars, clientVars, serverVars>>

Nonterminal == {"queued", "running", "cancelling"}
Terminal == {"completed", "failed", "blocked", "cancelled", "interrupted"}
HasRow(j) == status[j] \notin {"fresh", "deleted"}
Running == server # "down"

TypeOK ==
    /\ status \in [Jobs -> Nonterminal \cup Terminal \cup {"fresh", "deleted"}]
    /\ result \in [Jobs -> Terminal \cup {"none"}]
    /\ cancelRequested \in [Jobs -> BOOLEAN]
    /\ submit \in [Jobs -> {"new", "created", "done"}]
    /\ registered \in [Jobs -> BOOLEAN]
    /\ signal \in [Jobs -> BOOLEAN]
    /\ worker \in [Jobs -> {"none", "get", "transition", "preflight", "loop", "exec",
                            "stop", "finally", "result", "pop", "gone", "lost"}]
    /\ round \in [Jobs -> 0..Repetitions]
    /\ outcome \in [Jobs -> Terminal]
    /\ child \in [Jobs -> {"none", "running", "exited", "orphan"}]
    /\ client \in [Clients -> {"idle", "write", "signal"}]
    /\ at \in [Clients -> Jobs \cup {NoJob}]
    /\ server \in {"up", "stop_rows", "stop_write", "stop_comparisons", "stopped", "down"}
    /\ pending \subseteq Jobs
    /\ target \in Jobs \cup {NoJob}

Init ==
    /\ status = [j \in Jobs |-> "fresh"]
    /\ result = [j \in Jobs |-> "none"]
    /\ cancelRequested = [j \in Jobs |-> FALSE]
    /\ submit = [j \in Jobs |-> "new"]
    /\ registered = [j \in Jobs |-> FALSE]
    /\ signal = [j \in Jobs |-> FALSE]
    /\ worker = [j \in Jobs |-> "none"]
    /\ round = [j \in Jobs |-> 0]
    /\ outcome = [j \in Jobs |-> "completed"]
    /\ child = [j \in Jobs |-> "none"]
    /\ client = [k \in Clients |-> "idle"]
    /\ at = [k \in Clients |-> NoJob]
    /\ server = "up" /\ pending = {} /\ target = NoJob

----------------------------------------------------------------------------
(* Submission: the row first, the thread and its cancellation event later. *)

SubmitCreate(j) ==
    /\ server = "up" /\ submit[j] = "new"
    /\ submit' = [submit EXCEPT ![j] = "created"]
    /\ status' = [status EXCEPT ![j] = "queued"]
    /\ UNCHANGED <<result, cancelRequested, registered, signal, threadVars,
                   clientVars, serverVars>>

SubmitRegister(j) ==
    /\ Running /\ submit[j] = "created"
    /\ submit' = [submit EXCEPT ![j] = "done"]
    /\ registered' = [registered EXCEPT ![j] = TRUE]
    /\ worker' = [worker EXCEPT ![j] = "get"]
    /\ UNCHANGED <<dbVars, signal, round, outcome, child, clientVars, serverVars>>

----------------------------------------------------------------------------
(* The job's thread.                                                       *)

StepWorker(j, step) == worker' = [worker EXCEPT ![j] = step]

\* Enters the finally block with status s
Settle(j, s) ==
    /\ StepWorker(j, "finally")
    /\ outcome' = [outcome EXCEPT ![j] = s]

\* except Exception: CANCELLED if the event is set by then, else FAILED
Raised(j) == Settle(j, IF signal[j] THEN "cancelled" ELSE "failed")

WorkerGet(j) ==
    /\ worker[j] = "get"
    /\ StepWorker(j, IF HasRow(j) THEN "transition" ELSE "lost")
    /\ UNCHANGED <<dbVars, registryVars, round, outcome, child, clientVars, serverVars>>

WorkerTransition(j) ==
    /\ worker[j] = "transition" /\ HasRow(j)
    /\ status' = [status EXCEPT ![j] = "running"]
    /\ StepWorker(j, "preflight")
    /\ UNCHANGED <<result, cancelRequested, registryVars, round, outcome, child,
                   clientVars, serverVars>>

(* A benchmark that is unknown or not ready is BLOCKED; a comparison that  *)
(* is not ready raises like any other failure.                             *)
WorkerPreflight(j) ==
    /\ worker[j] = "preflight"
    /\ \/ StepWorker(j, "loop") /\ UNCHANGED outcome
       \/ j \in Benchmarks /\ Settle(j, "blocked")
       \/ Raised(j)
    /\ UNCHANGED <<dbVars, registryVars, round, child, clientVars, serverVars>>

\* The report directory is created outside the try block: an OSError ends the
\* thread, and the row stays RUNNING.
ReportsDirFails(j) ==
    /\ worker[j] = "preflight" /\ j \in Benchmarks
    /\ StepWorker(j, "lost")
    /\ UNCHANGED <<dbVars, registryVars, round, outcome, child, clientVars, serverVars>>

(* Between two repetitions or treatments the event is looked at.  Each     *)
(* round of a benchmark starts a child process.                            *)
WorkerLoop(j) ==
    /\ worker[j] = "loop"
    /\ \/ /\ signal[j]
          /\ Settle(j, "cancelled")
          /\ UNCHANGED <<round, child>>
       \/ /\ ~signal[j] /\ round[j] < Repetitions
          /\ round' = [round EXCEPT ![j] = @ + 1]
          /\ StepWorker(j, "exec")
          /\ child' = IF j \in Benchmarks THEN [child EXCEPT ![j] = "running"] ELSE child
          /\ UNCHANGED outcome
       \/ /\ round[j] = Repetitions
          /\ Settle(j, "completed")
          /\ UNCHANGED <<round, child>>
       \/ /\ Raised(j)
          /\ UNCHANGED <<round, child>>
    /\ UNCHANGED <<dbVars, registryVars, clientVars, serverVars>>

\* a treatment runs to its end, whatever the cancellation event says
TreatmentEnds(j) ==
    /\ worker[j] = "exec" /\ j \in Comparisons
    /\ \/ StepWorker(j, "loop") /\ UNCHANGED outcome
       \/ Raised(j)
    /\ UNCHANGED <<dbVars, registryVars, round, child, clientVars, serverVars>>

\* the child ended: a new report, or a return code or missing report that raises
ChildCollected(j) ==
    /\ worker[j] = "exec" /\ child[j] = "exited"
    /\ child' = [child EXCEPT ![j] = "none"]
    /\ \/ StepWorker(j, "loop") /\ UNCHANGED outcome
       \/ Raised(j)
    /\ UNCHANGED <<dbVars, registryVars, round, clientVars, serverVars>>

\* cancellation.wait(0.25) sees the event while the child runs
ChildCancelled(j) ==
    /\ worker[j] = "exec" /\ child[j] = "running" /\ signal[j]
    /\ StepWorker(j, "stop")
    /\ UNCHANGED <<dbVars, registryVars, round, outcome, child, clientVars, serverVars>>

\* Mutant: the timeout is raised without ending the child
ChildDeadlineRaisesOnly(j) ==
    /\ worker[j] = "exec" /\ child[j] = "running"
    /\ Raised(j)
    /\ UNCHANGED <<dbVars, registryVars, round, child, clientVars, serverVars>>

\* Mutant: the deadline is only looked at once the event is set
ChildDeadlineWhenCancelled(j) ==
    /\ worker[j] = "exec" /\ child[j] = "running" /\ signal[j]
    /\ StepWorker(j, "stop")
    /\ UNCHANGED <<dbVars, registryVars, round, outcome, child, clientVars, serverVars>>

\* spec.timeout_seconds have passed
ChildDeadline(j) ==
    /\ worker[j] = "exec" /\ child[j] = "running"
    /\ StepWorker(j, "stop")
    /\ UNCHANGED <<dbVars, registryVars, round, outcome, child, clientVars, serverVars>>

\* _terminate: SIGTERM, five seconds, SIGKILL; then the exception goes on
ChildStopped(j) ==
    /\ worker[j] = "stop"
    /\ child' = [child EXCEPT ![j] = "none"]
    /\ Raised(j)
    /\ UNCHANGED <<dbVars, registryVars, round, clientVars, serverVars>>

\* The benchmark program ends by itself, watched or not
ChildExits(j) ==
    /\ child[j] \in {"running", "orphan"}
    /\ child' = [child EXCEPT ![j] = IF @ = "running" THEN "exited" ELSE "none"]
    /\ UNCHANGED <<dbVars, registryVars, worker, round, outcome, clientVars, serverVars>>

(* A completed job whose event was set meanwhile is cancelled: a benchmark *)
(* looks in its finally block, a comparison after execute has returned.    *)
WorkerFinally(j) ==
    /\ worker[j] = "finally"
    /\ outcome' = IF signal[j] /\ outcome[j] = "completed"
                  THEN [outcome EXCEPT ![j] = "cancelled"] ELSE outcome
    /\ StepWorker(j, "result")
    /\ UNCHANGED <<dbVars, registryVars, round, child, clientVars, serverVars>>

\* store.set_result
WorkerResult(j) ==
    /\ worker[j] = "result"
    /\ IF HasRow(j)
       THEN /\ status' = [status EXCEPT ![j] = outcome[j]]
            /\ result' = [result EXCEPT ![j] = outcome[j]]
            /\ StepWorker(j, "pop")
       ELSE StepWorker(j, "lost") /\ UNCHANGED <<status, result>>
    /\ UNCHANGED <<cancelRequested, registryVars, round, outcome, child, clientVars,
                   serverVars>>

WorkerPop(j) ==
    /\ worker[j] = "pop"
    /\ registered' = [registered EXCEPT ![j] = FALSE]
    /\ signal' = [signal EXCEPT ![j] = FALSE]
    /\ round' = [round EXCEPT ![j] = 0]
    /\ outcome' = [outcome EXCEPT ![j] = "completed"]
    /\ StepWorker(j, "gone")
    /\ UNCHANGED <<dbVars, submit, child, clientVars, serverVars>>

\* a store call outside the try block raises and ends the thread
WorkerStoreError(j) ==
    /\ worker[j] \in {"get", "transition", "result"}
    /\ StepWorker(j, "lost")
    /\ UNCHANGED <<dbVars, registryVars, round, outcome, child, clientVars, serverVars>>

WorkerStep(j) ==
    \/ WorkerGet(j) \/ WorkerTransition(j) \/ WorkerPreflight(j) \/ WorkerLoop(j)
    \/ TreatmentEnds(j) \/ ChildCollected(j) \/ ChildCancelled(j) \/ ChildStopped(j)
    \/ WorkerFinally(j) \/ WorkerResult(j) \/ WorkerPop(j) \/ WorkerStoreError(j)
    \/ ReportsDirFails(j)

----------------------------------------------------------------------------
(* HTTP requests.                                                          *)

Client(k, step, j) ==
    /\ client' = [client EXCEPT ![k] = step]
    /\ at' = [at EXCEPT ![k] = j]

\* request_cancel reads the row ...
CancelRead(k, j) ==
    /\ server = "up" /\ client[k] = "idle" /\ HasRow(j)
    /\ Client(k, IF status[j] \in Terminal THEN "signal" ELSE "write", j)
    /\ UNCHANGED <<dbVars, registryVars, threadVars, serverVars>>

MarkCancelling(j) ==
    IF HasRow(j)
    THEN /\ status' = [status EXCEPT ![j] = "cancelling"]
         /\ cancelRequested' = [cancelRequested EXCEPT ![j] = TRUE]
    ELSE UNCHANGED <<status, cancelRequested>>

\* ... and updates it, whatever its status is by then
CancelWrite(k) ==
    /\ client[k] = "write"
    /\ MarkCancelling(at[k])
    /\ IF HasRow(at[k]) THEN Client(k, "signal", at[k]) ELSE Client(k, "idle", NoJob)
    /\ UNCHANGED <<result, registryVars, threadVars, serverVars>>

CancelSignal(k) ==
    /\ client[k] = "signal"
    /\ signal' = IF registered[at[k]] THEN [signal EXCEPT ![at[k]] = TRUE] ELSE signal
    /\ Client(k, "idle", NoJob)
    /\ UNCHANGED <<dbVars, submit, registered, threadVars, serverVars>>

RemoveRows(S) ==
    /\ status' = [j \in Jobs |-> IF j \in S THEN "deleted" ELSE status[j]]
    /\ result' = [j \in Jobs |-> IF j \in S THEN "none" ELSE result[j]]
    /\ cancelRequested' = [j \in Jobs |-> j \notin S /\ cancelRequested[j]]
    /\ UNCHANGED <<registryVars, threadVars, clientVars, serverVars>>

\* Mutant: any benchmark row can be deleted
DeleteAnyStatus(j) ==
    /\ server = "up" /\ HasRow(j)
    /\ RemoveRows({j})

\* store.delete checks and deletes under one hold of the store lock
DeleteOne(j) ==
    /\ server = "up" /\ status[j] \in Terminal
    /\ RemoveRows({j})

DeleteAll ==
    LET done == {j \in Benchmarks : status[j] \in Terminal}
    IN  server = "up" /\ done # {} /\ RemoveRows(done)

----------------------------------------------------------------------------
(* The server process.  Shutdown first sets the events of the benchmarks,  *)
(* then marks their rows one by one, without a lock; comparisons are only  *)
(* signalled.                                                              *)

ShutdownBegin ==
    /\ server = "up"
    /\ pending' = {j \in Benchmarks : registered[j]}
    /\ signal' = [j \in Jobs |-> signal[j] \/ j \in pending']
    /\ server' = "stop_rows"
    /\ UNCHANGED <<dbVars, submit, registered, threadVars, clientVars, target>>

ShutdownRow(j) ==
    /\ server = "stop_rows" /\ j \in pending
    /\ pending' = pending \ {j}
    /\ IF status[j] \in Nonterminal
       THEN server' = "stop_write" /\ target' = j
       ELSE UNCHANGED <<server, target>>
    /\ UNCHANGED <<dbVars, registryVars, threadVars, clientVars>>

ShutdownWrite ==
    /\ server = "stop_write"
    /\ MarkCancelling(target)
    /\ server' = "stop_rows" /\ target' = NoJob
    /\ UNCHANGED <<result, registryVars, threadVars, clientVars, pending>>

\* A statement of request_cancel raises: the comparisons are not signalled.
ShutdownRaises ==
    /\ server \in {"stop_rows", "stop_write"}
    /\ server' = "stopped" /\ pending' = {} /\ target' = NoJob
    /\ UNCHANGED <<dbVars, registryVars, threadVars, clientVars>>

\* the bounded joins are over
ShutdownJoined ==
    /\ server = "stop_rows" /\ pending = {}
    /\ server' = "stop_comparisons"
    /\ UNCHANGED <<dbVars, registryVars, threadVars, clientVars, pending, target>>

ShutdownComparisons ==
    /\ server = "stop_comparisons"
    /\ signal' = [j \in Jobs |-> signal[j] \/ (j \in Comparisons /\ registered[j])]
    /\ server' = "stopped"
    /\ UNCHANGED <<dbVars, submit, registered, threadVars, clientVars, pending, target>>

(* Killed, or after the last join: threads and requests end, children that *)
(* still run are left to themselves.                                       *)
ProcessEnds ==
    /\ Running
    /\ server' = "down" /\ pending' = {} /\ target' = NoJob
    /\ submit' = [j \in Jobs |-> IF submit[j] = "created" THEN "done" ELSE submit[j]]
    /\ registered' = [j \in Jobs |-> FALSE]
    /\ signal' = [j \in Jobs |-> FALSE]
    /\ worker' = [j \in Jobs |-> IF worker[j] = "none" THEN "none" ELSE "gone"]
    /\ round' = [j \in Jobs |-> 0]
    /\ outcome' = [j \in Jobs |-> "completed"]
    /\ child' = [j \in Jobs |-> CASE child[j] = "running" -> "orphan"
                                  [] child[j] = "exited"  -> "none"
                                  [] OTHER                -> child[j]]
    /\ client' = [k \in Clients |-> "idle"]
    /\ at' = [k \in Clients |-> NoJob]
    /\ UNCHANGED dbVars

\* both runners' constructors interrupt what their tables left open
Restart ==
    /\ server = "down"
    /\ server' = "up"
    /\ status' = [j \in Jobs |-> IF status[j] \in Nonterminal
                                 THEN "interrupted" ELSE status[j]]
    /\ UNCHANGED <<result, cancelRequested, registryVars, threadVars, clientVars,
                   pending, target>>

----------------------------------------------------------------------------
ShutdownStep ==
    \/ \E j \in Jobs : ShutdownRow(j)
    \/ ShutdownWrite \/ ShutdownJoined \/ ShutdownComparisons

Next ==
    \/ \E j \in Jobs : SubmitCreate(j) \/ SubmitRegister(j) \/ WorkerStep(j)
    \/ \E j \in Benchmarks : ChildDeadline(j) \/ ChildExits(j) \/ DeleteOne(j)
    \/ \E k \in Clients, j \in Jobs : CancelRead(k, j)
    \/ \E k \in Clients : CancelWrite(k) \/ CancelSignal(k)
    \/ DeleteAll
    \/ ShutdownBegin \/ ShutdownStep \/ ShutdownRaises \/ ProcessEnds \/ Restart

Spec == Init /\ [][Next]_vars

\* What a thread waits for has a timeout, but not the guard process that a
\* treatment starts when the comparison uses the Go guard.
Bounded(j) == j \in Benchmarks \/ worker[j] # "exec"

(* Threads are scheduled, and the clock reaches a child's deadline.  A     *)
(* child or a treatment need not end by itself, and nobody has to cancel,  *)
(* stop or restart anything.                                               *)
Fairness ==
    /\ \A j \in Jobs : WF_vars(SubmitRegister(j))
    /\ \A j \in Jobs : WF_vars(Bounded(j) /\ WorkerStep(j))
    /\ \A j \in Benchmarks : WF_vars(ChildDeadline(j))
    /\ \A k \in Clients : WF_vars(CancelWrite(k) \/ CancelSignal(k))
    /\ WF_vars(ShutdownStep)

FairSpec == Spec /\ Fairness

----------------------------------------------------------------------------
Working(j) == worker[j] \in {"get", "transition", "preflight", "loop", "exec", "stop",
                             "finally", "result"}

(* Both tables go through the same abstract lifecycle as the experiment    *)
(* jobs: the abstract row is the stored one.                               *)
Lifecycle == INSTANCE JobLifecycle WITH
                 Jobs <- Jobs, status <- status, result <- result

RefinesLifecycle == Lifecycle!JobSpec

(* A job whose event was set before its thread took the last look at it is *)
(* never stored as completed, although shutdown and cancellation set the   *)
(* event and mark the row in opposite orders.                              *)
SignalledNeverCompletes ==
    \A j \in Jobs :
        [](signal[j] /\ Working(j) /\ worker[j] # "result" => [](result[j] # "completed"))

(* A stored result means that the benchmark no longer acts on the cluster: *)
(* on no path does a thread record its verdict with the child still alive. *)
ResultMeansNoChild ==
    \A j \in Benchmarks : result[j] # "none" => child[j] = "none"

(* A started benchmark reaches a stored result even if its child never     *)
(* ends, and a comparison if each of its treatments ends; the exceptions   *)
(* are a thread lost to a database error or to a report directory that     *)
(* cannot be created, and the end of the process.                          *)
StartedJobEnds ==
    \A j \in Jobs :
        []<>Bounded(j)
            => (Working(j) ~> (result[j] # "none" \/ worker[j] = "lost" \/ ~Running))
=============================================================================
