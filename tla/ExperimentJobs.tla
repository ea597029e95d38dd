--------------------------- MODULE ExperimentJobs ---------------------------
(***************************************************************************)
(* The persistent experiment jobs of the control plane: the SQLite store   *)
(* (experiment_jobs.py), the thread-per-job runner                         *)
(* (experiment_job_runner.py) and the HTTP handlers that cancel, delete    *)
(* and stream jobs (control_plane_web.py, experiment_bulk_delete.py).      *)
(*                                                                         *)
(* One SQL statement is one step.  Store operations that read a row and    *)
(* then update it take the store lock twice, so they are two steps.  A     *)
(* crash keeps the database and loses everything else.                     *)
(***************************************************************************)
EXTENDS Naturals, FiniteSets

CONSTANTS
    Jobs,           \* experiment ids
    Clients,        \* concurrent HTTP requests
    Repetitions,    \* job.request.repetitions
    MaxEvents,      \* bound on the events a job emits
    NoJob           \* the job of an idle request

ASSUME JobsAssumption ==
    /\ NoJob \notin Jobs
    /\ Repetitions \in Nat \ {0}
    /\ MaxEvents \in Nat

VARIABLES
    \* the database
    status, result, cancelRequested, events,
    \* the runner: submission, registration, worker thread, its locals
    submit, registered, signal, worker, attempt, outcome,
    \* HTTP requests: program counter, job, jobs left to delete, SSE cursor
    client, at, todo, cursor,
    \* the server process; shutdown's jobs, those not cancelled yet, the current
    server, active, pending, target

dbVars == <<status, result, cancelRequested, events>>
runnerVars == <<submit, registered, signal, worker, attempt, outcome>>
clientVars == <<client, at, todo, cursor>>
serverVars == <<server, active, pending, target>>
vars == <<dbVars, runnerVars, clientVars, serverVars>>

Lifecycle == INSTANCE JobLifecycle WITH
    Jobs <- Jobs, status <- status, result <- result

Nonterminal == {"queued", "running", "cancelling"}
Terminal == {"completed", "failed", "blocked", "cancelled", "interrupted"}
NoRow(j) == status[j] \in {"fresh", "deleted"}

WorkerSteps == {"none", "get", "transition", "loop", "run", "notify", "finally",
                "result", "pop", "gone", "lost"}
ClientSteps == {"idle", "cancel_write", "cancel_signal", "delete_check",
                "delete_write", "stream_events", "stream_get", "stream_wait",
                "stream_job"}
ServerSteps == {"up", "stop_check", "stop_write", "stopped", "down"}

TypeOK ==
    /\ status \in [Jobs -> Nonterminal \cup Terminal \cup {"fresh", "deleted"}]
    /\ result \in [Jobs -> Terminal \cup {"none"}]
    /\ cancelRequested \in [Jobs -> BOOLEAN]
    /\ events \in [Jobs -> 0..MaxEvents]
    /\ submit \in [Jobs -> {"new", "created", "done"}]
    /\ registered \in [Jobs -> BOOLEAN]
    /\ signal \in [Jobs -> BOOLEAN]
    /\ worker \in [Jobs -> WorkerSteps]
    /\ attempt \in [Jobs -> 0..Repetitions]
    /\ outcome \in [Jobs -> Terminal]
    /\ client \in [Clients -> ClientSteps]
    /\ at \in [Clients -> Jobs \cup {NoJob}]
    /\ todo \in [Clients -> SUBSET Jobs]
    /\ cursor \in [Clients -> 0..MaxEvents]
    /\ server \in ServerSteps
    /\ active \subseteq Jobs
    /\ pending \subseteq Jobs
    /\ target \in Jobs \cup {NoJob}

Init ==
    /\ status = [j \in Jobs |-> "fresh"]
    /\ result = [j \in Jobs |-> "none"]
    /\ cancelRequested = [j \in Jobs |-> FALSE]
    /\ events = [j \in Jobs |-> 0]
    /\ submit = [j \in Jobs |-> "new"]
    /\ registered = [j \in Jobs |-> FALSE]
    /\ signal = [j \in Jobs |-> FALSE]
    /\ worker = [j \in Jobs |-> "none"]
    /\ attempt = [j \in Jobs |-> 0]
    /\ outcome = [j \in Jobs |-> "completed"]
    /\ client = [k \in Clients |-> "idle"]
    /\ at = [k \in Clients |-> NoJob]
    /\ todo = [k \in Clients |-> {}]
    /\ cursor = [k \in Clients |-> 0]
    /\ server = "up" /\ active = {} /\ pending = {}
    /\ target = NoJob

Running == server # "down"

\* shutdown() holds the runner's condition from its first to its last step.
RunnerLockFree == server \notin {"stop_check", "stop_write"}

----------------------------------------------------------------------------
(* Submission: the row is created before the thread and its cancellation   *)
(* event are registered.                                                   *)

SubmitCreate(j) ==
    /\ server = "up" /\ submit[j] = "new"
    /\ status' = [status EXCEPT ![j] = "queued"]
    /\ submit' = [submit EXCEPT ![j] = "created"]
    /\ UNCHANGED <<result, cancelRequested, events, registered, signal, worker,
                   attempt, outcome, clientVars, serverVars>>

SubmitRegister(j) ==
    /\ Running /\ RunnerLockFree /\ submit[j] = "created"
    /\ submit' = [submit EXCEPT ![j] = "done"]
    /\ registered' = [registered EXCEPT ![j] = TRUE]
    /\ worker' = [worker EXCEPT ![j] = "get"]
    /\ UNCHANGED <<dbVars, signal, attempt, outcome, clientVars, serverVars>>

----------------------------------------------------------------------------
(* The worker thread, _run_job.                                            *)

StepWorker(j, step) == worker' = [worker EXCEPT ![j] = step]

\* store.get: the job was deleted before the thread started, or go on
WorkerGet(j) ==
    /\ worker[j] = "get"
    /\ StepWorker(j, IF NoRow(j) THEN "gone" ELSE "transition")
    /\ UNCHANGED <<dbVars, submit, registered, signal, attempt, outcome,
                   clientVars, serverVars>>

\* store.transition(RUNNING): overwrites whatever status the row has
WorkerTransition(j) ==
    /\ worker[j] = "transition"
    /\ status' = IF NoRow(j) THEN status ELSE [status EXCEPT ![j] = "running"]
    /\ StepWorker(j, IF NoRow(j) THEN "lost" ELSE "loop")
    /\ UNCHANGED <<result, cancelRequested, events, submit, registered, signal,
                   attempt, outcome, clientVars, serverVars>>

\* head of the repetition loop
WorkerLoop(j) ==
    /\ worker[j] = "loop"
    /\ \/ /\ attempt[j] = Repetitions
          /\ StepWorker(j, "finally")
          /\ UNCHANGED <<attempt, outcome>>
       \/ /\ attempt[j] < Repetitions /\ signal[j]
          /\ outcome' = [outcome EXCEPT ![j] = "cancelled"]
          /\ StepWorker(j, "finally")
          /\ UNCHANGED attempt
       \/ /\ attempt[j] < Repetitions /\ ~signal[j]
          /\ attempt' = [attempt EXCEPT ![j] = @ + 1]
          /\ StepWorker(j, "run")
          /\ UNCHANGED outcome
    /\ UNCHANGED <<dbVars, submit, registered, signal, clientVars, serverVars>>

\* _PersistentRuntimeEventSink.emit; the next sequence number is the sink's
WorkerEmit(j) ==
    /\ worker[j] = "run"
    /\ events[j] < MaxEvents
    /\ ~NoRow(j)
    /\ events' = [events EXCEPT ![j] = @ + 1]
    /\ StepWorker(j, "notify")
    /\ UNCHANGED <<status, result, cancelRequested, submit, registered, signal,
                   attempt, outcome, clientVars, serverVars>>

\* ... and wakes the streams: it waits for the condition shutdown may hold.
WorkerNotify(j) ==
    /\ worker[j] = "notify" /\ RunnerLockFree
    /\ StepWorker(j, "run")
    /\ UNCHANGED <<dbVars, submit, registered, signal, attempt, outcome,
                   clientVars, serverVars>>

(* The attempt ends with the runtime's status as _job_status maps it.  The *)
(* runtime reports "cancelled" only after it saw the signal.  BLOCKED and  *)
(* FAILED are remembered, INTERRUPTED is not.                              *)
WorkerAttemptEnds(j, mapped) ==
    /\ worker[j] = "run"
    /\ mapped = "cancelled" => signal[j]
    /\ outcome' = IF mapped \in {"cancelled", "blocked", "failed"}
                  THEN [outcome EXCEPT ![j] = mapped] ELSE outcome
    /\ StepWorker(j, IF mapped = "cancelled" THEN "finally" ELSE "loop")
    /\ UNCHANGED <<dbVars, submit, registered, signal, attempt, clientVars,
                   serverVars>>

\* the incident adapter, the runtime factory or the runtime itself raised
WorkerAttemptRaises(j) ==
    /\ worker[j] = "run"
    /\ outcome' = [outcome EXCEPT ![j] = IF signal[j] THEN "cancelled" ELSE "failed"]
    /\ StepWorker(j, "finally")
    /\ UNCHANGED <<dbVars, submit, registered, signal, attempt, clientVars,
                   serverVars>>

\* Mutant: a signal after the last attempt is forgotten
WorkerFinallyUnchecked(j) ==
    /\ worker[j] = "finally"
    /\ StepWorker(j, "result")
    /\ UNCHANGED <<dbVars, submit, registered, signal, attempt, outcome, clientVars,
                   serverVars>>

WorkerFinally(j) ==
    /\ worker[j] = "finally"
    /\ outcome' = IF signal[j] /\ outcome[j] = "completed"
                  THEN [outcome EXCEPT ![j] = "cancelled"] ELSE outcome
    /\ StepWorker(j, "result")
    /\ UNCHANGED <<dbVars, submit, registered, signal, attempt, clientVars,
                   serverVars>>

\* store.set_result
WorkerResult(j) ==
    /\ worker[j] = "result"
    /\ IF NoRow(j)
       THEN StepWorker(j, "lost") /\ UNCHANGED <<status, result>>
       ELSE /\ status' = [status EXCEPT ![j] = outcome[j]]
            /\ result' = [result EXCEPT ![j] = outcome[j]]
            /\ StepWorker(j, "pop")
    /\ UNCHANGED <<cancelRequested, events, submit, registered, signal, attempt,
                   outcome, clientVars, serverVars>>

\* the thread, its locals and its cancellation event are dropped
WorkerPop(j) ==
    /\ worker[j] = "pop" /\ RunnerLockFree
    /\ registered' = [registered EXCEPT ![j] = FALSE]
    /\ signal' = [signal EXCEPT ![j] = FALSE]
    /\ attempt' = [attempt EXCEPT ![j] = 0]
    /\ outcome' = [outcome EXCEPT ![j] = "completed"]
    /\ StepWorker(j, "gone")
    /\ UNCHANGED <<dbVars, submit, clientVars, serverVars>>

(* A store call outside the try block raises (sqlite3.OperationalError     *)
(* after its 30 s busy timeout): the thread ends, still registered.        *)
WorkerStoreError(j) ==
    /\ worker[j] \in {"get", "transition", "result"}
    /\ StepWorker(j, "lost")
    /\ UNCHANGED <<dbVars, submit, registered, signal, attempt, outcome,
                   clientVars, serverVars>>

WorkerStep(j) ==
    \/ WorkerGet(j) \/ WorkerTransition(j) \/ WorkerLoop(j) \/ WorkerEmit(j)
    \/ WorkerNotify(j)
    \/ \E mapped \in Terminal : WorkerAttemptEnds(j, mapped)
    \/ WorkerAttemptRaises(j) \/ WorkerFinally(j) \/ WorkerResult(j)
    \/ WorkerPop(j) \/ WorkerStoreError(j)

----------------------------------------------------------------------------
(* HTTP requests.  A request runs until it is "idle" again.                *)

\* The request is at `step` of the job it is about; a finished one forgets it.
Client(k, step, j, n) ==
    /\ client' = [client EXCEPT ![k] = step]
    /\ at' = [at EXCEPT ![k] = IF step = "idle" THEN NoJob ELSE j]
    /\ cursor' = [cursor EXCEPT ![k] = IF step = "idle" THEN 0 ELSE n]

\* Mutant: no early return for terminal jobs
CancelReadAnyStatus(k, j) ==
    /\ server = "up" /\ client[k] = "idle"
    /\ ~NoRow(j)
    /\ Client(k, "cancel_write", j, 0)
    /\ UNCHANGED <<dbVars, runnerVars, todo, serverVars>>

\* POST .../cancel: request_cancel reads the row and looks at its status ...
CancelRead(k, j) ==
    /\ server = "up" /\ client[k] = "idle"
    /\ ~NoRow(j)
    /\ Client(k, IF status[j] \in Terminal THEN "cancel_signal" ELSE "cancel_write", j, 0)
    /\ UNCHANGED <<dbVars, runnerVars, todo, serverVars>>

\* What UPDATE ... SET status = 'cancelling', cancel_requested = 1 does
MarkCancelling(j) ==
    /\ status' = IF NoRow(j) THEN status ELSE [status EXCEPT ![j] = "cancelling"]
    /\ cancelRequested' = IF NoRow(j) THEN cancelRequested
                          ELSE [cancelRequested EXCEPT ![j] = TRUE]

\* ... and updates it later, whatever the status is by then
CancelWrite(k) ==
    /\ client[k] = "cancel_write"
    /\ MarkCancelling(at[k])
    /\ Client(k, IF NoRow(at[k]) THEN "idle" ELSE "cancel_signal", at[k], 0)
    /\ UNCHANGED <<result, events, runnerVars, todo, serverVars>>

\* the signal reaches the runtime only if the job is registered by now
CancelSignal(k) ==
    /\ client[k] = "cancel_signal" /\ RunnerLockFree
    /\ signal' = IF registered[at[k]] THEN [signal EXCEPT ![at[k]] = TRUE] ELSE signal
    /\ Client(k, "idle", NoJob, 0)
    /\ UNCHANGED <<dbVars, submit, registered, worker, attempt, outcome, todo,
                   serverVars>>

\* Mutant: neither the handler nor the store looks at the status
DeleteOneAnyStatus(k, j) ==
    /\ server = "up" /\ client[k] = "idle"
    /\ ~NoRow(j)
    /\ todo' = [todo EXCEPT ![k] = {j}]
    /\ Client(k, "delete_write", j, 0)
    /\ UNCHANGED <<dbVars, runnerVars, serverVars>>

\* DELETE /api/experiments/{id}: the handler's own status check
DeleteOne(k, j) ==
    /\ server = "up" /\ client[k] = "idle"
    /\ status[j] \in Terminal
    /\ todo' = [todo EXCEPT ![k] = {j}]
    /\ Client(k, "delete_check", NoJob, 0)
    /\ UNCHANGED <<dbVars, runnerVars, serverVars>>

\* DELETE /api/experiments: the terminal jobs of one listing
DeleteAll(k) ==
    /\ server = "up" /\ client[k] = "idle"
    /\ \E j \in Jobs : status[j] \in Terminal
    /\ todo' = [todo EXCEPT ![k] = {j \in Jobs : status[j] \in Terminal}]
    /\ Client(k, "delete_check", NoJob, 0)
    /\ UNCHANGED <<dbVars, runnerVars, serverVars>>

\* store.delete reads the row: gone is skipped, reopened ends the request
DeleteCheck(k) ==
    /\ client[k] = "delete_check"
    /\ \/ /\ todo[k] = {}
          /\ Client(k, "idle", NoJob, 0)
          /\ UNCHANGED todo
       \/ \E j \in todo[k] :
             \/ /\ NoRow(j)
                /\ todo' = [todo EXCEPT ![k] = @ \ {j}]
                /\ Client(k, "delete_check", NoJob, 0)
             \/ /\ status[j] \in Nonterminal
                /\ todo' = [todo EXCEPT ![k] = {}]
                /\ Client(k, "idle", NoJob, 0)
             \/ /\ status[j] \in Terminal
                /\ Client(k, "delete_write", j, 0)
                /\ UNCHANGED todo
    /\ UNCHANGED <<dbVars, runnerVars, serverVars>>

\* ... and deletes it in a second statement; the events go with it
DeleteWrite(k) ==
    /\ client[k] = "delete_write"
    /\ IF NoRow(at[k]) THEN UNCHANGED dbVars
       ELSE /\ status' = [status EXCEPT ![at[k]] = "deleted"]
            /\ result' = [result EXCEPT ![at[k]] = "none"]
            /\ cancelRequested' = [cancelRequested EXCEPT ![at[k]] = FALSE]
            /\ events' = [events EXCEPT ![at[k]] = 0]
    /\ todo' = [todo EXCEPT ![k] = @ \ {at[k]}]
    /\ Client(k, "delete_check", NoJob, 0)
    /\ UNCHANGED <<runnerVars, serverVars>>

\* GET .../events, from the start or from a Last-Event-ID
StreamOpen(k, j) ==
    /\ server = "up" /\ client[k] = "idle"
    /\ ~NoRow(j)
    /\ \E n \in 0..events[j] : Client(k, "stream_events", j, n)
    /\ UNCHANGED <<dbVars, runnerVars, todo, serverVars>>

Later(n, m) == IF m > n THEN m ELSE n

(* wait_for_events: new events are returned at once, otherwise the status  *)
(* is read and, if it is not terminal, the condition awaited.  A row that  *)
(* is gone ends the stream with KeyError.                                  *)
StreamEvents(k) ==
    /\ client[k] = "stream_events"
    /\ Client(k, IF NoRow(at[k]) THEN "idle"
                 ELSE IF events[at[k]] > cursor[k] THEN "stream_job" ELSE "stream_get",
              at[k], Later(cursor[k], events[at[k]]))
    /\ UNCHANGED <<dbVars, runnerVars, todo, serverVars>>

StreamGet(k) ==
    /\ client[k] = "stream_get"
    /\ Client(k, IF status[at[k]] \in Nonterminal THEN "stream_wait" ELSE "stream_job",
              at[k], cursor[k])
    /\ UNCHANGED <<dbVars, runnerVars, todo, serverVars>>

\* notified or timed out, a waiter reads the events again
StreamWait(k) ==
    /\ client[k] = "stream_wait" /\ RunnerLockFree
    /\ Client(k, IF NoRow(at[k]) THEN "idle" ELSE "stream_job",
              at[k], Later(cursor[k], events[at[k]]))
    /\ UNCHANGED <<dbVars, runnerVars, todo, serverVars>>

\* Mutant: only a deleted job ends the stream
StreamJobUntilDeleted(k) ==
    /\ client[k] = "stream_job"
    /\ Client(k, IF NoRow(at[k]) THEN "idle" ELSE "stream_events", at[k], cursor[k])
    /\ UNCHANGED <<dbVars, runnerVars, todo, serverVars>>

\* the stream ends when the job is terminal or gone
StreamJob(k) ==
    /\ client[k] = "stream_job"
    /\ Client(k, IF status[at[k]] \in Nonterminal THEN "stream_events" ELSE "idle",
              at[k], cursor[k])
    /\ UNCHANGED <<dbVars, runnerVars, todo, serverVars>>

ClientContinues(k) ==
    \/ CancelWrite(k) \/ CancelSignal(k) \/ DeleteCheck(k) \/ DeleteWrite(k)
    \/ StreamEvents(k) \/ StreamGet(k) \/ StreamWait(k) \/ StreamJob(k)

----------------------------------------------------------------------------
(* The server process.                                                     *)

\* shutdown(): cancels what is registered, job by job, under the runner lock
ShutdownBegin ==
    /\ server = "up"
    /\ active' = {j \in Jobs : registered[j]}
    /\ pending' = active'
    /\ server' = "stop_check"
    /\ UNCHANGED <<dbVars, runnerVars, clientVars, target>>

ShutdownCheck(j) ==
    /\ server = "stop_check" /\ j \in pending
    /\ IF status[j] \in Nonterminal
       THEN server' = "stop_write" /\ target' = j /\ UNCHANGED pending
       ELSE pending' = pending \ {j} /\ UNCHANGED <<server, target>>
    /\ UNCHANGED <<dbVars, runnerVars, clientVars, active>>

ShutdownWrite ==
    /\ server = "stop_write"
    /\ MarkCancelling(target)
    /\ pending' = pending \ {target}
    /\ server' = "stop_check" /\ target' = NoJob
    /\ UNCHANGED <<result, events, runnerVars, clientVars, active>>

\* Mutant: the threads are joined, without a timeout, under the condition
ShutdownJoinsInside ==
    /\ server = "stop_check" /\ pending = {}
    /\ \A j \in active : worker[j] \in {"gone", "lost"}
    /\ server' = "stopped"
    /\ UNCHANGED <<dbVars, runnerVars, clientVars, active, pending, target>>

\* The joins that follow are outside the condition.
ShutdownSignal ==
    /\ server = "stop_check" /\ pending = {}
    /\ signal' = [j \in Jobs |-> signal[j] \/ j \in active]
    /\ server' = "stopped"
    /\ UNCHANGED <<dbVars, submit, registered, worker, attempt, outcome, clientVars,
                   active, pending, target>>

\* A statement of request_cancel raises: shutdown ends without any signal.
ShutdownRaises ==
    /\ server \in {"stop_check", "stop_write"}
    /\ server' = "stopped" /\ pending' = {} /\ target' = NoJob
    /\ UNCHANGED <<dbVars, runnerVars, clientVars, active>>

(* The process ends: killed, or after shutdown's bounded joins.  Daemon    *)
(* threads and requests end with it.                                       *)
ProcessEnds ==
    /\ Running
    /\ server' = "down" /\ active' = {} /\ pending' = {}
    /\ submit' = [j \in Jobs |-> IF submit[j] = "created" THEN "done" ELSE submit[j]]
    /\ registered' = [j \in Jobs |-> FALSE]
    /\ signal' = [j \in Jobs |-> FALSE]
    /\ worker' = [j \in Jobs |-> IF worker[j] = "none" THEN "none" ELSE "gone"]
    /\ client' = [k \in Clients |-> "idle"]
    /\ todo' = [k \in Clients |-> {}]
    /\ at' = [k \in Clients |-> NoJob]
    /\ cursor' = [k \in Clients |-> 0]
    /\ attempt' = [j \in Jobs |-> 0]
    /\ outcome' = [j \in Jobs |-> "completed"]
    /\ target' = NoJob
    /\ UNCHANGED dbVars

\* Mutant: jobs that were being cancelled are left open
RestartForgetsCancelling ==
    /\ server = "down"
    /\ server' = "up"
    /\ status' = [j \in Jobs |-> IF status[j] \in {"queued", "running"}
                                  THEN "interrupted" ELSE status[j]]
    /\ UNCHANGED <<result, cancelRequested, events, runnerVars, clientVars, active,
                   pending, target>>

\* a new runner interrupts what the last process left open
Restart ==
    /\ server = "down"
    /\ server' = "up"
    /\ status' = [j \in Jobs |-> IF status[j] \in Nonterminal
                                  THEN "interrupted" ELSE status[j]]
    /\ UNCHANGED <<result, cancelRequested, events, runnerVars, clientVars, active,
                   pending, target>>

----------------------------------------------------------------------------
ShutdownStep ==
    ShutdownWrite \/ ShutdownSignal \/ \E j \in Jobs : ShutdownCheck(j)

Next ==
    \/ \E j \in Jobs : SubmitCreate(j) \/ SubmitRegister(j) \/ WorkerStep(j)
    \/ \E k \in Clients, j \in Jobs :
          CancelRead(k, j) \/ DeleteOne(k, j) \/ StreamOpen(k, j)
    \/ \E k \in Clients : DeleteAll(k) \/ ClientContinues(k)
    \/ ShutdownBegin \/ ShutdownStep \/ ShutdownRaises \/ ProcessEnds \/ Restart

Spec == Init /\ [][Next]_vars

\* What a thread waits for has a timeout, but not the guard process that an
\* attempt starts when the request names the Go guard.
Bounded(j) == worker[j] # "run"

(* Threads are scheduled, and Condition.wait and shutdown's joins have a   *)
(* timeout, so a process that shuts down also ends.  An attempt need not   *)
(* end, and nobody has to send requests, stop or restart the server.       *)
Fairness ==
    /\ \A j \in Jobs : WF_vars(SubmitRegister(j))
    /\ \A j \in Jobs : WF_vars(Bounded(j) /\ WorkerStep(j))
    /\ \A k \in Clients : WF_vars(ClientContinues(k))
    /\ WF_vars(ShutdownStep)
    /\ WF_vars(server = "stopped" /\ ProcessEnds)

FairSpec == Spec /\ Fairness

----------------------------------------------------------------------------
Working(j) ==
    worker[j] \in {"get", "transition", "loop", "run", "notify", "finally", "result"}

Streaming(k, j) ==
    at[k] = j /\ client[k] \in {"stream_events", "stream_get", "stream_wait", "stream_job"}

(* Every row an operator can see as open has someone who will close it: a  *)
(* submission about to start its thread or that thread; the exceptions are *)
(* a thread lost to a database error and a finished job reopened by a late *)
(* cancel request.                                                         *)
OpenJobHasOwner ==
    \A j \in Jobs :
        Running /\ status[j] \in Nonterminal =>
            \/ submit[j] = "created"
            \/ Working(j)
            \/ worker[j] = "lost"
            \/ result[j] # "none"

(* A row is never deleted under the thread that works on it, so no store   *)
(* call of _run_job can fail with KeyError.                                *)
NoDeleteUnderWorker == \A j \in Jobs : Working(j) => ~NoRow(j)

(* A job whose cancellation signal was set while its thread still ran      *)
(* attempts is never recorded as completed.                                *)
SignalledNeverCompletes ==
    \A j \in Jobs :
        [](signal[j] /\ worker[j] \in {"get", "transition", "loop", "run", "notify"}
              => [](result[j] # "completed"))

(* The rows only go through the statuses of the abstract lifecycle.        *)
RefinesLifecycle == Lifecycle!JobSpec

(* A started thread whose attempts end stores its result, unless the       *)
(* database failed or the process ended: a shutdown that cancels the jobs  *)
(* while it holds the condition every event of theirs needs does not wait  *)
(* for them in it.                                                         *)
WorkerEnds ==
    \A j \in Jobs :
        []<>Bounded(j)
            => (Working(j) ~> (result[j] # "none" \/ worker[j] = "lost" \/ ~Running))

(* No SSE stream stays open over a job that has become terminal for good.  *)
TerminalStreamEnds ==
    \A k \in Clients, j \in Jobs : []<>~(Streaming(k, j) /\ status[j] \in Terminal)

(* "SSE supports Last-Event-ID and terminates after a terminal job event": *)
(* once a job's thread has stored the result and ended, its streams end.   *)
(* It does not hold: a cancel request that read the row before the result  *)
(* was stored writes CANCELLING over the terminal status.                  *)
StreamTerminates ==
    \A k \in Clients, j \in Jobs :
        Streaming(k, j) /\ worker[j] = "gone" /\ result[j] # "none" ~> ~Streaming(k, j)

(* "Cancellation requests must set the runtime cancellation signal": it    *)
(* does not hold for a request that is handled between the creation of the *)
(* row and the registration of the thread.                                 *)
CancelSetsSignal ==
    \A j \in Jobs :
        /\ Working(j) /\ cancelRequested[j] /\ RunnerLockFree
        /\ \A k \in Clients : at[k] = j => client[k] # "cancel_signal"
        => signal[j]
=============================================================================
