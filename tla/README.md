# A TLA+ model of the AIOps multi-agent research framework

The repository runs fault-recovery experiments on a Kubernetes cluster: it
injects a fault with Chaos Mesh, lets several agents diagnose it, propose and
peer-review a recovery action, validates the action, executes it, watches the
recovery and removes the fault. A control plane (FastAPI, SQLite, one thread
per job) submits, cancels, streams and deletes such experiments. This directory
models the parts in which order, interleaving, failure and crashes matter,
checks them with TLC on small instances, and proves the central invariants with
TLAPS for every value of the constants.

All paths below are relative to `src/src/aiops_k8s_agents/`.

## 1. Inventory

| component | state it keeps | operations | talks to | what is hard | what makes it correct |
| --- | --- | --- | --- | --- | --- |
| target operation lock (`operation_lock.py`) | one lock file per target | `__enter__`, `_clear_stale_lock`, `__exit__` | file system, other processes and hosts | several file-system calls without a common lock; dead owners | one owner per target; no lock left by a live process |
| job store (`experiment_jobs.py`) | SQLite rows and events | create, transition, append_event, set_result, request_cancel, delete, interrupt_nonterminal_jobs | runner, HTTP handlers | read-then-update operations, restart | rows follow the lifecycle; no open row without an owner |
| job runner (`experiment_job_runner.py`) | threads, cancellation events, condition | submit, cancel, wait_for_events, shutdown, `_run_job` | store, runtime | registration after creation, signals against results, shutdown under the lock | signalled jobs do not complete; threads end |
| HTTP API (`control_plane_web.py`, `experiment_bulk_delete.py`) | one request each | cancel, delete, delete all, event stream | store, runner | decisions on a status that is stale by the time they act | nothing is deleted under its thread; streams end |
| experiment runtime (`experiment_runtime.py`) | locals of `run()` | validate, lock, preflight, inject, reason, report, clean up, unlock | lock, Chaos Mesh, coordinator, event sink | exceptions, deadline and cancellation between stages; a sink that raises; crash with a fault injected | one run per target; every fault accounted for; honest status |
| Chaos Mesh adapter (`chaos_adapter.py`) | resources in the cluster | preflight, inject, cleanup | kubectl | a timed-out command that took effect | as above |
| coordinator (`mutual_supervision.py`) with consensus, validator, executor, monitor | evidence, candidates, negotiation, report | diagnose, propose, negotiate, validate, lock, execute, observe, replan | agent adapters, kubectl | arbitrary answers and revisions, retries after partial effects, others changing the deployment | only reviewed, valid actions are executed; bounded; verdict honest; it ends |
| comparison and AIOpsLab jobs (`recovery_comparison_jobs.py`, `recovery_comparison_runner.py`, `aiopslab_jobs.py`, `aiopslab_job_runner.py`, `aiopslab_benchmark.py`) | rows, threads, one child process per benchmark repetition | like experiment jobs | store, subprocess | the same gaps, other orders; a child that outlives its deadline | the job lifecycle; no result while the child runs; threads end |
| recovery experiments (`recovery_runner.py`) | records, the deployment, chaos resources | reset, inject, wait, act, measure, reset | kubectl, Prometheus | no lock; a failing reset; matrices that overlap | a fault left behind is on record; a measurement is the treatment's own effect |
| agents, AutoGen chat, earlier controllers (`agent_adapters.py`, `autogen_groupchat.py`, `autonomous.py`, `coordinator.py`) | the chat session's cache | diagnose, propose, review, post-review, run | coordinator, language model | one reply serves every round; mixed panels; replies outside the vocabulary | vetoes count, the budget holds, revisions settle |
| partition plan repository (`partition_repository.py`) | directories with transaction and commit markers | save, get, recover | file system | crash between renames; lineage checked before publication | a reader sees a whole plan or none; lineage has no gaps |
| model partition agent, coordination (`model_partition_agent.py`, `partition_validator.py`, `partition_service.py`, `partition_coordination.py` ...) | the saved reports | admit, plan, validate, save, feed back, replan | plan repository, ranker | agent and validator compute apart; feedback of two callers; narrower contract of the store | agent and validator agree; exclusions last; replans are bounded |
| ranking and learning (`partition_learning.py`, `partition_ranking.py`, `partition_ranker_repository.py`) | dataset files, registered models | build, train, register, evaluate, select | plan artifacts | files replaced under a reader; guards that differ | evaluation on unseen groups; only trusted models choose |
| control plane process, port-forward (`control_plane_process.py`, `prometheus_port_forward.py`) | pid file, listener, subprocess | start, restart, stop, ensure_running | operating system | stale and reused pids, two starters, a second server | signals only servers; interrupts only dead jobs; no orphaned tunnel |
| evidence, statistics, full-stack scripts, CLI, UI, Go guard | none worth a state machine | I/O, arithmetic, presentation | | | see section 8 |

`PROJECT.json` lists every component with its files and status, and the hazards
with the lines where they bite.

## 2. Modules

| module | models | constants |
| --- | --- | --- |
| `OperationLock` | the lock file: every file-system call of `__enter__`, `_clear_stale_lock` and `__exit__` is an action; processes crash, files expire, calls raise | contenders, processes, hosts |
| `JobLifecycle` | abstract: the statuses a job row goes through | jobs |
| `ExperimentJobs` | store, runner, requests, server process; one SQL statement is one step | jobs, requests, repetitions, events |
| `ExperimentRuntime` | `ExperimentRuntime.run` and the Chaos Mesh adapter, several runs on one target | runs, processes, scenarios |
| `MutualSupervision` | one `MutualSupervisionCoordinator.run` with consensus, validator, executor and monitor | reviewers, weights, veto scopes, actions, rounds, replans, looks, replica bounds |
| `PlanStore` | abstract: plans that appear at once, each after its parent, and stay | |
| `PartitionRepository` | `PartitionPlanRepository`: save, get and the recovery both begin with; one file-system change is one step; I/O errors and crashes | plans with version and parent, saves, readers, which plans they are about |
| `AgentConsultation` | the answers of the four agents, deterministic or out of one AutoGen chat, and the four controllers that consult them | panels, cases, replies of the language model, policies, bounds |
| `BenchmarkJobs` | AIOpsLab and recovery comparison jobs: stores, runners, child process, requests, server process | benchmarks, comparisons, requests, repetitions |
| `RecoveryTreatments` | the treatment matrix of a recovery experiment; one kubectl call is one step | runs, scenarios, actions, replicas |
| `PortForward` | the manager of the Prometheus tunnel and its kubectl child | servers, threads, tunnels |
| `ControlPlaneProcess` | EXTENDS `PortForward`: the commands, pid files, pids and the life of a server | pids, commands |
| `PartitionCandidates` | operators: what agent and validator compute of a request and a candidate, before and after rounding | policy, last place kept |
| `PartitionIntake` | EXTENDS it: the three forms of a submission and how each becomes a request | supported modes, context file |
| `CandidateSelection` | operators: when a learned ranker may choose | `NoModel` |
| `PartitionPlanning` | EXTENDS both: callers that plan, save, feed back and replan over the store | callers, submissions, registry, replans |
| `PartitionRankers` | EXTENDS `CandidateSelection`: processes that build datasets, train, register, evaluate and select | plans, features, rewards, guards |
| `ExperimentRuntime_proofs`, `MutualSupervision_proofs`, `AgentConsultation_proofs`, `ControlPlaneProcess_proofs`, `PartitionRepository_proofs` | theorems about the module of that name | |
| `JobsAndLock_proofs` | theorems about `ExperimentJobs` and `OperationLock` | |
| `ComparisonJobs_proofs` | theorems about `BenchmarkJobs` and `RecoveryTreatments` | |
| `Partitioning_proofs` | theorems about `PartitionRankers` and `PartitionPlanning`, with the operator modules they use | |
| `MC*` | values of the constants for TLC | |

How they fit together: a job's thread (`ExperimentJobs`) calls the runtime
(`ExperimentRuntime`), of which it keeps only the mapped verdict; the runtime
takes the target's lock, which it sees as the abstract lock that
`OperationLock` provides while clearers do not overlap, and calls the
coordinator (`MutualSupervision`), of which it keeps only verdict or exception;
the coordinator either takes the lock itself or is told that the runtime holds
it (`cfg.external`). `MutualSupervision` lets agents answer anything;
`AgentConsultation` replaces that freedom by what the shipped agents answer and
checks what only they guarantee. A real comparison job (`BenchmarkJobs`) runs a
matrix of `RecoveryTreatments`, of which it keeps the end of each treatment. A
server of `ControlPlaneProcess` owns a `PortForward` manager and, as one
abstract job, the rows of the job modules: its start is their `Restart`.
`PartitionRepository` implements an abstract store, `PlanStore`, by the plans
that a `get` would show, with its histories `clash` and `raced`: a plan appears
in one step. `PartitionPlanning` relies on that and takes a save as two steps,
the lineage check (`CheckSave`) and the publication (`PublishPlan`), which no
lock joins; two saves of successors of one plan can overlap there as they can in
the repository. Its saved reports are the plans of `PartitionRankers`,
and both use the same `CandidateSelection`. `ExperimentJobs` and `BenchmarkJobs`
implement one abstract lifecycle, `JobLifecycle`, by the refinement mapping
`Jobs <- Jobs, status <- status, result <- result`.

Correspondence of state:

- `OperationLock.file` is the inode the path names, by its creator, with
  whether the payload has been written and whether it is older than
  `stale_after_seconds`; `seen` is `owner_token`; `pc` the next system call;
  `unremoved` (the contenders that an I/O error let leave their file) is a
  history variable.
- `ExperimentJobs.status/result/cancelRequested/events` are the columns and
  event rows; `registered/signal` are `_threads` and `_cancellations`;
  `worker/attempt/outcome` the locals of `_run_job`; `client/at/todo/cursor`
  the locals of a handler; `server/active/pending/target` those of `shutdown`.
- `ExperimentRuntime.status/applied/cleanupError` are `primary_status`,
  `application is not None` and `report["cleanup_error"]`; `faults` is the
  cluster. `cleanedUp` is a history variable.
- `MutualSupervision.desired` is the cluster, `evidence` the snapshot,
  `candidates/attempt/round/action/last` the loops of `run` and `_negotiate`;
  `monitor` is what the recovery monitor has seen: its looks, the replicas at the
  last one, the assessment, and (history) whether others scaled since.
  `mutations` and `late` are history variables.
- `PartitionRepository.fs` maps each plan directory, staging area and backup to
  its files and the save that wrote them; `marker` is the transaction marker
  with `had_previous_directory` and `temporary` its temporary file; `look/todo/back` are the locals of
  `_recover_incomplete_transactions`. `clash` (two callers have worked on one
  path at once), `raced` (two children of one plan were published at once) and
  `alone` are history variables.

- `AgentConsultation.panel/case` are what a controller was built from and the
  evidence it found; `session` is the cache of `AutoGenAgentSession`; `minutes`
  are the reviews of the current round; `executed` (with the verdicts at the
  time) and `heard` are history variables.
- `BenchmarkJobs.status/result/cancelRequested` are the columns of both tables,
  `registered/signal` the runners' dictionaries, `worker/round/outcome` the
  locals of `_run_job`, `child` the `Popen` of the repetition.
- `RecoveryTreatments.index` is the position in the matrix, `pc` the next
  kubectl call, `rec` the record under construction, `replicas/chaos` the
  cluster; `shared`, `unclean` are history variables.
- `ControlPlaneProcess.proc/port/pidFile` are the operating system's view, `cmd`
  the locals of the commands; `PortForward.handle` is `_process` of each
  manager. `disturbed`, `killed`, `reused` and `contended` are history variables.
- `PlanStore.visible` is what a `get` of each plan id would find.
- `PartitionPlanning.store` is the sequence of committed reports, each with its
  parent; `call` is the report a caller holds between planning and saving,
  `checked` the callers whose save is past the lineage check. `overlapped` (the
  plans that got a successor while the save of another was past that check) is a
  history variable.
- `PartitionRankers` keeps the two files of each dataset, their shared temporary
  files, the registry, and the locals of each process.

Definitions named as mutants in a comment are not part of any specification:
each is a plausible slip in the code, and each property is violated when its
mutant takes the place of the definition it follows.

## 3. Runs

Each run passes. The last column says when the code does
not give the plain promise; section 5 has the disagreements this leaves.

| run | what it shows | conditions under which it holds |
| --- | --- | --- |
| `operation_lock` | the lock excludes, does not leak from a live process, and its holder's file stays | `MutexUnlessClearersOverlap`, `HolderKeepsFile`: unless two clearers of a stale file overlap; `NoLeakedLock`: unless reading or removing its own file raises |
| `experiment_jobs` | open rows have owners, nothing is deleted under its thread, rows follow `JobLifecycle` | |
| `experiment_jobs_live` | signalled jobs never complete, threads end, streams of jobs that stay terminal end | fair scheduling; `WorkerEnds`: for threads whose attempts end |
| `experiment_runtime` | faults are accounted for, the status is honest, the lock is released | `FaultAccountedFor` counts an exception that left `run()`; fair scheduling for `LockReleased` |
| `mutual_supervision` | only reviewed and valid actions run, boundedly often, a recovery is reported only after a look at the cluster that showed it, the run ends, for arbitrary agents | fair scheduling for `Terminates`; `RecoveredMeansVerified`: others may scale after that look |
| `agent_consultation` | with the shipped agents a veto is not overruled, the cost budget is kept, revisions settle before the rounds run out | `VetoHeard`: panels the runtime factory builds; `BudgetKept`: except where the weighted majority outvotes the cost agent |
| `benchmark_jobs` | no result is stored while the child process runs, both tables follow `JobLifecycle`, a started job ends even if its child does not | `StartedJobEnds`: fair scheduling and a clock; a comparison ends if its treatments do; no database error, and a report directory that can be created |
| `recovery_treatments` | a fault left in the cluster is on record, a valid measurement is the treatment's own effect | `MeasuredOwnEffect`: while no two matrices overlap |
| `control_plane_process` | commands signal servers only, a server that starts interrupts no live job, every tunnel has a manager | no pid reused between look and signal; commands one after the other; no kill and no two threads in `start` |
| `partition_repository` | visible plans are whole and have one child; the store implements `PlanStore` (plans stay visible and come after their parent); a recovery alone leaves no marker, staging area or backup of an unfinished save | while no two callers work on one path at once; `OneChild`: and no two children of one plan are published at once |
| `partition_planning` | agent and validator agree, a blocked plan is infeasible, exclusions last, replans are bounded, and a saved plan fits its devices | `AgentAgreesWithValidator`: but for the service levels of inference, a device lost from a federated plan, and, like `BlockedMeansInfeasible`, a latency that rounding moves to the other side of the limit; one successor per plan in `ReplansBounded`: unless two saves of successors overlap |
| `partition_rankers` | a model is judged on groups its fit has not seen, only an eligible model chooses, with less than the policy's share of the features outside the rows it was fitted on | eligibility: unless the policy asks for no confidence |

The type invariant of each state module (`TypeOK`; `LockTypeOK`,
`TreatmentsTypeOK` and `PlanningTypeOK` in the modules that share a proof module
with another one, whose `Init`, `Next`, `Spec` and `vars` are renamed alike) is
not among the listed properties, which are kept for what could go wrong; it holds
in these instances and is a theorem where section 4 says so. Some modules define more properties
than a run lists (`MutexWithoutCrash`, `OneRunPerTarget`, `ReturnedReleasedLock`,
`MutationNeverSilent`, `SavedStaysVisible`, `VisibleOnlyGrows`, `LineageClosed`,
`OneChatPerRun`, and
`SignalledNeverCompletes` of `BenchmarkJobs`): they hold as well, adding one
to the cfg of its run checks it, and section 4 proves every one of them.

`JobLifecycle` is written to be what the store really provides, so it contains
`JobReopen`: the step by which a late cancel request reopens a finished job.
Everything else about it is a promise: results are stored once and only for a
started job, only a job with a result or an interrupted one disappears, and a
restart settles exactly the open ones.

### Bounds

- Lock: four contenders in three processes on two hosts. The overlap of two
  clearers needs a dead owner and two others; the fourth arrives in between. Two of them differ in nothing but
  their token (symmetry).
- Jobs: two jobs with one request for safety (bulk deletion and shutdown meet
  jobs in different states); one job with two repetitions and two requests for
  liveness (a cancel crossing a stream or a result). `MaxEvents` = 1: a stream
  is behind or it is not.
- Runtime: two runs in two processes with different scenarios; each run is
  nondeterministically of any kind.
- Coordinator: two reviewers with different veto scopes, at most three
  proposals of seven actions (targets at the observed replicas, between, at and
  above the bound, and one for another deployment), two rounds, one replan, the
  deployment starting with two replicas and others scaling it to two at any
  moment; two looks of the monitor (`MaxLooks`, at most 12 by default in the
  code), so that a first look may miss what a second one sees.
- Consultation: every mixture of deterministic and AutoGen agents under every
  strategy, and the other controllers; fifteen or so cases of evidence around
  the warning and critical thresholds, with one to five replicas; thirteen
  replies of the language model, among them rejected, incomplete and unsafe
  ones; two rounds, one replan, two runs of one controller (the second must not
  hear the first one's chat).
- Benchmark jobs: one job of each kind with a repetition each and one request;
  the two share the process, its shutdown and its restart.
- Treatments: two matrices of two scenarios and two actions, one repetition.
  A second treatment after a failed one is where a left-over can be mistaken.
- Control plane: two pids, two commands that may overlap, two tunnels, the
  lifespan and two requests of each server. Two pids suffice for a second server
  and for a pid that another program takes over.
- Planning: two callers, one root, two replans: a third feedback must be
  refused. Feedback names one device and one link, and once two saves have
  overlapped at most four plans are saved or under way (`MaxForked`). Results
  are recorded in multiples of four (`Grain`), and two requests have a latency
  that rounding carries over the limit, one in each direction. The submissions
  are listed in `MCPartitionPlanning`: each kind at and over a bound, the
  malformed ones one per check.
- Rankers: seven plans, of which three must not become observed rows; two
  processes on one dataset name and one version, the sharpest contention there
  is; six features, of which the policy tolerates one, but not two, outside the
  fitted ranges.
- Repository: a root plan, published before or not, and two plans that replace
  it, one over a legacy directory; two saves (root twice, legacy child twice,
  root and child, both children) and one reader that calls any number of times.
  One transaction can thus be recovered by a save of the same plan, by a save
  of another and by a reader, alone or together. `Worthwhile` leaves states
  after a clash unexplored where two different plans are saved: every property
  except the type invariant is conditional on there having been no clash.

Deadlock is not checked where the modelled calls end for good (lock, runtime,
coordinators, treatments, commands, planning with a bounded store); it is
checked for the jobs, whose server restarts, for the repository, whose reader may always come back, and for the rankers.

### Fairness

`ExperimentJobs`: threads are scheduled, `Condition.wait` and `join` have
timeouts, hence weak fairness for a thread, a request in progress and a shutdown
in progress. No fairness for requests, crashes or restarts, and none for the end
of an attempt: the executor starts the Go guard without a timeout
(`executor.py:58`), so `WorkerEnds` is about threads whose attempts end
(`Bounded`). `ExperimentRuntime`: every kubectl call has a timeout and the
coordinator returns, hence weak fairness for each run's next step.
`MutualSupervision`: adapters, kubectl, the evidence provider and the Go guard
return, hence weak fairness for the coordinator's thread; none for cancellation
or outside scaling. These two runs thus assume of the guard process what its code
does, validate and end. `BenchmarkJobs`: as `ExperimentJobs`, and weak fairness
for a child's deadline, since `execute` polls a monotonic clock; none for the end
of a child or of a comparison's treatment, for cancellation, shutdown or restart. The other modules state safety only.

### Assumptions worth knowing

- Process identifiers are not reused while a lock file naming them exists.
- A lock is not held for an hour: `config/experiment_runtime.json` gives a run
  300 seconds. A lock held longer by a process on another host would be taken
  over by `expired_unknown_owner`.
- The runtime sees the abstract lock; it can be doubly owned where
  `OperationLock` says so.
- The partition modules compute in integers. Where the code records a float
  rounded to six places, they record a multiple of `Grain`, half to even, and
  keep what the code compares before and after that apart. The features of a
  ranker are integers, and a fit may predict anything for the rows held out.
- A pid is taken over by another program only after its process has ended.
- A plan id is a fresh uuid4: two saves of one plan never run at once, and a
  retry comes after the call that failed.
- Removing a directory succeeds (`rmtree` ignores errors); what has been written
  survives a crash, in order, as the `fsync` calls ask for.
- A file is written in one step: `_write_json` that stops half-way is a step
  that fails, and in a staging area no reader looks.
- A failing SQLite statement has no effect; statements are atomic.

## 4. Proofs

Every invariant and every action property that a run checks is a theorem, and so
are the refinements of `JobLifecycle` by both job modules and of `PlanStore` by
the repository. What is left to TLC
alone is listed at the end of this section.

`JobsAndLock_proofs` proves of `OperationLock`, for any set of contenders, processes and hosts,
the type invariant, `MutexUnlessClearersOverlap`, `MutexWithoutCrash`,
`NoLeakedLock` (a live process leaves its file only where an I/O error kept it
from removing it) and the action property `HolderKeepsFile`, from
`LockAssumption` (every contender runs in a process; `NoOne` is not a
contender). None of them is inductive alone. `LockInv` adds:

- `FileShape`: a missing file has no payload, no age;
- `HeldIsWritten`: the file of a holder carries its token, so a second read
  recognises it;
- `OldIsDead`: a file that expired belongs to nobody who still uses it;
- `Exclusive`: without overlap, a contender that created a file is the creator
  of the one on disk, and a contender about to unlink still faces the file it
  judged;
- `NobodyClears`: while all processes live, no contender reaches the verdict.

It proves of `ExperimentJobs`, for any set of jobs and requests,
`OpenJobHasOwner`, `NoDeleteUnderWorker`, `SignalledNeverCompletes` and that the
store implements `JobLifecycle`. The handlers decide on a status read by an
earlier statement, so `JobsInv` has to say what such a decision is still worth
when it is carried out: a thread works on an open row without a result
(`ThreadOwnsRow`), nobody but a cancel request touches a row before its thread is
registered (`SubmissionShape`), a row about to be marked as cancelling was not
closed by a restart in between (`WriterReadOpenRow`; `OpenJobHasOwner` alone
would let a late request reopen it for ever), a row about to be deleted stays
without a thread (`DeleterReadClosedRow`), and requests end with the process.

`ExperimentRuntime_proofs` proves, for any set of runs and processes, the type
invariant, `OneRunPerTarget`, `FaultAccountedFor`, `StatusHonest` and
`ReturnedReleasedLock`. `RuntimeInv` adds that only chaos runs inject
(`ChaosInjects`), that a real run between entering and unlocking owns the lock
(`OwnsLock`), that a fault in the cluster has a run answering for it
(`FaultAnswered`) and that a run past cleanup has removed its fault or says so
(`CleanupTried`).

`ComparisonJobs_proofs` proves of `BenchmarkJobs` `ResultMeansNoChild`, `SignalledNeverCompletes`
and the same refinement for both tables. `BenchmarkInv` adds to the facts about
rows that a child is watched by its thread, or orphaned with its process and then
without a result ever after (`ChildIsWatched`). The refinement showed that one
statement of a bulk deletion removes several rows, which is why `JobDelete` of
`JobLifecycle` takes a set of jobs.

It proves of `RecoveryTreatments`, for any number of concurrent matrices over
any scenarios and actions, `InjectedFaultAccountedFor` and `MeasuredOwnEffect`.
The first needs only that a record claims its cleanup in the step "record" at the
earliest (`CleanupIsLast`). The second follows the replicas and the faults
through a treatment (`ReplicasFollowPc`, `AloneOrTold`, `DeltaOfAction`) and
uses the first where the fault is injected: whatever else is in the cluster then
is somebody's to answer for. Assumed are that the matrix is a non-empty sequence
of known scenarios and actions (`TreatmentsAssumption`).

`MutualSupervision_proofs` proves, for any reviewers, weights, veto scopes,
protocol and bounds, `DispatchedAsReviewed`, `MutationsBounded`,
`RecoveredMeansVerified`, `MutationNeverSilent` and the action property
`MutationSanctioned`. `SupervisionInv` adds that what is past the checks still
satisfies them and works under the lock (`CheckedUnderLock`), that an attempt
has its budget until its command (`BudgetLeft`; `MutationsBounded` alone would
let every step of an attempt spend it), and that an accepted real command has
changed the cluster (`AcceptedMeansChanged`). `RecoveredMeansVerified` spans
four steps of the run, the command, the last look, its assessment and the reviews,
between which others may scale the deployment; `LookStands` says what the look is
still worth in between: the deployment is as it was seen, or somebody else has
scaled it, and what was judged a success did show one. The type invariant, with the bounds
on attempts and rounds that it states, needs that what is in hand is an action
(`WithinAttempts`): a revision is one, whoever suggests it (`RevisionTyped`, on the
least element of a set of naturals), and so is a sound proposal (`SoundOnesKept`).
Both together bound the changes of a run by `max_replan_attempts` + 1
(`ChangesTheorem`).

`PartitionRepository_proofs` proves, for any plans, versions and parents, any
number of saves and readers, I/O errors and crashes at any step, all the
properties of its run (`VisibleIsWhole`, `OneChild`, `RecoveryIsComplete`,
`RefinesStore`), with the type invariant, `SavedStaysVisible`, `LineageClosed` and
the action property `VisibleOnlyGrows`. Each is inductive only with nearly all of
`StoreInv`, which holds its facts while no two callers have worked on one path
at once (`clash \/ Facts`):

- `MarkerFacts`: while a transaction is marked and its plan not committed, the
  directory that was there before is whole in one of two places;
- `SettledFacts`: a plan without a marked transaction is committed or what it
  was before the store published it;
- `CommitFacts`: a committed plan is whole, and no staging area holds a commit
  marker;
- `OneCallPerPlan`, `MarkedLate`, `OwnPlanRecovered`, `OneMarkerPerPlan`: a save
  first comes by every marked transaction of its own plan, so it never marks a
  second one;
- `CallerFacts`: what a position in a save or a recovery says of the paths in
  hand (which files are staged, that a directory about to be removed is not
  committed and its original is in the backup);
- `ParentFacts`, `SiblingFacts`: what the lineage check established still holds
  when the commit marker is written;
- `AloneFacts`: a recovery that nobody runs beside has every remaining marker,
  and then every staging area, on its list.

The proof follows `_recover_transaction` and `_publish_plan_directory` the way a
reviewer would. `Frame` shows that a step changes only the paths its caller
touches, and `OthersUndisturbed` that hence nobody else's facts change;
`CommittedStays` and `NewlyCommitted` say when a plan becomes visible and that it
stays; then each fact has one lemma with a step per action. The refinement of
`PlanStore` comes last (`ShownStep`): a step that makes a plan visible makes one
visible, of the version after its parent's, which is still there, and unless there
was a race before any sibling (`OnePublished`); every other step, a rollback or a
crash included, is hidden. `StoreAssumption`
asks of the constants that plans have a version of at least 1 and a parent or
none, and that the plans already published have no two children of one parent;
`NoDirAssumption` only that the value for "no directory" is not a directory.

`AgentConsultation_proofs` proves, for any panels, cases of evidence, replies of
the language model, policies and bounds, `VetoHeard`, `BudgetKept`,
`RevisionSettles`, `OneChatPerRun` and the type invariant. What the shipped
agents answer is decided by pure operators; what the proof has to carry along is
how long those answers stay true. `ConsultationInv` adds:

- `ChatKept`: the chat a supervised run has heard is the one its session answers
  with, and it is usable; without it a second call could hear another reply;
- `DiagnosisApproved`: nothing is dispatched before a diagnosis asks for it, and
  an AutoGen diagnosis rests on the chat that the AutoGen reviewers also hear;
- `CandidatesKept`: the candidates left act on the run's own deployment and,
  with the attempts spent, are as many as the bound allows;
- `ActionsHeeded`: what `VetoHeard` and `BudgetKept` say of the executed actions
  already holds of the one about to be dispatched, with the verdicts on it;
- `ControllerKept`, `RecoveryKept`: a run follows the controller that was
  launched, and a recovery is the last candidate's;
- `RevisionKept`: in a second round the cost agent accepts what it has asked for.

`RevisionTheorem` has the hypothesis `MaxRounds >= 2`: the protocol accepts one
round (`mutual_supervision_policy.py:44`), in which a revision is never tried;
the default profile must have two (`research_protocol.py:530`), and so have all
shipped configurations.

`ControlPlaneProcess_proofs` proves, for any number of process ids, overlapping
commands, requests and kubectl children, `LiveJobNotInterrupted`,
`TunnelHasOwner`, `SignalsOnlyServers` and the type invariant. `ProcessInv` adds
that the owner of a job has served and not ended (`OwnerServes`), what a command
about to signal has seen (`SeenServer`), that while commands come one after the
other any server is the one in the command's hand and holds the port unless it was
just launched (`OneServer`), and that unless two threads were in `start` at once
the thread about to start a child is alone there and its manager has none that
runs (`LoneStart`, `HandleStarted`). The first two properties need those parts
together: a start interrupts open jobs only when no server is left, which is what
the command has made sure of before it launched.

`Partitioning_proofs` proves of `PartitionRankers`, for any finite set of plans
with integer features, any roots, datasets, versions and processes,
`JudgedOnUnseenGroups`, `LearnedChoiceTrusted` and the type invariant. Files are
replaced under their readers, so `RankerInv` says what holds whoever wrote them last: rows and
manifests come from some build (`FilesCollected`), a process holds a collection
or an artifact as training makes it (`StepsKnown`), and so does the registry
(`RegistryTrained`). That training makes a proper holdout, for every collection
with two groups, is the lemma `HoldoutProper`.

It proves of `PartitionPlanning`, for any submissions, callers, registry,
policy and context, all five properties of its run and the type invariant:

- `ExclusionsHold` and `ReplansBounded` concern the chain of reports.
  `PlanningInv` says that every saved report descends from its parent with the
  parent's exclusions merged into its own and one more replan (`Descends`), hence
  that all directives of a lineage are still in force (`ExclusionsKept`) and that
  a version counts its ancestors (`VersionsKept`); the same holds of the report a
  caller has in hand (`InFlight`), whose parent may have got a child since. That
  a plan is replaced once needs `ReplacedOnce` besides: what a checked save relied
  on still holds, or its plan is among the overlapped.
- `SavedRespectsDevices`, `AgentAgreesWithValidator` and `BlockedMeansInfeasible`
  concern what is computed of a request, and need of each report that it was made
  so (`Made`): its source is a submission that was read and admitted
  (`Plannable`), its candidate is one that the agent finds valid for what remains
  of the request (`Chosen`), and the first report of a lineage was blocked only
  with every candidate invalid (`BlockedFirst`).

The lemmas under them follow the code from the reading of a submission to the
validator's last check. `PlannableTyped` and `NormalizeTyped` say what a request
is once it was read; `BaselineValid` that the ranker's order on candidates is
total and transitive on integer scores and finite splits, so that a valid
candidate exists whenever the choice is not empty; `SlicesCover` that the slices
of a split are the model's layers, without gap and overlap; `GraphEndsOf` which
edges the agent's graph has, `EndsLinked` and `LinksFound` that each runs over a
link of the request, and `HeightRises` and `NoCycle` that the graph has no cycle;
`RealizedErrors` sums up that the validator finds no fault but the service
levels, lost devices and borderline latencies that the property names. That a
limit judged before and after rounding gives one verdict unless it is within half
a last place is `RoundedJudged`, from `RoundedNear` on the rounding itself. Sums over finite functions and
flattened lists, which the community modules define by recursion, are related to
their arguments by a witness function on all subsets (`SumsExist`,
`FlattenedExists`) and the well-foundedness of finite sets.

Assumed of the constants is what the code reads: strategy weights are fractions
that sum to one (`WeightAssumption`, `partition_strategies.py:504`), reference
values are positive (`PolicyAssumption`, `model_partition_agent.py:113`), the
numbers of a record that was read whole are finite and at or above a minimum that
is never negative, and lists are finite (`SubmissionAssumption`,
`ContextAssumption`, the `from_dict` methods). A record that is not whole may hold
anything.

Each invariance proof has one step per action. TLC checked the same formulas
before they were proved, the invariants of the plan store and of the treatments
on 1.4 million and 814,762 states.

Only model-checked are `LockReleased`, `WorkerEnds`, `TerminalStreamEnds`,
`Terminates` and `StartedJobEnds`: liveness rests on fairness and ENABLED, which the
proof system does not reach.

## 5. What the checks say about the code

The components keep their promises in every interleaving of these instances,
under the conditions of the table in section 3. Where a document, comment or
test promises more, the module states that promise as a property that no run
lists; naming it in the cfg of its run makes TLC print the counterexample.

| property (module) | what the code does | what promises otherwise |
| --- | --- | --- |
| `MutualExclusion` (`OperationLock`) | two processes that judged the same dead owner's file stale both pass the token comparison; the second unlinks the file the first has just created, and both own the target (`operation_lock.py:130`) | `operation_lock.py:15`, "Raised when another real recovery owns the same Kubernetes target."; `test_target_operation_lock_rejects_second_real_controller` |
| `StreamTerminates` (`ExperimentJobs`, FairSpec) | `request_cancel` reads the status and updates the row in a later statement, so a late cancel turns a terminal job back to CANCELLING and its streams go on (`experiment_jobs.py:261`) | persistent-job plan :67, "terminates after a terminal job event" |
| `CancelSetsSignal` (`ExperimentJobs`) | a cancel between the creation of the row and the registration of the thread sets no signal (`experiment_job_runner.py:63`) | persistent-job plan :16, "Cancellation requests must set the runtime cancellation signal" |
| `CleanupAlwaysApplied` (`ExperimentRuntime`) | the CLEANUP event is emitted before the `try` around the cleanup: a sink that raises there leaves fault and lock behind (`experiment_runtime.py:435`) | core-runtime plan :970, "real mode always applies cleanup and operation locking." |
| `ReplanSeesFreshEvidence` (`MutualSupervision`) | later candidates are negotiated on the evidence collected before the first attempt (`mutual_supervision.py:364`) | mutual-supervision design :218, evidence is collected again after a failure |
| `AtomicPersistence` (`PartitionRepository`) | every `get` and `save` first removes what looks unfinished, also under a save that is still running, which then commits a plan without the files it had staged (`partition_repository.py:609`) | orchestrator-v2 plan :34, "atomic versioned plan and feedback persistence." |
| `PlannedIsSaved` (`PartitionPlanning`) | validated V2 plans are refused by the store's narrower contract: star links of federated plans, repeated participants, no latency limit (`partition_repository.py:378`) | orchestrator-v2 design :86 |
| `ReadyOnlyIfValidated` (`PartitionPlanning`) | a V2 inference plan that the validator rejects is handed over as ready in a report whose status is blocked | orchestrator-v2 design :376 |
| `NoJobOnBothSides` (`PartitionRankers`) | the group of a row is the conjunction of its keys, so one job can be on both sides of the split (`partition_learning.py:317`) | learned-ranker design :282 |

The documents are the plans and designs under `src/docs/superpowers/` of
2026-08-03, 2026-07-24 and 2026-08-20 and the learned-partition-ranker design.

Conditions rather than disagreements: a weighted majority may outvote the cost
agent and scale beyond its budget, after which the cost agent's post-review keeps
the run from counting as recovered; a panel with a deterministic HA agent and
AutoGen reviewers, which only a caller's own composition can build, loses those
reviewers to abstention; two children of one plan can both be accepted when two
saves overlap (`OneChild` without `raced`, `ReplansBounded` without
`overlapped`); agent and validator may disagree on a latency that differs from the
limit by less than half of the sixth place, because the agent compares it before
rounding (`model_partition_agent.py:702`) and the validator after
(`partition_validator.py:283`), so that a feasible plan is blocked or an
infeasible one proposed; a learned ranker may choose a candidate of whose features
nearly a fifth lie outside its data, and under a policy with
`minimum_selection_confidence` 0.0 a model that training found ineligible may
choose (`partition_ranking.py:392`, `:59`).

Seen while modelling, and without an interleaving to check: the runtime accepts
only a mapping from `chaos.cleanup`, the real adapter returns a dataclass
(`chaos_adapter.py:221`), so every successful cleanup is reported as
`cleanup_error` with human review required. The model keeps that behaviour.

Others of the kind: the AIMCMP pipeline and the AutoGen group chat know no
current replica count, so a "scale out" of theirs may shrink the deployment
(`coordinator.py:45`, `autogen_groupchat.py:262`); an attempt that ends
INTERRUPTED by its deadline leaves its job COMPLETED
(`experiment_job_runner.py:158`); a safe-stopped report of a later attempt does
not list what an earlier attempt executed (`mutual_supervision.py:564`); feedback
on a federated plan yields the same placement again, and a training plan is not
kept from a reverse link that failed; the exclusions of a replan that was blocked
are forgotten because blocked reports are not saved; registering a ranker under
an existing version replaces it silently; a release that cannot read its own lock
file leaves the target locked although its process lives (`operation_lock.py:90`);
the AIOpsLab runner creates its report directory outside its `try`, so an error
there ends the thread and leaves the row RUNNING until a restart
(`aiopslab_job_runner.py:134`); a Go guard that hangs holds its job's thread for
ever (`executor.py:58`); a crash between the two steps of a transaction marker
leaves its temporary file in the repository for good
(`partition_repository.py:690`). The models keep each of them.

## 6. Plan

Modelled and checked as planned: the repository, the rankers, planning, the
comparison and AIOpsLab jobs, the treatments, the control plane process, and the
agents with their AutoGen chat. Proved: every invariant and action property of
the runs, the type invariant of every component, and the refinements of both abstract
specifications. Left are the rest of the research protocol and of evidence
collection, of which only what the coordinator reads of them is modelled.

## 7. Reproducing

In this directory: `tlc -workers 2 -config <cfg> <module>` with the names of a run in
`PROJECT.json`, `tlapm <module>_proofs.tla` for each of the eight proof modules.

## 8. Not modelled, and why

- Evidence queries and their parsing, the metrics in the monitor's samples,
  artifact downloads, status pages: I/O without state of their own.
- The regression of the ranker, how a feature is computed, the statistics over
  recovery records and the rewards of a report: floating-point arithmetic.
- What the language model, the AIOpsLab benchmark and the cluster do: free
  choices of the environment.
- Full-stack experiments: sequential scripts over external stacks.
- Loading and validating configuration and protocol files; report assembly.
- Contents of plans, sidecars and signed manifests in the plan store, which only
  checks and copies them.
- CLI, UI, operator scripts and the Go guard (stateless); artifact files removed
  next to a job row.
