-------------------------- MODULE MutualSupervision --------------------------
(***************************************************************************)
(* One run of MutualSupervisionCoordinator (mutual_supervision.py) with    *)
(* the ConsensusResolver (consensus.py), the CommandValidator              *)
(* (validator.py), the KubernetesExecutor (executor.py) and the            *)
(* KubernetesRecoveryMonitor (recovery_monitor.py) it drives.              *)
(*                                                                         *)
(* The coordinator is one thread.  What surrounds it is not under its      *)
(* control: the agent adapters answer anything that their output checks    *)
(* let through, or raise; kubectl succeeds, fails, or times out after the  *)
(* API server has applied the change; somebody else scales the deployment; *)
(* the cancellation event or the deadline strikes between any two steps.   *)
(***************************************************************************)
EXTENDS Naturals, Sequences, FiniteSets, SequencesExt

CONSTANTS
  Agents,        \* number of enabled reviewers, named by their binding order
  Weight,        \* Weight[r]: consensus_weight of reviewer r
  VetoScopes,    \* VetoScopes[r]: the scopes reviewer r may veto
  ActionSpace,   \* the kinds of action the protocol allows
  Proposable,    \* the actions an adapter may propose or suggest
  MaxProposals,  \* bound: length of an adapter's proposal
  MaxRounds,     \* max_negotiation_rounds
  MaxReplan,     \* max_replan_attempts
  MaxLooks,      \* max_attempts of the recovery monitor
  MinReplicas, MaxReplicas,  \* the validator's bounds
  Observable,    \* the numbers of replicas the deployment may start with
  OutsideScales, \* the numbers of replicas others may set while the run goes on
  NoAction

Reviewers == 1 .. Agents
Kinds == {"observe_only", "rollout_restart", "scale_out"}
\* own: the action names the run's namespace and deployment; replicas = 0
\* stands for None.
Action == [kind : Kinds, own : BOOLEAN, replicas : Nat]
Strategies == {"role_based_veto", "unanimous_veto", "weighted_majority"}
Verdicts == {"approve", "revise", "veto", "abstain"}
Answers == Verdicts \cup {"none"}   \* "none": the adapter returned None

ASSUME ProfileAssumption ==
  /\ Agents \in Nat /\ MaxProposals \in Nat
  /\ MaxRounds \in Nat \ {0} /\ MaxReplan \in Nat
  /\ MaxLooks \in Nat \ {0}
  /\ MinReplicas \in Nat \ {0} /\ MaxReplicas \in Nat
  /\ Weight \in [Reviewers -> Nat]
  /\ ActionSpace \subseteq Kinds
  /\ Proposable \subseteq Action /\ NoAction \notin Action
  /\ Observable \subseteq Nat /\ OutsideScales \subseteq Nat

VARIABLES
  cfg,         \* strategy, execution mode, lock owned by the experiment runtime
  pc,          \* where run() stands
  desired,     \* spec.replicas of the deployment in the cluster
  evidence,    \* desired_replicas of the snapshot the run decides on
  candidates,  \* candidates[:max_attempts] of the semantically sound proposals
  attempt,     \* 1-based index of the candidate in hand
  round,       \* negotiation round of that candidate
  action,      \* the action in hand
  last,        \* the last negotiation round: its action and its answers
  valid,       \* CommandResult.valid of the last execution
  monitor,     \* the looks at the deployment after it, and what they showed
  held,        \* TargetOperationLock held by this run
  signal,      \* cancellation_event set, or the deadline passed
  mutations,   \* real changes made to the cluster
  late,        \* those made after the signal
  final        \* final_status and human_review_required of the report

vars == <<cfg, pc, desired, evidence, candidates, attempt, round, action,
          last, valid, monitor, held, signal, mutations, late, final>>

\* What a reviewer's adapter may return; a suggestion counts with REVISE only.
ReviewOutput ==
  [answer : Answers \ {"revise"}, suggestion : {NoAction}]
    \cup [answer : {"revise"}, suggestion : Proposable \cup {NoAction}]

\* observed: the replicas the last look found; looks: how many there were;
\* success: recovery_success of the assessment; moved (a history variable):
\* somebody else has scaled the deployment since that look.
NoLook == [observed |-> 0, looks |-> 0, success |-> FALSE, moved |-> FALSE]

NoRound == [action |-> NoAction, answers |-> [r \in Reviewers |-> "none"]]

Init ==
  /\ cfg \in {c \in [strategy : Strategies,
                     mode : {"mock", "dry-run", "real"},
                     external : BOOLEAN] : c.external => c.mode = "real"}
  /\ pc = "begin"
  /\ desired \in Observable
  /\ evidence = 0
  /\ candidates = << >>
  /\ attempt = 0 /\ round = 0
  /\ action = NoAction
  /\ last = NoRound
  /\ valid = FALSE /\ monitor = NoLook
  /\ held = FALSE /\ signal = FALSE
  /\ mutations = 0 /\ late = 0
  /\ final = [status |-> "running", human |-> FALSE]

-----------------------------------------------------------------------------
(* How run() ends.  Leaving the "with" block releases the lock.            *)

Finish(status, human) ==
  /\ pc' = "done"
  /\ final' = [status |-> status, human |-> human]
  /\ held' = FALSE

Stop == Finish("safe_stopped", TRUE)

Raise == Finish("raised", FALSE)

-----------------------------------------------------------------------------
(* The checks on an action.                                                *)

SemanticallySound(a) ==
  /\ a.own
  /\ a.kind \in ActionSpace
  /\ a.kind = "scale_out" => a.replicas > evidence

\* Mutant of ValidAction: the upper bound is off by one.
ValidActionOffByOne(a) ==
  /\ a.own
  /\ IF a.kind = "scale_out"
       THEN a.replicas \in MinReplicas .. MaxReplicas + 1
       ELSE a.replicas = 0

\* The run's own target is allowlisted.
ValidAction(a) ==
  /\ a.own
  /\ IF a.kind = "scale_out"
       THEN a.replicas \in MinReplicas .. MaxReplicas
       ELSE a.replicas = 0

-----------------------------------------------------------------------------
(* ConsensusResolver.resolve: what the reviewers' answers amount to.       *)

DecisionScopes(kind) ==
  CASE kind = "observe_only" ->
         {"action_validity", "target_alignment", "availability"}
    [] kind = "rollout_restart" ->
         {"action_validity", "target_alignment", "availability", "recovery",
          "executability"}
    [] kind = "scale_out" ->
         {"action_validity", "target_alignment", "capacity",
          "resource_safety", "budget", "cost_efficiency"}

Gave(answers, v) == {r \in Reviewers : answers[r] = v}

TotalWeight(rs) == SumFunctionOnSet(Weight, rs)

WeightedMajority(answers) ==
  LET participating == TotalWeight(Reviewers \ Gave(answers, "none"))
  IN  /\ participating > 0
      /\ 2 * TotalWeight(Gave(answers, "approve")) >= participating

RoleBasedVeto(a, answers) ==
  \A r \in Gave(answers, "veto") :
    VetoScopes[r] \cap DecisionScopes(a.kind) = {}

UnanimousVeto(answers) == Gave(answers, "veto") = {}

Resolve(a, answers) ==
  CASE cfg.strategy = "role_based_veto"   -> RoleBasedVeto(a, answers)
    [] cfg.strategy = "unanimous_veto"    -> UnanimousVeto(answers)
    [] cfg.strategy = "weighted_majority" -> WeightedMajority(answers)

AnswersOf(reviews) == [r \in Reviewers |-> reviews[r].answer]

Suggesting(reviews) == {r \in Reviewers : reviews[r].suggestion # NoAction}

\* _apply_revisions accepts suggestions of the same kind only.
Revisable(a, reviews) ==
  \A r \in Suggesting(reviews) :
    /\ reviews[r].suggestion.kind = a.kind
    /\ a.kind = "scale_out" => reviews[r].suggestion.replicas > 0

\* The smallest scale-out asked for, or the first reviewer's suggestion.
ApplyRevisions(a, reviews) ==
  LET rs == Suggesting(reviews)
  IN  IF rs = {} THEN a
      ELSE IF a.kind = "scale_out"
        THEN [a EXCEPT !.replicas = Min({reviews[r].suggestion.replicas : r \in rs})]
        ELSE reviews[Min(rs)].suggestion

-----------------------------------------------------------------------------
(* The steps of run().                                                     *)

\* Up to the first evidence snapshot.
Begin ==
  /\ pc = "begin"
  /\ \/ Raise /\ UNCHANGED evidence       \* cancelled, or collect() raised
     \/ /\ ~ signal
        /\ Stop /\ UNCHANGED evidence     \* a required capability is missing
     \/ /\ ~ signal
        /\ evidence' = desired
        /\ pc' = "diagnose"
        /\ UNCHANGED <<held, final>>
  /\ UNCHANGED <<cfg, desired, candidates, attempt, round, action, last, valid,
                 monitor, signal, mutations, late>>

\* A cancellation seen inside the try block is reported as a configuration
\* failure; one seen before or after it leaves run() as an exception.
Diagnose ==
  /\ pc = "diagnose"
  /\ \/ signal /\ Raise
     \/ Stop             \* raised, bad output, cancelled, or metric missing
     \/ ~ signal /\ Finish("no_action_required", FALSE)
     \/ ~ signal /\ pc' = "propose" /\ UNCHANGED <<held, final>>
  /\ UNCHANGED <<cfg, desired, evidence, candidates, attempt, round, action,
                 last, valid, monitor, signal, mutations, late>>

\* The list of the semantically sound actions of a proposal, in its order.
SoundOnes(proposed) ==
  LET sound == {i \in DOMAIN proposed : SemanticallySound(proposed[i])}
  IN  {[k \in DOMAIN o |-> proposed[o[k]]] :
         o \in {p \in SetToSeqs(sound) :
                  \A j, k \in DOMAIN p : j < k => p[j] < p[k]}}

MaxAttempts(cs) == Min({Len(cs), MaxReplan + 1})

\* The for loop over candidates[:max_attempts]: take the next, or give up.
TakeCandidate(cs, i) ==
  IF i <= Len(cs)
    THEN /\ attempt' = i
         /\ round' = 1
         /\ action' = cs[i]
         /\ pc' = "negotiate"
         /\ held' = FALSE
         /\ UNCHANGED final
    ELSE /\ Finish("safe_failure", TRUE)
         /\ UNCHANGED <<attempt, round, action>>

Propose ==
  /\ pc = "propose"
  /\ \/ Stop /\ UNCHANGED <<candidates, attempt, round, action>>
     \/ /\ ~ signal
        /\ \E proposed \in SeqOf(Proposable, MaxProposals) :
             \E sound \in SoundOnes(proposed) :
               /\ candidates' = SubSeq(sound, 1, MaxAttempts(sound))
               /\ TakeCandidate(candidates', 1)
  /\ UNCHANGED <<cfg, desired, evidence, last, valid, monitor, signal, mutations, late>>

\* Mutant of Negotiate: the revised action goes on without another review.
NegotiateOnce ==
  /\ pc = "negotiate"
  /\ \E reviews \in [Reviewers -> ReviewOutput] :
       /\ last' = [action |-> action, answers |-> AnswersOf(reviews)]
       /\ LET revised == ApplyRevisions(action, reviews)
          IN IF /\ Resolve(action, AnswersOf(reviews))
                /\ Revisable(action, reviews)
                /\ SemanticallySound(revised)
               THEN /\ pc' = "validate"
                    /\ action' = revised
                    /\ UNCHANGED <<round, held, final>>
               ELSE Stop /\ UNCHANGED <<action, round>>
  /\ UNCHANGED <<cfg, desired, evidence, candidates, attempt, valid, monitor, signal,
                 mutations, late>>

\* Mutant of Negotiate: revisions are negotiated without a limit.
NegotiateForever ==
  /\ pc = "negotiate"
  /\ \E answers \in [Reviewers -> Answers] :
       /\ last' = [action |-> action, answers |-> answers]
       /\ IF Gave(answers, "revise") = {}
            THEN pc' = "validate" /\ UNCHANGED <<held, final>>
            ELSE UNCHANGED <<pc, held, final>>
  /\ UNCHANGED <<cfg, desired, evidence, candidates, attempt, round, action, valid,
                 monitor, signal, mutations, late>>

\* One round of _negotiate: every reviewer answers, the resolver decides, and
\* revisions send the revised action to the next round.
Negotiate ==
  /\ pc = "negotiate"
  /\ \/ /\ Stop                           \* a review raised or was malformed
        /\ UNCHANGED <<action, round, last>>
     \/ \E reviews \in [Reviewers -> ReviewOutput] :
          /\ last' = [action |-> action, answers |-> AnswersOf(reviews)]
          /\ LET answers == AnswersOf(reviews)
                 revised == ApplyRevisions(action, reviews)
             IN IF ~ Resolve(action, answers)
                  THEN /\ IF signal THEN Raise ELSE Stop
                       /\ UNCHANGED <<action, round>>
                ELSE IF Gave(answers, "revise") = {}
                  THEN /\ pc' = "validate"
                       /\ UNCHANGED <<action, round, held, final>>
                ELSE IF \/ ~ Revisable(action, reviews)
                        \/ ~ SemanticallySound(revised)
                  THEN Stop /\ UNCHANGED <<action, round>>
                ELSE /\ action' = revised
                     /\ IF round < MaxRounds
                          THEN round' = round + 1 /\ UNCHANGED <<pc, held, final>>
                          ELSE /\ IF signal THEN Raise ELSE Stop
                               /\ UNCHANGED round
  /\ UNCHANGED <<cfg, desired, evidence, candidates, attempt, valid, monitor, signal,
                 mutations, late>>

\* The checks on the action agreed on; only a semantic error replans.
Validate ==
  /\ pc = "validate"
  /\ IF signal
       THEN Raise /\ UNCHANGED <<attempt, round, action>>
     ELSE IF ~ SemanticallySound(action)
       THEN TakeCandidate(candidates, attempt + 1)
     ELSE IF ~ ValidAction(action)
       THEN Stop /\ UNCHANGED <<attempt, round, action>>
     ELSE pc' = "lock" /\ UNCHANGED <<attempt, round, action, held, final>>
  /\ UNCHANGED <<cfg, desired, evidence, candidates, last, valid, monitor, signal,
                 mutations, late>>

NeedsLock == cfg.mode = "real" /\ ~ cfg.external

Lock ==
  /\ pc = "lock"
  /\ \/ signal /\ Raise
     \/ ~ signal /\ NeedsLock /\ Stop     \* OperationLockError
     \/ ~ signal /\ pc' = "execute" /\ held' = NeedsLock /\ UNCHANGED final
  /\ UNCHANGED <<cfg, desired, evidence, candidates, attempt, round, action,
                 last, valid, monitor, signal, mutations, late>>

\* What kubectl does to the cluster; a command that timed out is invalid and
\* may have been applied all the same.
Apply(applied) ==
  IF cfg.mode = "real" /\ applied /\ action.kind # "observe_only"
    THEN /\ desired' = IF action.kind = "scale_out" THEN action.replicas
                                                    ELSE desired
         /\ mutations' = mutations + 1
         /\ late' = IF signal THEN late + 1 ELSE late
    ELSE UNCHANGED <<desired, mutations, late>>

\* Mutant of Execute: a command that failed or timed out is tried again.
ExecuteRetries ==
  /\ pc = "execute"
  /\ \E ok \in BOOLEAN, applied \in BOOLEAN :
       /\ ok => applied
       /\ valid' = ok
       /\ Apply(applied)
       /\ IF signal THEN Raise
          ELSE IF ok THEN pc' = "observe" /\ UNCHANGED <<held, final>>
          ELSE UNCHANGED <<pc, held, final>>
  /\ UNCHANGED <<cfg, evidence, candidates, attempt, round, action, last, monitor,
                 signal>>

\* The dispatch, the command and the cancellation check right after it.
Execute ==
  /\ pc = "execute"
  /\ \E ok \in BOOLEAN, applied \in BOOLEAN :
       /\ ok => applied
       /\ cfg.mode = "mock" => ok
       /\ valid' = ok
       /\ Apply(applied)
       /\ IF signal
            THEN Raise /\ UNCHANGED <<attempt, round, action>>
          ELSE IF cfg.mode # "dry-run"
            THEN pc' = "observe" /\ UNCHANGED <<attempt, round, action, held, final>>
          ELSE IF ok
            THEN /\ Finish("dry_run_validated", FALSE)
                 /\ UNCHANGED <<attempt, round, action>>
          ELSE TakeCandidate(candidates, attempt + 1)
  /\ UNCHANGED <<cfg, evidence, candidates, last, monitor, signal>>

\* Mutant of CanAssessSuccess: the command's exit code is taken for the recovery.
CanAssessOnExitCode == valid

\* A look of the monitor may show the recovery only if, for a scale_out, the
\* deployment then has the target, and more replicas than first observed.
\* Only real mode has this monitor; elsewhere its verdict is given.
CanAssessSuccess ==
  /\ valid
  /\ cfg.mode = "real" /\ action.kind = "scale_out" =>
       monitor.observed = action.replicas /\ monitor.observed > evidence

\* EvidenceProvider.collect: the n-th snapshot after the action shows the
\* deployment as it is now.
Look(n) ==
  monitor' = [observed |-> desired, looks |-> n,
              success |-> FALSE, moved |-> FALSE]

\* The evidence after the action, whatever became of the command.
Collect ==
  /\ pc = "observe"
  /\ \/ Raise /\ UNCHANGED monitor        \* collect() raised
     \/ Look(1) /\ pc' = "assess" /\ UNCHANGED <<held, final>>
  /\ UNCHANGED <<cfg, desired, evidence, candidates, attempt, round, action, last,
                 valid, signal, mutations, late>>

\* One turn of the loop of assess(): recovered, out of looks, or another look
\* after a pause.  A failed command, and the fake monitor, take one turn.
Assess ==
  /\ pc = "assess"
  /\ \/ /\ CanAssessSuccess
        /\ monitor' = [monitor EXCEPT !.success = TRUE]
        /\ pc' = "review"
        /\ UNCHANGED <<held, final>>
     \/ /\ ~ valid \/ cfg.mode = "mock" \/ monitor.looks = MaxLooks
        /\ pc' = "review"
        /\ UNCHANGED <<monitor, held, final>>
     \/ /\ valid /\ cfg.mode = "real" /\ monitor.looks < MaxLooks
        /\ \/ Look(monitor.looks + 1) /\ UNCHANGED <<pc, held, final>>
           \/ Raise /\ UNCHANGED monitor  \* collect() raised
  /\ UNCHANGED <<cfg, desired, evidence, candidates, attempt, round, action, last,
                 valid, signal, mutations, late>>

\* The post reviews and what run() makes of them and of the assessment.
PostReview ==
  /\ pc = "review"
  /\ \/ /\ Raise                          \* the event store raised
        /\ UNCHANGED <<attempt, round, action, monitor>>
     \/ /\ Finish("safe_failure", TRUE)   \* a post review raised
        /\ UNCHANGED <<attempt, round, action, monitor>>
     \/ \E approved \in BOOLEAN :
          IF valid /\ monitor.success /\ approved
            THEN /\ Finish(IF attempt = 1 THEN "recovered"
                                          ELSE "recovered_after_replan", FALSE)
                 /\ UNCHANGED <<attempt, round, action, monitor>>
            ELSE /\ TakeCandidate(candidates, attempt + 1)
                 /\ monitor' = NoLook
  /\ UNCHANGED <<cfg, desired, evidence, candidates, last, valid, signal,
                 mutations, late>>

\* RuntimeControl: the user cancels, or the deadline passes.
Cancel ==
  /\ pc # "done"
  /\ ~ signal
  /\ signal' = TRUE
  /\ UNCHANGED <<cfg, pc, desired, evidence, candidates, attempt, round, action,
                 last, valid, monitor, held, mutations, late, final>>

\* An autoscaler or an operator scales the deployment behind the run's back.
Drift ==
  /\ pc # "done"
  /\ desired' \in OutsideScales \ {desired}
  /\ monitor' = [monitor EXCEPT !.moved = pc \in {"assess", "review"}]
  /\ UNCHANGED <<cfg, pc, evidence, candidates, attempt, round, action, last,
                 valid, held, signal, mutations, late, final>>

Coordinator ==
  \/ Begin \/ Diagnose \/ Propose \/ Negotiate \/ Validate \/ Lock \/ Execute
  \/ Collect \/ Assess \/ PostReview

Next == Coordinator \/ Cancel \/ Drift

Spec == Init /\ [][Next]_vars

\* Adapters, kubectl, the evidence provider and, where the executor uses it,
\* the Go guard's process return, so the coordinator's thread keeps moving.
FairSpec == Spec /\ WF_vars(Coordinator)

-----------------------------------------------------------------------------
(* Correctness.                                                            *)

\* Every variable keeps its type; in particular the loops of run() and
\* _negotiate stay inside candidates[:max_attempts] and
\* max_negotiation_rounds, however the reviewers answer.
TypeOK ==
  /\ cfg \in [strategy : Strategies, mode : {"mock", "dry-run", "real"},
              external : BOOLEAN]
  /\ pc \in {"begin", "diagnose", "propose", "negotiate", "validate", "lock",
             "execute", "observe", "assess", "review", "done"}
  /\ desired \in Nat /\ evidence \in Nat
  /\ candidates \in Seq(Proposable)
  /\ attempt \in 0 .. MaxReplan + 1
  /\ round \in 0 .. MaxRounds
  /\ action \in Action \cup {NoAction}
  /\ last \in [action : Action \cup {NoAction}, answers : [Reviewers -> Answers]]
  /\ monitor \in [observed : Nat, looks : 0 .. MaxLooks, success : BOOLEAN,
                  moved : BOOLEAN]
  /\ valid \in BOOLEAN /\ held \in BOOLEAN /\ signal \in BOOLEAN
  /\ mutations \in Nat /\ late \in Nat
  /\ final \in [status : {"running", "safe_stopped", "no_action_required",
                         "dry_run_validated", "recovered",
                         "recovered_after_replan", "safe_failure", "raised"},
                human : BOOLEAN]

\* An action that leaves the negotiation is word for word the one its last
\* round reviewed: no reviewer was still asking for a revision, and the
\* strategy in force approved those very answers.  A revision applied late,
\* or a candidate swapped in after the reviews, would break it.
DispatchedAsReviewed ==
  pc \in {"validate", "lock", "execute", "observe", "assess", "review"} =>
    /\ last.action = action
    /\ Gave(last.answers, "revise") = {}
    /\ Resolve(last.action, last.answers)

\* Every change run() makes to the deployment is made in real mode, under the
\* target's lock (its own or the experiment runtime's), sets the replicas
\* that the last round approved, and stays within the validator's bounds and
\* above the replicas observed.
MutationSanctioned ==
  [][ desired' # desired /\ pc' # pc =>
        /\ cfg.mode = "real" /\ (held \/ cfg.external)
        /\ last.action.kind = "scale_out" /\ last.action.replicas = desired'
        /\ desired' \in MinReplicas .. MaxReplicas
        /\ desired' > evidence ]_vars

\* A run changes the cluster at most once per attempt, and at most once after
\* it was cancelled or ran out of time: the command already past the last
\* check before the executor.
MutationsBounded == mutations <= attempt /\ late <= 1

\* A run reports a recovery only after a command that kubectl accepted.  When
\* that command was a real scale_out, the look the verdict rests on, taken
\* after the command, found the replicas asked for and more than the run first
\* observed; a deployment that has another number when the report is made was
\* scaled by somebody else after that look, while run() still assessed or
\* reviewed.
RecoveredMeansVerified ==
  final.status \in {"recovered", "recovered_after_replan"} =>
    /\ valid
    /\ cfg.mode = "real" =>
         /\ action.kind = "scale_out" =>
              /\ monitor.observed = action.replicas
              /\ monitor.observed > evidence
              /\ desired # action.replicas => monitor.moved
         /\ action.kind # "observe_only" => mutations > 0

\* A run that changed the cluster ends with a verified recovery, with a human
\* asked to look, or as an exception the caller sees; it never ends as
\* nothing to do or as a dry run.
MutationNeverSilent ==
  pc = "done" /\ mutations > 0 =>
    \/ final.status \in {"recovered", "recovered_after_replan", "raised"}
    \/ final.human

\* Whatever the agents answer, and however they disagree, run() ends.
Terminates == <>(pc = "done")

\* "When a failure is reported, evidence is collected again and the next
\* candidate is renegotiated": the reviewers of a later attempt see the
\* replicas the deployment has then.  The code renegotiates on the snapshot
\* taken before the first attempt.
ReplanSeesFreshEvidence ==
  pc = "negotiate" /\ attempt > 1 => evidence = desired

=============================================================================
