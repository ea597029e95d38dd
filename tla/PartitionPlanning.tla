-------------------------- MODULE PartitionPlanning --------------------------
(***************************************************************************)
(* Planning and feedback replanning over the plan store                    *)
(* (partition_service.py, partition_feedback.py, partition_artifacts.py).  *)
(* Callers are request threads of the control plane and CLI processes.  A  *)
(* feedback call reads the leaf and plans, then its save checks the        *)
(* lineage and publishes: another caller may save a successor in between,  *)
(* and no lock joins the two.  The store's own crash safety is the subject *)
(* of PartitionRepository; here a publication is one step, or fails.       *)
(***************************************************************************)
EXTENDS PartitionIntake, CandidateSelection

CONSTANTS
    Callers, Submissions,
    Devices, FailedLinks,    \* what runtime feedback may name
    Registry,                \* registered ranker versions -> artifacts
    Rankings,                 \* the <<mode, version>> a planning call may ask for
    MaxReplanAttempts,       \* policy.max_replan_attempts
    MaxRoots,                \* bound: lineages in the store
    MaxForked,               \* bound: plans saved or in flight, once two saves
                             \* have overlapped
    NoReport

ASSUME PlanningAssumption ==
    /\ MaxReplanAttempts \in Nat /\ MaxRoots \in Nat /\ MaxForked \in Nat
    /\ Rankings \subseteq Modes \X (DOMAIN Registry \cup {NoModel})

ASSUME SubmissionAssumption ==
    \A s \in Submissions :
      \/ s.form = "request" /\ RequestRead(s.body)
      \/ s.form = "round_plan" /\ RoundPlanRead(s.body)
      \/ s.form = "coordination" /\ CoordinationRead(s.body)

VARIABLES
    store,      \* the saved reports; a plan is known by its position
    call,       \* each caller: the report it is about to save, if any
    checked,    \* the callers whose save has been checked, not yet published
    overlapped, \* history: the plans a successor of which was published
                \* while the save of another one was already checked
    answer      \* what the last step answered with, if it was a report

planningVars == <<store, call, checked, overlapped, answer>>

Position == 1..Len(store)
IsLeaf(p) == \A q \in Position : store[q].parent # p

(* A directive of exclusions.  Runtime feedback never limits memory; the   *)
(* legacy failure memory_exceeded does.                                    *)
NoExclusions == [devices |-> {}, links |-> {}, splits |-> {}, memory |-> <<>>]
MergeNewest(old, new) == new

Merge(old, new) ==
    [devices |-> old.devices \cup new.devices, links |-> old.links \cup new.links,
     splits |-> old.splits \cup new.splits, memory |-> new.memory @@ old.memory]

(* PartitionFeedbackAnalyzer.analyze.  latency_slo_violation and           *)
(* placement_rejected both exclude the split that was selected.            *)
Directives(report) ==
    {[NoExclusions EXCEPT !.devices = {d}] : d \in Devices}
      \cup {[NoExclusions EXCEPT !.links = {l}] : l \in FailedLinks}
      \cup {[NoExclusions EXCEPT !.splits = {c.split}]
            : c \in {report.candidate} \ {NoCandidate}}

(* RepartitionDirective.from_partition_failure adds a memory limit one     *)
(* byte below what the failed device was given.                            *)
LegacyDirectives(report) ==
    LET parts == IF report.candidate = NoCandidate THEN <<>>
                                                   ELSE report.candidate.parts
    IN  Directives(report)
          \cup {[NoExclusions EXCEPT
                   !.memory = [d \in {parts[i].device} |-> parts[i].memory - 1]]
                : i \in DOMAIN parts}

----------------------------------------------------------------------------
(* _plan: the participants left, the candidates, the selection.            *)
Remaining(r, ex) ==
    Kept(r.participants,
         {i \in DOMAIN r.participants : r.participants[i] \notin ex.devices})

PlanCandidates(r, ex) ==
    LET people == Remaining(r, ex)
    IN  IF Len(people) < 2 THEN {}
        ELSE Candidates(r, people, ex.splits, ex)

Guesses(candidates) ==
    {[pick |-> NoCandidate, confident |-> FALSE, error |-> TRUE]}
      \cup {[pick |-> c, confident |-> b, error |-> FALSE]
            : c \in {d \in candidates : d.valid}, b \in BOOLEAN}

Selections(choice, candidates) ==
    {Select(choice[1], choice[2], Registry, Baseline(candidates), g)
     : g \in IF choice[1] = "deterministic"
               THEN {[pick |-> NoCandidate, confident |-> FALSE, error |-> TRUE]}
               ELSE Guesses(candidates)}

(* plan_request, replan_request and run_partition_planning's report.  The  *)
(* handoff of a legacy request is never ready.                             *)
Report(p, parent, version, new, ex, selection, handoffBase) ==
    LET c == selection.final
        r == Normalize(p)
        errors == Errors(r, c)
    IN  [source |-> p, request |-> r, parent |-> parent, version |-> version, candidate |-> c,
         mode |-> selection.mode, model |-> selection.version,
         directive |-> new, bounded |-> ex, errors |-> errors,
         planned |-> errors = {},
         handoff |-> IF c # NoCandidate /\ handoffBase THEN "ready" ELSE "blocked"]

(* _replan: attempts are counted by the version of the plan replaced.      *)
Replans(prev, parent, new, ex, attempt, choice) ==
    LET candidates ==
          IF attempt > MaxReplanAttempts \/ prev.candidate = NoCandidate THEN {}
          ELSE PlanCandidates(prev.request, ex)
    IN  {Report(prev.source, parent, prev.version + 1, new, ex, s,
                prev.handoff = "ready")
         : s \in Selections(choice, candidates)}

PersistableAsPlanned(report) ==
    /\ report.planned
    /\ report.source.legacy => ~Over(report.candidate.latency, report.source.plan.slo)

(* _is_independently_valid: the round plan of the report is read again     *)
(* under the legacy contract, and a legacy plan is validated as the        *)
(* request the adapter makes of it, latency_slo_ms included.               *)
Persistable(report) ==
    /\ report.planned
    /\ RoundPlanOk(RoundPlanOf(report.source))
    /\ report.source.legacy => ~Over(report.candidate.latency, report.source.plan.slo)

Child(parent) == {q \in Position : store[q].parent = parent}
Roots == Child(0) \cup {c \in Callers : call[c] # NoReport /\ call[c].parent = 0}
Room ==
    \/ overlapped = {}
    \/ Len(store) + Cardinality({c \in Callers : call[c] # NoReport}) < MaxForked

PlanningInit ==
    /\ store = <<>> /\ answer = NoReport
    /\ call = [c \in Callers |-> NoReport]
    /\ checked = {} /\ overlapped = {}

(* run_partition_planning of a first plan, up to the report.  A blocked    *)
(* one is answered and written beside the store; one that validates is     *)
(* saved next.                                                             *)
RequestPlan(c, submission, choice) ==
    /\ Cardinality(Roots) < MaxRoots
    /\ call[c] = NoReport
    /\ ~SelectorRefused(choice[1], choice[2], Registry)
    /\ \E p \in Admitted(submission) :
         /\ Processable(p)
         /\ \E s \in Selections(choice, PlanCandidates(Normalize(p), NoExclusions)) :
              LET report == Report(p, 0, 1, NoExclusions, NoExclusions, s, ~p.legacy)
              IN  IF report.planned
                    THEN call' = [call EXCEPT ![c] = report] /\ answer' = NoReport
                    ELSE answer' = report /\ UNCHANGED call
    /\ UNCHANGED <<store, checked, overlapped>>

(* process_feedback up to the report.  The mode and model are those of the *)
(* plan replaced; the call raises when no selector can be built of them.   *)
Inherited(report) == <<report.mode, report.model>>

Feedback(c, p, new) ==
    LET prev == store[p]
    IN  /\ call[c] = NoReport
        /\ IsLeaf(p)
        /\ ~SelectorRefused(prev.mode, prev.model, Registry)
        /\ \E report \in Replans(prev, p, new, Merge(prev.bounded, new),
                                 prev.version, Inherited(prev)) :
             IF report.planned
               THEN Room /\ call' = [call EXCEPT ![c] = report] /\ answer' = NoReport
               ELSE answer' = report /\ UNCHANGED call
        /\ UNCHANGED <<store, checked, overlapped>>

(* repository.save validates the plan and reads the lineage again; it      *)
(* raises when another caller's successor is already there.                *)
CheckPlanOnly(c) ==
    /\ call[c] # NoReport /\ c \notin checked
    /\ Persistable(call[c]) /\ checked' = checked \cup {c} /\ answer' = NoReport
    /\ UNCHANGED <<store, call, overlapped>>

CheckSave(c) ==
    /\ call[c] # NoReport /\ c \notin checked
    /\ LET parent == call[c].parent
       IN  IF Persistable(call[c]) /\ (parent = 0 \/ Child(parent) = {})
             THEN checked' = checked \cup {c} /\ UNCHANGED call
             ELSE call' = [call EXCEPT ![c] = NoReport] /\ UNCHANGED checked
    /\ answer' = NoReport
    /\ UNCHANGED <<store, overlapped>>

(* _publish_plan_directory, which looks at no other plan.                  *)
PublishPlan(c) ==
    /\ c \in checked
    /\ store' = Append(store, call[c]) /\ answer' = call[c]
    /\ overlapped' =
         overlapped \cup ({call[o].parent : o \in checked \ {c}} \cap ({call[c].parent} \ {0}))
    /\ checked' = checked \ {c} /\ call' = [call EXCEPT ![c] = NoReport]

(* The save fails, or the caller's process dies before it.                 *)
CallLost(c) ==
    /\ call[c] # NoReport
    /\ checked' = checked \ {c} /\ call' = [call EXCEPT ![c] = NoReport]
    /\ answer' = NoReport
    /\ UNCHANGED <<store, overlapped>>

(* The legacy replan of a plan the client has just been answered with: the *)
(* client counts the attempts, earlier exclusions are forgotten, the       *)
(* version is reset to 1, and the unsigned report is written beside the    *)
(* store.  It shares nothing with the calls in flight: let there be none.  *)
LegacyReplan(attempt) ==
    /\ \A c \in Callers : call[c] = NoReport
    /\ answer # NoReport
    /\ answer.request.kind = "legacy"
    /\ \E ex \in LegacyDirectives(answer) :
         \E report \in Replans(answer, 0, ex, ex, attempt,
                               <<"deterministic", NoModel>>) :
           answer' = [report EXCEPT !.version = 1]
    /\ UNCHANGED <<store, call, checked, overlapped>>

PlanningNext ==
    \/ \E c \in Callers :
         \/ \E submission \in Submissions, choice \in Rankings :
              RequestPlan(c, submission, choice)
         \/ \E p \in Position : \E new \in Directives(store[p]) :
              Feedback(c, p, new)
         \/ CheckSave(c) \/ PublishPlan(c)
         \/ CallLost(c)
    \/ \E attempt \in 1..MaxReplanAttempts + 1 : LegacyReplan(attempt)

PlanningSpec == PlanningInit /\ [][PlanningNext]_planningVars

----------------------------------------------------------------------------
Reports == {store[p] : p \in Position}
             \cup (({call[c] : c \in Callers} \cup {answer}) \ {NoReport})

(* The recorded latency is within rounding of the limit: the agent, which  *)
(* compares the latency before it is rounded, and the validator, which     *)
(* compares it after, may disagree either way.                             *)
Borderline(r, c) ==
    r.maxLatency # NoLimit /\ 2 * (c.latency - r.maxLatency) \in -Grain..Grain

(* The structural rules a validator can reject a plan by when the agent    *)
(* thought it valid: none, except the service levels of an inference       *)
(* request, a borderline latency, and the loss of a federated participant. *)
AgentBlindSpots(report) ==
    LET r == report.request
    IN  UNION {
          IF r.kind = "inference"
            THEN {"latency_slo_exceeded", "predicted_throughput_capacity_exceeded",
                  "predicted_throughput_unverifiable"}
            ELSE {},
          IF Borderline(r, report.candidate) THEN {"latency_slo_exceeded"} ELSE {},
          IF r.kind = "federated" /\ report.bounded.devices # {}
            THEN {"layer_coverage_mismatch"} ELSE {}}

(* The agent and the validator work out layers, memory, links, graph and   *)
(* limits separately; a plan one accepts the other accepts, but for the    *)
(* blind spots.                                                            *)
AgentAgreesWithValidator ==
    \A report \in Reports :
      report.candidate # NoCandidate => report.errors \subseteq AgentBlindSpots(report)

ApprovedSplits(r) ==
    IF r.kind = "federated" THEN {{}}
    ELSE {s \in SUBSET (1..Len(r.layers) - 1) :
            /\ Cardinality(s) = Len(r.participants) - 1
            /\ r.kind = "training" => s \cap ForbiddenBoundaries = {}}

(* A first plan is blocked for want of a candidate only when no split of   *)
(* the layers at all would have passed the validator's structural rules,   *)
(* but for one whose latency is borderline.                                *)
BlockedMeansInfeasible ==
    \A report \in Reports :
      report.version = 1 /\ report.parent = 0 /\ report.bounded = NoExclusions
        /\ report.candidate = NoCandidate =>
          \A s \in ApprovedSplits(report.request) :
            LET c == Candidate(report.request, report.request.participants, s, NoExclusions)
            IN  StructureErrors(report.request, c) # {} \/ Borderline(report.request, c)

Forward(candidate) ==
    {<<candidate.parts[e.from[1]].device,
       candidate.parts[IF e.to[1] = 0 THEN 1 ELSE e.to[1]].device>>
     : e \in {f \in candidate.edges :
                 f.from[2] = "forward" /\ f.type \in {"forward", "aggregation"}}}

\* The plans a plan descends from: what every set with its parent and the
\* parents of its members has in it.
Ancestors(p) ==
    {q \in Position :
       \A S \in SUBSET Position :
         (\A x \in S \cup {p} : store[x].parent \in S \cup {0}) => q \in S}

(* No device, forward link or split that feedback ever excluded in a       *)
(* lineage comes back in a later saved plan of it, whichever feedback call *)
(* saved it.  Federated plans have one placement and no split to exclude.  *)
ExclusionsHold ==
    \A p \in Position : \A q \in Ancestors(p) \cup {p} :
      LET ex == store[q].directive
          plan == store[p].candidate
      IN  /\ {plan.parts[i].device : i \in DOMAIN plan.parts} \cap ex.devices = {}
          /\ Forward(plan) \cap ex.links = {}
          /\ store[p].request.kind # "federated" => plan.split \notin ex.splits

(* However many callers send feedback, every line of descent counts its    *)
(* versions one by one and ends after the replans the policy allows, and   *)
(* a plan is replaced once, unless two saves of successors of it were both *)
(* past their check before either was published.                           *)
ReplansBounded ==
    /\ \A p \in Position :
         /\ store[p].version = 1 + Cardinality(Ancestors(p))
         /\ store[p].version <= MaxReplanAttempts + 1
    /\ \A p, q \in Position :
         store[p].parent = store[q].parent /\ store[p].parent # 0 =>
           p = q \/ store[p].parent \in overlapped

(* Whatever a submission names, the partitions a saved plan puts on one    *)
(* device fit in the memory that device may give, all together.            *)
SavedRespectsDevices ==
    \A p \in Position :
      LET r == store[p].request
          parts == store[p].candidate.parts
      IN  \A d \in DOMAIN r.memory :
            SumFunction([i \in {j \in DOMAIN parts : parts[j].device = d} |-> parts[i].memory])
              <= Allowed(r, d)

(* A first plan that passed validation is one the repository accepts.  The *)
(* agent's V2 design promises a version in the store for each validated    *)
(* plan; the repository holds it to the narrower legacy contract.          *)
PlannedIsSaved ==
    \A c \in Callers :
      call[c] # NoReport /\ call[c].parent = 0 => Persistable(call[c])

(* The agent's design documents: only a validated plan is handed over.     *)
ReadyOnlyIfValidated ==
    \A report \in Reports : report.handoff = "ready" => report.errors = {}

PlanningTypeOK ==
    /\ \A p \in Position : store[p].planned /\ store[p].parent \in 0..p - 1
    /\ \A c \in Callers : call[c] # NoReport => call[c].planned
    /\ checked \subseteq {c \in Callers : call[c] # NoReport}
    /\ overlapped \subseteq Position
=============================================================================
