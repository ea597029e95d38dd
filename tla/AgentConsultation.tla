-------------------------- MODULE AgentConsultation --------------------------
(***************************************************************************)
(* How the four agents answer the controller that consults them: the       *)
(* deterministic agents and their adapters (ha_agent.py,                   *)
(* application_agent.py, infra_agent.py, cost_agent.py, agent_adapters.py, *)
(* agent_decision_policy.py) and the AutoGen chat that may stand in for    *)
(* any of them (autogen_groupchat.py).  MutualSupervision lets the agents  *)
(* answer anything; here their answers are the code's, and the controllers *)
(* are all four that consult them: mutual supervision (mutual_             *)
(* supervision.py), the autonomous loop (autonomous.py), the AIMCMP        *)
(* pipeline (coordinator.py) and the AutoGen group chat.                   *)
(*                                                                         *)
(* What is not theirs is free: the evidence, the reply of the language     *)
(* model, whether kubectl accepts the command and whether the service      *)
(* heals.  Values, thresholds and ratios are integers in per cent.         *)
(***************************************************************************)
EXTENDS Integers, Sequences, FiniteSets, SequencesExt

CONSTANTS
  Panels,           \* how a controller may be built
  Cases,            \* the requests and the evidence found for them
  Chats,            \* the replies of the language model
  CanonicalName,    \* the metric names of the policy, aliases included
  MetricPolicy,     \* per canonical name: cause, direction, severity ratios
  PreferredAction,  \* per cause
  BySeverity,       \* replica_by_severity
  DefaultReplicas, PolicyMaxReplicas,
  InfraMax, CostMax,         \* max_recommended_replicas, max_cost_safe_replicas
  MinReplicas, MaxReplicas,  \* the validator's bounds
  MaxRounds, MaxReplan,      \* max_negotiation_rounds, max_replan_attempts
  MaxRuns                    \* bound: runs of one controller

Agents == {"HA", "App", "Infra", "Cost"}
\* The application agent proposes, the three others review its action.
Reviewers == Agents \ {"App"}
Verdicts == {"approve", "revise", "veto", "abstain"}

\* Infrastructure and cost object to a scale-out only, availability to all but.
VetoScopes == [HA |-> {"availability", "recovery"},
               Infra |-> {"capacity", "resource_safety"},
               Cost |-> {"budget", "cost_efficiency"}]
Weight == [HA |-> 4, Infra |-> 2, Cost |-> 1]

Approval ==
  [HA    |-> [ha_scale_out_required |-> TRUE, ha_recovery_required |-> TRUE,
              ha_no_action |-> FALSE],
   App   |-> [app_observe_only |-> TRUE, app_rollout_restart |-> TRUE,
              app_scale_deployment |-> TRUE],
   Infra |-> [infra_capacity_approved |-> TRUE, infra_capacity_rejected |-> FALSE],
   Cost  |-> [cost_budget_approved |-> TRUE, cost_budget_rejected |-> FALSE]]

Kinds == {"observe_only", "rollout_restart", "scale_out"}
Actions == [kind : Kinds, own : BOOLEAN, replicas : Int]

ASSUME ConsultationAssumption ==
  /\ {InfraMax, CostMax, MinReplicas, MaxReplicas, DefaultReplicas,
      PolicyMaxReplicas, MaxRounds, MaxReplan, MaxRuns} \subseteq Nat
  /\ MaxRounds > 0
  /\ \A p \in Panels :
       /\ p.runtime \in [Agents -> {"deterministic", "autogen"}]
       /\ p.controller \in {"supervision", "autonomous", "mcmp", "groupchat"}
       /\ p.strategy \in {"role_based_veto", "unanimous_veto", "weighted_majority"}
  /\ \A c \in Cases : c.desired \in Nat
  /\ \A c \in Chats :
       DOMAIN c.says = Agents
         /\ \A a \in Agents : c.says[a].own \in BOOLEAN /\ c.says[a].replicas \in Nat
  /\ \A c \in DOMAIN PreferredAction : PreferredAction[c] \in Kinds
  /\ \A severity \in DOMAIN BySeverity : BySeverity[severity] \in Nat

VARIABLES
  panel,       \* the controller: kind, strategy, runtimes, who launched it
  pc,          \* where its run stands
  runs,        \* runs begun
  case,        \* metric and threshold asked about, evidence collected
  session,     \* cached replies of the AutoGen session, by key
  diagnosis,   \* of the HA agent
  candidates,  \* actions still to be tried, the one in hand first
  round,       \* negotiation round of the action in hand
  consensus,   \* consensus_status of the last round
  minutes,     \* verdicts of the last round
  heard,       \* the chats whose answers this run has used
  executed,    \* actions kubectl accepted, with the verdicts they got
  attempts,    \* candidates given up
  status       \* final_status

vars == <<panel, pc, runs, case, session, diagnosis, candidates, round, consensus,
          minutes, heard, executed, attempts, status>>

NoCase == [metric |-> "", threshold |-> 0, metrics |-> <<>>, desired |-> 0,
           available |-> 0, restarts |-> 0]
NoDiagnosis == [cause |-> "none", severity |-> "info", approved |-> FALSE,
                bounded |-> FALSE, missing |-> FALSE]
NoMinutes == [r \in Reviewers |-> "abstain"]

IsAutoGen(a) == panel.runtime[a] = "autogen"

Init ==
  /\ panel \in Panels
  /\ pc = "new" /\ runs = 0
  /\ case = NoCase /\ session = <<>> /\ diagnosis = NoDiagnosis
  /\ candidates = <<>> /\ round = 0 /\ consensus = "not_required"
  /\ minutes = NoMinutes /\ heard = {} /\ executed = {} /\ attempts = 0
  /\ status = "none"

-----------------------------------------------------------------------------
(* The policy.                                                             *)

Known(m) == m \in DOMAIN CanonicalName
PolicyFor(m) == MetricPolicy[CanonicalName[m]]
Canonical(m) == IF Known(m) THEN CanonicalName[m] ELSE m

Exceeds(p, value, threshold) ==
  IF p.lowIsBad THEN value <= threshold ELSE value >= threshold

\* Does the severity score reach the ratio?
ScoreReaches(p, value, threshold, ratio) ==
  IF threshold <= 0 THEN ratio <= 0
  ELSE IF ~ p.lowIsBad THEN value * 100 >= ratio * threshold
  ELSE IF value <= 0 THEN p.critical >= ratio
  ELSE threshold * 100 >= ratio * value

Severity(p, value, threshold) ==
  IF ~ Exceeds(p, value, threshold) THEN "info"
  ELSE IF ScoreReaches(p, value, threshold, p.critical) THEN "critical"
  ELSE IF ScoreReaches(p, value, threshold, p.warning) THEN "warning"
  ELSE "info"

Preferred(cause) ==
  IF cause \in DOMAIN PreferredAction THEN PreferredAction[cause] ELSE "observe_only"

Smaller(a, b) == IF a < b THEN a ELSE b
Larger(a, b) == IF a > b THEN a ELSE b

RecommendedReplicas(severity) ==
  LET target == IF severity \in DOMAIN BySeverity THEN BySeverity[severity]
                                                  ELSE DefaultReplicas
  IN  Larger(1, Smaller(target, PolicyMaxReplicas))

-----------------------------------------------------------------------------
(* The HA agent.                                                           *)

\* The names under which the evidence holds the metric asked about.
Readings(c) ==
  {n \in DOMAIN c.metrics : Canonical(n) = Canonical(c.metric)}

Reading(c) == c.metrics[CHOOSE n \in Readings(c) : TRUE]

Actionable(cause) == cause \notin {"no_action_required", "unknown_metric"}

\* diagnose(): the alert alone, no evidence.
DiagnoseAlert(c) ==
  LET value == c.metrics[c.metric]
  IN  IF Known(c.metric) /\ Exceeds(PolicyFor(c.metric), value, c.threshold)
        THEN [cause |-> PolicyFor(c.metric).cause,
              severity |-> Severity(PolicyFor(c.metric), value, c.threshold),
              approved |-> TRUE, bounded |-> FALSE, missing |-> FALSE]
        ELSE [NoDiagnosis EXCEPT !.cause = "no_action_required"]

\* diagnose_evidence(): restarts count when nothing else explains them, and
\* missing replicas override every other cause.
DiagnoseEvidence(c) ==
  LET exceeded == /\ Known(c.metric) /\ Readings(c) # {}
                  /\ Exceeds(PolicyFor(c.metric), Reading(c), c.threshold)
      measured == IF ~ Known(c.metric) THEN "unknown_metric"
                  ELSE IF exceeded THEN PolicyFor(c.metric).cause
                  ELSE "no_action_required"
      restarted == /\ c.restarts > 0
                   /\ \/ Canonical(c.metric) = "restart_count"
                      \/ measured = "no_action_required"
      short == c.available < c.desired
      cause == IF short THEN "low_availability"
               ELSE IF restarted THEN "pod_restarts" ELSE measured
  IN  [cause |-> cause,
       severity |-> IF short THEN "critical"
                    ELSE IF restarted
                      THEN IF c.restarts <= 2 THEN "warning" ELSE "critical"
                    ELSE IF exceeded
                      THEN Severity(PolicyFor(c.metric), Reading(c), c.threshold)
                    ELSE "info",
       approved |-> Actionable(cause), bounded |-> FALSE,
       missing |-> Readings(c) = {}]

RequestedMetricPresent(c) ==
  \/ Readings(c) # {}
  \/ Canonical(c.metric) \in {"availability", "restart_count"}

MissingMetricDiagnosis ==
  [NoDiagnosis EXCEPT !.cause = "unknown_metric", !.missing = TRUE]

\* The adapter does not diagnose what was not measured.  Its diagnosis names
\* neither the metric nor the threshold in the form AutoGen agents read.
DeterministicDiagnosis(c) ==
  IF RequestedMetricPresent(c) THEN DiagnoseEvidence(c) ELSE MissingMetricDiagnosis

-----------------------------------------------------------------------------
(* The application, infrastructure and cost agents.                        *)

Act(kind, replicas) == [kind |-> kind, own |-> TRUE, replicas |-> replicas]

\* At least one more than desired, at least what the severity asks, at most 5.
TargetReplicas(d, c) ==
  Smaller(5, Larger(Larger(c.desired, 1) + 1, RecommendedReplicas(d.severity)))

\* generate_recovery_candidates(), in the order of their priorities: the
\* preferred one, then the others as rollout_restart, scale_out, observe_only.
RecoveryCandidates(d, c) ==
  LET first == Preferred(d.cause)
      second == IF first = "rollout_restart" THEN "scale_out" ELSE "rollout_restart"
      third == IF first = "observe_only" THEN "scale_out" ELSE "observe_only"
      Proposal(kind) == Act(kind, IF kind = "scale_out" THEN TargetReplicas(d, c) ELSE 0)
  IN  <<Proposal(first), Proposal(second), Proposal(third)>>

\* The lists that keep the positions I of a list, in an order of positions.
Arranged(cs, I, before) ==
  {[k \in DOMAIN o |-> cs[o[k]]] :
     o \in {p \in SetToSeqs(I) :
              \A j, k \in DOMAIN p : j < k => <<p[j], p[k]>> \in before}}

\* Of those kept, as many are tried as attempts are allowed.
Tried(cs) == SubSeq(cs, 1, Smaller(Len(cs), MaxReplan + 1))

\* propose(): the preferred action, its replicas from the severity alone.
PreferredRecovery(d) ==
  Act(Preferred(d.cause), IF Preferred(d.cause) = "scale_out"
                            THEN RecommendedReplicas(d.severity) ELSE 0)

InfraApproves(a) == a.kind # "scale_out" \/ a.replicas <= InfraMax
CostApproves(a) == a.kind # "scale_out" \/ a.replicas <= CostMax

\* Mutant of CostRevises: one replica less each time, instead of the budget.
CostRevisesByOne(a) == [a EXCEPT !.replicas = @ - 1]

\* What the cost agent suggests for a scale-out over budget.
CostRevises(a) == [a EXCEPT !.replicas = CostMax]

CostVerdict(a) ==
  IF CostApproves(a) THEN "approve"
  ELSE IF CostMax >= 1 /\ CostMax > case.desired THEN "revise" ELSE "veto"

InfraVerdict(a) == IF InfraApproves(a) THEN "approve" ELSE "veto"
HAVerdict == IF Actionable(diagnosis.cause) THEN "approve" ELSE "abstain"

DeterministicVerdict(r, a) ==
  CASE r = "HA" -> HAVerdict [] r = "Infra" -> InfraVerdict(a) [] r = "Cost" -> CostVerdict(a)

-----------------------------------------------------------------------------
(* The AutoGen agents: one chat per evidence, metric and threshold.        *)

\* parse_autogen_decision(): the schema, the agent's actions, and the
\* approval that the action implies.
Parses(agent, message) ==
  /\ message.sound
  /\ message.action \in DOMAIN Approval[agent]
  /\ message.approved = Approval[agent][message.action]

\* _validate_provider_decisions and _order_decisions: each agent exactly once.
WellFormed(chat) ==
  chat.complete /\ \A a \in Agents : Parses(a, chat.says[a])

Key == <<runs, case>>

\* What the session can answer: what it has cached, else any reply.
Replies == IF Key \in DOMAIN session THEN {session[Key]} ELSE Chats

\* The alert needs the metric under the very name asked for.
Usable(chat) == case.metric \in DOMAIN case.metrics /\ WellFormed(chat)

Remember(chat) ==
  IF Usable(chat)
    THEN /\ session' = [k \in DOMAIN session \cup {Key} |->
                          IF k = Key THEN chat ELSE session[k]]
         /\ heard' = heard \cup {chat}
    ELSE UNCHANGED <<session, heard>>

\* Mutant of AutoGenDiagnosis: the diagnosis does not carry the boundary.
AutoGenDiagnosisUnbounded(chat) ==
  [NoDiagnosis EXCEPT !.approved = chat.says["HA"].approved,
                      !.cause = "autogen_saturation"]

\* The cause is the metric's name and "_saturation", which the policy knows
\* for cpu, memory and latency only.
AutoGenDiagnosis(chat) ==
  LET value == case.metrics[case.metric]
  IN  [cause |-> IF ~ chat.says["HA"].approved THEN "no_action_required"
                 ELSE CASE case.metric = "cpu"     -> "cpu_saturation"
                        [] case.metric = "memory"  -> "memory_saturation"
                        [] case.metric = "latency" -> "latency_saturation"
                        [] OTHER -> "autogen_saturation",
       severity |-> IF value * 5 >= case.threshold * 6 THEN "critical"
                    ELSE IF value >= case.threshold THEN "high" ELSE "normal",
       approved |-> chat.says["HA"].approved, bounded |-> TRUE, missing |-> FALSE]

\* _recovery_action_from_decision: only a scale-out needs decimal replicas.
ActionReadable(m) == m.action = "app_scale_deployment" => m.replicas > 0

ActionFrom(m) ==
  [kind |-> CASE m.action = "app_observe_only"     -> "observe_only"
              [] m.action = "app_rollout_restart"  -> "rollout_restart"
              [] m.action = "app_scale_deployment" -> "scale_out",
   own |-> m.own,
   replicas |-> IF m.action = "app_scale_deployment" THEN m.replicas ELSE 0]

AutoGenVerdict(r, chat) ==
  IF ~ diagnosis.bounded \/ ~ Usable(chat) THEN "abstain"
  ELSE IF chat.says[r].approved THEN "approve" ELSE "veto"

-----------------------------------------------------------------------------
(* The checks of the coordinator and of the validator.                     *)

Sound(a) == a.own /\ (a.kind = "scale_out" => a.replicas > case.desired)

ValidAction(a) ==
  a.own /\ (a.kind = "scale_out" => a.replicas \in MinReplicas .. MaxReplicas)

DecisionScopes(kind) ==
  {"action_validity", "target_alignment"} \cup
  CASE kind = "observe_only"    -> {"availability"}
    [] kind = "rollout_restart" -> {"availability", "recovery", "executability"}
    [] kind = "scale_out"       -> {"capacity", "resource_safety", "budget",
                                    "cost_efficiency"}

\* Whose veto stops the action.
Blocking(r, a) ==
  \/ panel.strategy = "unanimous_veto"
  \/ /\ panel.strategy = "role_based_veto"
     /\ VetoScopes[r] \cap DecisionScopes(a.kind) # {}

Gave(verdicts, v) == {r \in Reviewers : verdicts[r] = v}
TotalWeight(rs) == FoldSet(LAMBDA r, sum : Weight[r] + sum, 0, rs)

Approved(verdicts, a) ==
  IF panel.strategy = "weighted_majority"
    THEN 2 * TotalWeight(Gave(verdicts, "approve")) >= TotalWeight(Reviewers)
    ELSE \A r \in Gave(verdicts, "veto") : ~ Blocking(r, a)

-----------------------------------------------------------------------------
(* One run.                                                                *)

End(how) == status' = how /\ pc' = "ended"

\* The registry knows the AutoGen implementations only with a provider.
Registered(p) == \A a \in Agents : p.runtime[a] = "autogen" => p.provider

\* The runtime factory admits no mixed profile.
Uniform(p) == Cardinality({p.runtime[a] : a \in Agents}) = 1

Launch ==
  /\ pc = "new"
  /\ IF Registered(panel) /\ (panel.launcher = "factory" => Uniform(panel))
       THEN pc' = "ended" /\ UNCHANGED status
       ELSE pc' = "refused" /\ status' = "refused"
  /\ UNCHANGED <<runs, case, session, diagnosis, candidates, round, consensus, minutes,
                 heard, executed, attempts, panel>>

\* A run starts with a new id, which empties the session.  The two
\* pipelines get an alert, so their metric has a value.
BeginRun ==
  /\ pc = "ended" /\ runs < MaxRuns
  /\ runs' = runs + 1
  /\ case' \in {c \in Cases : panel.controller \in {"mcmp", "groupchat"} =>
                                c.metric \in DOMAIN c.metrics}
  /\ session' = <<>> /\ diagnosis' = NoDiagnosis /\ candidates' = <<>>
  /\ round' = 0 /\ consensus' = "not_required" /\ minutes' = NoMinutes
  /\ heard' = {} /\ executed' = {} /\ attempts' = 0
  /\ status' = "none" /\ pc' = panel.controller
  /\ UNCHANGED panel

\* Mutual supervision, first half: the diagnosis.
Diagnose ==
  /\ pc = "supervision"
  /\ \E chat \in IF IsAutoGen("HA") THEN Replies ELSE {"none"} :
       IF ~ IsAutoGen("HA")
         THEN /\ diagnosis' = DeterministicDiagnosis(case)
              /\ UNCHANGED <<session, heard>>
       ELSE IF Usable(chat)
         THEN diagnosis' = AutoGenDiagnosis(chat) /\ Remember(chat)
         ELSE diagnosis' = MissingMetricDiagnosis /\ Remember(chat)  \* raised
  /\ IF diagnosis'.approved
       THEN pc' = "propose" /\ UNCHANGED status
       ELSE End(IF diagnosis'.cause = "unknown_metric" /\ diagnosis'.missing
                  THEN "safe_stopped" ELSE "no_action_required")
  /\ UNCHANGED <<panel, runs, case, candidates, round, consensus, minutes, executed,
                 attempts>>

\* The next candidate, or the end of the run.
Continue(cs) ==
  /\ candidates' = cs
  /\ IF cs = <<>> THEN End("safe_failure") ELSE pc' = "negotiate" /\ UNCHANGED status
  /\ round' = 1

\* The proposals without a semantic error, in their order.
SoundOnes(cs) ==
  LET I == {i \in DOMAIN cs : Sound(cs[i])}
  IN  Arranged(cs, I, {p \in I \X I : p[1] < p[2]})

Propose ==
  /\ pc = "propose"
  /\ \E chat \in IF IsAutoGen("App") /\ diagnosis.bounded THEN Replies ELSE {"none"} :
       IF ~ IsAutoGen("App")
         THEN /\ \E cs \in SoundOnes(RecoveryCandidates(diagnosis, case)) :
                   Continue(Tried(cs))
              /\ UNCHANGED <<session, heard>>
       ELSE IF diagnosis.bounded /\ Usable(chat)
         THEN /\ Remember(chat)
              /\ IF ActionReadable(chat.says["App"])
                   THEN \E cs \in SoundOnes(<<ActionFrom(chat.says["App"])>>) :
                          Continue(Tried(cs))
                   ELSE End("safe_stopped") /\ UNCHANGED <<candidates, round>>
         ELSE End("safe_stopped") /\ UNCHANGED <<candidates, round, session, heard>>
  /\ UNCHANGED <<panel, runs, case, diagnosis, consensus, minutes, executed, attempts>>

VerdictOf(r, a, chat) ==
  IF IsAutoGen(r) THEN AutoGenVerdict(r, chat) ELSE DeterministicVerdict(r, a)

\* One round: three verdicts, the consensus, the revision.
Negotiate ==
  /\ pc = "negotiate"
  /\ \E chat \in IF diagnosis.bounded THEN Replies ELSE {"none"} :
       LET a == Head(candidates)
           verdicts == [r \in Reviewers |-> VerdictOf(r, a, chat)]
           revised == CostRevises(a)
       IN  /\ minutes' = verdicts
           /\ IF diagnosis.bounded /\ \E r \in Reviewers : IsAutoGen(r)
                THEN Remember(chat) ELSE UNCHANGED <<session, heard>>
           /\ IF ~ Approved(verdicts, a)
                THEN /\ End("safe_stopped") /\ consensus' = "rejected"
                     /\ UNCHANGED <<candidates, round>>
              ELSE IF Gave(verdicts, "revise") = {}
                THEN /\ pc' = "dispatch" /\ consensus' = "approved"
                     /\ UNCHANGED <<candidates, round, status>>
              ELSE IF ~ Sound(revised)
                THEN /\ End("safe_stopped") /\ consensus' = "revision_rejected"
                     /\ UNCHANGED <<candidates, round>>
              ELSE /\ consensus' = "revision_required"
                   /\ candidates' = <<revised>> \o Tail(candidates)
                   /\ IF round < MaxRounds
                        THEN round' = round + 1 /\ UNCHANGED <<pc, status>>
                        ELSE End("safe_stopped") /\ UNCHANGED round
  /\ UNCHANGED <<panel, runs, case, diagnosis, executed, attempts>>

Record(a) == executed' = executed \cup {[action |-> a, verdicts |-> minutes]}

CostPostReview(a) == CostApproves(a)
InfraPostReview(desired) == desired <= InfraMax
AppPostReview(a, success, full) == success /\ full /\ a.own

\* The post-execution reviews of the snapshot after the action.
PostApproved(a, success, desired, full) ==
  \A r \in Agents :
    IF IsAutoGen(r) THEN success
    ELSE CASE r = "HA"    -> success
           [] r = "App"   -> AppPostReview(a, success, full)
           [] r = "Infra" -> InfraPostReview(desired)
           [] r = "Cost"  -> CostPostReview(a)

Recovered == IF attempts = 0 THEN "recovered" ELSE "recovered_after_replan"

\* Mutual supervision, second half: validate, execute, assess, review again.
Dispatch ==
  /\ pc = "dispatch"
  /\ LET a == Head(candidates)
     IN IF ~ Sound(a)
          THEN /\ Continue(Tail(candidates)) /\ attempts' = attempts + 1
               /\ UNCHANGED executed
        ELSE IF ~ ValidAction(a)
          THEN /\ End("safe_stopped")
               /\ UNCHANGED <<candidates, round, executed, attempts>>
        ELSE \E ok, success, full \in BOOLEAN :
          \E desired \in {case.desired, Larger(case.desired, a.replicas)} :
               /\ success => ok
               /\ IF ok THEN Record(a) ELSE UNCHANGED executed
               /\ IF success /\ PostApproved(a, success, desired, full)
                    THEN End(Recovered) /\ UNCHANGED <<candidates, round, attempts>>
                    ELSE Continue(Tail(candidates)) /\ attempts' = attempts + 1
  /\ UNCHANGED <<panel, runs, case, session, diagnosis, consensus, minutes, heard>>

-----------------------------------------------------------------------------
(* The autonomous loop.                                                    *)

Confidence(kind, cause) ==
  CASE kind = "observe_only"    -> 55
    [] kind = "rollout_restart" ->
         IF cause \in {"pod_restarts", "memory_saturation"} THEN 80 ELSE 50
    [] kind = "scale_out"       ->
         IF cause \in {"cpu_saturation", "latency_saturation", "low_availability"}
           THEN 88 ELSE 45

Priority(kind, cause) ==
  IF kind = Preferred(cause) THEN 95
  ELSE CASE kind = "observe_only" -> 40 [] kind = "rollout_restart" -> 55
         [] kind = "scale_out" -> 50

InfraScore(a) ==
  CASE a.kind = "scale_out"       -> Smaller(100, 55 + 8 * Larger(InfraMax - a.replicas, 0))
    [] a.kind = "rollout_restart" -> 82
    [] a.kind = "observe_only"    -> 90

CostScore(a) ==
  CASE a.kind = "scale_out"       -> Larger(0, 95 - 14 * Larger(a.replicas - 1, 0))
    [] a.kind = "rollout_restart" -> 86
    [] a.kind = "observe_only"    -> 98

RankScore(a, cause) ==
  35 * Priority(a.kind, cause) + 25 * Confidence(a.kind, cause)
    + 25 * InfraScore(a) + 15 * CostScore(a)

\* Mutant of Rankable: the disapproved stay in the list, ranked like the rest.
RankableAll(a) == TRUE

\* A candidate that infrastructure or cost disapproves scores -1 and is dropped.
Rankable(a) == InfraApproves(a) /\ CostApproves(a)

\* Python's sort keeps the order of equal scores.
RankCandidates(cs, cause) ==
  LET I == {i \in DOMAIN cs : Rankable(cs[i])}
      Score(i) == RankScore(cs[i], cause)
  IN  Arranged(cs, I, {p \in I \X I :
                         \/ Score(p[1]) > Score(p[2])
                         \/ Score(p[1]) = Score(p[2]) /\ p[1] < p[2]})

DecideAlone ==
  /\ pc = "autonomous"
  /\ diagnosis' = DiagnoseEvidence(case)
  /\ IF diagnosis'.approved
       THEN /\ \E cs \in RankCandidates(RecoveryCandidates(diagnosis', case),
                                         diagnosis'.cause) : candidates' = Tried(cs)
            /\ pc' = "alone" /\ UNCHANGED status
       ELSE End("no_action_required") /\ UNCHANGED candidates
  /\ UNCHANGED <<panel, runs, case, session, round, consensus, minutes, heard, executed,
                 attempts>>

\* The loop over the ranked candidates, one iteration.
ActAlone ==
  /\ pc = "alone"
  /\ IF candidates = <<>>
       THEN End("safe_failure") /\ UNCHANGED <<candidates, executed, attempts>>
     ELSE \E ok, success \in BOOLEAN :
       LET a == Head(candidates)
       IN  /\ success => ok
           /\ ok => ValidAction(a)
           /\ IF ok THEN Record(a) ELSE UNCHANGED executed
           /\ IF success
                THEN End(Recovered) /\ UNCHANGED <<candidates, attempts>>
                ELSE /\ candidates' = Tail(candidates) /\ attempts' = attempts + 1
                     /\ UNCHANGED <<pc, status>>
  /\ UNCHANGED <<panel, runs, case, session, diagnosis, round, consensus, minutes, heard>>

-----------------------------------------------------------------------------
(* The two pipelines that act on an alert.                                 *)

Perform(a) ==
  \E ok \in BOOLEAN :
    /\ ok => ValidAction(a)
    /\ IF ok THEN Record(a) ELSE UNCHANGED executed
    /\ End("executed")

\* AIMCMPCoordinator.run().
RunPipeline ==
  /\ pc = "mcmp"
  /\ diagnosis' = DiagnoseAlert(case)
  /\ LET a == PreferredRecovery(diagnosis')
     IN  IF diagnosis'.approved /\ InfraApproves(a) /\ CostApproves(a)
           THEN Perform(a)
           ELSE End("rejected") /\ UNCHANGED executed
  /\ UNCHANGED <<panel, runs, case, session, candidates, round, consensus, minutes, heard,
                 attempts>>

\* AutoGenGroupChatCoordinator.run(): an approved action other than a
\* scale-out with decimal replicas raises.
RunGroupChat ==
  /\ pc = "groupchat"
  /\ \E chat \in Chats :
       LET app == chat.says["App"]
       IN  IF ~ WellFormed(chat)
             THEN End("raised") /\ UNCHANGED <<executed, heard>>
           ELSE IF \E a \in Agents : ~ chat.says[a].approved
             THEN End("rejected") /\ heard' = {chat} /\ UNCHANGED executed
           ELSE IF app.action # "app_scale_deployment" \/ ~ ActionReadable(app)
             THEN End("raised") /\ heard' = {chat} /\ UNCHANGED executed
           ELSE Perform(ActionFrom(app)) /\ heard' = {chat}
  /\ UNCHANGED <<panel, runs, case, session, diagnosis, candidates, round, consensus,
                 minutes, attempts>>

Next ==
  \/ Launch \/ BeginRun
  \/ Diagnose \/ Propose \/ Negotiate \/ Dispatch
  \/ DecideAlone \/ ActAlone
  \/ RunPipeline \/ RunGroupChat

Spec == Init /\ [][Next]_vars

-----------------------------------------------------------------------------
(* Correctness.                                                            *)

TypeOK ==
  /\ panel \in Panels /\ runs \in 0 .. MaxRuns
  /\ pc \in {"new", "refused", "ended", "supervision", "propose", "negotiate",
             "dispatch", "autonomous", "alone", "mcmp", "groupchat"}
  /\ round \in 0 .. MaxRounds /\ attempts \in 0 .. MaxReplan + 1
  /\ minutes \in [Reviewers -> Verdicts] /\ heard \subseteq Chats
  /\ Len(candidates) <= MaxReplan + 1

\* All that AutoGen agents contribute to one run, the diagnosis, the proposal
\* and every review of every round, comes from one reply of the language
\* model: the session's cache outlives the steps of a run, never the run.
OneChatPerRun == Cardinality(heard) <= 1

\* What reviewer r thinks of action a, whatever verdict was recorded for it.
Objects(r, a) ==
  IF IsAutoGen(r) THEN \E chat \in heard : ~ chat.says[r].approved
  ELSE \/ r = "Infra" /\ ~ InfraApproves(a)
       \/ r = "Cost" /\ ~ CostApproves(a)

\* Under mutual supervision no reviewer of an action that is carried out is
\* reduced to abstaining, a scale-out is never carried out over the objection
\* of infrastructure or cost unless they can be outvoted, and nothing at all
\* over an objection where vetoes are unanimous; the objection may be the
\* agent's own rule or a line of a chat held before the action existed.  It
\* fails for mixed panels whose HA agent is deterministic, which the runtime
\* factory never builds.
VetoHeard ==
  panel.controller = "supervision" /\ (panel.launcher = "factory" \/ IsAutoGen("HA")) =>
    \A x \in executed : \A r \in Reviewers :
      /\ x.verdicts[r] # "abstain"
      /\ \/ panel.strategy = "unanimous_veto"
         \/ panel.strategy = "role_based_veto" /\ x.action.kind = "scale_out"
         => ~ Objects(r, x.action)

\* A deterministic cost agent's budget is exceeded only where it can be
\* outvoted, and a run that exceeded it with its last action never counts as
\* recovered.
BudgetKept ==
  ~ IsAutoGen("Cost") /\ panel.controller # "groupchat" =>
    /\ \A x \in executed :
         CostApproves(x.action) \/ /\ panel.controller = "supervision"
                                   /\ panel.strategy = "weighted_majority"
    /\ status \in {"recovered", "recovered_after_replan"} =>
         CostApproves(Head(candidates))

\* A request to revise is settled: no run is stopped because the rounds ran
\* out with a revision on the table, or because a revision was unsound.
RevisionSettles ==
  pc = "ended" => consensus \notin {"revision_required", "revision_rejected"}

=============================================================================
