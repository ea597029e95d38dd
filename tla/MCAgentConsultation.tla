------------------------- MODULE MCAgentConsultation -------------------------
(* The policy of config/agent_decision_policy.json, mixed and uniform        *)
(* panels, and replies of the language model good and bad.                   *)
EXTENDS AgentConsultation

MCCanonicalName ==
  [cpu |-> "cpu", cpu_usage |-> "cpu", latency |-> "latency",
   restart_count |-> "restart_count", availability |-> "availability"]

MCMetricPolicy ==
  [cpu |-> [cause |-> "cpu_saturation", lowIsBad |-> FALSE,
            warning |-> 100, critical |-> 110],
   latency |-> [cause |-> "latency_saturation", lowIsBad |-> FALSE,
                warning |-> 100, critical |-> 150],
   restart_count |-> [cause |-> "pod_restarts", lowIsBad |-> FALSE,
                      warning |-> 100, critical |-> 200],
   availability |-> [cause |-> "low_availability", lowIsBad |-> TRUE,
                     warning |-> 100, critical |-> 200]]

MCPreferredAction ==
  [cpu_saturation |-> "scale_out", memory_saturation |-> "scale_out",
   latency_saturation |-> "rollout_restart", network_degradation |-> "rollout_restart",
   pod_restarts |-> "rollout_restart", low_availability |-> "scale_out",
   unknown_metric |-> "observe_only"]

MCBySeverity == [warning |-> 2, critical |-> 3]

Panel(controller, strategy, launcher, autogen) ==
  [controller |-> controller, strategy |-> strategy, launcher |-> launcher,
   provider |-> autogen # {},
   runtime |-> [a \in Agents |-> IF a \in autogen THEN "autogen" ELSE "deterministic"]]

Strategies == {"role_based_veto", "unanimous_veto", "weighted_majority"}

MCPanels ==
  {Panel("supervision", s, l, m) : s \in Strategies, l \in {"factory", "cli"},
                                   m \in SUBSET Agents}
  \cup {[Panel("supervision", "role_based_veto", "cli", Agents)
           EXCEPT !.provider = FALSE]}
  \cup {Panel(c, "role_based_veto", "cli", {}) : c \in {"autonomous", "mcmp"}}
  \cup {Panel("groupchat", "role_based_veto", "cli", Agents)}

Found(metric, metrics, desired, available, restarts) ==
  [metric |-> metric, threshold |-> 100, metrics |-> metrics, desired |-> desired,
   available |-> available, restarts |-> restarts]

MCCases ==
  {Found("cpu", [cpu |-> v], d, d, 0) : v \in {90, 105, 120}, d \in {1, 2, 3}}
  \cup {Found("cpu", [cpu |-> 120], 5, 5, 0), Found("cpu", [cpu |-> 90], 2, 1, 0),
        Found("cpu", [cpu |-> 90], 2, 2, 1), Found("cpu_usage", [cpu |-> 120], 1, 1, 0),
        Found("latency", [latency |-> 120], 1, 1, 0),
        Found("latency", [latency |-> 160], 2, 2, 3),
        Found("latency", [cpu |-> 120], 2, 1, 0),
        Found("restart_count", [cpu |-> 90], 1, 1, 4),
        Found("availability", [availability |-> 0], 2, 0, 0),
        Found("availability", <<>>, 0, 0, 0),
        [Found("availability", [availability |-> 0], 0, 0, 0) EXCEPT !.threshold = 0],
        Found("queue", [queue |-> 500], 1, 1, 0)}

Says(action, replicas) ==
  [action |-> action, approved |-> \E a \in Agents : /\ action \in DOMAIN Approval[a]
                                                     /\ Approval[a][action],
   replicas |-> replicas, own |-> TRUE, sound |-> TRUE]

Chat(ha, app, infra, cost) ==
  [complete |-> TRUE,
   says |-> [HA |-> Says(ha, 0), App |-> app, Infra |-> Says(infra, 0),
             Cost |-> Says(cost, 0)]]

Yes == <<"infra_capacity_approved", "cost_budget_approved">>
ScaleTo(n) == Says("app_scale_deployment", n)
Agreed(app) == Chat("ha_scale_out_required", app, Yes[1], Yes[2])

MCChats ==
  {Agreed(ScaleTo(3)), Agreed(ScaleTo(5)), Agreed(ScaleTo(9)), Agreed(ScaleTo(0)),
   Agreed(Says("app_rollout_restart", 0)), Agreed(Says("app_observe_only", 0)),
   Agreed([ScaleTo(3) EXCEPT !.own = FALSE]),
   Chat("ha_no_action", Says("app_observe_only", 0), Yes[1], Yes[2]),
   Chat("ha_scale_out_required", ScaleTo(3), "infra_capacity_rejected", Yes[2]),
   Chat("ha_recovery_required", Says("app_rollout_restart", 0), Yes[1],
        "cost_budget_rejected"),
   Chat("ha_scale_out_required", ScaleTo(5), "infra_capacity_rejected",
        "cost_budget_rejected"),
   [Agreed(ScaleTo(3)) EXCEPT !.complete = FALSE],
   [Agreed(ScaleTo(3)) EXCEPT !.says["Cost"].approved = FALSE]}

=============================================================================
