------------------------- MODULE PartitionCandidates -------------------------
(***************************************************************************)
(* What the partition agent computes and what the validator recomputes     *)
(* (partition_common.py, partition_strategies.py, model_partition_agent.py *)
(* and partition_validator.py), as operators on a request r:               *)
(*                                                                         *)
(*   kind          "inference", "training", "federated" or "legacy"        *)
(*   participants  a sequence of devices, the first one aggregates         *)
(*   layers        a sequence of [params, act, work, compute]              *)
(*   memory, speed free memory and time per compute unit of each device    *)
(*   link          a pair of devices -> [latency, perByte], where known    *)
(*   headroom      per cent of the memory that must stay free              *)
(*   maxLatency, maxBytes   constraints, or NoLimit                        *)
(*   slo, slots, rps, availability   latency_slo_ms, max_requests, the     *)
(*                 throughput and the availability (per cent) asked for    *)
(*                                                                         *)
(* Times are whole numbers of a unit as fine as need be, Grain of which    *)
(* make the last of the six places that a candidate records; ratios are    *)
(* whole thousandths.  A split is the set of its boundaries; splits,       *)
(* excluded splits and layers are sets of positions.                       *)
(***************************************************************************)
EXTENDS Integers, Functions, FiniteSetsExt, SequencesExt

CONSTANTS
    NoLimit,
    ForbiddenBoundaries,     \* training-partition-v1.forbidden_split_boundaries
    Grain,                   \* the last place that round(x, 6) keeps
    Second,                  \* a second, for throughput
    LatencyReference, TransferReference,
    Weight                   \* the weights of the policy, in thousandths

ASSUME GrainAssumption == Grain \in Nat \ {0}

\* What is selected when no candidate is valid.
NoCandidate == [valid |-> FALSE]

\* The elements of a sequence at the positions I, in their order.
Kept(s, I) ==
    [k \in 1..Cardinality(I) |->
       s[CHOOSE i \in I : Cardinality({j \in I : j < i}) = k - 1]]

Over(x, limit) == limit # NoLimit /\ x > limit
Training(r) == r.kind \in {"training", "federated"}

(* PartitionCommonProcessor._validate_feasibility: what the processor      *)
(* raises on before any candidate is built.                                *)
RequiredPairs(r) ==
    LET p == r.participants
    IN  IF r.kind = "federated"
          THEN {<<p[i], p[1]>> : i \in 2..Len(p)}
          ELSE {<<p[i], p[i + 1]>> : i \in 1..Len(p) - 1}

EarlyFeasible(r) ==
    /\ Len(r.participants) >= 2 /\ r.layers # <<>>
    /\ r.kind # "federated" => Len(r.layers) >= Len(r.participants)
    /\ ToSet(r.participants) \subseteq DOMAIN r.memory
    /\ RequiredPairs(r) \subseteq DOMAIN r.link

----------------------------------------------------------------------------
(* Placement of layers.                                                    *)

MemoryDemand(r, slice) ==
    SumFunction([l \in slice |-> r.layers[l].params + r.layers[l].work])
      + Max({0} \cup {r.layers[l].act : l \in slice})

Allowed(r, d) == (r.memory[d] * (100 - r.headroom)) \div 100

Partition(r, d, slice) ==
    [device |-> d, layers |-> slice, memory |-> MemoryDemand(r, slice),
     time |-> r.speed[d] * SumFunction([l \in slice |-> r.layers[l].compute])]

(* The partitions of one split: between two boundaries the layers have the *)
(* same boundaries before them.                                            *)
Slice(r, split, i) ==
    {l \in DOMAIN r.layers : Cardinality({b \in split : b < l}) = i - 1}

SplitPartitions(r, people, split) ==
    [i \in DOMAIN people |-> Partition(r, people[i], Slice(r, split, i))]

(* The replicas of federated learning: the whole model on every device.    *)
Replicas(r, people) ==
    [i \in DOMAIN people |-> Partition(r, people[i], DOMAIN r.layers)]

Partitions(r, people, split) ==
    IF r.kind = "federated" THEN Replicas(r, people)
                            ELSE SplitPartitions(r, people, split)

(* The boundaries a strategy allows; the training policy forbids some.     *)
InferenceBoundaries(r) == 1..Len(r.layers) - 1
TrainingBoundaries(r) == (1..Len(r.layers) - 1) \ ForbiddenBoundaries
FederatedBoundaries(r) == {}
Boundaries(r) ==
    CASE r.kind = "federated" -> FederatedBoundaries(r)
      [] r.kind = "training" -> TrainingBoundaries(r)
      [] OTHER -> InferenceBoundaries(r)

(* combinations(...) of them, less the splits feedback excluded.           *)
Splits(r, people, excluded) ==
    IF r.kind = "federated" THEN {FederatedBoundaries(r)}
    ELSE kSubset(Len(people) - 1, Boundaries(r)) \ excluded

----------------------------------------------------------------------------
(* The execution graph.  A node is <<partition, phase>>.                   *)

Aggregation == <<0, "aggregation">>

Edge(r, from, to, pair, bytes, type) ==
    [from |-> from, to |-> to, bytes |-> bytes, type |-> type,
     time |-> IF pair \in DOMAIN r.link
                THEN r.link[pair].latency + bytes * r.link[pair].perByte
                ELSE 0]

BoundaryBytes(r, parts, i) == r.layers[Max(parts[i].layers)].act
ModelBytes(r) == SumFunction([l \in DOMAIN r.layers |-> r.layers[l].params])

(* The pairs of partitions whose devices exchange data, and those of them  *)
(* whose link is there and not excluded.                                   *)
Chained(parts) == {<<i, i + 1>> : i \in 1..Len(parts) - 1}
ToAggregator(parts) == {<<i, 1>> : i \in 2..Len(parts)}
Crossing(r, parts) ==
    IF r.kind = "federated" THEN ToAggregator(parts) ELSE Chained(parts)
Pair(parts, c) == <<parts[c[1]].device, parts[c[2]].device>>
Usable(r, parts, lim) ==
    {c \in Crossing(r, parts) :
       Pair(parts, c) \in (DOMAIN r.link) \ lim.links}

(* The activations a split sends on, and the updates of the replicas.      *)
ActivationEdges(r, parts, lim) ==
    {Edge(r, <<c[1], "forward">>, <<c[2], "forward">>, Pair(parts, c),
          BoundaryBytes(r, parts, c[1]), "forward")
     : c \in Usable(r, parts, lim)}
UpdateEdges(r, parts, lim) ==
    {Edge(r, <<c[1], "forward">>, Aggregation, Pair(parts, c),
          ModelBytes(r), "aggregation")
     : c \in Usable(r, parts, lim)}
ForwardEdges(r, parts, lim) ==
    IF r.kind = "federated" THEN UpdateEdges(r, parts, lim)
                            ELSE ActivationEdges(r, parts, lim)

EdgeBytes(edges) == SumFunction([e \in edges |-> e.bytes])
EdgeTime(edges) == SumFunction([e \in edges |-> e.time])

TrainingEdges(r, parts, fwd) ==
    LET n == Len(parts)
        back(e) == [e EXCEPT !.from = <<e.to[1], "backward">>,
                             !.to = <<e.from[1], "backward">>,
                             !.type = "backward"]
    IN  fwd \cup {back(e) : e \in fwd}
          \cup {Edge(r, <<n, "forward">>, <<n, "backward">>, <<>>,
                     EdgeBytes(fwd), "gradient"),
                Edge(r, <<1, "backward">>, Aggregation, <<>>,
                     EdgeBytes(fwd), "aggregation")}

Nodes(r, parts) ==
    {<<<<i, "forward">>, parts[i].device>> : i \in DOMAIN parts}
      \cup (IF r.kind = "training"
              THEN {<<<<i, "backward">>, parts[i].device>> : i \in DOMAIN parts}
              ELSE {})
      \cup (IF Training(r) THEN {<<Aggregation, parts[1].device>>} ELSE {})

----------------------------------------------------------------------------
(* Estimates and scores.                                                   *)

PerMille(x, reference) == Min({1000, (1000 * x) \div Max({1, reference})})

Times(parts) == {parts[i].time : i \in DOMAIN parts}
ComputeTime(parts) == SumFunction([i \in DOMAIN parts |-> parts[i].time])
Imbalance(parts) ==
    IF Max(Times(parts)) = 0 THEN 0
    ELSE PerMille(Max(Times(parts)) - Min(Times(parts)), Max(Times(parts)))

(* _predicted_resilience_risk; every participant has one partition, so the *)
(* device concentration is always zero.                                    *)
Risk(parts) == IF ComputeTime(parts) = 0 THEN 0
               ELSE PerMille(Max(Times(parts)), ComputeTime(parts))

(* A round of replicas takes as long as the slowest one and the slowest    *)
(* update; a training step goes over the split and back.                   *)
RoundTime(parts, fwd) == Max(Times(parts)) + Max({0} \cup {e.time : e \in fwd})
Latency(r, parts, fwd) ==
    CASE r.kind = "federated" -> RoundTime(parts, fwd)
      [] r.kind = "training" -> 2 * ComputeTime(parts) + 2 * EdgeTime(fwd)
      [] OTHER -> ComputeTime(parts) + EdgeTime(fwd)

(* round(x, 6): to the nearest, and to the even one between two.           *)
Rounded(x) ==
    LET q == x \div Grain
        rest == x % Grain
    IN  IF 2 * rest < Grain \/ (2 * rest = Grain /\ q % 2 = 0)
          THEN q * Grain ELSE q * Grain + Grain

TransferBytes(r, fwd) ==
    IF r.kind = "training" THEN 3 * EdgeBytes(fwd) ELSE EdgeBytes(fwd)

Pressure(r, parts) ==
    Max({(1000 * parts[i].memory) \div Max({1, r.memory[parts[i].device]})
         : i \in DOMAIN parts})

Terms(r, parts, fwd) ==
    [time |-> PerMille(Latency(r, parts, fwd), LatencyReference),
     bytes |-> PerMille(TransferBytes(r, fwd), TransferReference),
     memory |-> Min({1000, Pressure(r, parts)})]

InferenceScore(r, parts, fwd) ==
    LET term == Terms(r, parts, fwd)
    IN  Weight.latency * term.time + Weight.pressure * term.memory
          + Weight.communication * term.bytes

TrainingScore(r, parts, fwd) ==
    LET term == Terms(r, parts, fwd)
    IN  Weight.stepTime * term.time + Weight.balance * Imbalance(parts)
          + Weight.memory * term.memory + Weight.bytes * term.bytes
          + Weight.resilience * Risk(parts)

Score(r, parts, fwd) ==
    IF Training(r) THEN TrainingScore(r, parts, fwd)
                   ELSE InferenceScore(r, parts, fwd)

(* _build_candidate and _build_federated_full_model_candidate.  lim holds  *)
(* the links and the memory limits a replan has to respect.  The agent     *)
(* judges the latency that it then records rounded.                        *)
MemoryFitsWithoutHeadroom(r, part, lim) == part.memory <= r.memory[part.device]
MemoryFitsStrictly(r, part, lim) == part.memory < Allowed(r, part.device)

MemoryFits(r, part, lim) ==
    /\ part.memory <= Allowed(r, part.device)
    /\ part.device \in DOMAIN lim.memory =>
         part.memory <= lim.memory[part.device]

Candidate(r, people, split, lim) ==
    LET parts == Partitions(r, people, split)
        fwd == ForwardEdges(r, parts, lim)
    IN  [split |-> split, parts |-> parts, nodes |-> Nodes(r, parts),
         edges |-> IF r.kind = "training" THEN TrainingEdges(r, parts, fwd)
                                          ELSE fwd,
         latency |-> Rounded(Latency(r, parts, fwd)), bytes |-> TransferBytes(r, fwd),
         score |-> Score(r, parts, fwd),
         valid |-> /\ \A i \in DOMAIN parts : MemoryFits(r, parts[i], lim)
                   /\ Usable(r, parts, lim) = Crossing(r, parts)
                   /\ ~Over(TransferBytes(r, fwd), r.maxBytes)
                   /\ ~Over(Latency(r, parts, fwd), r.maxLatency)]

Candidates(r, people, excludedSplits, lim) ==
    {Candidate(r, people, s, lim) : s \in Splits(r, people, excludedSplits)}

(* DeterministicPolicyRanker: the valid candidate with the lowest score,   *)
(* ties broken by the split points.                                        *)
EarlierSplit(s, t) ==
    s = t \/ Min((s \ t) \cup (t \ s)) \in s

Baseline(candidates) ==
    LET valid == {c \in candidates : c.valid}
    IN  IF valid = {} THEN NoCandidate
        ELSE CHOOSE c \in valid : \A d \in valid :
               \/ c.score < d.score
               \/ c.score = d.score /\ EarlierSplit(c.split, d.split)

----------------------------------------------------------------------------
(* PartitionPlanValidator: the structure of a selected candidate, worked   *)
(* out again from the request.  The identity, mode, snapshot and signature *)
(* checks compare values the agent copied from the request.                *)

LayersCovered(r, c) ==
    \/ /\ r.kind = "federated" /\ Len(c.parts) = Len(r.participants)
       /\ \A i \in DOMAIN c.parts : c.parts[i].layers = DOMAIN r.layers
    \/ /\ UNION {c.parts[i].layers : i \in DOMAIN c.parts} = DOMAIN r.layers
       /\ \A i, j \in DOMAIN c.parts : i < j =>
            \A k \in c.parts[i].layers, l \in c.parts[j].layers : k < l

MemoryRight(r, part) ==
    /\ part.memory = MemoryDemand(r, part.layers)
    /\ part.memory <= Allowed(r, part.device)

LinkExists(r, c, e) ==
    LET device(n) == CHOOSE d \in DOMAIN r.memory : <<n, d>> \in c.nodes
        pair == <<device(e.from), device(e.to)>>
    IN  \/ pair[1] = pair[2] \/ pair \in DOMAIN r.link
        \/ Training(r) /\ e.type = "backward"
             /\ <<pair[2], pair[1]>> \in DOMAIN r.link

(* _validate_training_graph_contract; for inference the forward chain.     *)
ExpectedEdges(r, c) ==
    LET n == Len(c.parts)
        chain == 1..n - 1
    IN  CASE r.kind = "federated" ->
               {<<<<i, "forward">>, Aggregation, "aggregation">> : i \in 2..n}
          [] r.kind = "training" ->
               {<<<<i, "forward">>, <<i + 1, "forward">>, "forward">> : i \in chain}
               \cup {<<<<i + 1, "backward">>, <<i, "backward">>, "backward">>
                     : i \in chain}
               \cup {<<<<n, "forward">>, <<n, "backward">>, "gradient">>,
                     <<<<1, "backward">>, Aggregation, "aggregation">>}
          [] OTHER ->
               {<<<<i, "forward">>, <<i + 1, "forward">>, "forward">> : i \in chain}

EdgesAsContracted(r, c) ==
    LET actual == {<<e.from, e.to, e.type>> : e \in c.edges}
    IN  CASE Training(r) -> actual = ExpectedEdges(r, c)
          [] r.kind = "inference" -> ExpectedEdges(r, c) \subseteq actual
          [] OTHER -> TRUE

(* _has_cycle: a graph is acyclic when every set of nodes has one with no  *)
(* successor in it.                                                        *)
Acyclic(c) ==
    \A S \in (SUBSET {n[1] : n \in c.nodes}) \ {{}} :
      \E n \in S : \A e \in c.edges : e.from = n => e.to \notin S

StructureErrors(r, c) ==
    UNION {
      IF LayersCovered(r, c) THEN {} ELSE {"layer_coverage_mismatch"},
      IF \A i \in DOMAIN c.parts : c.parts[i].layers # {}
        THEN {} ELSE {"empty_partition"},
      IF \A i \in DOMAIN c.parts : c.parts[i].device \in ToSet(r.participants)
        THEN {} ELSE {"unknown_partition_device"},
      IF \A i \in DOMAIN c.parts : MemoryRight(r, c.parts[i])
        THEN {} ELSE {"memory_capacity_exceeded"},
      IF c.nodes = Nodes(r, c.parts)
        THEN {} ELSE {"graph_node_partition_mismatch"},
      IF \A e \in c.edges : LinkExists(r, c, e)
        THEN {} ELSE {"missing_network_link"},
      IF EdgesAsContracted(r, c) THEN {} ELSE {"graph_contract_mismatch"},
      IF Acyclic(c) THEN {} ELSE {"execution_graph_cycle"},
      IF Over(c.latency, r.maxLatency) THEN {"latency_slo_exceeded"} ELSE {},
      IF Over(c.bytes, r.maxBytes) THEN {"max_transfer_bytes_exceeded"} ELSE {}}

(* What an inference request asks of the service, which the agent never    *)
(* looks at.  Both estimates may be missing; throughput is per second.     *)
HasThroughput(r, c) == r.slots > 0 /\ c.latency > 0
ThroughputMet(r, c) == r.slots * Second >= r.rps * c.latency

(* 1.0 where the selected partitions, their nodes and the links between    *)
(* them agree with the snapshot, and otherwise 0.0.                        *)
SnapshotAvailability(r, c) ==
    IF /\ \A i \in DOMAIN c.parts :
            c.parts[i].device \in DOMAIN r.memory \cap ToSet(r.participants)
       /\ c.nodes = Nodes(r, c.parts)
       /\ EdgesAsContracted(r, c)
       /\ \A pair \in Chained(c.parts) :
            LET link == Pair(c.parts, pair) IN link[1] = link[2] \/ link \in DOMAIN r.link
      THEN 100 ELSE 0

ServiceErrors(r, c) ==
    IF r.kind # "inference" THEN {}
    ELSE UNION {
      IF c.latency > r.slo THEN {"latency_slo_exceeded"} ELSE {},
      IF ~HasThroughput(r, c) THEN {"predicted_throughput_unverifiable"}
      ELSE IF ThroughputMet(r, c) THEN {}
      ELSE {"predicted_throughput_capacity_exceeded"},
      IF SnapshotAvailability(r, c) < r.availability
        THEN {"snapshot_availability_target_not_met"} ELSE {}}

Errors(r, c) ==
    IF c = NoCandidate THEN {"selected_candidate_required"}
    ELSE (IF c.valid THEN {} ELSE {"selected_plan_not_valid"})
           \cup StructureErrors(r, c) \cup ServiceErrors(r, c)
=============================================================================
