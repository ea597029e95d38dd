--------------------------- MODULE PartitionIntake ---------------------------
(***************************************************************************)
(* How a submission becomes the request the partition agent plans          *)
(* (partition_coordination.py, partition_context.py, partition_models.py,  *)
(* partition_common.py, partition_strategies.py and                        *)
(* federated_coordination_adapter.py).  There are three forms:             *)
(*                                                                         *)
(*   a planning request  [envelope, mode, plan, snapshot, legacy]          *)
(*   a legacy round plan [mode, layers, participants, devices, links,      *)
(*                        constraints]                                     *)
(*   a coordination plan, version 0.4, which names participants and a      *)
(*     model and is completed from a context file                          *)
(*                                                                         *)
(* A record is whole when each of its texts is there and each of its       *)
(* numbers is a finite number at or above its minimum.  What fails a check *)
(* here raises in the code, and nothing is planned.                        *)
(***************************************************************************)
EXTENDS PartitionCandidates

CONSTANTS
    SupportedModes,          \* plan type -> modes, of the strategy policies
    Context,                 \* federated context file: [devices, links, models]
    LegacyVersion            \* the version derived from a model's name

(* _objective_weights: each strategy's weights are fractions and sum to one. *)
ASSUME WeightAssumption ==
    /\ \A w \in {Weight.stepTime, Weight.balance, Weight.memory, Weight.bytes,
                 Weight.resilience, Weight.latency, Weight.pressure,
                 Weight.communication} : w \in 0..1000
    /\ Weight.stepTime + Weight.balance + Weight.memory + Weight.bytes
         + Weight.resilience = 1000
    /\ Weight.latency + Weight.pressure + Weight.communication = 1000

(* ModelPartitionPolicy.from_dict.                                         *)
ASSUME PolicyAssumption ==
    LatencyReference \in Nat \ {0} /\ TransferReference \in Nat \ {0}

(* A whole record's numbers: finite and at or above their minimum, which   *)
(* is never negative.                                                      *)
DeviceRead(d) == d.whole => {d.capacity, d.available, d.speed} \subseteq Nat
LinkRead(l) == l.whole => {l.latency, l.perByte} \subseteq Nat
LayerRead(l) == l.whole => {l.params, l.act, l.work, l.compute} \subseteq Nat
ConstraintsRead(c) ==
    c.whole => c.headroom \in Nat /\ c.maxLatency \in Nat \cup {NoLimit}
PlanRead(plan) == plan.whole => plan.availability \in Nat

IsSequence(s) == s \in Seq(ToSet(s))
DevicesRead(devices) == \A i \in DOMAIN devices : DeviceRead(devices[i])
LinksRead(links) == \A i \in DOMAIN links : LinkRead(links[i])
ProfileRead(profile) ==
    /\ IsSequence(profile.blocks)
    /\ \A i \in DOMAIN profile.blocks :
         LET block == profile.blocks[i]
         IN  IsSequence(block.layers)
             /\ (block.whole => {block.params, block.act, block.work} \subseteq Nat)

RequestRead(p) ==
    /\ ~p.legacy /\ PlanRead(p.plan) /\ ConstraintsRead(p.plan.constraints)
    /\ IsSequence(p.plan.participants)
    /\ DevicesRead(p.snapshot.devices) /\ LinksRead(p.snapshot.links)
    /\ ProfileRead(p.snapshot.profile)
RoundPlanRead(rp) ==
    /\ IsSequence(rp.layers) /\ \A i \in DOMAIN rp.layers : LayerRead(rp.layers[i])
    /\ IsSequence(rp.participants) /\ ConstraintsRead(rp.constraints)
    /\ DevicesRead(rp.devices) /\ LinksRead(rp.links)
CoordinationRead(f) ==
    /\ f.whole => {f.latency, f.slots, f.availability} \subseteq Nat
    /\ IsSequence(f.participants)

(* The context files are read by the same rules.                           *)
ASSUME ContextAssumption ==
    /\ IsSequence(Context.devices) /\ IsSequence(Context.links)
    /\ DevicesRead(Context.devices) /\ LinksRead(Context.links)
    /\ \A m \in Context.models : ProfileRead(m.profile)

Approved(mode) == mode.approved /\ mode.provenance

DeviceOk(device) == device.whole /\ device.available <= device.capacity
LinkOk(link) == link.whole
LayerOk(layer) == layer.whole
ConstraintsOk(c) == c.whole /\ c.headroom < 100

Field(records, name) == [i \in DOMAIN records |-> records[i][name]]
Pairs(links) == [i \in DOMAIN links |-> <<links[i].from, links[i].to>>]
Unique(s) == IsInjective(s)
Chain(people) == {<<people[i], people[i + 1]>> : i \in 1..Len(people) - 1}

DevicesOk(devices) ==
    (\A i \in DOMAIN devices : DeviceOk(devices[i])) /\ Unique(Field(devices, "id"))
LinksOk(links, devices) ==
    /\ \A i \in DOMAIN links : LinkOk(links[i])
    /\ Unique(Pairs(links))
    /\ UNION {{links[i].from, links[i].to} : i \in DOMAIN links}
         \subseteq ToSet(Field(devices, "id"))

----------------------------------------------------------------------------
(* FederatedRoundPlan.from_dict: the contract of legacy submissions, and   *)
(* what the repository applies to every plan it saves.                     *)
RoundPlanOk(rp) ==
    /\ Len(rp.layers) >= 2 /\ Len(rp.participants) >= 2
    /\ Len(rp.layers) >= Len(rp.participants)
    /\ \A i \in DOMAIN rp.layers : LayerOk(rp.layers[i])
    /\ Unique(Field(rp.layers, "name")) /\ Unique(rp.participants)
    /\ DevicesOk(rp.devices) /\ LinksOk(rp.links, rp.devices)
    /\ ToSet(rp.participants) \subseteq ToSet(Field(rp.devices, "id"))
    /\ Chain(rp.participants) \subseteq ToSet(Pairs(rp.links))
    /\ Approved(rp.mode) /\ ConstraintsOk(rp.constraints)

----------------------------------------------------------------------------
(* A planning request and its system context.                              *)

EnvelopeOk(e) ==
    /\ e.approved /\ e.provenance /\ e.whole
    /\ e.type \in {"training", "inference"}

TrainingPlanOk(plan) ==
    plan.whole /\ plan.participants # <<>> /\ ConstraintsOk(plan.constraints)

InferencePlanOk(plan) ==
    /\ plan.whole /\ plan.participants # <<>> /\ ConstraintsOk(plan.constraints)
    /\ plan.availability <= 100

BlockOk(b) == b.whole /\ b.layers # <<>> /\ Unique(b.layers)

ProfileOk(profile) ==
    /\ profile.whole /\ profile.blocks # <<>>
    /\ \A i \in DOMAIN profile.blocks : BlockOk(profile.blocks[i])
    /\ Unique(FlattenSeq(Field(profile.blocks, "layers")))

RegistryOk(registry) == registry.whole
ForecastOk(f) == f.whole /\ f.uncertainty <= 100

SameModel(x, y) == x.model = y.model /\ x.version = y.version

SnapshotOk(s) ==
    /\ s.whole /\ s.devices # <<>>
    /\ DevicesOk(s.devices) /\ LinksOk(s.links, s.devices)
    /\ ProfileOk(s.profile) /\ RegistryOk(s.registry)
    /\ SameModel(s.profile, s.registry)
    /\ \A i \in DOMAIN s.forecast : ForecastOk(s.forecast[i])

PlanningRequestOk(p) ==
    /\ EnvelopeOk(p.envelope)
    /\ IF p.envelope.type = "training" THEN TrainingPlanOk(p.plan)
                                       ELSE InferencePlanOk(p.plan)
    /\ SnapshotOk(p.snapshot)
    /\ Approved(p.mode)
    /\ SameModel(p.plan, p.snapshot.registry)

----------------------------------------------------------------------------
(* LegacyFederatedRoundPlanAdapter.adapt: one block per layer, and a       *)
(* latency_slo_ms of 1 when the round plan has no latency constraint.      *)

BlockOf(layer) ==
    [whole |-> TRUE, layers |-> <<layer.name>>,
     params |-> layer.params, act |-> layer.act, work |-> layer.work]

Adapt(rp) ==
    [legacy |-> TRUE, mode |-> rp.mode, layers |-> rp.layers,
     envelope |-> [whole |-> TRUE, approved |-> TRUE, provenance |-> TRUE,
                   type |-> "inference"],
     plan |-> [whole |-> TRUE, model |-> rp.model, version |-> LegacyVersion,
               participants |-> rp.participants, constraints |-> rp.constraints,
               slo |-> IF rp.constraints.maxLatency = NoLimit
                         THEN 1 ELSE rp.constraints.maxLatency,
               rps |-> 1, slots |-> 0, availability |-> 0],
     snapshot |-> [whole |-> TRUE, devices |-> rp.devices, links |-> rp.links,
                   profile |-> [whole |-> TRUE, model |-> rp.model,
                                version |-> LegacyVersion,
                                blocks |-> [i \in DOMAIN rp.layers |->
                                              BlockOf(rp.layers[i])]],
                   registry |-> [whole |-> TRUE, model |-> rp.model,
                                 version |-> LegacyVersion],
                   forecast |-> <<>>]]

----------------------------------------------------------------------------
(* FederatedCoordinationPlanV04 and its adapter.                           *)

ModeMapping(task, selected) ==
    CASE task = "federated_training" /\ selected = "FL" ->
           <<"training", "federated_learning">>
      [] task = "federated_training" /\ selected = "SL" ->
           <<"training", "split_learning">>
      [] task = "distributed_inference" /\ selected = "PARTITIONED" ->
           <<"inference", "split_inference">>
      [] OTHER -> <<>>

CoordinationPlanOk(f) ==
    /\ f.whole /\ f.schema = "0.4"
    /\ ModeMapping(f.task, f.selected) # <<>>
    /\ Len(f.participants) >= 2
    /\ Unique(Field(f.participants, "id"))
    /\ Unique(Field(f.participants, "priority"))

(* Participants in the order of their priorities: the first aggregates.    *)
ByPriority(f) ==
    LET all == f.participants
        ahead(i) == {j \in DOMAIN all : all[j].priority < all[i].priority}
        nth(k) == CHOOSE i \in DOMAIN all : Cardinality(ahead(i)) = k - 1
    IN  [k \in DOMAIN all |-> all[nth(k)].id]

(* MappingParticipantContextProvider.resolve, and what it answers.         *)
ParticipantsResolved(f) ==
    ToSet(ByPriority(f)) \subseteq ToSet(Field(Context.devices, "id"))
ResolvedDevices(f) ==
    LET all == Context.devices
    IN  Kept(all, {i \in DOMAIN all : all[i].id \in ToSet(ByPriority(f))})
ResolvedLinks(f) ==
    LET all == Context.links
    IN  Kept(all, {i \in DOMAIN all :
                     {all[i].from, all[i].to} \subseteq ToSet(ByPriority(f))})

(* MappingModelContextProvider.resolve and _validate_model_context.        *)
ModelContext(f) ==
    LET found == {m \in Context.models : SameModel(m, f)}
    IN  IF found = {} THEN {}
        ELSE {m \in found : SameModel(m.profile, f) /\ SameModel(m.registry, f)}

(* _validate_participant_context: the links the mode needs.                *)
LinkEvidence(f) ==
    LET people == ByPriority(f)
        needed == IF f.selected = "FL"
                    THEN {<<people[i], people[1]>> : i \in 2..Len(people)}
                    ELSE Chain(people)
    IN  needed \subseteq ToSet(Pairs(ResolvedLinks(f)))

(* _required_serving_number, max_concurrent_requests, _minimum_throughput. *)
ServingOk(f) ==
    f.task = "distributed_inference" =>
      f.latency > 0 /\ f.slots >= 1 /\ (f.rps > 0 \/ f.timeout > 0)
MinimumThroughput(f) == IF f.rps > 0 THEN f.rps ELSE f.slots \div f.timeout

(* _constraints: a tenth of the memory stays free, transfers are unbounded. *)
AdaptedConstraints(f) ==
    [whole |-> TRUE, maxBytes |-> NoLimit, headroom |-> 10,
     maxLatency |-> IF f.task = "distributed_inference" THEN f.latency
                                                        ELSE NoLimit]

Enriched(f) == /\ ParticipantsResolved(f) /\ ModelContext(f) # {}
               /\ LinkEvidence(f) /\ ServingOk(f)

(* FederatedCoordinationV04Adapter.adapt.                                  *)
AdaptCoordination(f) ==
    LET model == CHOOSE m \in ModelContext(f) : TRUE
        target == ModeMapping(f.task, f.selected)
    IN  [legacy |-> FALSE,
         envelope |-> [whole |-> TRUE, approved |-> TRUE, provenance |-> TRUE,
                       type |-> target[1]],
         mode |-> [name |-> target[2], approved |-> TRUE, provenance |-> TRUE],
         plan |-> [whole |-> TRUE, model |-> f.model, version |-> f.version,
                   participants |-> ByPriority(f),
                   constraints |-> AdaptedConstraints(f), slo |-> f.latency,
                   rps |-> MinimumThroughput(f), slots |-> f.slots,
                   availability |-> f.availability],
         snapshot |-> [whole |-> TRUE, devices |-> ResolvedDevices(f),
                       links |-> ResolvedLinks(f), profile |-> model.profile,
                       registry |-> model.registry, forecast |-> <<>>]]

----------------------------------------------------------------------------
(* PartitionCommonProcessor.process and the strategy that takes over.      *)

(* _layers_from_profile: a block's bytes are split evenly, its activation  *)
(* is every layer's.                                                       *)
LayersOf(block) ==
    [i \in DOMAIN block.layers |->
       [whole |-> TRUE, name |-> block.layers[i], compute |-> 1,
        params |-> block.params \div Len(block.layers), act |-> block.act,
        work |-> block.work \div Len(block.layers)]]
Layers(p) ==
    IF p.legacy THEN p.layers
    ELSE FlattenSeq([i \in DOMAIN p.snapshot.profile.blocks |->
                       LayersOf(p.snapshot.profile.blocks[i])])

ModelsMatch(p) ==
    /\ SameModel(p.plan, p.snapshot.registry)
    /\ SameModel(p.plan, p.snapshot.profile)

StrategyFound(p) == p.mode.name \in SupportedModes[p.envelope.type]

(* The first registered strategy that supports the mode.  Federated        *)
(* learning is registered last, and no other strategy names its mode.      *)
Kind(p) ==
    IF p.legacy THEN "legacy"
    ELSE IF p.mode.name = "federated_learning" THEN "federated"
    ELSE p.envelope.type

Normalize(p) ==
    LET s == p.snapshot
        ids == ToSet(Field(s.devices, "id"))
        device(d) == CHOOSE x \in ToSet(s.devices) : x.id = d
        link(pair) == CHOOSE x \in ToSet(s.links) : <<x.from, x.to>> = pair
    IN  [kind |-> Kind(p), participants |-> p.plan.participants,
         layers |-> Layers(p),
         memory |-> [d \in ids |-> device(d).available],
         speed |-> [d \in ids |-> device(d).speed],
         link |-> [pair \in ToSet(Pairs(s.links)) |->
                     [latency |-> link(pair).latency,
                      perByte |-> link(pair).perByte]],
         headroom |-> p.plan.constraints.headroom,
         maxLatency |-> p.plan.constraints.maxLatency,
         maxBytes |-> p.plan.constraints.maxBytes,
         slo |-> p.plan.slo, slots |-> p.plan.slots, rps |-> p.plan.rps,
         availability |-> p.plan.availability]

(* The round plan inside the report of a request, as the repository reads  *)
(* it again before it saves the plan (_is_independently_valid).            *)
RoundPlanOf(p) ==
    [model |-> p.plan.model, mode |-> p.mode, layers |-> Layers(p),
     participants |-> p.plan.participants, devices |-> p.snapshot.devices,
     links |-> p.snapshot.links, constraints |-> p.plan.constraints]

(* A planning request the agent can plan: read, processed and given a      *)
(* strategy without an error.                                              *)
Processable(p) ==
    /\ p.legacy \/ PlanningRequestOk(p)
    /\ ModelsMatch(p) /\ Approved(p.mode)
    /\ EarlyFeasible(Normalize(p))
    /\ StrategyFound(p)

(* The planning requests a submission leads to: one, or none when reading  *)
(* or completing it raises.                                                *)
Admitted(submission) ==
    LET body == submission.body
    IN  CASE submission.form = "request" -> {body}
          [] submission.form = "round_plan" ->
               IF RoundPlanOk(body) THEN {Adapt(body)} ELSE {}
          [] submission.form = "coordination" ->
               IF CoordinationPlanOk(body) /\ Enriched(body)
                 THEN {AdaptCoordination(body)} ELSE {}
=============================================================================
