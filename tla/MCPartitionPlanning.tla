------------------------- MODULE MCPartitionPlanning -------------------------
(* Two callers; three devices in a line of links, one of them slow and     *)
(* small; four layers in three blocks.  Planning requests of each kind:    *)
(* one whose service level is out of the agent's sight, one that nothing   *)
(* fits, two whose latency rounds to the other side of the limit (the      *)
(* agent blocks one and plans the other), one that names a device twice,   *)
(* one whose aggregation links are not a chain, and several that are       *)
(* malformed; round plans, with and without a latency constraint, the      *)
(* first fitting to the byte; and coordination plans of the three modes,   *)
(* one that its context does not know and one that names a participant     *)
(* twice.                                                                  *)
EXTENDS PartitionPlanning

CONSTANTS c1, c2, a, b, slow, m, good, unobserved

MCCallers == {c1, c2}
Sym == Permutations(MCCallers)

MCWeight == [stepTime |-> 350, balance |-> 200, memory |-> 200, bytes |-> 150,
             resilience |-> 100,
             latency |-> 500, pressure |-> 300, communication |-> 200]

Device(id, available, speed) ==
    [whole |-> TRUE, id |-> id, capacity |-> 50, available |-> available,
     speed |-> speed]
DevicesWith(x, y, z) == <<Device(a, x, 1), Device(b, y, 2), Device(slow, z, 3)>>
Link(from, to, latency) ==
    [whole |-> TRUE, from |-> from, to |-> to, latency |-> latency, perByte |-> 1]
Links == <<Link(a, b, 1), Link(b, slow, 2), Link(b, a, 1), Link(slow, a, 1),
           Link(a, slow, 5)>>

Block(names, params, act) ==
    [whole |-> TRUE, layers |-> names, params |-> params, act |-> act,
     work |-> Len(names)]
Profile(blocks) ==
    [whole |-> TRUE, model |-> m, version |-> 1, blocks |-> blocks]
Blocks == <<Block(<<"l1", "l2">>, 10, 3), Block(<<"l3">>, 4, 1),
            Block(<<"l4">>, 4, 4)>>
RegistryOf(version) == [whole |-> TRUE, model |-> m, version |-> version]

Mode(name) == [name |-> name, approved |-> TRUE, provenance |-> TRUE]
Limits(latency) ==
    [whole |-> TRUE, maxBytes |-> 60, headroom |-> 10, maxLatency |-> latency]

Request(type, name, people, devices) ==
    [legacy |-> FALSE, mode |-> Mode(name),
     envelope |-> [whole |-> TRUE, approved |-> TRUE, provenance |-> TRUE,
                   type |-> type],
     plan |-> [whole |-> TRUE, model |-> m, version |-> 1,
               participants |-> people, constraints |-> Limits(100),
               slo |-> 100, rps |-> 10, slots |-> 4, availability |-> 99],
     snapshot |-> [whole |-> TRUE, devices |-> devices, links |-> Links,
                   profile |-> Profile(Blocks), registry |-> RegistryOf(1),
                   forecast |-> <<>>]]
SplitTraining(people, devices) == Request("training", "split_learning", people, devices)
Inference(people, devices) == Request("inference", "split_inference", people, devices)
Federated(people, devices) == Request("training", "federated_learning", people, devices)
Roomy == DevicesWith(40, 25, 15)

Requests ==
    {Inference(<<a, b, slow>>, Roomy),
     [Inference(<<a, b>>, Roomy) EXCEPT !.plan.rps = 300],
     [Inference(<<a, b>>, DevicesWith(40, 10, 15)) EXCEPT
        !.snapshot.links[1] = Link(a, b, 3), !.plan.constraints = Limits(8)],
     SplitTraining(<<a, b>>, DevicesWith(40, 5, 15)),
     [SplitTraining(<<a, b>>, Roomy) EXCEPT !.plan.constraints = Limits(23)],
     Federated(<<a, b, slow>>, DevicesWith(40, 40, 40))}
Odd ==
    {[Inference(<<a, a>>, DevicesWith(20, 25, 15)) EXCEPT
        !.snapshot.links = <<Link(a, a, 1)>>],
     [Federated(<<a, b>>, DevicesWith(40, 40, 40)) EXCEPT
        !.snapshot.links = <<Link(b, a, 1)>>]}
Malformed ==
    LET good_ == Inference(<<a, b>>, Roomy)
    IN  {[good_ EXCEPT !.mode.approved = FALSE],
         [good_ EXCEPT !.mode.name = "federated_learning"],
         [good_ EXCEPT !.plan.version = 2],
         [good_ EXCEPT !.plan.availability = 120],
         [good_ EXCEPT !.snapshot.devices[1].capacity = 30],
         [good_ EXCEPT !.snapshot.links = <<Link(a, m, 1)>>],
         [good_ EXCEPT !.snapshot.links = <<Link(b, a, 1)>>],
         [good_ EXCEPT !.snapshot.profile.blocks[2].layers = <<"l1">>],
         [good_ EXCEPT !.snapshot.forecast = <<[whole |-> TRUE, uncertainty |-> 150]>>]}

Layer(name, params, act, compute) ==
    [whole |-> TRUE, name |-> name, params |-> params, act |-> act, work |-> 1,
     compute |-> compute]
RoundPlan(people, latency) ==
    [model |-> m, mode |-> Mode("split_inference"),
     layers |-> <<Layer("l1", 4, 2, 1), Layer("l2", 6, 3, 2), Layer("l3", 4, 1, 1),
                  Layer("l4", 4, 4, 1)>>,
     participants |-> people, devices |-> DevicesWith(40, 25, 10), links |-> Links,
     constraints |-> Limits(latency)]
RoundPlans == {RoundPlan(<<a, b, slow>>, 100), RoundPlan(<<a, b>>, NoLimit),
               RoundPlan(<<b, b>>, 100)}

Participant(id, priority) == [id |-> id, priority |-> priority]
Coordination(task, selected, people) ==
    [whole |-> TRUE, schema |-> "0.4", task |-> task, selected |-> selected,
     participants |-> people, model |-> m, version |-> 1, latency |-> 80,
     rps |-> 0, timeout |-> 2, slots |-> 4, availability |-> 0]
Coordinations ==
    {Coordination("federated_training", "FL", <<Participant(b, 1), Participant(a, 2)>>),
     Coordination("federated_training", "SL", <<Participant(slow, 3), Participant(b, 2)>>),
     Coordination("distributed_inference", "PARTITIONED",
                  <<Participant(b, 2), Participant(a, 1)>>),
     Coordination("distributed_inference", "PARTITIONED",
                  <<Participant(a, 2), Participant(m, 1)>>),
     Coordination("federated_training", "FL", <<Participant(a, 1), Participant(a, 2)>>)}
MCContext ==
    [devices |-> DevicesWith(40, 40, 15), links |-> Links,
     models |-> {[model |-> m, version |-> 1, profile |-> Profile(Blocks),
                  registry |-> RegistryOf(1)]}]

MCSubmissions ==
    {[form |-> "request", body |-> p] : p \in Requests \cup Odd \cup Malformed}
      \cup {[form |-> "round_plan", body |-> p] : p \in RoundPlans}
      \cup {[form |-> "coordination", body |-> p] : p \in Coordinations}

MCSupportedModes ==
    [training |-> {"split_learning", "federated_learning"},
     inference |-> {"split_inference"}]

MCDevices == {b}
MCLinks == {<<a, slow>>}
Artifact(v, scope) == [version |-> v, scope |-> scope, whole |-> TRUE, sound |-> TRUE]
MCRegistry == good :> Artifact(good, "observed")
                @@ unobserved :> Artifact(unobserved, "synthetic")
MCRankings == {<<"deterministic", NoModel>>, <<"learned_guarded", good>>,
              <<"shadow", unobserved>>}
=============================================================================
