-------------------------- MODULE MCPartitionRankers --------------------------
(* Two plans of one lineage, one of the same job in another lineage, one   *)
(* of another job; then plans that must not become observed rows: without  *)
(* measured evidence, with evidence of another plan, half saved, or saved  *)
(* by feedback without its sidecars.  Six features: the plans differ in    *)
(* the first two, and the candidates lie inside, or outside in one or two. *)
EXTENDS PartitionRankers, TLC

CONSTANTS p1, p2, p3, p4, p6, p7, p8, j1, j2

MCFeature(a, b) == <<a, b, 0, 0, 0, 0>>
MCFeatures == {MCFeature(5, 0), MCFeature(6, 1), MCFeature(6, 2), MCFeature(9, 2)}
MCPlans == {p1, p2, p3, p4, p6, p7, p8}
Whole(root, job, lineage, reward, feature) ==
    [root |-> root, job |-> job, snapshot |-> job, lineage |-> lineage,
     committed |-> TRUE, pending |-> FALSE, latest |-> TRUE, selected |-> TRUE,
     request |-> TRUE, intent |-> TRUE, evidence |-> "observed", signed |-> TRUE,
     outcomeMatches |-> TRUE, reward |-> reward, feature |-> MCFeature(feature, reward \div 2)]
MCPlan ==
    p1 :> Whole("r1", "a", "x", 0, 4) @@ p2 :> Whole("r1", "a", "x", 2, 6)
      @@ p3 :> Whole("r2", "a", "y", 1, 5) @@ p4 :> Whole("r3", "b", "z", 2, 6)
      @@ p6 :> [Whole("r4", "b", "z", 1, 4) EXCEPT !.evidence = "predicted"]
      @@ p7 :> [Whole("r3", "b", "v", 1, 4) EXCEPT !.outcomeMatches = FALSE]
      @@ p8 :> [Whole("r2", "b", "v", 1, 4) EXCEPT !.pending = TRUE, !.request = FALSE]
MCBuilds == {<<{"r1", "r2"}, "observed">>, <<{"r1", "r2", "r3"}, "observed">>,
             <<{"r4"}, "predicted">>}
Sym == Permutations({j1, j2})
=============================================================================
