------------------------ MODULE MCPartitionRepository ------------------------
(* A root plan that may be there already and two plans that both replace   *)
(* it, one of them over a legacy directory.  Two saves: the root twice,    *)
(* the legacy child twice, root and child, or both children.               *)
EXTENDS PartitionRepository, TLC

CONSTANTS root, left, right

MCPlans == {root, left, right}
MCVersion == (root :> 1) @@ (left :> 2) @@ (right :> 2)
MCParent == (root :> NoPlan) @@ (left :> root) @@ (right :> root)
MCRequests == {f \in [Saves -> MCPlans] :
                  Range(f) \in {{root}, {left}, {root, left}, {left, right}}}
(* After a clash every property but the type invariant is satisfied: such  *)
(* states are left unexplored where the saves are of different plans, the  *)
(* larger cases.                                                           *)
Worthwhile == clash => \A s, t \in Saves : target[s] = target[t]

SaveSymmetry == Permutations(Saves)
=============================================================================
