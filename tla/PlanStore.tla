------------------------------- MODULE PlanStore -------------------------------
(***************************************************************************)
(* What the versioned plan store promises its callers: a plan appears at   *)
(* once, after the plan it replaces, and stays.  It hides the directories, *)
(* the markers, failing calls and crashes.  PartitionRepository implements *)
(* it file by file.                                                        *)
(***************************************************************************)
EXTENDS Naturals

CONSTANT NoPlan

VARIABLES
    visible,    \* the plans that get() would show: id, version and parent
    clash,      \* two callers have worked on one path at once
    raced       \* two children of one plan were published at once

storeVars == <<visible, clash, raced>>

Ids(plans) == {v.id : v \in plans}

\* The plans there are at first have different ids, and no two one parent.
StoreInit ==
    /\ \A v, w \in visible :
          \/ v.id = w.id
          \/ v.parent = w.parent /\ v.parent # NoPlan
          => v = w
    /\ clash = FALSE /\ raced = FALSE

\* the first plan of a lineage, or the next version of a visible one
Succeeds(v) ==
    \/ v.version = 1 /\ v.parent = NoPlan
    \/ \E w \in visible : v.parent = w.id /\ v.version = w.version + 1

\* Two saves of children of one plan do not see each other.
Publish(v) ==
    /\ v.id \notin Ids(visible)
    /\ Succeeds(v)
    /\ raced \/ \A w \in visible : v.parent # w.parent \/ v.parent = NoPlan
    /\ visible' = visible \cup {v}

\* Nothing is promised once two callers have worked on one path at once.
StoreNext ==
    /\ clash => clash'
    /\ raced => raced'
    /\ \/ clash'
       \/ UNCHANGED visible
       \/ \E v \in visible' \ visible : Publish(v)

StoreSpec == StoreInit /\ [][StoreNext]_storeVars
=============================================================================
