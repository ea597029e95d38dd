-------------------------- MODULE CandidateSelection --------------------------
(***************************************************************************)
(* GuardedCandidateSelector (partition_ranking.py): when a learned ranker  *)
(* may choose a candidate.  An artifact is [version, scope, whole, sound]: *)
(* the version it carries, its training_scope, whether its schema and hash *)
(* verify, and whether its sample count, groups, holdout error and rank    *)
(* correlation meet the guard policy.  A guess is what the model answers   *)
(* for a request: its best valid candidate and whether that lies inside    *)
(* the training distribution with enough confidence, or an error.          *)
(***************************************************************************)
CONSTANT NoModel

Modes == {"deterministic", "shadow", "learned_guarded"}

(* build_candidate_selector raises on these.                               *)
SelectorRefused(mode, version, registry) ==
    \/ mode # "deterministic" /\ version = NoModel
    \/ version # NoModel /\ version \notin DOMAIN registry

LearnedUnavailable(artifact, version) ==
    artifact.version # version \/ artifact.scope # "observed" \/ ~artifact.whole

(* _guard_failure finds nothing.                                           *)
GuardHolds(artifact, guess) ==
    artifact.sound /\ guess.confident

(* select(): the mode, model and candidate the selection records.          *)
Select(mode, version, registry, baseline, guess) ==
    LET learned == /\ mode # "deterministic"
                   /\ ~LearnedUnavailable(registry[version], version)
                   /\ ~guess.error
    IN  [mode |-> mode,
         version |-> IF learned THEN version ELSE NoModel,
         final |-> IF /\ learned /\ mode = "learned_guarded"
                      /\ GuardHolds(registry[version], guess)
                     THEN guess.pick ELSE baseline,
         fallback |-> /\ mode = "learned_guarded"
                      /\ ~(learned /\ GuardHolds(registry[version], guess))]
=============================================================================
