------------------------ MODULE MCMutualSupervision ------------------------
(* Two reviewers of equal weight: one may veto restarts, one scale-outs.   *)
EXTENDS MutualSupervision

MCWeight == [r \in 1 .. 2 |-> 1]
MCVetoScopes == <<{"availability", "recovery"}, {"capacity", "budget"}>>
MCActionSpace == Kinds

Act(k, o, n) == [kind |-> k, own |-> o, replicas |-> n]
\* Scale targets at the observed replicas, between them and the bound, at the
\* bound and above it; another deployment.
MCProposable ==
  {Act("observe_only", TRUE, 0), Act("rollout_restart", TRUE, 0),
   Act("scale_out", FALSE, 3)}
  \cup {Act("scale_out", TRUE, n) : n \in 2 .. 5}
=============================================================================
