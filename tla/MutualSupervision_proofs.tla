----------------------- MODULE MutualSupervision_proofs -----------------------
(***************************************************************************)
(* What one run of the coordinator guarantees, proved for every number of  *)
(* reviewers, weights, veto scopes, protocol and bound.                    *)
(***************************************************************************)
EXTENDS MutualSupervision, FiniteSetTheorems, WellFoundedInduction, SequenceTheorems,
        TLAPS

LookFields == {"observed", "looks", "success", "moved"}

\* The types the arithmetic and the Boolean variables need.
CounterTypes ==
    /\ cfg \in [strategy : Strategies, mode : {"mock", "dry-run", "real"},
                external : BOOLEAN]
    /\ DOMAIN monitor = LookFields
    /\ attempt \in Nat /\ mutations \in Nat /\ late \in Nat
    /\ valid \in BOOLEAN /\ held \in BOOLEAN /\ signal \in BOOLEAN

\* The action is carried out, and the run looks at what came of it.
Judging == {"observe", "assess", "review"}

\* Past the checks the action in hand keeps satisfying them, and the executor
\* works under the lock the run needs.
CheckedUnderLock ==
    /\ pc \in {"lock", "execute"} \cup Judging =>
           SemanticallySound(action) /\ ValidAction(action)
    /\ pc \in {"execute"} \cup Judging => held = NeedsLock

\* The attempt in hand has not changed the cluster before its command.
\* MutationsBounded alone would let every step of an attempt use its budget.
BudgetLeft ==
    /\ pc \in {"begin", "diagnose", "propose"} => attempt = 0 /\ mutations = 0
    /\ pc \in {"negotiate", "validate", "lock", "execute"} => mutations < attempt
    /\ late > 0 => pc = "done"
    /\ cfg.mode # "real" => mutations = 0

\* A real command that kubectl accepted has changed the cluster.
AcceptedMeansChanged ==
    pc \in Judging /\ valid /\ cfg.mode = "real" /\ action.kind # "observe_only"
        => mutations > 0

\* What the deployment was at the last look it still is, unless somebody else
\* has scaled it since; and a look that was judged a success did show one.
LookStands ==
    /\ pc \in {"assess", "review"} /\ desired # monitor.observed => monitor.moved
    /\ pc = "assess" => ~ monitor.success
    /\ pc = "review" /\ monitor.success => CanAssessSuccess

\* The report is written when run() ends.
ReportAtEnd == pc # "done" => final.status = "running"

SupervisionInv ==
    /\ CounterTypes
    /\ DispatchedAsReviewed
    /\ CheckedUnderLock
    /\ BudgetLeft
    /\ MutationsBounded
    /\ AcceptedMeansChanged
    /\ LookStands
    /\ ReportAtEnd
    /\ RecoveredMeansVerified
    /\ MutationNeverSilent

-----------------------------------------------------------------------------
USE ProfileAssumption

(* The initial state satisfies the inductive invariant.                    *)
LEMMA SupervisionInit == Init => SupervisionInv
<1> SUFFICES ASSUME Init PROVE SupervisionInv
  OBVIOUS
<1> USE DEF Init
<1>1. CounterTypes /\ ReportAtEnd
  BY DEF CounterTypes, ReportAtEnd, NoLook, LookFields
<1>2. DispatchedAsReviewed /\ CheckedUnderLock /\ AcceptedMeansChanged /\ LookStands
  BY DEF DispatchedAsReviewed, CheckedUnderLock, AcceptedMeansChanged, LookStands, Judging
<1>3. BudgetLeft /\ MutationsBounded /\ RecoveredMeansVerified /\ MutationNeverSilent
  BY DEF BudgetLeft, MutationsBounded, RecoveredMeansVerified, MutationNeverSilent
<1> QED
  BY <1>1, <1>2, <1>3 DEF SupervisionInv

(* Going on to the next candidate, or giving up, keeps the invariant: the  *)
(* new attempt has its whole budget left.                                  *)
LEMMA NextCandidate ==
    ASSUME SupervisionInv, pc # "done", NEW cs, TakeCandidate(cs, attempt + 1),
           UNCHANGED cfg, valid' \in BOOLEAN, UNCHANGED signal,
           DOMAIN monitor' = LookFields,
           mutations' \in Nat, late' \in Nat, late' = 0,
           mutations' <= attempt, cfg.mode # "real" => mutations' = 0
    PROVE  SupervisionInv'
<1>1. \/ /\ pc' = "negotiate" /\ attempt' = attempt + 1 /\ UNCHANGED final
      \/ /\ pc' = "done" /\ UNCHANGED attempt
         /\ final' = [status |-> "safe_failure", human |-> TRUE]
  BY DEF TakeCandidate, Finish
<1>2. held' = FALSE
  BY DEF TakeCandidate, Finish
<1>3. CounterTypes'
  <2>1. attempt' \in Nat
    BY <1>1 DEF SupervisionInv, CounterTypes
  <2> QED
    BY <1>2, <2>1, Zenon DEF SupervisionInv, CounterTypes
<1>4. DispatchedAsReviewed' /\ CheckedUnderLock' /\ AcceptedMeansChanged' /\ LookStands'
  BY <1>1 DEF DispatchedAsReviewed, CheckedUnderLock, AcceptedMeansChanged, LookStands,
              Judging
<1>5. BudgetLeft' /\ MutationsBounded'
  BY <1>1 DEF SupervisionInv, CounterTypes, BudgetLeft, MutationsBounded
<1>6. ReportAtEnd' /\ RecoveredMeansVerified' /\ MutationNeverSilent'
  BY <1>1 DEF SupervisionInv, ReportAtEnd, RecoveredMeansVerified, MutationNeverSilent
<1> QED
  BY <1>3, <1>4, <1>5, <1>6 DEF SupervisionInv

(* Leaving run() keeps the invariant when the report fits what was done.   *)
LEMMA RunEnds ==
    ASSUME SupervisionInv, pc # "done", NEW status, NEW human, Finish(status, human),
           UNCHANGED <<cfg, attempt, signal, monitor>>, valid' \in BOOLEAN,
           mutations' \in Nat, late' \in 0..1, mutations' <= attempt,
           cfg.mode # "real" => mutations' = 0,
           status \in {"recovered", "recovered_after_replan"} =>
               pc = "review" /\ monitor.success
                 /\ UNCHANGED <<desired, evidence, action, valid, mutations>>,
           mutations' > 0 =>
               human \/ status \in {"recovered", "recovered_after_replan", "raised"}
    PROVE  SupervisionInv'
<1>1. pc' = "done" /\ held' = FALSE /\ final' = [status |-> status, human |-> human]
  BY DEF Finish
<1>2. CounterTypes'
  <2>1. late' \in Nat
    OBVIOUS
  <2> QED
    BY <1>1, <2>1, Zenon DEF SupervisionInv, CounterTypes
<1>3. /\ DispatchedAsReviewed' /\ CheckedUnderLock' /\ AcceptedMeansChanged'
      /\ LookStands' /\ ReportAtEnd'
  BY <1>1 DEF DispatchedAsReviewed, CheckedUnderLock, AcceptedMeansChanged, LookStands,
              ReportAtEnd, Judging
<1>4. BudgetLeft' /\ MutationsBounded'
  BY <1>1 DEF SupervisionInv, CounterTypes, BudgetLeft, MutationsBounded
<1>5. RecoveredMeansVerified'
  BY <1>1 DEF SupervisionInv, RecoveredMeansVerified, AcceptedMeansChanged, LookStands,
              CanAssessSuccess, Judging
<1>6. MutationNeverSilent'
  BY <1>1 DEF MutationNeverSilent
<1> QED
  BY <1>2, <1>3, <1>4, <1>5, <1>6 DEF SupervisionInv

(* A safe stop, or an exception that the caller sees, keeps the invariant. *)
LEMMA RunStops ==
    ASSUME SupervisionInv, pc # "done", Stop \/ Raise,
           UNCHANGED <<cfg, attempt, valid, monitor, signal, mutations, late>>
    PROVE  SupervisionInv'
<1>1. /\ mutations \in Nat /\ late = 0 /\ mutations <= attempt /\ valid \in BOOLEAN
      /\ cfg.mode # "real" => mutations = 0
  BY DEF SupervisionInv, CounterTypes, BudgetLeft, MutationsBounded
<1>2. ASSUME NEW status \in {"safe_stopped", "raised"}, NEW human,
             Finish(status, human), human \/ status = "raised"
      PROVE  SupervisionInv'
  BY <1>1, <1>2, RunEnds
<1> QED
  BY <1>2 DEF Stop, Raise

(* Going on without a change to the cluster keeps the bookkeeping.         *)
LEMMA RunGoesOn ==
    ASSUME SupervisionInv, pc # "done", pc' # "done",
           UNCHANGED <<cfg, attempt, mutations, late, final>>,
           valid' \in BOOLEAN, held' \in BOOLEAN, signal' \in BOOLEAN,
           DOMAIN monitor' = LookFields,
           pc' \in {"begin", "diagnose", "propose"} =>
               pc \in {"begin", "diagnose", "propose"},
           pc' \in {"negotiate", "validate", "lock", "execute"} =>
               pc \in {"negotiate", "validate", "lock", "execute"}
    PROVE  /\ CounterTypes' /\ BudgetLeft' /\ MutationsBounded' /\ ReportAtEnd'
           /\ RecoveredMeansVerified' /\ MutationNeverSilent'
<1>1. CounterTypes'
  BY Zenon DEF SupervisionInv, CounterTypes
<1>2. BudgetLeft' /\ MutationsBounded'
  BY DEF SupervisionInv, CounterTypes, BudgetLeft, MutationsBounded
<1>3. ReportAtEnd' /\ RecoveredMeansVerified' /\ MutationNeverSilent'
  BY DEF SupervisionInv, ReportAtEnd, RecoveredMeansVerified, MutationNeverSilent
<1> QED
  BY <1>1, <1>2, <1>3

(* Every step of the coordinator and of its surroundings.                  *)
LEMMA SupervisionStep == SupervisionInv /\ [Next]_vars => SupervisionInv'
<1> SUFFICES ASSUME SupervisionInv, [Next]_vars PROVE SupervisionInv'
  OBVIOUS
<1>0. /\ attempt \in Nat /\ mutations \in Nat /\ late \in Nat
      /\ valid \in BOOLEAN /\ held \in BOOLEAN /\ signal \in BOOLEAN
      /\ DOMAIN monitor = LookFields
      /\ mutations <= attempt
      /\ pc # "done" => late = 0
      /\ cfg.mode # "real" => mutations = 0
      /\ pc \in {"begin", "diagnose", "propose"} => attempt = 0 /\ mutations = 0
  BY DEF SupervisionInv, CounterTypes, BudgetLeft, MutationsBounded
<1> DEFINE Facts == /\ DispatchedAsReviewed /\ CheckedUnderLock
                    /\ AcceptedMeansChanged /\ LookStands
<1>facts. Facts
  BY DEF SupervisionInv
<1> USE DEF DispatchedAsReviewed, CheckedUnderLock, AcceptedMeansChanged, LookStands,
            Judging, LookFields
<1>1. CASE Begin
  <2>1. ASSUME NEW status \in {"raised", "safe_stopped"}, NEW human, Finish(status, human)
        PROVE  SupervisionInv'
    BY <1>0, <1>1, <2>1, RunEnds DEF Begin
  <2>2. CASE pc' = "diagnose" /\ UNCHANGED <<held, final>>
    <3>1. Facts'
      BY <2>2
    <3> QED
      BY <1>0, <1>1, <2>2, <3>1, RunGoesOn DEF Begin, SupervisionInv
  <2> QED
    BY <1>1, <2>1, <2>2 DEF Begin, Stop, Raise
<1>2. CASE Diagnose
  <2>1. ASSUME NEW status \in {"raised", "safe_stopped", "no_action_required"}, NEW human,
               Finish(status, human)
        PROVE  SupervisionInv'
    BY <1>0, <1>2, <2>1, RunEnds DEF Diagnose
  <2>2. CASE pc' = "propose" /\ UNCHANGED <<held, final>>
    <3>1. Facts'
      BY <2>2
    <3> QED
      BY <1>0, <1>2, <2>2, <3>1, RunGoesOn DEF Diagnose, SupervisionInv
  <2> QED
    BY <1>2, <2>1, <2>2 DEF Diagnose, Stop, Raise
<1>3. CASE Propose
  <2>1. CASE Stop /\ UNCHANGED <<candidates, attempt, round, action>>
    BY <1>3, <2>1, RunStops DEF Propose
  <2>2. CASE TakeCandidate(candidates', 1)
    <3>1. TakeCandidate(candidates', attempt + 1)
      BY <1>0, <1>3, <2>2 DEF Propose
    <3> QED
      BY <1>0, <1>3, <3>1, NextCandidate DEF Propose
  <2> QED
    BY <1>3, <2>1, <2>2 DEF Propose
<1>4. CASE Negotiate
  <2>1. pc = "negotiate"
    BY <1>4 DEF Negotiate
  <2>2. UNCHANGED <<cfg, desired, evidence, attempt, valid, monitor, signal, mutations,
                    late>>
    BY <1>4 DEF Negotiate
  <2>3. \/ Stop \/ Raise
        \/ /\ pc' = "validate" /\ UNCHANGED <<action, held, final>>
           /\ last'.action = action
           /\ Gave(last'.answers, "revise") = {}
           /\ Resolve(action, last'.answers)
        \/ UNCHANGED <<pc, held, final>>
    <3>1. ASSUME NEW reviews \in [Reviewers -> ReviewOutput],
                 last' = [action |-> action, answers |-> AnswersOf(reviews)],
                 Resolve(action, AnswersOf(reviews)),
                 Gave(AnswersOf(reviews), "revise") = {},
                 pc' = "validate" /\ UNCHANGED <<action, round, held, final>>
          PROVE  /\ last'.action = action
                 /\ Gave(last'.answers, "revise") = {}
                 /\ Resolve(action, last'.answers)
      BY <3>1
    <3> QED
      BY <1>4, <3>1 DEF Negotiate
  <2>4. CASE Stop \/ Raise
    BY <2>1, <2>2, <2>4, RunStops
  <2>5. CASE /\ pc' = "validate" /\ UNCHANGED <<action, held, final>>
             /\ last'.action = action
             /\ Gave(last'.answers, "revise") = {}
             /\ Resolve(action, last'.answers)
    <3>1. Facts'
      BY <2>1, <2>2, <2>5 DEF Resolve
    <3> QED
      BY <1>0, <2>1, <2>2, <2>5, <3>1, RunGoesOn DEF SupervisionInv
  <2>6. CASE UNCHANGED <<pc, held, final>>
    <3>1. Facts'
      BY <2>1, <2>6
    <3> QED
      BY <1>0, <2>1, <2>2, <2>6, <3>1, RunGoesOn DEF SupervisionInv
  <2> QED
    BY <2>3, <2>4, <2>5, <2>6
<1>5. CASE Validate
  <2>1. CASE (Raise \/ Stop) /\ UNCHANGED <<attempt, round, action>>
    BY <1>5, <2>1, RunStops DEF Validate
  <2>2. CASE TakeCandidate(candidates, attempt + 1)
    BY <1>0, <1>5, <2>2, NextCandidate DEF Validate
  <2>3. CASE /\ SemanticallySound(action) /\ ValidAction(action)
             /\ pc' = "lock" /\ UNCHANGED <<attempt, round, action, held, final>>
    <3>1. Facts'
      BY <1>5, <2>3, <1>facts DEF Validate, SemanticallySound, ValidAction, Resolve
    <3> QED
      BY <1>0, <1>5, <2>3, <3>1, RunGoesOn DEF Validate, SupervisionInv
  <2> QED
    BY <1>5, <2>1, <2>2, <2>3 DEF Validate
<1>6. CASE Lock
  <2>1. CASE Raise \/ Stop
    BY <1>6, <2>1, RunStops DEF Lock
  <2>2. CASE pc' = "execute" /\ held' = NeedsLock /\ UNCHANGED final
    <3>1. Facts'
      BY <1>6, <2>2, <1>facts DEF Lock, SemanticallySound, ValidAction, Resolve, NeedsLock
    <3> QED
      BY <1>0, <1>6, <2>2, <3>1, RunGoesOn DEF Lock, SupervisionInv, NeedsLock
  <2> QED
    BY <1>6, <2>1, <2>2 DEF Lock
<1>7. CASE Execute
  <2>1. PICK ok \in BOOLEAN, applied \in BOOLEAN :
            /\ ok => applied
            /\ valid' = ok
            /\ Apply(applied)
            /\ IF signal
                 THEN Raise /\ UNCHANGED <<attempt, round, action>>
               ELSE IF cfg.mode # "dry-run"
                 THEN /\ pc' = "observe"
                      /\ UNCHANGED <<attempt, round, action, held, final>>
               ELSE IF ok
                 THEN /\ Finish("dry_run_validated", FALSE)
                      /\ UNCHANGED <<attempt, round, action>>
               ELSE TakeCandidate(candidates, attempt + 1)
    BY <1>7 DEF Execute
  <2>2. pc = "execute" /\ UNCHANGED <<cfg, evidence, candidates, last, monitor, signal>>
    BY <1>7 DEF Execute
  <2>3. mutations < attempt /\ late = 0
    BY <1>0, <2>2 DEF SupervisionInv, BudgetLeft
  <2>4. /\ mutations' \in Nat /\ mutations' <= attempt /\ late' \in 0..1
        /\ ~signal => late' = 0
        /\ cfg.mode # "real" => mutations' = 0
        /\ cfg.mode = "real" /\ applied /\ action.kind # "observe_only" => mutations' > 0
    BY <1>0, <2>1, <2>3 DEF Apply
  <2>5. CASE signal
    BY <1>0, <2>1, <2>2, <2>4, <2>5, RunEnds DEF Raise
  <2>6. CASE ~signal /\ cfg.mode # "dry-run"
    <3>1. pc' = "observe" /\ UNCHANGED <<attempt, action, held, final>>
      BY <2>1, <2>6
    <3>2. DispatchedAsReviewed' /\ CheckedUnderLock'
      BY <2>2, <3>1, <1>facts DEF Resolve, SemanticallySound, ValidAction, NeedsLock
    <3>3. AcceptedMeansChanged' /\ LookStands'
      BY <2>1, <2>2, <2>4, <3>1
    <3>4. CounterTypes'
      <4>1. late' \in Nat
        BY <2>4
      <4> QED
        BY <2>1, <2>2, <2>4, <3>1, <4>1, Zenon DEF SupervisionInv, CounterTypes
    <3>5. BudgetLeft' /\ MutationsBounded'
      BY <2>2, <2>4, <2>6, <3>1 DEF BudgetLeft, MutationsBounded
    <3>6. ReportAtEnd' /\ RecoveredMeansVerified' /\ MutationNeverSilent'
      BY <2>2, <3>1 DEF SupervisionInv, ReportAtEnd, RecoveredMeansVerified,
                        MutationNeverSilent
    <3> QED
      BY <3>2, <3>3, <3>4, <3>5, <3>6 DEF SupervisionInv
  <2>7. CASE ~signal /\ cfg.mode = "dry-run" /\ ok
    <3>1. Finish("dry_run_validated", FALSE) /\ UNCHANGED <<attempt, round, action>>
      BY <2>1, <2>7, Zenon
    <3>2. pc # "done" /\ valid' \in BOOLEAN /\ UNCHANGED <<cfg, attempt, signal, monitor>>
      BY <2>1, <2>2, <3>1
    <3>3. mutations' = 0 /\ ~(mutations' > 0)
      BY <2>4, <2>7
    <3>4. "dry_run_validated" \notin {"recovered", "recovered_after_replan"}
      OBVIOUS
    <3> QED
      BY <2>4, <3>1, <3>2, <3>3, <3>4, RunEnds, Zenon
  <2>8. CASE ~signal /\ cfg.mode = "dry-run" /\ ~ok
    BY <1>0, <2>1, <2>2, <2>4, <2>8, NextCandidate
  <2> QED
    BY <2>5, <2>6, <2>7, <2>8
<1>8. CASE Collect
  <2>1. /\ pc = "observe"
        /\ UNCHANGED <<cfg, desired, evidence, attempt, action, last, valid, signal,
                       mutations, late>>
    BY <1>8 DEF Collect
  <2>2. CASE Raise /\ UNCHANGED monitor
    BY <2>1, <2>2, RunStops
  <2>3. CASE Look(1) /\ pc' = "assess" /\ UNCHANGED <<held, final>>
    <3>1. DOMAIN monitor' = LookFields
          /\ monitor'.observed = desired /\ monitor'.success = FALSE
      BY <1>0, <2>3 DEF Look
    <3>2. Facts'
      BY <2>1, <2>3, <3>1, <1>facts DEF Resolve, SemanticallySound, ValidAction, NeedsLock
    <3> QED
      BY <1>0, <2>1, <2>3, <3>1, <3>2, RunGoesOn DEF SupervisionInv
  <2> QED
    BY <1>8, <2>2, <2>3 DEF Collect
<1>9. CASE Assess
  <2>1. /\ pc = "assess"
        /\ UNCHANGED <<cfg, desired, evidence, attempt, action, last, valid, signal,
                       mutations, late>>
    BY <1>9 DEF Assess
  <2>2. CASE Raise /\ UNCHANGED monitor
    BY <2>1, <2>2, RunStops
  <2>3. CASE /\ CanAssessSuccess /\ monitor' = [monitor EXCEPT !.success = TRUE]
             /\ pc' = "review" /\ UNCHANGED <<held, final>>
    <3>1. DOMAIN monitor' = LookFields
          /\ monitor'.observed = monitor.observed /\ monitor'.moved = monitor.moved
      BY <1>0, <2>3
    <3>2. LookStands'
      BY <2>1, <2>3, <3>1, <1>facts DEF CanAssessSuccess
    <3>3. Facts'
      BY <2>1, <2>3, <3>2, <1>facts DEF Resolve, SemanticallySound, ValidAction, NeedsLock
    <3> QED
      BY <1>0, <2>1, <2>3, <3>1, <3>3, RunGoesOn DEF SupervisionInv
  <2>4. CASE pc' = "review" /\ UNCHANGED <<monitor, held, final>>
    <3>1. Facts'
      BY <2>1, <2>4, <1>facts DEF Resolve, SemanticallySound, ValidAction, NeedsLock
    <3> QED
      BY <1>0, <2>1, <2>4, <3>1, RunGoesOn DEF SupervisionInv
  <2>5. CASE Look(monitor.looks + 1) /\ UNCHANGED <<pc, held, final>>
    <3>1. DOMAIN monitor' = LookFields
          /\ monitor'.observed = desired /\ monitor'.success = FALSE
      BY <1>0, <2>5 DEF Look
    <3>2. Facts'
      BY <2>1, <2>5, <3>1, <1>facts DEF Resolve, SemanticallySound, ValidAction, NeedsLock
    <3> QED
      BY <1>0, <2>1, <2>5, <3>1, <3>2, RunGoesOn DEF SupervisionInv
  <2> QED
    BY <1>9, <2>2, <2>3, <2>4, <2>5 DEF Assess
<1>10. CASE PostReview
  <2>1. /\ pc = "review"
        /\ UNCHANGED <<cfg, desired, evidence, candidates, last, valid, signal,
                       mutations, late>>
    BY <1>10 DEF PostReview
  <2>2. CASE Raise /\ UNCHANGED <<attempt, round, action, monitor>>
    BY <2>1, <2>2, RunStops
  <2>3. CASE Finish("safe_failure", TRUE) /\ UNCHANGED <<attempt, round, action, monitor>>
    <3>1. /\ pc # "done"
          /\ valid' \in BOOLEAN /\ mutations' \in Nat /\ late' \in 0..1
          /\ mutations' <= attempt
          /\ cfg.mode # "real" => mutations' = 0
          /\ UNCHANGED <<cfg, attempt, signal, monitor>>
      BY <1>0, <2>1, <2>3
    <3>2. "safe_failure" \notin {"recovered", "recovered_after_replan"}
      OBVIOUS
    <3> QED
      BY <2>1, <2>3, <3>1, <3>2, RunEnds, Zenon
  <2>4. CASE TakeCandidate(candidates, attempt + 1) /\ monitor' = NoLook
    <3>1. DOMAIN monitor' = LookFields
      BY <2>4 DEF NoLook, LookFields
    <3> QED
      BY <1>0, <2>1, <2>4, <3>1, NextCandidate
  <2>5. ASSUME NEW status \in {"recovered", "recovered_after_replan"},
               monitor.success, Finish(status, FALSE),
               UNCHANGED <<attempt, round, action, monitor>>
        PROVE  SupervisionInv'
    <3>1. /\ pc # "done"
          /\ valid' \in BOOLEAN /\ mutations' \in Nat /\ late' \in 0..1
          /\ mutations' <= attempt
          /\ cfg.mode # "real" => mutations' = 0
          /\ UNCHANGED <<cfg, attempt, signal, monitor>>
      BY <1>0, <2>1, <2>5
    <3>2. UNCHANGED <<desired, evidence, action, valid, mutations>>
      BY <2>1, <2>5
    <3> QED
      BY <2>1, <2>5, <3>1, <3>2, RunEnds, Zenon
  <2> QED
    BY <1>10, <2>2, <2>3, <2>4, <2>5 DEF PostReview
<1>11. CASE Cancel
  <2>1. /\ pc # "done" /\ signal' \in BOOLEAN
        /\ UNCHANGED <<cfg, pc, desired, evidence, attempt, action, last, valid, monitor,
                       held, mutations, late, final>>
    BY <1>0, <1>11 DEF Cancel
  <2>2. Facts'
    BY <2>1, <1>facts DEF Resolve, SemanticallySound, ValidAction, NeedsLock,
                          CanAssessSuccess
  <2> QED
    BY <1>0, <2>1, <2>2, RunGoesOn DEF SupervisionInv
<1>12. CASE Drift
  <2>1. /\ pc # "done" /\ signal' \in BOOLEAN
        /\ DOMAIN monitor' = LookFields
        /\ pc \in {"assess", "review"} => monitor'.moved
        /\ monitor'.success = monitor.success /\ monitor'.observed = monitor.observed
        /\ UNCHANGED <<cfg, pc, evidence, attempt, action, last, valid, held,
                       mutations, late, final>>
    BY <1>0, <1>12 DEF Drift
  <2>2. Facts'
    BY <2>1, <1>facts DEF Resolve, SemanticallySound, ValidAction, NeedsLock,
                          CanAssessSuccess
  <2> QED
    BY <1>0, <2>1, <2>2, RunGoesOn DEF SupervisionInv
<1>13. CASE UNCHANGED vars
  <2>1. Facts'
    BY <1>13, <1>facts DEF vars, Resolve, SemanticallySound, ValidAction, NeedsLock,
                                   CanAssessSuccess
  <2>2. CounterTypes'
    BY <1>13, Zenon DEF vars, SupervisionInv, CounterTypes
  <2>3. /\ BudgetLeft' /\ MutationsBounded' /\ ReportAtEnd' /\ RecoveredMeansVerified'
        /\ MutationNeverSilent'
    BY <1>13 DEF vars, SupervisionInv, BudgetLeft, MutationsBounded, ReportAtEnd,
                 RecoveredMeansVerified, MutationNeverSilent
  <2> QED
    BY <2>1, <2>2, <2>3 DEF SupervisionInv
<1> QED
  BY <1>1, <1>2, <1>3, <1>4, <1>5, <1>6, <1>7, <1>8, <1>9, <1>10,
     <1>11, <1>12, <1>13
     DEF Next, Coordinator

(* In every reachable state the inductive invariant holds.                 *)
THEOREM SupervisionInvariant == Spec => []SupervisionInv
BY SupervisionInit, SupervisionStep, PTL DEF Spec

(* What is executed is word for word what the last round reviewed and the  *)
(* strategy approved, for any reviewers, weights and veto scopes.          *)
THEOREM ReviewedTheorem == Spec => []DispatchedAsReviewed
<1>1. SupervisionInv => DispatchedAsReviewed
  BY DEF SupervisionInv
<1> QED
  BY SupervisionInvariant, <1>1, PTL

(* A run changes the cluster at most once per attempt, and at most once    *)
(* after it was cancelled, also when kubectl times out after the change.   *)
THEOREM BoundedTheorem == Spec => []MutationsBounded
<1>1. SupervisionInv => MutationsBounded
  BY DEF SupervisionInv
<1> QED
  BY SupervisionInvariant, <1>1, PTL

(* A reported recovery follows a command kubectl accepted, and the last    *)
(* look at the deployment, taken after it, found the replicas asked for;   *)
(* if it has others when the run reports, somebody else scaled it since.   *)
THEOREM RecoveredTheorem == Spec => []RecoveredMeansVerified
<1>1. SupervisionInv => RecoveredMeansVerified
  BY DEF SupervisionInv
<1> QED
  BY SupervisionInvariant, <1>1, PTL

(* A run that changed the cluster never ends as nothing to do or as a dry  *)
(* run.                                                                    *)
THEOREM NeverSilentTheorem == Spec => []MutationNeverSilent
<1>1. SupervisionInv => MutationNeverSilent
  BY DEF SupervisionInv
<1> QED
  BY SupervisionInvariant, <1>1, PTL

(* Every change run() makes to the replicas is a scale-out the last round  *)
(* approved, inside the validator's bounds, above the replicas observed,   *)
(* in real mode and under the target's lock.                               *)
THEOREM SanctionedTheorem == Spec => MutationSanctioned
<1> DEFINE Sanctioned ==
        desired' # desired /\ pc' # pc =>
            /\ cfg.mode = "real" /\ (held \/ cfg.external)
            /\ last.action.kind = "scale_out" /\ last.action.replicas = desired'
            /\ desired' \in MinReplicas .. MaxReplicas
            /\ desired' > evidence
<1>1. SupervisionInv /\ [Next]_vars => [Sanctioned]_vars
  <2> SUFFICES ASSUME SupervisionInv, [Next]_vars, desired' # desired, pc' # pc
               PROVE  Sanctioned
    OBVIOUS
  <2>1. CASE Execute
    <3>1. /\ pc = "execute" /\ cfg.mode = "real" /\ action.kind = "scale_out"
          /\ desired' = action.replicas
      BY <2>1 DEF Execute, Apply
    <3>2. /\ last.action = action /\ SemanticallySound(action) /\ ValidAction(action)
          /\ held = NeedsLock
      BY <3>1 DEF SupervisionInv, DispatchedAsReviewed, CheckedUnderLock
    <3>3. held \/ cfg.external
      BY <3>1, <3>2 DEF NeedsLock
    <3> QED
      BY <3>1, <3>2, <3>3 DEF SemanticallySound, ValidAction
  <2>2. CASE Drift \/ Cancel \/ UNCHANGED vars
    BY <2>2 DEF Drift, Cancel, vars
  <2>3. CASE \/ Begin \/ Diagnose \/ Propose \/ Negotiate \/ Validate \/ Lock
             \/ Collect \/ Assess \/ PostReview
    BY <2>3 DEF Begin, Diagnose, Propose, Negotiate, Validate, Lock, Collect, Assess,
                PostReview
  <2> QED
    BY <2>1, <2>2, <2>3 DEF Next, Coordinator
<1> QED
  BY SupervisionInvariant, <1>1, PTL DEF Spec, MutationSanctioned

-----------------------------------------------------------------------------
(* A set of natural numbers has a least element.                           *)
LEMMA LeastNatural ==
    ASSUME NEW S \in SUBSET Nat, S # {}
    PROVE  Min(S) \in S /\ \A y \in S : Min(S) <= y
<1> DEFINE Below(x) == {y \in S : y <= x}
           T == {Below(x) : x \in S}
<1>1. T \subseteq FiniteSubsetsOf(Nat) /\ T # {}
  <2>1. ASSUME NEW x \in S PROVE Below(x) \in FiniteSubsetsOf(Nat)
    <3>1. x \in Nat /\ \A y \in Below(x) : y \in Nat /\ y <= x
      OBVIOUS
    <3>2. Below(x) \subseteq 0 .. x
      <4> HIDE DEF Below
      <4>1. \A y \in Below(x) : y \in 0 .. x
        BY <3>1
      <4> QED
        BY <4>1
    <3>3. IsFiniteSet(0 .. x)
      BY <3>1, FS_Interval
    <3>4. IsFiniteSet(Below(x)) /\ Below(x) \subseteq Nat
      BY <3>1, <3>2, <3>3, FS_Subset
    <3> QED
      BY <3>4 DEF FiniteSubsetsOf
  <2> HIDE DEF Below
  <2> QED
    BY <2>1
<1>2. \E A \in T : \A B \in T : <<B, A>> \notin StrictSubsetOrdering(Nat)
  BY <1>1, FS_StrictSubsetOrderingWellFounded, WFMin
<1>3. PICK x \in S : \A y \in S : <<Below(y), Below(x)>> \notin StrictSubsetOrdering(Nat)
  BY <1>2
<1>4. ASSUME NEW y \in S, ~(x <= y) PROVE FALSE
  <2>1. x \in Nat /\ y \in Nat /\ S \subseteq Nat
    OBVIOUS
  <2>2. y < x /\ \A z \in S : z <= y => z <= x
    BY <1>4, <2>1
  <2>3. Below(y) \subseteq Below(x)
    BY <2>2, Zenon
  <2>4. x \in Below(x) /\ x \notin Below(y)
    BY <2>1, <2>2
  <2>5. Below(y) \subseteq Nat /\ Below(x) \subseteq Nat
    BY <2>1
  <2>6. <<Below(y), Below(x)>> \in StrictSubsetOrdering(Nat)
    <3> HIDE DEF Below
    <3> QED
      BY <2>3, <2>4, <2>5 DEF StrictSubsetOrdering
  <2> QED
    BY <1>3, <2>6
<1> QED
  BY <1>4 DEF Min

(* The sound actions of a proposal are actions of it.                      *)
LEMMA SoundOnesKept ==
    ASSUME NEW proposed \in SeqOf(Proposable, MaxProposals),
           NEW sound \in SoundOnes(proposed)
    PROVE  sound \in Seq(Proposable)
<1> DEFINE I == {i \in DOMAIN proposed : SemanticallySound(proposed[i])}
<1>1. PICK m \in 0 .. MaxProposals : proposed \in [1 .. m -> Proposable]
  BY DEF SeqOf
<1>2. I \in SUBSET (1 .. m)
  BY <1>1
<1>3. Cardinality(I) \in Nat
  <2>1. IsFiniteSet(I)
    BY <1>2, FS_Interval, FS_Subset
  <2> QED
    BY <2>1, FS_CardinalityType
<1>4. PICK o \in SetToSeqs(I) : sound = [k \in DOMAIN o |-> proposed[o[k]]]
  BY DEF SoundOnes
<1>5. o \in [1 .. Cardinality(I) -> I]
  BY DEF SetToSeqs
<1>6. sound \in [1 .. Cardinality(I) -> Proposable]
  BY <1>1, <1>2, <1>4, <1>5
<1> HIDE DEF I
<1> QED
  BY <1>3, <1>6, SeqDef

(* What is tried of them are as many actions as attempts are allowed.      *)
LEMMA TriedKept ==
    ASSUME NEW sound \in Seq(Proposable)
    PROVE  LET cs == SubSeq(sound, 1, MaxAttempts(sound))
           IN  cs \in Seq(Proposable) /\ Len(cs) <= MaxReplan + 1
<1> DEFINE n == MaxAttempts(sound)
<1>1. Len(sound) \in Nat /\ MaxReplan \in Nat
  BY LenProperties
<1>2. n \in Nat /\ n <= Len(sound) /\ n <= MaxReplan + 1
  <2> DEFINE S == {Len(sound), MaxReplan + 1}
  <2>1. Min(S) \in S /\ \A y \in S : Min(S) <= y
    BY <1>1, LeastNatural
  <2> QED
    BY <1>1, <2>1 DEF MaxAttempts
<1>3. \A i \in 1 .. n : sound[i] \in Proposable
  BY <1>1, <1>2, ElementOfSeq
<1> HIDE DEF n
<1>4. /\ SubSeq(sound, 1, n) \in Seq(Proposable)
      /\ Len(SubSeq(sound, 1, n)) = IF 1 <= n THEN n - 1 + 1 ELSE 0
  BY <1>2, <1>3, SubSeqProperties
<1> QED
  BY <1>2, <1>4 DEF n

(* A revision is an action, whoever suggested it.                          *)
LEMMA RevisionTyped ==
    ASSUME NEW a \in Action, NEW reviews \in [Reviewers -> ReviewOutput]
    PROVE  ApplyRevisions(a, reviews) \in Action
<1> DEFINE rs == Suggesting(reviews)
<1>1. \A r \in rs : reviews[r].suggestion \in Action
  BY DEF Suggesting, ReviewOutput
<1>2. CASE rs = {}
  BY <1>2 DEF ApplyRevisions
<1>3. CASE rs # {} /\ a.kind = "scale_out"
  <2> DEFINE asked == {reviews[r].suggestion.replicas : r \in rs}
  <2>1. asked \in SUBSET Nat /\ asked # {}
    BY <1>1, <1>3 DEF Action
  <2>2. Min(asked) \in Nat
    BY <2>1, LeastNatural
  <2>3. ApplyRevisions(a, reviews) = [a EXCEPT !.replicas = Min(asked)]
    BY <1>3 DEF ApplyRevisions
  <2> HIDE DEF asked
  <2> QED
    BY <2>2, <2>3 DEF Action
<1>4. CASE rs # {} /\ a.kind # "scale_out"
  <2>1. rs \in SUBSET Nat
    BY DEF Suggesting, Reviewers
  <2>2. Min(rs) \in rs
    BY <1>4, <2>1, LeastNatural
  <2> QED
    BY <1>1, <1>4, <2>2 DEF ApplyRevisions
<1> QED
  BY <1>2, <1>3, <1>4

\* The candidates are no more than the attempts allowed, and what is
\* negotiated, and carried out, is an action.
WithinAttempts ==
    /\ Len(candidates) <= MaxReplan + 1
    /\ pc \in {"negotiate", "validate", "lock", "execute"} => action \in Action

TypeInv == TypeOK /\ WithinAttempts

Looks == [observed : Nat, looks : 0 .. MaxLooks, success : BOOLEAN, moved : BOOLEAN]

(* The monitor that has not looked yet is well typed.                      *)
LEMMA NoLookTyped == NoLook \in Looks
<1>1. 0 \in 0 .. MaxLooks /\ 0 \in Nat
  OBVIOUS
<1> QED
  BY <1>1, Zenon DEF NoLook, Looks

(* The initial state is well typed.                                        *)
LEMMA TypeInit == Init => TypeInv
<1> SUFFICES ASSUME Init PROVE TypeInv
  OBVIOUS
<1>1. candidates \in Seq(Proposable) /\ Len(candidates) = 0
  BY EmptySeq DEF Init
<1>2. NoRound \in [action : Action \cup {NoAction}, answers : [Reviewers -> Answers]]
  BY DEF NoRound, Answers
<1>3. cfg \in [strategy : Strategies, mode : {"mock", "dry-run", "real"},
              external : BOOLEAN]
  BY DEF Init
<1>4. /\ MaxReplan \in Nat /\ MaxRounds \in Nat /\ 0 \in 0 .. MaxReplan + 1
      /\ 0 \in 0 .. MaxRounds
  OBVIOUS
<1>5. WithinAttempts
  BY <1>1, <1>4 DEF Init, WithinAttempts
<1>6. TypeOK
  BY <1>1, <1>2, <1>3, <1>4, NoLookTyped DEF Init, TypeOK, Looks
<1> QED
  BY <1>5, <1>6 DEF TypeInv

Statuses == {"running", "safe_stopped", "no_action_required", "dry_run_validated",
             "recovered", "recovered_after_replan", "safe_failure", "raised"}

(* The variables that say where a run stands keep their types however it   *)
(* ends, ...                                                               *)
LEMMA FinishTyped ==
    ASSUME NEW status \in Statuses, NEW human \in BOOLEAN, Finish(status, human)
    PROVE  /\ pc' = "done" /\ held' \in BOOLEAN
           /\ final' \in [status : Statuses, human : BOOLEAN]
BY DEF Finish

(* ... and when it goes on to the next of its candidates.                  *)
LEMMA TakeTyped ==
    ASSUME NEW cs \in Seq(Proposable), Len(cs) <= MaxReplan + 1, NEW i \in Nat \ {0},
           TypeOK, TakeCandidate(cs, i)
    PROVE  /\ pc' \in {"negotiate", "done"} /\ held' \in BOOLEAN
           /\ final' \in [status : Statuses, human : BOOLEAN]
           /\ attempt' \in 0 .. MaxReplan + 1
           /\ round' \in 0 .. MaxRounds
           /\ action' \in Action \cup {NoAction}
           /\ pc' = "negotiate" => action' \in Action
<1>0. Len(cs) \in Nat /\ MaxReplan \in Nat /\ MaxRounds \in Nat \ {0}
  BY LenProperties
<1>1. CASE i <= Len(cs)
  <2>1. cs[i] \in Proposable
    BY <1>0, <1>1, ElementOfSeq
  <2>2. /\ attempt' = i /\ round' = 1 /\ action' = cs[i] /\ pc' = "negotiate"
        /\ held' = FALSE /\ UNCHANGED final
    BY <1>1 DEF TakeCandidate
  <2>3. final \in [status : Statuses, human : BOOLEAN]
    BY DEF TypeOK, Statuses
  <2>4. attempt' \in 0 .. MaxReplan + 1 /\ round' \in 0 .. MaxRounds
    BY <1>0, <1>1, <2>2
  <2>5. action' \in Action
    BY <2>1, <2>2
  <2>6. held' \in BOOLEAN /\ final' \in [status : Statuses, human : BOOLEAN]
    BY <2>2, <2>3
  <2> QED
    BY <2>2, <2>4, <2>5, <2>6
<1>2. CASE ~(i <= Len(cs))
  <2>1. Finish("safe_failure", TRUE) /\ UNCHANGED <<attempt, round, action>>
    BY <1>2 DEF TakeCandidate
  <2>2. pc' = "done" /\ held' \in BOOLEAN
        /\ final' \in [status : Statuses, human : BOOLEAN]
    BY <2>1, FinishTyped DEF Statuses
  <2> QED
    BY <2>1, <2>2 DEF TypeOK
<1> QED
  BY <1>1, <1>2

(* Every step keeps the types and the bounds on rounds and attempts.       *)
LEMMA TypeStep == TypeInv /\ [Next]_vars => TypeInv'
<1> SUFFICES ASSUME TypeInv, [Next]_vars PROVE TypeInv'
  OBVIOUS
<1>t. /\ TypeOK /\ WithinAttempts
      /\ desired \in Nat /\ evidence \in Nat /\ candidates \in Seq(Proposable)
      /\ attempt \in Nat /\ attempt \in 0 .. MaxReplan + 1 /\ round \in 0 .. MaxRounds
      /\ action \in Action \cup {NoAction} /\ mutations \in Nat /\ late \in Nat
      /\ final \in [status : Statuses, human : BOOLEAN] /\ monitor \in Looks
  BY DEF TypeInv, TypeOK, Statuses, Looks
\* What a step of the coordinator may leave where the run stands.
<1> DEFINE Stands ==
        /\ pc' \in {"begin", "diagnose", "propose", "negotiate", "validate", "lock",
                    "execute", "observe", "assess", "review", "done"}
        /\ held' \in BOOLEAN
        /\ final' \in [status : Statuses, human : BOOLEAN]
        /\ attempt' \in 0 .. MaxReplan + 1
        /\ round' \in 0 .. MaxRounds
        /\ action' \in Action \cup {NoAction}
        /\ pc' \in {"negotiate", "validate", "lock", "execute"} => action' \in Action
<1>f. ASSUME NEW status \in Statuses, NEW human \in BOOLEAN, Finish(status, human),
             UNCHANGED <<attempt, round, action>>
      PROVE  Stands
  BY <1>t, <1>f, FinishTyped
<1>s. ASSUME Stop \/ Raise, UNCHANGED <<attempt, round, action>> PROVE Stands
  BY <1>f, <1>s DEF Stop, Raise, Statuses
<1>n. ASSUME TakeCandidate(candidates, attempt + 1) PROVE Stands
  BY <1>t, <1>n, TakeTyped DEF WithinAttempts
<1>r. ASSUME Stands,
             UNCHANGED <<cfg, signal>>, desired' \in Nat, evidence' \in Nat,
             candidates' \in Seq(Proposable), Len(candidates') <= MaxReplan + 1,
             last' \in [action : Action \cup {NoAction}, answers : [Reviewers -> Answers]],
             valid' \in BOOLEAN, mutations' \in Nat, late' \in Nat, monitor' \in Looks
      PROVE  TypeInv'
  <2>1. cfg' \in [strategy : Strategies, mode : {"mock", "dry-run", "real"},
                  external : BOOLEAN] /\ signal' \in BOOLEAN
    BY <1>t, <1>r DEF TypeOK
  <2> QED
    BY <1>r, <2>1 DEF TypeInv, TypeOK, WithinAttempts, Statuses, Looks
\* The candidates and the answers stay as they were in most steps.
<1>u. ASSUME Stands, UNCHANGED <<cfg, signal, candidates, last>>, desired' \in Nat,
             evidence' \in Nat, valid' \in BOOLEAN, mutations' \in Nat, late' \in Nat,
             monitor' \in Looks
      PROVE  TypeInv'
  <2>1. /\ candidates' \in Seq(Proposable) /\ Len(candidates') <= MaxReplan + 1
        /\ last' \in [action : Action \cup {NoAction}, answers : [Reviewers -> Answers]]
    BY <1>t, <1>u DEF TypeOK, WithinAttempts
  <2> HIDE DEF Stands
  <2> QED
    BY <1>r, <1>u, <2>1
<1>v. valid \in BOOLEAN /\ held \in BOOLEAN
  BY <1>t DEF TypeOK
<1>1. CASE Begin
  <2>1. Stands
    <3>1. CASE Raise \/ Stop
      BY <1>1, <1>s, <3>1 DEF Begin
    <3>2. CASE pc' = "diagnose" /\ UNCHANGED <<held, final>>
      BY <1>1, <1>t, <1>v, <3>2 DEF Begin
    <3> QED
      BY <1>1, <3>1, <3>2 DEF Begin
  <2> HIDE DEF Stands
  <2> QED
    BY <1>1, <1>t, <1>u, <1>v, <2>1 DEF Begin
<1>2. CASE Diagnose
  <2>1. Stands
    <3>1. CASE Raise \/ Stop
      BY <1>2, <1>s, <3>1 DEF Diagnose
    <3>2. CASE Finish("no_action_required", FALSE)
      BY <1>2, <1>f, <3>2 DEF Diagnose, Statuses
    <3>3. CASE pc' = "propose" /\ UNCHANGED <<held, final>>
      BY <1>2, <1>t, <1>v, <3>3 DEF Diagnose
    <3> QED
      BY <1>2, <3>1, <3>2, <3>3 DEF Diagnose
  <2> HIDE DEF Stands
  <2> QED
    BY <1>2, <1>t, <1>u, <1>v, <2>1 DEF Diagnose
<1>3. CASE Propose
  <2>0. UNCHANGED <<cfg, desired, evidence, last, valid, monitor, signal, mutations,
                  late>>
    BY <1>3 DEF Propose
  <2>1. CASE Stop /\ UNCHANGED <<candidates, attempt, round, action>>
    <3>1. Stands
      BY <1>s, <2>1
    <3> HIDE DEF Stands
    <3> QED
      BY <1>t, <1>u, <1>v, <2>0, <2>1, <3>1
  <2>2. ASSUME NEW proposed \in SeqOf(Proposable, MaxProposals),
               NEW sound \in SoundOnes(proposed),
               candidates' = SubSeq(sound, 1, MaxAttempts(sound)),
               TakeCandidate(candidates', 1)
        PROVE  TypeInv'
    <3>1. candidates' \in Seq(Proposable) /\ Len(candidates') <= MaxReplan + 1
      BY <2>2, SoundOnesKept, TriedKept
    <3>2. Stands
      <4>1. 1 \in Nat \ {0}
        OBVIOUS
      <4> QED
        BY <1>t, <2>2, <3>1, <4>1, TakeTyped
    <3>3. last' \in [action : Action \cup {NoAction}, answers : [Reviewers -> Answers]]
      BY <1>t, <2>0 DEF TypeOK
    <3> HIDE DEF Stands
    <3> QED
      BY <1>r, <1>t, <1>v, <2>0, <3>1, <3>2, <3>3
  <2> QED
    BY <1>3, <2>1, <2>2 DEF Propose
<1>4. CASE Negotiate
  <2>0. /\ pc = "negotiate" /\ action \in Action
        /\ UNCHANGED <<cfg, desired, evidence, candidates, attempt, valid, monitor, signal,
                       mutations, late>>
    BY <1>4, <1>t DEF Negotiate, WithinAttempts
  <2>1. CASE Stop /\ UNCHANGED <<action, round, last>>
    <3>1. Stands
      BY <1>s, <2>0, <2>1
    <3> HIDE DEF Stands
    <3> QED
      BY <1>t, <1>u, <1>v, <2>0, <2>1, <3>1
  <2>2. ASSUME NEW reviews \in [Reviewers -> ReviewOutput],
               last' = [action |-> action, answers |-> AnswersOf(reviews)],
               \/ (Stop \/ Raise) /\ UNCHANGED <<action, round>>
               \/ pc' = "validate" /\ UNCHANGED <<action, round, held, final>>
               \/ /\ action' = ApplyRevisions(action, reviews)
                  /\ \/ /\ round < MaxRounds /\ round' = round + 1
                        /\ UNCHANGED <<pc, held, final>>
                     \/ (Stop \/ Raise) /\ UNCHANGED round
        PROVE  TypeInv'
    <3>1. Stands
      <4>1. CASE (Stop \/ Raise) /\ UNCHANGED <<action, round>>
        BY <1>s, <2>0, <4>1
      <4>2. CASE pc' = "validate" /\ UNCHANGED <<action, round, held, final>>
        BY <1>t, <1>v, <2>0, <4>2
      <4>3. CASE action' = ApplyRevisions(action, reviews)
        <5>1. action' \in Action /\ attempt' \in 0 .. MaxReplan + 1
          BY <1>t, <2>0, <4>3, RevisionTyped
        <5>2. CASE round < MaxRounds /\ round' = round + 1 /\ UNCHANGED <<pc, held, final>>
          BY <1>t, <1>v, <2>0, <5>1, <5>2
        <5>3. CASE (Stop \/ Raise) /\ UNCHANGED round
          <6>1. /\ pc' = "done" /\ held' \in BOOLEAN
                /\ final' \in [status : Statuses, human : BOOLEAN]
            BY <5>3, FinishTyped DEF Stop, Raise, Statuses
          <6> QED
            BY <1>t, <5>1, <5>3, <6>1
        <5> QED
          BY <2>2, <4>1, <4>2, <4>3, <5>2, <5>3
      <4> QED
        BY <2>2, <4>1, <4>2, <4>3
    <3>2. last' \in [action : Action \cup {NoAction}, answers : [Reviewers -> Answers]]
      <4>1. AnswersOf(reviews) \in [Reviewers -> Answers]
        BY DEF AnswersOf, ReviewOutput, Answers, Verdicts
      <4> QED
        BY <2>0, <2>2, <4>1
    <3>3. candidates' \in Seq(Proposable) /\ Len(candidates') <= MaxReplan + 1
      BY <1>t, <2>0 DEF WithinAttempts
    <3> HIDE DEF Stands
    <3> QED
      BY <1>r, <1>t, <1>v, <2>0, <3>1, <3>2, <3>3
  <2>3. \/ Stop /\ UNCHANGED <<action, round, last>>
        \/ \E reviews \in [Reviewers -> ReviewOutput] :
             /\ last' = [action |-> action, answers |-> AnswersOf(reviews)]
             /\ \/ (Stop \/ Raise) /\ UNCHANGED <<action, round>>
                \/ pc' = "validate" /\ UNCHANGED <<action, round, held, final>>
                \/ /\ action' = ApplyRevisions(action, reviews)
                   /\ \/ /\ round < MaxRounds /\ round' = round + 1
                         /\ UNCHANGED <<pc, held, final>>
                      \/ (Stop \/ Raise) /\ UNCHANGED round
    BY <1>4, Zenon DEF Negotiate
  <2> QED
    BY <2>1, <2>2, <2>3
<1>5. CASE Validate
  <2>0. action \in Action
    BY <1>5, <1>t DEF Validate, WithinAttempts
  <2>1. Stands
    <3>1. CASE (Raise \/ Stop) /\ UNCHANGED <<attempt, round, action>>
      BY <1>s, <3>1
    <3>2. CASE TakeCandidate(candidates, attempt + 1)
      BY <1>n, <3>2
    <3>3. CASE pc' = "lock" /\ UNCHANGED <<attempt, round, action, held, final>>
      BY <1>t, <1>v, <2>0, <3>3
    <3> QED
      BY <1>5, <3>1, <3>2, <3>3 DEF Validate
  <2> HIDE DEF Stands
  <2> QED
    BY <1>5, <1>t, <1>u, <1>v, <2>1 DEF Validate
<1>6. CASE Lock
  <2>1. Stands
    <3>1. CASE Raise \/ Stop
      BY <1>6, <1>s, <3>1 DEF Lock
    <3>2. CASE pc' = "execute" /\ held' = NeedsLock /\ UNCHANGED final
      <4>1. action \in Action /\ UNCHANGED <<attempt, round, action>>
        BY <1>6, <1>t DEF Lock, WithinAttempts
      <4>2. held' \in BOOLEAN
        BY <3>2, Zenon DEF NeedsLock
      <4> QED
        BY <1>t, <3>2, <4>1, <4>2
    <3> QED
      BY <1>6, <3>1, <3>2 DEF Lock
  <2> HIDE DEF Stands
  <2> QED
    BY <1>6, <1>t, <1>u, <1>v, <2>1 DEF Lock
<1>7. CASE Execute
  <2>0. UNCHANGED <<cfg, evidence, candidates, last, monitor, signal>>
    BY <1>7 DEF Execute
  <2>1. PICK ok \in BOOLEAN, applied \in BOOLEAN :
            /\ valid' = ok
            /\ Apply(applied)
            /\ \/ Raise /\ UNCHANGED <<attempt, round, action>>
               \/ pc' = "observe" /\ UNCHANGED <<attempt, round, action, held, final>>
               \/ Finish("dry_run_validated", FALSE) /\ UNCHANGED <<attempt, round, action>>
               \/ TakeCandidate(candidates, attempt + 1)
    BY <1>7, Zenon DEF Execute
  <2>2. Stands
    BY <1>f, <1>n, <1>s, <1>t, <1>v, <2>1 DEF Statuses
  <2>3. desired' \in Nat /\ mutations' \in Nat /\ late' \in Nat
    <3>1. action.replicas \in Nat
      BY <1>7, <1>t DEF Execute, WithinAttempts, Action
    <3> QED
      BY <1>t, <2>1, <3>1 DEF Apply
  <2> HIDE DEF Stands
  <2> QED
    BY <1>t, <1>u, <2>0, <2>1, <2>2, <2>3
<1>look. ASSUME NEW n \in 1 .. MaxLooks, Look(n) PROVE monitor' \in Looks
  BY <1>t, <1>look DEF Look, Looks
<1>8. CASE Collect \/ Assess
  <2>1. /\ pc \in {"observe", "assess"}
        /\ UNCHANGED <<cfg, desired, evidence, candidates, attempt, round, action, last,
                       valid, signal, mutations, late>>
    BY <1>8 DEF Collect, Assess
  <2>2. Stands
    <3>1. CASE Raise
      BY <1>s, <2>1, <3>1
    <3>2. CASE pc' \in {"assess", "review"} /\ UNCHANGED <<held, final>>
      BY <1>t, <1>v, <2>1, <3>2
    <3> HIDE DEF Stands
    <3> QED
      BY <1>8, <3>1, <3>2 DEF Collect, Assess
  <2>3. monitor' \in Looks
    <3>1. CASE UNCHANGED monitor \/ monitor' = [monitor EXCEPT !.success = TRUE]
      BY <1>t, <3>1 DEF Looks
    <3>2. CASE Look(1)
      BY <1>look, <3>2
    <3>3. CASE monitor.looks < MaxLooks /\ Look(monitor.looks + 1)
      <4>1. monitor.looks \in Nat
        BY <1>t DEF Looks
      <4> QED
        BY <1>look, <3>3, <4>1
    <3> QED
      BY <1>8, <3>1, <3>2, <3>3 DEF Collect, Assess
  <2> HIDE DEF Stands
  <2> QED
    BY <1>t, <1>u, <1>v, <2>1, <2>2, <2>3
<1>9. CASE PostReview
  <2>1. Stands
    <3>1. CASE Raise /\ UNCHANGED <<attempt, round, action>>
      BY <1>s, <3>1
    <3>2. ASSUME NEW status \in {"safe_failure", "recovered", "recovered_after_replan"},
                 NEW human \in BOOLEAN, Finish(status, human),
                 UNCHANGED <<attempt, round, action>>
          PROVE  Stands
      BY <1>f, <3>2 DEF Statuses
    <3>3. CASE TakeCandidate(candidates, attempt + 1)
      BY <1>n, <3>3
    <3> HIDE DEF Stands
    <3> QED
      BY <1>9, <3>1, <3>2, <3>3 DEF PostReview
  <2>2. monitor' \in Looks
    BY <1>9, <1>t, NoLookTyped, Zenon DEF PostReview
  <2> HIDE DEF Stands
  <2> QED
    BY <1>9, <1>t, <1>u, <1>v, <2>1, <2>2 DEF PostReview
<1>10. CASE Cancel
  BY <1>10, <1>t DEF Cancel, TypeInv, TypeOK, WithinAttempts
<1>11. CASE Drift
  <2>1. monitor' \in Looks
    <3>1. ASSUME NEW b \in BOOLEAN PROVE [monitor EXCEPT !.moved = b] \in Looks
      BY <1>t, <3>1, Zenon DEF Looks
    <3>2. (pc \in {"assess", "review"}) \in BOOLEAN
      OBVIOUS
    <3> QED
      BY <1>11, <3>1, <3>2, Zenon DEF Drift
  <2> QED
    BY <1>11, <1>t, <2>1 DEF Drift, TypeInv, TypeOK, WithinAttempts, Looks
<1>12. CASE UNCHANGED vars
  BY <1>12, <1>t DEF vars, TypeInv, TypeOK, WithinAttempts
<1> QED
  BY <1>1, <1>2, <1>3, <1>4, <1>5, <1>6, <1>7, <1>8, <1>9, <1>10,
     <1>11, <1>12
     DEF Next, Coordinator

(* Every variable keeps its type: in particular run() tries no more        *)
(* candidates than max_replan_attempts allows and no candidate is          *)
(* negotiated for more than max_negotiation_rounds, however the reviewers  *)
(* answer.                                                                 *)
THEOREM SupervisionTypeTheorem == Spec => []TypeOK
<1>1. Spec => []TypeInv
  BY TypeInit, TypeStep, PTL DEF Spec
<1>2. TypeInv => TypeOK
  BY DEF TypeInv
<1> QED
  BY <1>1, <1>2, PTL

(* Altogether a run changes the cluster at most max_replan_attempts + 1    *)
(* times: once for each candidate it may try.                              *)
THEOREM ChangesTheorem == Spec => [](mutations <= MaxReplan + 1)
<1>1. SupervisionInv /\ TypeOK => mutations <= MaxReplan + 1
  <2> SUFFICES ASSUME mutations \in Nat, mutations <= attempt,
                      attempt \in 0 .. MaxReplan + 1
               PROVE  mutations <= MaxReplan + 1
    BY DEF SupervisionInv, CounterTypes, MutationsBounded, TypeOK
  <2> QED
    OBVIOUS
<1> QED
  BY SupervisionInvariant, SupervisionTypeTheorem, <1>1, PTL
=============================================================================
