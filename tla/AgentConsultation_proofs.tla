----------------------- MODULE AgentConsultation_proofs -----------------------
(***************************************************************************)
(* What the shipped agents guarantee the controllers that consult them,    *)
(* proved for every set of panels, cases, replies of the language model,   *)
(* policies and bounds.                                                    *)
(***************************************************************************)
EXTENDS AgentConsultation, FiniteSetTheorems, SequenceTheorems, TLAPS

OwnActions == {a \in Actions : a.own}
Supervised == panel.controller = "supervision"
InHand == {"propose", "negotiate", "dispatch"}

\* What is left of a run's candidates acts on the run's own deployment, and
\* the attempts spent and those left are as many as are allowed.
CandidatesKept ==
  /\ candidates \in Seq(OwnActions)
  /\ attempts \in Nat /\ attempts + Len(candidates) <= MaxReplan + 1
  /\ pc \in {"supervision", "autonomous", "propose"} => attempts = 0
  /\ pc \in {"negotiate", "dispatch"} => candidates # <<>>

WellTyped == TypeOK /\ CandidatesKept /\ case \in Cases \cup {NoCase}

\* A run follows its controller, which Launch has admitted.
ControllerKept ==
  /\ pc \in {"supervision"} \cup InHand => Supervised
  /\ pc \in {"autonomous", "alone"} => panel.controller = "autonomous"
  /\ pc = "mcmp" => panel.controller = "mcmp"
  /\ pc = "groupchat" => panel.controller = "groupchat"
  /\ pc \notin {"new", "refused"} /\ panel.launcher = "factory" => Uniform(panel)

\* The one chat a supervised run has heard is the one its session answers with.
ChatKept ==
  Supervised =>
    IF Key \in DOMAIN session
      THEN heard = {session[Key]} /\ Usable(session[Key])
      ELSE heard = {}

\* Nothing is carried out before a diagnosis asks for it; the chat of an AutoGen
\* diagnosis asks for it too, and the deterministic agents do not read one.
DiagnosisApproved ==
  /\ pc \in {"new", "refused", "supervision", "propose", "autonomous", "mcmp", "groupchat"}
       => executed = {}
  /\ Supervised =>
       /\ diagnosis.bounded => IsAutoGen("HA")
       /\ pc \in InHand \/ executed # {} =>
            IF IsAutoGen("HA")
              THEN /\ diagnosis.bounded /\ Key \in DOMAIN session
                   /\ session[Key].says["HA"].approved
              ELSE Actionable(diagnosis.cause)

\* What VetoHeard and BudgetKept say of one action and the verdicts on it.
ReviewersHeard(a, verdicts) ==
  \A r \in Reviewers :
    /\ verdicts[r] # "abstain"
    /\ \/ panel.strategy = "unanimous_veto"
       \/ panel.strategy = "role_based_veto" /\ a.kind = "scale_out"
       => ~ Objects(r, a)

WithinBudget(a) ==
  CostApproves(a) \/ (Supervised /\ panel.strategy = "weighted_majority")

Heeded(a, verdicts) ==
  /\ Supervised /\ (panel.launcher = "factory" \/ IsAutoGen("HA")) =>
       ReviewersHeard(a, verdicts)
  /\ ~ IsAutoGen("Cost") /\ panel.controller # "groupchat" => WithinBudget(a)

\* It holds of the action about to be dispatched and of those carried out.
ActionsHeeded ==
  /\ pc = "dispatch" => Heeded(Head(candidates), minutes)
  /\ \A x \in executed : Heeded(x.action, x.verdicts)

\* The autonomous loop tries what neither infrastructure nor cost disapproves,
\* and a recovery ended the run with the candidate that brought it.
RecoveryKept ==
  /\ panel.controller = "autonomous" =>
       \A i \in 1 .. Len(candidates) : CostApproves(candidates[i])
  /\ status \in {"recovered", "recovered_after_replan"} =>
       /\ pc = "ended"
       /\ ~ IsAutoGen("Cost") => CostApproves(Head(candidates))

\* A revision is tried in the next round, where the cost agent accepts it.
RevisionKept ==
  /\ consensus # "revision_rejected"
  /\ consensus = "revision_required" => pc = "negotiate"
  /\ pc = "negotiate" =>
       round = 1 \/ IsAutoGen("Cost") \/ CostApproves(Head(candidates))

ConsultationInv ==
  /\ WellTyped /\ ControllerKept
  /\ ChatKept /\ DiagnosisApproved /\ ActionsHeeded
  /\ RecoveryKept
  /\ MaxRounds >= 2 => RevisionKept

-----------------------------------------------------------------------------
USE ConsultationAssumption DEF ConsultationAssumption

(* A list arranged of some positions of another holds what is there.       *)
LEMMA ArrangedKeeps ==
  ASSUME NEW S, NEW T, NEW cs \in Seq(S), NEW I \in SUBSET DOMAIN cs,
         \A i \in I : cs[i] \in T, NEW before, NEW t \in Arranged(cs, I, before)
  PROVE  t \in Seq(T)
<1>1. IsFiniteSet(I)
  <2>1. DOMAIN cs = 1 .. Len(cs) /\ Len(cs) \in Nat
    BY LenProperties
  <2>2. IsFiniteSet(1 .. Len(cs))
    BY <2>1, FS_Interval
  <2> QED
    BY <2>1, <2>2, FS_Subset
<1>2. Cardinality(I) \in Nat
  BY <1>1, FS_CardinalityType
<1>3. PICK o \in SetToSeqs(I) : t = [k \in DOMAIN o |-> cs[o[k]]]
  BY DEF Arranged
<1>4. o \in [1 .. Cardinality(I) -> I]
  BY DEF SetToSeqs
<1>5. t \in [1 .. Cardinality(I) -> T]
  BY <1>3, <1>4
<1> QED
  BY <1>2, <1>5, SeqDef

(* So does what is tried of a list, and there is not too much of it.       *)
LEMMA TriedKeeps ==
  ASSUME NEW S, NEW cs \in Seq(S)
  PROVE  Tried(cs) \in Seq(S) /\ Len(Tried(cs)) <= MaxReplan + 1
<1> DEFINE n == Smaller(Len(cs), MaxReplan + 1)
<1>1. Len(cs) \in Nat /\ MaxReplan \in Nat
  BY LenProperties
<1>2. n \in Int /\ 0 <= n /\ n <= Len(cs) /\ n <= MaxReplan + 1
  BY <1>1 DEF Smaller
<1>3. \A i \in 1 .. n : cs[i] \in S
  BY <1>1, <1>2, ElementOfSeq
<1>4. SubSeq(cs, 1, n) \in Seq(S) /\ Len(SubSeq(cs, 1, n)) = IF 1 <= n THEN n - 1 + 1 ELSE 0
  <2> HIDE DEF n
  <2> QED
    BY <1>2, <1>3, SubSeqProperties
<1> QED
  BY <1>2, <1>4 DEF Tried

(* The deterministic application agent proposes actions on the deployment  *)
(* it was asked about, of the three kinds.                                 *)
LEMMA ProposalsTyped ==
  ASSUME NEW d, NEW c, c.desired \in Nat
  PROVE  RecoveryCandidates(d, c) \in Seq(OwnActions)
<1>1. \A cause : Preferred(cause) \in Kinds
  BY DEF Preferred, Kinds
<1>2. RecommendedReplicas(d.severity) \in Int
  BY DEF RecommendedReplicas, Smaller, Larger
<1>3. TargetReplicas(d, c) \in Int
  BY <1>2 DEF TargetReplicas, Smaller, Larger
<1>4. \A kind \in Kinds :
        Act(kind, IF kind = "scale_out" THEN TargetReplicas(d, c) ELSE 0) \in OwnActions
  BY <1>3 DEF Act, OwnActions, Actions
<1>5. \A a, b, e \in OwnActions : <<a, b, e>> \in Seq(OwnActions)
  OBVIOUS
<1> QED
  BY <1>1, <1>4, <1>5 DEF RecoveryCandidates, Kinds

(* Before Launch nothing has been asked or done.                           *)
LEMMA ConsultationInit == Init => ConsultationInv
<1> SUFFICES ASSUME Init PROVE ConsultationInv
  OBVIOUS
<1>1. WellTyped
  <2>1. candidates \in Seq(OwnActions) /\ Len(candidates) = 0
    BY EmptySeq DEF Init
  <2> QED
    BY <2>1 DEF Init, WellTyped, TypeOK, CandidatesKept, NoMinutes, Reviewers, Agents, Verdicts
<1>2. ControllerKept /\ ChatKept /\ DiagnosisApproved
  <2>1. DOMAIN session = {}
    BY DEF Init
  <2> QED
    BY <2>1 DEF Init, ControllerKept, ChatKept, DiagnosisApproved, InHand, NoDiagnosis
<1>3. ActionsHeeded
  BY DEF Init, ActionsHeeded
<1>4. RecoveryKept /\ RevisionKept
  <2>1. Len(candidates) = 0
    BY EmptySeq DEF Init
  <2> QED
    BY <2>1 DEF Init, RecoveryKept, RevisionKept
<1> QED
  BY <1>1, <1>2, <1>3, <1>4 DEF ConsultationInv

(* What was heeded stays so while the panel and its chat are the same.     *)
LEMMA HeededStays ==
  ASSUME NEW a, NEW verdicts, Heeded(a, verdicts), panel' = panel, heard' = heard
  PROVE  Heeded(a, verdicts)'
<1>1. ReviewersHeard(a, verdicts) => ReviewersHeard(a, verdicts)'
  BY DEF ReviewersHeard, Objects, IsAutoGen
<1>2. WithinBudget(a) => WithinBudget(a)'
  BY DEF WithinBudget, Supervised
<1> QED
  BY <1>1, <1>2 DEF Heeded, Supervised, IsAutoGen

(* The session answers once and for all; only what it answered is heard.   *)
LEMMA OneAnswer ==
  ASSUME WellTyped, ChatKept, Supervised, NEW chat \in Replies, Remember(chat),
         panel' = panel, runs' = runs, case' = case
  PROVE  /\ ChatKept' /\ heard' \subseteq Chats /\ chat \in Chats
         /\ Key \in DOMAIN session =>
              /\ heard' = heard /\ chat = session[Key] /\ Usable(chat)
              /\ Key' \in DOMAIN session' /\ session'[Key'] = session[Key]
         /\ Usable(chat) => Key' \in DOMAIN session' /\ session'[Key'] = chat
<1>1. Key' = Key /\ Supervised' /\ \A c : Usable(c)' <=> Usable(c)
  BY DEF Key, Supervised, Usable
<1>2. chat \in Chats /\ (Key \in DOMAIN session => chat = session[Key] /\ Usable(chat)
                                                /\ heard = {chat})
  BY DEF Replies, ChatKept, WellTyped, TypeOK
<1>3. CASE Usable(chat)
  <2>1. DOMAIN session' = DOMAIN session \cup {Key} /\ session'[Key] = chat
        /\ heard' = heard \cup {chat}
    BY <1>3 DEF Remember
  <2>2. heard' = {chat}
    BY <1>2, <2>1 DEF ChatKept
  <2> QED
    BY <1>1, <1>2, <1>3, <2>1, <2>2 DEF ChatKept
<1>4. CASE ~ Usable(chat)
  <2>1. session' = session /\ heard' = heard
    BY <1>4 DEF Remember
  <2> QED
    BY <1>1, <1>2, <1>4, <2>1 DEF ChatKept, WellTyped, TypeOK
<1> QED
  BY <1>3, <1>4

(* Launch decides whether the panel may run.                               *)
LEMMA LaunchStep == ConsultationInv /\ Launch => ConsultationInv'
<1> SUFFICES ASSUME ConsultationInv, Launch PROVE ConsultationInv'
  OBVIOUS
<1>0. /\ pc = "new" /\ pc' \in {"ended", "refused"} /\ status' \in {status, "refused"}
      /\ pc' = "ended" /\ panel.launcher = "factory" => Uniform(panel)
      /\ UNCHANGED <<runs, case, session, diagnosis, candidates, round, consensus, minutes,
                     heard, executed, attempts, panel>>
  BY DEF Launch
<1>1. WellTyped'
  BY <1>0 DEF ConsultationInv, WellTyped, TypeOK, CandidatesKept
<1>2. ControllerKept'
  BY <1>0 DEF ControllerKept, InHand, Uniform
<1>3. ChatKept'
  BY <1>0 DEF ConsultationInv, ChatKept, Supervised, Key, Usable
<1>4. executed' = {}
  BY <1>0 DEF ConsultationInv, DiagnosisApproved
<1>5. DiagnosisApproved'
  BY <1>0, <1>4 DEF ConsultationInv, DiagnosisApproved, Supervised, IsAutoGen, InHand
<1>6. ActionsHeeded'
  BY <1>0, <1>4 DEF ActionsHeeded
<1>7. RecoveryKept'
  BY <1>0 DEF ConsultationInv, RecoveryKept
<1>8. MaxRounds >= 2 => RevisionKept'
  BY <1>0 DEF ConsultationInv, RevisionKept
<1> QED
  BY <1>1, <1>2, <1>3, <1>5, <1>6, <1>7, <1>8 DEF ConsultationInv

(* A new run forgets the one before, the session included.                 *)
LEMMA BeginRunStep == ConsultationInv /\ BeginRun => ConsultationInv'
<1> SUFFICES ASSUME ConsultationInv, BeginRun PROVE ConsultationInv'
  OBVIOUS
<1>0. /\ pc = "ended" /\ pc' = panel.controller /\ panel' = panel
      /\ session' = <<>> /\ heard' = {} /\ executed' = {} /\ diagnosis' = NoDiagnosis
      /\ candidates' = <<>> /\ attempts' = 0 /\ round' = 0 /\ consensus' = "not_required"
      /\ minutes' = NoMinutes /\ status' = "none" /\ case' \in Cases
      /\ runs < MaxRuns /\ runs' = runs + 1
  BY DEF BeginRun
<1>p. panel \in Panels
        /\ panel.controller \in {"supervision", "autonomous", "mcmp", "groupchat"}
  BY DEF ConsultationInv, WellTyped, TypeOK
<1>c. candidates' \in Seq(OwnActions) /\ Len(candidates') = 0
  BY <1>0, EmptySeq
<1>1. WellTyped'
  <2>1. minutes' \in [Reviewers -> Verdicts]
    BY <1>0 DEF NoMinutes, Verdicts
  <2>2. runs' \in 0 .. MaxRuns
    BY <1>0 DEF ConsultationInv, WellTyped, TypeOK
  <2> QED
    BY <1>0, <1>p, <1>c, <2>1, <2>2 DEF WellTyped, TypeOK, CandidatesKept
<1>2. ControllerKept'
  BY <1>0, <1>p DEF ConsultationInv, ControllerKept, InHand, Supervised, Uniform
<1>3. ChatKept'
  <2>1. DOMAIN session' = {}
    BY <1>0
  <2> QED
    BY <1>0, <2>1 DEF ChatKept
<1>4. DiagnosisApproved'
  BY <1>0, <1>p DEF DiagnosisApproved, NoDiagnosis, InHand
<1>5. ActionsHeeded'
  BY <1>0, <1>p DEF ActionsHeeded
<1>6. RecoveryKept' /\ RevisionKept'
  BY <1>0, <1>p, <1>c DEF RecoveryKept, RevisionKept
<1> QED
  BY <1>1, <1>2, <1>3, <1>4, <1>5, <1>6 DEF ConsultationInv

(* A deterministic diagnosis that asks for action has a cause to act on,   *)
(* and is not one an AutoGen agent reads.                                  *)
LEMMA DeterministicAnswer ==
  ASSUME NEW c
  PROVE  /\ DeterministicDiagnosis(c).approved => Actionable(DeterministicDiagnosis(c).cause)
         /\ ~ DeterministicDiagnosis(c).bounded
<1>1. /\ DiagnoseEvidence(c).approved = Actionable(DiagnoseEvidence(c).cause)
      /\ DiagnoseEvidence(c).bounded = FALSE
  BY DEF DiagnoseEvidence
<1>2. MissingMetricDiagnosis.approved = FALSE /\ MissingMetricDiagnosis.bounded = FALSE
  BY DEF MissingMetricDiagnosis, NoDiagnosis
<1> QED
  BY <1>1, <1>2 DEF DeterministicDiagnosis

(* The diagnosis of a supervised run.                                      *)
LEMMA DiagnoseStep == ConsultationInv /\ Diagnose => ConsultationInv'
<1> SUFFICES ASSUME ConsultationInv, Diagnose PROVE ConsultationInv'
  OBVIOUS
<1>0. /\ pc = "supervision" /\ Supervised
      /\ UNCHANGED <<panel, runs, case, candidates, round, consensus, minutes, executed,
                     attempts>>
      /\ IF diagnosis'.approved
           THEN pc' = "propose" /\ status' = status
           ELSE pc' = "ended" /\ status' \in {"safe_stopped", "no_action_required"}
  BY DEF Diagnose, End, ConsultationInv, ControllerKept
<1>e. executed = {} /\ executed' = {}
  BY <1>0 DEF ConsultationInv, DiagnosisApproved
<1>k. Supervised' /\ Key' = Key /\ IsAutoGen("HA")' = IsAutoGen("HA")
  BY <1>0 DEF Supervised, Key, IsAutoGen
<1>1. /\ ChatKept' /\ heard' \subseteq Chats
      /\ diagnosis'.bounded => IsAutoGen("HA")
      /\ diagnosis'.approved =>
           IF IsAutoGen("HA")
             THEN /\ diagnosis'.bounded /\ Key \in DOMAIN session'
                  /\ session'[Key].says["HA"].approved
             ELSE Actionable(diagnosis'.cause)
  <2>1. CASE ~ IsAutoGen("HA")
    <3>1. diagnosis' = DeterministicDiagnosis(case) /\ session' = session /\ heard' = heard
      BY <2>1 DEF Diagnose
    <3>2. ChatKept' /\ heard' \subseteq Chats
      BY <1>0, <3>1 DEF ConsultationInv, WellTyped, TypeOK, ChatKept, Supervised, Key, Usable
    <3> QED
      BY <2>1, <3>1, <3>2, DeterministicAnswer
  <2>2. CASE IsAutoGen("HA")
    <3>1. PICK chat \in Replies :
            /\ Remember(chat)
            /\ diagnosis' = IF Usable(chat) THEN AutoGenDiagnosis(chat)
                            ELSE MissingMetricDiagnosis
      BY <2>2 DEF Diagnose
    <3>2. /\ ChatKept' /\ heard' \subseteq Chats
          /\ Usable(chat) => Key \in DOMAIN session' /\ session'[Key] = chat
      BY <1>0, <1>k, <3>1, OneAnswer DEF ConsultationInv
    <3>3. CASE Usable(chat)
      <4>1. diagnosis'.bounded = TRUE /\ diagnosis'.approved = chat.says["HA"].approved
        BY <3>1, <3>3 DEF AutoGenDiagnosis
      <4> QED
        BY <2>2, <3>2, <3>3, <4>1
    <3>4. CASE ~ Usable(chat)
      <4>1. diagnosis'.bounded = FALSE /\ diagnosis'.approved = FALSE
        BY <3>1, <3>4 DEF MissingMetricDiagnosis, NoDiagnosis
      <4> QED
        BY <3>2, <4>1
    <3> QED
      BY <3>3, <3>4
  <2> QED
    BY <2>1, <2>2
<1>2. WellTyped'
  BY <1>0, <1>1 DEF ConsultationInv, WellTyped, TypeOK, CandidatesKept
<1>3. ControllerKept'
  BY <1>0, <1>k DEF ConsultationInv, ControllerKept, InHand, Uniform
<1>4. DiagnosisApproved'
  BY <1>0, <1>1, <1>e, <1>k DEF DiagnosisApproved, InHand
<1>5. ActionsHeeded'
  BY <1>0, <1>e DEF ActionsHeeded
<1>6. RecoveryKept'
  BY <1>0 DEF ConsultationInv, RecoveryKept
<1>7. MaxRounds >= 2 => RevisionKept'
  BY <1>0 DEF ConsultationInv, RevisionKept
<1> QED
  BY <1>1, <1>2, <1>3, <1>4, <1>5, <1>6, <1>7 DEF ConsultationInv

(* What the proposals keep of a list of actions is on the own deployment.  *)
LEMMA SoundOnesKept ==
  ASSUME NEW cs \in Seq(Actions), NEW t \in SoundOnes(cs)
  PROVE  t \in Seq(OwnActions)
<1> DEFINE I == {i \in DOMAIN cs : Sound(cs[i])}
           before == {p \in I \X I : p[1] < p[2]}
<1>1. \A i \in DOMAIN cs : cs[i] \in Actions
  BY LenProperties, ElementOfSeq
<1>2. \A i \in I : cs[i] \in OwnActions
  BY <1>1 DEF Sound, OwnActions
<1>3. I \in SUBSET DOMAIN cs /\ t \in Arranged(cs, I, before)
  BY DEF SoundOnes
<1> HIDE DEF I, before
<1> QED
  BY <1>2, <1>3, ArrangedKeeps

(* The proposal of a supervised run: the next candidate is in round 1.     *)
LEMMA ProposeStep == ConsultationInv /\ Propose => ConsultationInv'
<1> SUFFICES ASSUME ConsultationInv, Propose PROVE ConsultationInv'
  OBVIOUS
<1>0. /\ pc = "propose" /\ Supervised /\ attempts = 0
      /\ UNCHANGED <<panel, runs, case, diagnosis, consensus, minutes, executed, attempts>>
  BY DEF Propose, InHand, ConsultationInv, ControllerKept, WellTyped, CandidatesKept
<1>e. executed = {} /\ executed' = {}
  BY <1>0 DEF ConsultationInv, DiagnosisApproved
<1>k. Supervised' /\ Key' = Key /\ IsAutoGen("HA")' = IsAutoGen("HA")
      /\ IsAutoGen("Cost")' = IsAutoGen("Cost")
  BY <1>0 DEF Supervised, Key, IsAutoGen
<1>d. /\ diagnosis.bounded => IsAutoGen("HA")
      /\ IF IsAutoGen("HA")
           THEN /\ diagnosis.bounded /\ Key \in DOMAIN session
                /\ session[Key].says["HA"].approved
           ELSE Actionable(diagnosis.cause)
  BY <1>0 DEF ConsultationInv, DiagnosisApproved, InHand
<1>c. case.desired \in Nat
  <2>1. NoCase.desired = 0
    BY DEF NoCase
  <2>2. case \in Cases \/ case = NoCase
    BY DEF ConsultationInv, WellTyped
  <2> QED
    BY <2>1, <2>2
<1>u. ASSUME session' = session, heard' = heard
      PROVE  /\ ChatKept' /\ heard' \subseteq Chats
             /\ Key \in DOMAIN session => Key \in DOMAIN session' /\ session'[Key] = session[Key]
  BY <1>0, <1>u DEF ConsultationInv, WellTyped, TypeOK, ChatKept, Supervised, Key, Usable
<1>s. /\ ChatKept' /\ heard' \subseteq Chats
      /\ Key \in DOMAIN session => Key \in DOMAIN session' /\ session'[Key] = session[Key]
  <2>1. ASSUME ~ (session' = session /\ heard' = heard)
        PROVE  \E chat \in Replies : Remember(chat)
    BY <2>1 DEF Propose
  <2>2. ASSUME NEW chat \in Replies, Remember(chat)
        PROVE  /\ ChatKept' /\ heard' \subseteq Chats
               /\ Key \in DOMAIN session => Key \in DOMAIN session' /\ session'[Key] = session[Key]
    BY <1>0, <1>k, <2>2, OneAnswer DEF ConsultationInv
  <2> QED
    BY <1>u, <2>1, <2>2
<1>t. \/ \E cs \in Seq(OwnActions) : Len(cs) <= MaxReplan + 1 /\ Continue(cs)
      \/ pc' = "ended" /\ status' = "safe_stopped" /\ UNCHANGED <<candidates, round>>
  <2>1. CASE ~ IsAutoGen("App")
    <3>1. PICK cs \in SoundOnes(RecoveryCandidates(diagnosis, case)) : Continue(Tried(cs))
      BY <2>1 DEF Propose
    <3>2. RecoveryCandidates(diagnosis, case) \in Seq(Actions)
      <4>1. RecoveryCandidates(diagnosis, case) \in Seq(OwnActions)
        BY <1>c, ProposalsTyped
      <4>2. OwnActions \subseteq Actions
        BY DEF OwnActions
      <4> QED
        BY <4>1, <4>2, SeqMonotonic
    <3>3. cs \in Seq(OwnActions)
      BY <3>1, <3>2, SoundOnesKept
    <3> QED
      BY <3>1, <3>3, TriedKeeps
  <2>2. CASE IsAutoGen("App")
    <3>1. ASSUME NEW chat \in Replies, Remember(chat), Usable(chat),
                 ActionReadable(chat.says["App"]),
                 NEW cs \in SoundOnes(<<ActionFrom(chat.says["App"])>>), Continue(Tried(cs))
          PROVE  \E t \in Seq(OwnActions) : Len(t) <= MaxReplan + 1 /\ Continue(t)
      <4>1. chat \in Chats
        BY <1>0, <1>k, <3>1, OneAnswer DEF ConsultationInv
      <4>2. /\ chat.says["App"].own \in BOOLEAN /\ chat.says["App"].replicas \in Nat
            /\ chat.says["App"].action \in DOMAIN Approval["App"]
        BY <3>1, <4>1 DEF Usable, WellFormed, Parses, Agents
      <4>3. chat.says["App"].action \in
              {"app_observe_only", "app_rollout_restart", "app_scale_deployment"}
        BY <4>2 DEF Approval
      <4>4. ActionFrom(chat.says["App"]) \in Actions
        BY <4>2, <4>3 DEF ActionFrom, Actions, Kinds
      <4>5. <<ActionFrom(chat.says["App"])>> \in Seq(Actions)
        BY <4>4
      <4>6. cs \in Seq(OwnActions)
        BY <3>1, <4>5, SoundOnesKept
      <4> QED
        BY <3>1, <4>6, TriedKeeps
    <3> QED
      BY <2>2, <3>1 DEF Propose, End
  <2> QED
    BY <2>1, <2>2
<1>v. /\ candidates' \in Seq(OwnActions) /\ Len(candidates') <= MaxReplan + 1
      /\ pc' \in {"negotiate", "ended"} /\ round' \in 0 .. MaxRounds
      /\ pc' = "negotiate" => candidates' # <<>> /\ round' = 1
      /\ status' \in {status, "safe_stopped", "safe_failure"}
  BY <1>0, <1>t DEF Continue, End, ConsultationInv, WellTyped, TypeOK, CandidatesKept
<1>2. WellTyped'
  <2>1. CandidatesKept'
    <3>1. Len(candidates') \in Nat
      BY <1>v, LenProperties
    <3> QED
      BY <1>0, <1>v, <3>1 DEF CandidatesKept
  <2> QED
    BY <1>0, <1>s, <1>v, <2>1 DEF ConsultationInv, WellTyped, TypeOK
<1>3. ControllerKept'
  BY <1>0, <1>k, <1>v DEF ConsultationInv, ControllerKept, InHand, Uniform
<1>4. DiagnosisApproved'
  BY <1>0, <1>d, <1>e, <1>k, <1>s DEF DiagnosisApproved
<1>5. ActionsHeeded'
  BY <1>v, <1>e DEF ActionsHeeded
<1>6. RecoveryKept'
  BY <1>0, <1>v DEF ConsultationInv, RecoveryKept, Supervised
<1>7. MaxRounds >= 2 => RevisionKept'
  BY <1>0, <1>v DEF ConsultationInv, RevisionKept
<1> QED
  BY <1>s, <1>2, <1>3, <1>4, <1>5, <1>6, <1>7 DEF ConsultationInv

(* A uniform panel has agents of one kind.                                 *)
LEMMA UniformAgents ==
  ASSUME NEW p \in Panels, Uniform(p), NEW a \in Agents, NEW b \in Agents
  PROVE  p.runtime[a] = p.runtime[b]
<1> DEFINE R == {p.runtime[c] : c \in Agents}
<1>0. p.runtime[a] \in R /\ p.runtime[b] \in R
  OBVIOUS
<1>1. R \subseteq {"deterministic"} \cup {"autogen"}
  OBVIOUS
<1>2. IsFiniteSet({"deterministic"} \cup {"autogen"})
  <2>1. IsFiniteSet({"deterministic"}) /\ IsFiniteSet({"autogen"})
    BY FS_Singleton
  <2> QED
    BY <2>1, FS_Union
<1>3. IsFiniteSet(R)
  <2> HIDE DEF R
  <2> QED
    BY <1>1, <1>2, FS_Subset
<1>4. \E x : R = {x}
  <2>1. Cardinality(R) = 1
    BY DEF Uniform
  <2> HIDE DEF R
  <2> QED
    BY <1>3, <2>1, FS_Singleton
<1> HIDE DEF R
<1> QED
  BY <1>0, <1>4

(* Verdicts are approve, revise, veto or abstain.                          *)
LEMMA VerdictsTyped ==
  ASSUME NEW r \in Reviewers, NEW a, NEW chat PROVE VerdictOf(r, a, chat) \in Verdicts
<1>1. r \in {"HA", "Infra", "Cost"}
  BY DEF Reviewers, Agents
<1> QED
  BY <1>1 DEF VerdictOf, AutoGenVerdict, DeterministicVerdict, HAVerdict, InfraVerdict,
              CostVerdict, Verdicts

(* What the verdicts of deterministic reviewers say.                       *)
LEMMA VerdictMeans ==
  ASSUME NEW a, NEW chat
  PROVE  /\ ~ IsAutoGen("HA") => VerdictOf("HA", a, chat) = HAVerdict
         /\ ~ IsAutoGen("Infra") =>
              VerdictOf("Infra", a, chat) = IF InfraApproves(a) THEN "approve" ELSE "veto"
         /\ ~ IsAutoGen("Cost") =>
              /\ VerdictOf("Cost", a, chat) \in {"approve", "veto", "revise"}
              /\ VerdictOf("Cost", a, chat) = "approve" <=> CostApproves(a)
              /\ VerdictOf("Cost", a, chat) = "revise" => CostMax > case.desired
BY DEF VerdictOf, DeterministicVerdict, InfraVerdict, CostVerdict

(* Where vetoes count, those of infrastructure and cost stop a scale-out,  *)
(* and any stops anything where they are unanimous.                        *)
LEMMA VetoBlocks ==
  ASSUME NEW a
  PROVE  /\ panel.strategy = "unanimous_veto" => \A r \in Reviewers : Blocking(r, a)
         /\ panel.strategy = "role_based_veto" /\ a.kind = "scale_out" =>
              Blocking("Infra", a) /\ Blocking("Cost", a)
<1>1. ASSUME a.kind = "scale_out"
      PROVE  /\ "capacity" \in VetoScopes["Infra"] \cap DecisionScopes(a.kind)
             /\ "budget" \in VetoScopes["Cost"] \cap DecisionScopes(a.kind)
  BY <1>1 DEF VetoScopes, DecisionScopes
<1> QED
  BY <1>1 DEF Blocking

(* A round that approves an action without a request to revise has heeded  *)
(* every reviewer the panel's strategy gives a veto.                       *)
LEMMA ApprovalHeeds ==
  ASSUME ConsultationInv, pc = "negotiate", NEW a \in Actions,
         NEW chat, diagnosis.bounded => chat \in Replies,
         NEW verdicts, verdicts = [r \in Reviewers |-> VerdictOf(r, a, chat)],
         Approved(verdicts, a), Gave(verdicts, "revise") = {}
  PROVE  Heeded(a, verdicts)
<1>0. Supervised /\ panel \in Panels
  BY DEF ConsultationInv, ControllerKept, InHand, WellTyped, TypeOK
<1>r. Reviewers = {"HA", "Infra", "Cost"}
  BY DEF Reviewers, Agents
<1>1. \A r \in Reviewers : verdicts[r] # "revise"
  BY DEF Gave
<1>2. ASSUME panel.strategy # "weighted_majority", NEW r \in Reviewers, Blocking(r, a)
      PROVE  verdicts[r] # "veto"
  BY <1>2 DEF Approved, Gave
<1>3. ASSUME ~ IsAutoGen("Infra"), panel.strategy # "weighted_majority", Blocking("Infra", a)
      PROVE  InfraApproves(a)
  BY <1>r, <1>2, <1>3, VerdictMeans
<1>4. ASSUME ~ IsAutoGen("Cost"), panel.strategy # "weighted_majority", Blocking("Cost", a)
      PROVE  CostApproves(a)
  BY <1>r, <1>1, <1>2, <1>4, VerdictMeans
<1>5. ASSUME ~ IsAutoGen("Cost"), panel.strategy # "weighted_majority"
      PROVE  CostApproves(a)
  <2>1. panel.strategy \in {"role_based_veto", "unanimous_veto"}
    BY <1>0, <1>5
  <2>2. CASE Blocking("Cost", a)
    BY <1>4, <1>5, <2>2
  <2>3. CASE ~ Blocking("Cost", a)
    <3>1. a.kind # "scale_out"
      BY <1>r, <2>1, <2>3, VetoBlocks
    <3> QED
      BY <3>1 DEF CostApproves
  <2> QED
    BY <2>2, <2>3
<1>w. ~ IsAutoGen("Cost") => WithinBudget(a)
  BY <1>0, <1>5 DEF WithinBudget
<1>6. CASE IsAutoGen("HA")
  <2>1. /\ diagnosis.bounded /\ Key \in DOMAIN session
        /\ session[Key].says["HA"].approved
    BY <1>0, <1>6 DEF ConsultationInv, DiagnosisApproved, InHand
  <2>2. chat = session[Key] /\ heard = {chat} /\ Usable(chat) /\ chat.says["HA"].approved
    BY <1>0, <2>1 DEF ConsultationInv, ChatKept, Replies
  <2>3. \A r \in Reviewers : IsAutoGen(r) =>
          verdicts[r] = IF chat.says[r].approved THEN "approve" ELSE "veto"
    <3>1. ASSUME NEW r \in Reviewers, IsAutoGen(r)
          PROVE  verdicts[r] = IF chat.says[r].approved THEN "approve" ELSE "veto"
      <4>1. verdicts[r] = VerdictOf(r, a, chat)
        OBVIOUS
      <4>2. diagnosis.bounded /\ Usable(chat)
        BY <2>1, <2>2
      <4> QED
        BY <3>1, <4>1, <4>2 DEF VerdictOf, AutoGenVerdict
    <3> QED
      BY <3>1
  <2>4. \A r \in Reviewers : verdicts[r] # "abstain"
    BY <1>6, <1>r, <2>3, VerdictMeans
  <2>5. ASSUME NEW r \in Reviewers,
               \/ panel.strategy = "unanimous_veto"
               \/ panel.strategy = "role_based_veto" /\ a.kind = "scale_out"
        PROVE  ~ Objects(r, a)
    <3>0. panel.strategy # "weighted_majority"
      BY <2>5
    <3>1. r # "HA" => Blocking(r, a)
      BY <1>r, <2>5, VetoBlocks
    <3>2. CASE IsAutoGen(r)
      <4>1. chat.says[r].approved
        BY <1>2, <2>2, <2>3, <3>0, <3>1, <3>2
      <4> QED
        BY <2>2, <3>2, <4>1 DEF Objects
    <3>3. CASE ~ IsAutoGen(r)
      BY <1>3, <1>4, <1>6, <1>r, <3>0, <3>1, <3>3 DEF Objects
    <3> QED
      BY <3>2, <3>3
  <2>6. ReviewersHeard(a, verdicts)
    BY <2>4, <2>5 DEF ReviewersHeard
  <2> QED
    BY <1>w, <2>6 DEF Heeded
<1>7. CASE ~ IsAutoGen("HA") /\ panel.launcher = "factory"
  <2>1. Uniform(panel)
    BY <1>7 DEF ConsultationInv, ControllerKept
  <2>2. \A r \in Reviewers : ~ IsAutoGen(r)
    <3>1. \A r \in Agents : panel.runtime[r] = panel.runtime["HA"]
      BY <1>0, <2>1, UniformAgents DEF Agents
    <3> QED
      BY <1>7, <3>1 DEF IsAutoGen, Reviewers
  <2>3. verdicts["HA"] = "approve"
    <3>1. Actionable(diagnosis.cause)
      BY <1>0, <1>7 DEF ConsultationInv, DiagnosisApproved, InHand
    <3> QED
      BY <1>7, <1>r, <3>1, VerdictMeans DEF HAVerdict
  <2>4. \A r \in Reviewers : verdicts[r] # "abstain"
    BY <1>r, <2>2, <2>3, VerdictMeans
  <2>5. ASSUME NEW r \in Reviewers,
               \/ panel.strategy = "unanimous_veto"
               \/ panel.strategy = "role_based_veto" /\ a.kind = "scale_out"
        PROVE  ~ Objects(r, a)
    <3>1. panel.strategy # "weighted_majority" /\ (r # "HA" => Blocking(r, a))
      BY <1>r, <2>5, VetoBlocks
    <3> QED
      BY <1>3, <1>4, <1>r, <2>2, <3>1 DEF Objects
  <2>6. ReviewersHeard(a, verdicts)
    BY <2>4, <2>5 DEF ReviewersHeard
  <2> QED
    BY <1>w, <2>6 DEF Heeded
<1>8. CASE ~ IsAutoGen("HA") /\ panel.launcher # "factory"
  BY <1>w, <1>8 DEF Heeded
<1> QED
  BY <1>6, <1>7, <1>8

(* A list with another element in front.                                   *)
LEMMA PutFirst ==
  ASSUME NEW S, NEW x \in S, NEW t \in Seq(S)
  PROVE  /\ <<x>> \o t \in Seq(S) /\ Len(<<x>> \o t) = Len(t) + 1
         /\ <<x>> \o t # <<>> /\ Head(<<x>> \o t) = x
<1>1. <<x>> \in Seq(S) /\ Len(<<x>>) = 1 /\ <<x>>[1] = x
  OBVIOUS
<1>2. /\ <<x>> \o t \in Seq(S) /\ Len(<<x>> \o t) = Len(t) + 1
      /\ (<<x>> \o t)[1] = <<x>>[1]
  BY <1>1, ConcatProperties, LenProperties
<1> DEFINE l == <<x>> \o t
<1>3. Len(t) \in Nat
  BY LenProperties
<1> HIDE DEF l
<1>4. l # <<>>
  BY <1>2, <1>3, EmptySeq DEF l
<1>5. l \in Seq(S) /\ l[1] = x
  BY <1>1, <1>2 DEF l
<1>6. Head(l) = x
  BY <1>4, <1>5
<1> QED
  BY <1>2, <1>4, <1>6 DEF l

(* Only a deterministic cost agent asks for a revision, and the one it     *)
(* suggests is within its budget and still a scale-out.                    *)
LEMMA RevisionSuggested ==
  ASSUME NEW a \in OwnActions, NEW chat,
         NEW verdicts, verdicts = [r \in Reviewers |-> VerdictOf(r, a, chat)],
         Gave(verdicts, "revise") # {}
  PROVE  /\ ~ IsAutoGen("Cost") /\ ~ CostApproves(a)
         /\ CostRevises(a) \in OwnActions /\ Sound(CostRevises(a))
         /\ CostApproves(CostRevises(a))
<1>1. PICK r \in Reviewers : VerdictOf(r, a, chat) = "revise"
  BY DEF Gave
<1>2. r \in {"HA", "Infra", "Cost"}
  BY DEF Reviewers, Agents
<1>3. r = "Cost" /\ ~ IsAutoGen("Cost") /\ CostVerdict(a) = "revise"
  BY <1>1, <1>2 DEF VerdictOf, AutoGenVerdict, DeterministicVerdict, HAVerdict, InfraVerdict
<1>4. ~ CostApproves(a) /\ CostMax > case.desired
  BY <1>3 DEF CostVerdict
<1>5. /\ CostRevises(a) \in OwnActions /\ CostRevises(a).replicas = CostMax
      /\ CostRevises(a).own
  BY DEF CostRevises, OwnActions, Actions
<1>6. Sound(CostRevises(a)) /\ CostApproves(CostRevises(a))
  BY <1>4, <1>5 DEF Sound, CostApproves
<1> QED
  BY <1>3, <1>4, <1>5, <1>6

(* One round of reviews.                                                   *)
LEMMA NegotiateStep == ConsultationInv /\ Negotiate => ConsultationInv'
<1> SUFFICES ASSUME ConsultationInv, Negotiate PROVE ConsultationInv'
  OBVIOUS
<1>0. /\ pc = "negotiate" /\ Supervised /\ candidates # <<>>
      /\ candidates \in Seq(OwnActions)
      /\ UNCHANGED <<panel, runs, case, diagnosis, executed, attempts>>
  BY DEF Negotiate, InHand, ConsultationInv, ControllerKept, WellTyped, CandidatesKept
<1>k. Supervised' /\ Key' = Key /\ \A r : IsAutoGen(r)' = IsAutoGen(r)
  BY <1>0 DEF Supervised, Key, IsAutoGen
<1>d. /\ diagnosis.bounded => IsAutoGen("HA")
      /\ IF IsAutoGen("HA")
           THEN /\ diagnosis.bounded /\ Key \in DOMAIN session
                /\ session[Key].says["HA"].approved
           ELSE Actionable(diagnosis.cause)
  BY <1>0 DEF ConsultationInv, DiagnosisApproved, InHand
<1> DEFINE a == Head(candidates)
           V(chat) == [r \in Reviewers |-> VerdictOf(r, a, chat)]
<1>h. /\ a \in OwnActions /\ a \in Actions
      /\ Tail(candidates) \in Seq(OwnActions)
      /\ Len(Tail(candidates)) = Len(candidates) - 1 /\ Len(candidates) \in Nat
  BY <1>0, HeadTailProperties, LenProperties DEF OwnActions
<1>1. PICK chat : /\ diagnosis.bounded => chat \in Replies
                  /\ minutes' = V(chat)
                  /\ IF diagnosis.bounded /\ \E r \in Reviewers : IsAutoGen(r)
                       THEN Remember(chat) ELSE UNCHANGED <<session, heard>>
                  /\ \/ /\ ~ Approved(V(chat), a)
                        /\ pc' = "ended" /\ status' = "safe_stopped"
                        /\ consensus' = "rejected" /\ UNCHANGED <<candidates, round>>
                     \/ /\ Approved(V(chat), a) /\ Gave(V(chat), "revise") = {}
                        /\ pc' = "dispatch" /\ consensus' = "approved"
                        /\ UNCHANGED <<candidates, round, status>>
                     \/ /\ Gave(V(chat), "revise") # {} /\ ~ Sound(CostRevises(a))
                     \/ /\ Gave(V(chat), "revise") # {}
                        /\ consensus' = "revision_required"
                        /\ candidates' = <<CostRevises(a)>> \o Tail(candidates)
                        /\ IF round < MaxRounds
                             THEN round' = round + 1 /\ UNCHANGED <<pc, status>>
                             ELSE /\ pc' = "ended" /\ status' = "safe_stopped"
                                  /\ UNCHANGED round
  BY DEF Negotiate, End
<1> DEFINE verdicts == V(chat)
<1> HIDE DEF a
<1>s. /\ ChatKept' /\ heard' = heard
      /\ Key \in DOMAIN session => Key \in DOMAIN session' /\ session'[Key] = session[Key]
  <2>1. CASE UNCHANGED <<session, heard>>
    BY <1>0, <2>1 DEF ConsultationInv, ChatKept, Supervised, Key, Usable
  <2>2. CASE ~ UNCHANGED <<session, heard>>
    <3>1. diagnosis.bounded /\ chat \in Replies /\ Remember(chat)
      BY <1>1, <2>2
    <3>2. Key \in DOMAIN session
      BY <1>d, <3>1
    <3> QED
      BY <1>0, <1>k, <3>1, <3>2, OneAnswer DEF ConsultationInv
  <2> QED
    BY <2>1, <2>2
<1>m. minutes' \in [Reviewers -> Verdicts]
  BY <1>1, VerdictsTyped
<1>r. ASSUME Gave(verdicts, "revise") # {}
      PROVE  /\ ~ IsAutoGen("Cost") /\ ~ CostApproves(a)
             /\ CostRevises(a) \in OwnActions /\ Sound(CostRevises(a))
             /\ CostApproves(CostRevises(a))
  BY <1>h, <1>r, RevisionSuggested
<1>2. CASE /\ pc' = "ended" /\ status' = "safe_stopped"
           /\ consensus' = "rejected" /\ UNCHANGED <<candidates, round>>
  <2>1. WellTyped'
    BY <1>0, <1>m, <1>s, <1>2 DEF ConsultationInv, WellTyped, TypeOK, CandidatesKept
  <2>2. ControllerKept'
    BY <1>0, <1>k, <1>2 DEF ConsultationInv, ControllerKept, InHand, Uniform
  <2>3. DiagnosisApproved'
    BY <1>0, <1>d, <1>k, <1>s, <1>2 DEF ConsultationInv, DiagnosisApproved
  <2>4. ActionsHeeded'
    BY <1>0, <1>s, <1>2, HeededStays DEF ConsultationInv, ActionsHeeded
  <2>5. RecoveryKept' /\ RevisionKept'
    BY <1>0, <1>k, <1>2 DEF RecoveryKept, RevisionKept, Supervised
  <2> QED
    BY <1>s, <2>1, <2>2, <2>3, <2>4, <2>5 DEF ConsultationInv
<1>3. CASE /\ Approved(verdicts, a) /\ Gave(verdicts, "revise") = {}
           /\ pc' = "dispatch" /\ consensus' = "approved"
           /\ UNCHANGED <<candidates, round, status>>
  <2>1. WellTyped'
    BY <1>0, <1>m, <1>s, <1>3 DEF ConsultationInv, WellTyped, TypeOK, CandidatesKept
  <2>2. ControllerKept'
    BY <1>0, <1>k, <1>3 DEF ConsultationInv, ControllerKept, InHand, Uniform
  <2>3. DiagnosisApproved'
    BY <1>0, <1>d, <1>k, <1>s, <1>3 DEF ConsultationInv, DiagnosisApproved
  <2>4. ActionsHeeded'
    <3>1. Heeded(a, verdicts)
      BY <1>0, <1>1, <1>3, <1>h, ApprovalHeeds
    <3>2. Heeded(a, verdicts) => (Heeded(Head(candidates), minutes))'
      <4>1. Head(candidates)' = a /\ minutes' = verdicts
        BY <1>1, <1>3 DEF a
      <4> QED
        BY <1>0, <1>s, <4>1 DEF Heeded, ReviewersHeard, WithinBudget, Objects, Supervised,
                               IsAutoGen
    <3> QED
      BY <1>0, <1>s, <3>1, <3>2, HeededStays DEF ConsultationInv, ActionsHeeded
  <2>5. RecoveryKept' /\ RevisionKept'
    BY <1>0, <1>k, <1>3 DEF ConsultationInv, RecoveryKept, RevisionKept, Supervised
  <2> QED
    BY <1>s, <2>1, <2>2, <2>3, <2>4, <2>5 DEF ConsultationInv
<1>4. CASE /\ Gave(verdicts, "revise") # {} /\ consensus' = "revision_required"
           /\ candidates' = <<CostRevises(a)>> \o Tail(candidates)
           /\ IF round < MaxRounds
                THEN round' = round + 1 /\ UNCHANGED <<pc, status>>
                ELSE pc' = "ended" /\ status' = "safe_stopped" /\ UNCHANGED round
  <2>0. /\ candidates' \in Seq(OwnActions) /\ Len(candidates') = Len(candidates)
        /\ candidates' # <<>> /\ Head(candidates') = CostRevises(a)
    <3> DEFINE x == CostRevises(a)
               t == Tail(candidates)
    <3>1. x \in OwnActions /\ t \in Seq(OwnActions) /\ candidates' = <<x>> \o t
          /\ Len(t) + 1 = Len(candidates)
      <4>1. x \in OwnActions
        BY <1>r, <1>4
      <4>2. candidates' = <<x>> \o t
        BY <1>4
      <4>3. t \in Seq(OwnActions) /\ Len(t) + 1 = Len(candidates)
        BY <1>h
      <4> HIDE DEF x, t
      <4> QED
        BY <4>1, <4>2, <4>3
    <3> HIDE DEF x, t
    <3>2. candidates' \in Seq(OwnActions) /\ Len(candidates') = Len(candidates)
          /\ candidates' # <<>> /\ Head(candidates') = x
      BY <3>1, PutFirst
    <3> QED
      BY <3>2 DEF x
  <2>1. WellTyped'
    <3>w. TypeOK /\ CandidatesKept /\ case \in Cases \cup {NoCase}
      BY <1>0 DEF ConsultationInv, WellTyped
    <3>n. pc' \in {"negotiate", "ended"} /\ round' \in 0 .. MaxRounds
      BY <1>0, <1>4, <3>w DEF TypeOK, ConsultationAssumption
    <3>1. TypeOK'
      BY <1>0, <1>m, <1>s, <2>0, <3>w, <3>n DEF TypeOK
    <3>2. CandidatesKept'
      BY <1>0, <2>0, <3>w, <3>n DEF CandidatesKept
    <3> QED
      BY <1>0, <3>w, <3>1, <3>2 DEF WellTyped
  <2>2. ControllerKept'
    BY <1>0, <1>k, <1>4 DEF ConsultationInv, ControllerKept, InHand, Uniform
  <2>3. DiagnosisApproved'
    BY <1>0, <1>d, <1>k, <1>s, <1>4 DEF ConsultationInv, DiagnosisApproved
  <2>4. ActionsHeeded'
    BY <1>0, <1>s, <1>4, HeededStays DEF ConsultationInv, ActionsHeeded
  <2>5. RecoveryKept'
    BY <1>0, <1>k, <1>4 DEF ConsultationInv, RecoveryKept, Supervised
  <2>6. MaxRounds >= 2 => RevisionKept'
    <3>1. ~ IsAutoGen("Cost") /\ ~ CostApproves(a) /\ CostApproves(Head(candidates'))
      BY <1>r, <1>4, <2>0
    <3>2. MaxRounds >= 2 => round = 1
      BY <1>0, <3>1 DEF ConsultationInv, RevisionKept, a
    <3>3. MaxRounds >= 2 => pc' = "negotiate"
      BY <1>0, <1>4, <3>2
    <3> QED
      BY <1>4, <3>1, <3>3 DEF RevisionKept
  <2> QED
    BY <1>s, <2>1, <2>2, <2>3, <2>4, <2>5, <2>6 DEF ConsultationInv
<1> QED
  BY <1>1, <1>2, <1>3, <1>4, <1>r

(* An action carried out joins the others, with the verdicts it got.       *)
LEMMA Recorded ==
  ASSUME ActionsHeeded, NEW a, Heeded(a, minutes), panel' = panel, heard' = heard,
         executed' = executed \/ Record(a), pc' # "dispatch"
  PROVE  ActionsHeeded'
<1> DEFINE x == [action |-> a, verdicts |-> minutes]
<1>1. x.action = a /\ x.verdicts = minutes /\ executed' \subseteq executed \cup {x}
  BY DEF Record
<1> HIDE DEF x
<1>2. ASSUME NEW y \in executed' PROVE Heeded(y.action, y.verdicts)
  BY <1>1, <1>2 DEF ActionsHeeded
<1>3. ASSUME NEW y \in executed' PROVE Heeded(y.action, y.verdicts)'
  BY <1>2, <1>3, HeededStays
<1> QED
  BY <1>3 DEF ActionsHeeded

(* The execution of the action in hand and the reviews after it.           *)
LEMMA DispatchStep == ConsultationInv /\ Dispatch => ConsultationInv'
<1> SUFFICES ASSUME ConsultationInv, Dispatch PROVE ConsultationInv'
  OBVIOUS
<1>0. /\ pc = "dispatch" /\ Supervised /\ candidates # <<>>
      /\ candidates \in Seq(OwnActions)
      /\ UNCHANGED <<panel, runs, case, session, diagnosis, consensus, minutes, heard>>
  BY DEF Dispatch, InHand, ConsultationInv, ControllerKept, WellTyped, CandidatesKept
<1>k. Supervised' /\ Key' = Key /\ \A r : IsAutoGen(r)' = IsAutoGen(r)
  BY <1>0 DEF Supervised, Key, IsAutoGen
<1>d. IF IsAutoGen("HA")
        THEN /\ diagnosis.bounded /\ Key \in DOMAIN session
             /\ session[Key].says["HA"].approved
        ELSE Actionable(diagnosis.cause)
  BY <1>0 DEF ConsultationInv, DiagnosisApproved, InHand
<1> DEFINE a == Head(candidates)
<1>h. /\ Tail(candidates) \in Seq(OwnActions)
      /\ Len(Tail(candidates)) = Len(candidates) - 1 /\ Len(candidates) \in Nat
  BY <1>0, HeadTailProperties, LenProperties
<1>p. ASSUME NEW success, NEW desired, NEW full, PostApproved(a, success, desired, full)
      PROVE  ~ IsAutoGen("Cost") => CostApproves(a)
  BY <1>p DEF PostApproved, CostPostReview, Agents
<1>1. /\ executed' = executed \/ Record(a)
      /\ \/ Continue(Tail(candidates)) /\ attempts' = attempts + 1
         \/ /\ pc' = "ended" /\ UNCHANGED <<candidates, round, attempts>>
            /\ \/ status' = "safe_stopped"
               \/ /\ status' \in {"recovered", "recovered_after_replan"}
                  /\ ~ IsAutoGen("Cost") => CostApproves(a)
  <2> HIDE DEF a
  <2> QED
    BY <1>p DEF Dispatch, End, Recovered, a
<1>2. /\ pc' \in {"negotiate", "ended"} /\ round' \in {1, round}
      /\ pc' = "negotiate" => candidates' # <<>> /\ round' = 1
      /\ \/ candidates' = Tail(candidates) /\ attempts' = attempts + 1
         \/ candidates' = candidates /\ attempts' = attempts
      /\ \/ status' \in {status, "safe_stopped", "safe_failure"}
         \/ /\ pc' = "ended" /\ candidates' = candidates
            /\ ~ IsAutoGen("Cost") => CostApproves(a)
  BY <1>1 DEF Continue, End
<1>3. WellTyped'
  <2>1. CandidatesKept'
    <3>1. attempts \in Nat /\ attempts + Len(candidates) <= MaxReplan + 1 /\ MaxReplan \in Nat
      BY DEF ConsultationInv, WellTyped, CandidatesKept
    <3>2. CASE candidates' = Tail(candidates) /\ attempts' = attempts + 1
      <4>1. attempts' + Len(candidates') <= MaxReplan + 1
        BY <1>h, <3>1, <3>2
      <4> QED
        <5>1. candidates' \in Seq(OwnActions) /\ attempts' \in Nat
          BY <1>h, <3>1, <3>2
        <5>2. pc' \in {"negotiate", "ended"} /\ (pc' = "negotiate" => candidates' # <<>>)
          BY <1>2
        <5> QED
          BY <4>1, <5>1, <5>2 DEF CandidatesKept
    <3>3. CASE candidates' = candidates /\ attempts' = attempts
      BY <1>0, <1>2, <3>1, <3>3 DEF CandidatesKept
    <3> QED
      BY <1>2, <3>2, <3>3
  <2>2. Len(candidates') <= MaxReplan + 1 /\ attempts' \in 0 .. MaxReplan + 1
    <3>1. Len(candidates') \in Nat /\ MaxReplan \in Nat
      BY <1>0, <1>2, <1>h, LenProperties
    <3> QED
      BY <2>1, <3>1 DEF CandidatesKept
  <2> QED
    BY <1>0, <1>2, <2>1, <2>2 DEF ConsultationInv, WellTyped, TypeOK
<1>4. ControllerKept'
  BY <1>0, <1>k, <1>2 DEF ConsultationInv, ControllerKept, InHand, Uniform
<1>5. ChatKept'
  BY <1>0 DEF ConsultationInv, ChatKept, Supervised, Key, Usable
<1>6. DiagnosisApproved'
  BY <1>0, <1>d, <1>k, <1>2 DEF ConsultationInv, DiagnosisApproved
<1>7. ActionsHeeded'
  BY <1>0, <1>1, <1>2, Recorded DEF ConsultationInv, ActionsHeeded
<1>8. RecoveryKept'
  BY <1>0, <1>k, <1>2 DEF ConsultationInv, RecoveryKept, Supervised
<1>9. MaxRounds >= 2 => RevisionKept'
  BY <1>0, <1>2 DEF ConsultationInv, RevisionKept
<1> QED
  BY <1>3, <1>4, <1>5, <1>6, <1>7, <1>8, <1>9 DEF ConsultationInv

(* The autonomous loop keeps what neither infrastructure nor cost          *)
(* disapproves, in the order of its ranks.                                 *)
LEMMA DecideAloneStep == ConsultationInv /\ DecideAlone => ConsultationInv'
<1> SUFFICES ASSUME ConsultationInv, DecideAlone PROVE ConsultationInv'
  OBVIOUS
<1>0. /\ pc = "autonomous" /\ panel.controller = "autonomous" /\ attempts = 0
      /\ UNCHANGED <<panel, runs, case, session, round, consensus, minutes, heard, executed,
                     attempts>>
  BY DEF DecideAlone, ConsultationInv, ControllerKept, WellTyped, CandidatesKept
<1>e. executed = {} /\ ~ Supervised /\ ~ Supervised'
  BY <1>0 DEF ConsultationInv, DiagnosisApproved, Supervised
<1>c. case.desired \in Nat
  <2>1. NoCase.desired = 0
    BY DEF NoCase
  <2>2. case \in Cases \/ case = NoCase
    BY DEF ConsultationInv, WellTyped
  <2> QED
    BY <2>1, <2>2
<1> DEFINE T == {a \in OwnActions : CostApproves(a)}
<1>t. ASSUME NEW cs \in Seq(OwnActions), NEW cause, NEW t \in RankCandidates(cs, cause)
      PROVE  Tried(t) \in Seq(T) /\ Len(Tried(t)) <= MaxReplan + 1
  <2> DEFINE I == {i \in DOMAIN cs : Rankable(cs[i])}
             Score(i) == RankScore(cs[i], cause)
             before == {p \in I \X I : \/ Score(p[1]) > Score(p[2])
                                       \/ Score(p[1]) = Score(p[2]) /\ p[1] < p[2]}
  <2>1. \A i \in DOMAIN cs : cs[i] \in OwnActions
    BY <1>t, LenProperties, ElementOfSeq
  <2>2. \A i \in I : cs[i] \in T
    BY <2>1 DEF Rankable
  <2>3. I \in SUBSET DOMAIN cs /\ t \in Arranged(cs, I, before)
    BY <1>t DEF RankCandidates
  <2> HIDE DEF I, before, T
  <2>4. t \in Seq(T)
    BY <2>2, <2>3, ArrangedKeeps
  <2> QED
    BY <2>4, TriedKeeps
<1>1. \/ /\ pc' = "alone" /\ status' = status
         /\ candidates' \in Seq(T) /\ Len(candidates') <= MaxReplan + 1
      \/ pc' = "ended" /\ status' = "no_action_required" /\ candidates' = candidates
  <2>1. CASE ~ diagnosis'.approved
    BY <2>1 DEF DecideAlone, End
  <2>2. CASE diagnosis'.approved
    <3>1. PICK t \in RankCandidates(RecoveryCandidates(diagnosis', case), diagnosis'.cause) :
            candidates' = Tried(t) /\ pc' = "alone" /\ status' = status
      BY <2>2 DEF DecideAlone
    <3>2. RecoveryCandidates(diagnosis', case) \in Seq(OwnActions)
      BY <1>c, ProposalsTyped
    <3> HIDE DEF T
    <3> QED
      BY <3>1, <3>2, <1>t
  <2> QED
    BY <2>1, <2>2
<1>s. ASSUME candidates' \in Seq(T)
      PROVE  /\ candidates' \in Seq(OwnActions) /\ Len(candidates') \in Nat
             /\ \A i \in 1 .. Len(candidates') : CostApproves(candidates'[i])
  <2>1. T \subseteq OwnActions
    OBVIOUS
  <2>2. \A i \in 1 .. Len(candidates') : candidates'[i] \in T
    <3> HIDE DEF T
    <3> QED
      BY <1>s, ElementOfSeq
  <2>3. candidates' \in Seq(OwnActions)
    <3> HIDE DEF T
    <3> QED
      BY <1>s, <2>1, SeqMonotonic
  <2> QED
    BY <2>2, <2>3, LenProperties
<1> HIDE DEF T
<1>2. WellTyped'
  BY <1>0, <1>1, <1>s DEF ConsultationInv, WellTyped, TypeOK, CandidatesKept
<1>3. ControllerKept'
  BY <1>0, <1>1 DEF ConsultationInv, ControllerKept, InHand, Uniform
<1>4. ChatKept' /\ DiagnosisApproved'
  BY <1>e, <1>1 DEF ChatKept, DiagnosisApproved
<1>5. ActionsHeeded'
  BY <1>0, <1>e, <1>1 DEF ActionsHeeded
<1>6. RecoveryKept'
  BY <1>0, <1>1, <1>s DEF ConsultationInv, RecoveryKept
<1>7. MaxRounds >= 2 => RevisionKept'
  BY <1>0, <1>1 DEF ConsultationInv, RevisionKept
<1> QED
  BY <1>2, <1>3, <1>4, <1>5, <1>6, <1>7 DEF ConsultationInv

(* One iteration of the autonomous loop.                                   *)
LEMMA ActAloneStep == ConsultationInv /\ ActAlone => ConsultationInv'
<1> SUFFICES ASSUME ConsultationInv, ActAlone PROVE ConsultationInv'
  OBVIOUS
<1>0. /\ pc = "alone" /\ panel.controller = "autonomous"
      /\ candidates \in Seq(OwnActions) /\ Len(candidates) \in Nat
      /\ \A i \in 1 .. Len(candidates) : CostApproves(candidates[i])
      /\ UNCHANGED <<panel, runs, case, session, diagnosis, round, consensus, minutes, heard>>
  BY LenProperties DEF ActAlone, ConsultationInv, ControllerKept, WellTyped, CandidatesKept,
                       RecoveryKept
<1>e. ~ Supervised /\ ~ Supervised'
  BY <1>0 DEF Supervised
<1>c. ChatKept' /\ DiagnosisApproved' <=> pc' \notin {"new", "refused", "supervision",
        "propose", "autonomous", "mcmp", "groupchat"} \/ executed' = {}
  BY <1>e DEF ChatKept, DiagnosisApproved
<1>1. CASE candidates = <<>>
  <2>1. pc' = "ended" /\ status' = "safe_failure"
        /\ UNCHANGED <<candidates, executed, attempts>>
    BY <1>1 DEF ActAlone, End
  <2>2. WellTyped'
    BY <1>0, <2>1 DEF ConsultationInv, WellTyped, TypeOK, CandidatesKept
  <2>3. ControllerKept'
    BY <1>0, <2>1 DEF ConsultationInv, ControllerKept, InHand, Uniform
  <2>4. ActionsHeeded'
    BY <1>0, <2>1, HeededStays DEF ConsultationInv, ActionsHeeded
  <2>5. RecoveryKept'
    BY <1>0, <2>1 DEF RecoveryKept
  <2>6. MaxRounds >= 2 => RevisionKept'
    BY <1>0, <2>1 DEF ConsultationInv, RevisionKept
  <2> QED
    BY <1>c, <2>1, <2>2, <2>3, <2>4, <2>5, <2>6 DEF ConsultationInv
<1>2. CASE candidates # <<>>
  <2> DEFINE a == Head(candidates)
  <2>h. /\ Tail(candidates) \in Seq(OwnActions)
        /\ Len(Tail(candidates)) = Len(candidates) - 1
        /\ \A i \in 1 .. Len(candidates) - 1 : Tail(candidates)[i] = candidates[i + 1]
        /\ a = candidates[1] /\ Len(candidates) >= 1
    BY <1>0, <1>2, HeadTailProperties, EmptySeq
  <2>a. CostApproves(a)
    BY <1>0, <2>h
  <2>1. /\ executed' = executed \/ Record(a)
        /\ \/ /\ pc' = "ended" /\ status' \in {"recovered", "recovered_after_replan"}
              /\ UNCHANGED <<candidates, attempts>>
           \/ /\ candidates' = Tail(candidates) /\ attempts' = attempts + 1
              /\ UNCHANGED <<pc, status>>
    BY <1>2 DEF ActAlone, End, Recovered
  <2>2. WellTyped'
    <3>1. CandidatesKept'
      <4>1. attempts \in Nat /\ attempts + Len(candidates) <= MaxReplan + 1 /\ MaxReplan \in Nat
        BY DEF ConsultationInv, WellTyped, CandidatesKept
      <4>2. CASE candidates' = Tail(candidates) /\ attempts' = attempts + 1 /\ pc' = pc
        <5>1. attempts' + Len(candidates') <= MaxReplan + 1
          BY <1>0, <2>h, <4>1, <4>2
        <5> QED
          BY <1>0, <2>h, <4>1, <4>2, <5>1 DEF CandidatesKept
      <4>3. CASE candidates' = candidates /\ attempts' = attempts /\ pc' = "ended"
        BY <1>0, <4>1, <4>3 DEF CandidatesKept
      <4> QED
        BY <2>1, <4>2, <4>3
    <3>2. Len(candidates') <= MaxReplan + 1 /\ attempts' \in 0 .. MaxReplan + 1
      <4>1. Len(candidates') \in Nat /\ MaxReplan \in Nat
        BY <1>0, <2>1, <2>h, LenProperties
      <4> QED
        BY <3>1, <4>1 DEF CandidatesKept
    <3> QED
      BY <1>0, <2>1, <3>1, <3>2 DEF ConsultationInv, WellTyped, TypeOK
  <2>3. ControllerKept'
    BY <1>0, <2>1 DEF ConsultationInv, ControllerKept, InHand, Uniform
  <2>4. ActionsHeeded'
    <3>1. Heeded(a, minutes)
      BY <1>e, <2>a DEF Heeded, WithinBudget
    <3> QED
      BY <1>0, <2>1, <3>1, Recorded DEF ConsultationInv
  <2>5. RecoveryKept'
    <3>1. \A i \in 1 .. Len(candidates') : CostApproves(candidates'[i])
      <4>1. CASE candidates' = candidates
        BY <1>0, <4>1
      <4>2. CASE candidates' = Tail(candidates)
        <5>1. Len(candidates') = Len(candidates) - 1
          BY <2>h, <4>2
        <5>2. \A i \in 1 .. Len(candidates) - 1 : CostApproves(Tail(candidates)[i])
          <6>1. ASSUME NEW i \in 1 .. Len(candidates) - 1
                PROVE  i + 1 \in 1 .. Len(candidates)
            BY <1>0, <6>1
          <6> QED
            BY <1>0, <2>h, <6>1
        <5> QED
          BY <4>2, <5>1, <5>2
      <4> QED
        BY <2>1, <4>1, <4>2
    <3>2. status' \in {"recovered", "recovered_after_replan"} =>
            pc' = "ended" /\ Head(candidates') = a
      BY <1>0, <2>1 DEF ConsultationInv, RecoveryKept
    <3> HIDE DEF a
    <3> QED
      BY <2>a, <3>1, <3>2 DEF RecoveryKept
  <2>6. MaxRounds >= 2 => RevisionKept'
    BY <1>0, <2>1 DEF ConsultationInv, RevisionKept
  <2> QED
    BY <1>0, <1>c, <2>1, <2>2, <2>3, <2>4, <2>5, <2>6 DEF ConsultationInv
<1> QED
  BY <1>1, <1>2

(* The pipeline performs what infrastructure and cost approve.             *)
LEMMA RunPipelineStep == ConsultationInv /\ RunPipeline => ConsultationInv'
<1> SUFFICES ASSUME ConsultationInv, RunPipeline PROVE ConsultationInv'
  OBVIOUS
<1>0. /\ pc = "mcmp" /\ panel.controller = "mcmp" /\ pc' = "ended"
      /\ status' \in {"executed", "rejected"}
      /\ UNCHANGED <<panel, runs, case, session, candidates, round, consensus, minutes, heard,
                     attempts>>
  BY DEF RunPipeline, Perform, End, ConsultationInv, ControllerKept
<1>e. ~ Supervised /\ ~ Supervised'
  BY <1>0 DEF Supervised
<1>1. executed' = executed \/ \E a : CostApproves(a) /\ Record(a)
  BY DEF RunPipeline, Perform
<1>2. WellTyped'
  BY <1>0 DEF ConsultationInv, WellTyped, TypeOK, CandidatesKept
<1>3. ControllerKept'
  BY <1>0 DEF ConsultationInv, ControllerKept, InHand, Uniform
<1>4. ChatKept' /\ DiagnosisApproved'
  BY <1>0, <1>e DEF ChatKept, DiagnosisApproved
<1>5. ActionsHeeded'
  <2>1. CASE executed' = executed
    BY <1>0, <2>1, HeededStays DEF ConsultationInv, ActionsHeeded
  <2>2. ASSUME NEW a, CostApproves(a), Record(a) PROVE ActionsHeeded'
    <3>1. Heeded(a, minutes)
      BY <1>e, <2>2 DEF Heeded, WithinBudget
    <3> QED
      BY <1>0, <2>2, <3>1, Recorded DEF ConsultationInv
  <2> QED
    BY <1>1, <2>1, <2>2
<1>6. RecoveryKept'
  BY <1>0 DEF RecoveryKept
<1>7. MaxRounds >= 2 => RevisionKept'
  BY <1>0 DEF ConsultationInv, RevisionKept
<1> QED
  BY <1>2, <1>3, <1>4, <1>5, <1>6, <1>7 DEF ConsultationInv

(* The group chat performs what its chat approves.                         *)
LEMMA RunGroupChatStep == ConsultationInv /\ RunGroupChat => ConsultationInv'
<1> SUFFICES ASSUME ConsultationInv, RunGroupChat PROVE ConsultationInv'
  OBVIOUS
<1>0. /\ pc = "groupchat" /\ panel.controller = "groupchat" /\ pc' = "ended"
      /\ status' \in {"executed", "rejected", "raised"}
      /\ UNCHANGED <<panel, runs, case, session, diagnosis, candidates, round, consensus,
                     minutes, attempts>>
  BY DEF RunGroupChat, Perform, End, ConsultationInv, ControllerKept
<1>e. ~ Supervised /\ ~ Supervised' /\ executed = {}
  BY <1>0 DEF Supervised, ConsultationInv, DiagnosisApproved
<1>h. heard' \subseteq Chats
  BY DEF RunGroupChat, ConsultationInv, WellTyped, TypeOK
<1>2. WellTyped'
  BY <1>0, <1>h DEF ConsultationInv, WellTyped, TypeOK, CandidatesKept
<1>3. ControllerKept'
  BY <1>0 DEF ConsultationInv, ControllerKept, InHand, Uniform
<1>4. ChatKept' /\ DiagnosisApproved'
  BY <1>0, <1>e DEF ChatKept, DiagnosisApproved
<1>5. ActionsHeeded'
  BY <1>0, <1>e DEF ActionsHeeded, Heeded
<1>6. RecoveryKept'
  BY <1>0 DEF RecoveryKept
<1>7. MaxRounds >= 2 => RevisionKept'
  BY <1>0 DEF ConsultationInv, RevisionKept
<1> QED
  BY <1>2, <1>3, <1>4, <1>5, <1>6, <1>7 DEF ConsultationInv

(* Every step of every controller keeps the invariant.                     *)
LEMMA ConsultationStep == ConsultationInv /\ [Next]_vars => ConsultationInv'
<1> SUFFICES ASSUME ConsultationInv, [Next]_vars PROVE ConsultationInv'
  OBVIOUS
<1>1. CASE Next
  BY <1>1, LaunchStep, BeginRunStep, DiagnoseStep, ProposeStep, NegotiateStep, DispatchStep,
     DecideAloneStep, ActAloneStep, RunPipelineStep, RunGroupChatStep DEF Next
<1>2. CASE UNCHANGED vars
  <2>0. UNCHANGED <<panel, pc, runs, case, session, diagnosis, candidates, round, consensus,
                    minutes, heard, executed, attempts, status>>
    BY <1>2 DEF vars
  <2>1. WellTyped' /\ ControllerKept'
    BY <2>0 DEF ConsultationInv, WellTyped, TypeOK, CandidatesKept, ControllerKept, Supervised,
                InHand, Uniform
  <2>2. ChatKept' /\ DiagnosisApproved'
    BY <2>0 DEF ConsultationInv, ChatKept, DiagnosisApproved, Supervised, Key, Usable,
                IsAutoGen, InHand
  <2>3. ActionsHeeded'
    BY <2>0, HeededStays DEF ConsultationInv, ActionsHeeded
  <2>4. RecoveryKept' /\ (MaxRounds >= 2 => RevisionKept')
    BY <2>0 DEF ConsultationInv, RecoveryKept, RevisionKept, IsAutoGen
  <2> QED
    BY <2>1, <2>2, <2>3, <2>4 DEF ConsultationInv
<1> QED
  BY <1>1, <1>2

-----------------------------------------------------------------------------
(* The inductive invariant of the consultation: candidates and attempts,   *)
(* the controller that runs, the one chat of a supervised run, what its    *)
(* diagnosis and its reviewers said of the action in hand and of those     *)
(* carried out, and the rounds left for a revision.                        *)
THEOREM ConsultationInductive == Spec => []ConsultationInv
<1>1. Init => ConsultationInv
  BY ConsultationInit
<1>2. ConsultationInv /\ [Next]_vars => ConsultationInv'
  BY ConsultationStep
<1> QED
  BY <1>1, <1>2, PTL DEF Spec

(* A run tries no more candidates than max_replan_attempts allows, one     *)
(* more than the replans, and negotiates no more than                      *)
(* max_negotiation_rounds rounds (MutualSupervisionConfig).                *)
THEOREM ConsultationTypes == Spec => []TypeOK
<1>1. ConsultationInv => TypeOK
  BY DEF ConsultationInv, WellTyped
<1> QED
  BY <1>1, ConsultationInductive, PTL

(* No reviewer of an action carried out under mutual supervision is        *)
(* reduced to abstaining, and none whose veto counts objects to it: the    *)
(* verdicts _review_action collects are those of the chat the diagnosis    *)
(* came from, or of the deterministic agents' own rules.                   *)
THEOREM VetoTheorem == Spec => []VetoHeard
<1>1. ASSUME ConsultationInv,
             Supervised /\ (panel.launcher = "factory" \/ IsAutoGen("HA")),
             NEW x \in executed
      PROVE  ReviewersHeard(x.action, x.verdicts)
  BY <1>1 DEF ConsultationInv, ActionsHeeded, Heeded
<1>2. ConsultationInv => VetoHeard
  BY <1>1 DEF VetoHeard, Supervised, ReviewersHeard
<1> QED
  BY <1>2, ConsultationInductive, PTL

(* The budget of a deterministic cost agent is exceeded only where it can  *)
(* be outvoted, and no run that exceeded it with its last action counts    *)
(* as recovered: the post-execution review of the cost agent repeats it.   *)
THEOREM BudgetTheorem == Spec => []BudgetKept
<1>1. ASSUME ConsultationInv, ~ IsAutoGen("Cost"), panel.controller # "groupchat",
             NEW x \in executed
      PROVE  WithinBudget(x.action)
  BY <1>1 DEF ConsultationInv, ActionsHeeded, Heeded
<1>2. ASSUME ConsultationInv, ~ IsAutoGen("Cost"),
             status \in {"recovered", "recovered_after_replan"}
      PROVE  CostApproves(Head(candidates))
  BY <1>2 DEF ConsultationInv, RecoveryKept
<1>3. ConsultationInv => BudgetKept
  BY <1>1, <1>2 DEF BudgetKept, WithinBudget, Supervised
<1> QED
  BY <1>3, ConsultationInductive, PTL

(* With two rounds or more, as every shipped configuration has, no run is  *)
(* stopped over a revision: the one the cost agent suggests is sound, and  *)
(* the next round, in which it approves it, is still to come.              *)
THEOREM RevisionTheorem == Spec => [](MaxRounds >= 2 => RevisionSettles)
<1>1. ConsultationInv => (MaxRounds >= 2 => RevisionSettles)
  BY DEF ConsultationInv, RevisionKept, RevisionSettles
<1> QED
  BY <1>1, ConsultationInductive, PTL

(* What AutoGen agents contribute to a run comes from one chat: the        *)
(* session's cache outlives the steps of a run, never the run.             *)
THEOREM OneChatTheorem == Spec => []OneChatPerRun
<1> DEFINE One == \E c : heard \subseteq {c}
<1>1. Init => One
  BY DEF Init
<1>2. ConsultationInv /\ ConsultationInv' /\ One /\ [Next]_vars => One'
  <2> SUFFICES ASSUME ConsultationInv, ConsultationInv', One, [Next]_vars PROVE One'
    OBVIOUS
  <2>1. CASE Supervised'
    BY <2>1 DEF ConsultationInv, ChatKept
  <2>2. CASE ~ Supervised'
    <3>1. panel' = panel
      BY DEF Next, vars, Launch, BeginRun, Diagnose, Propose, Negotiate, Dispatch,
             DecideAlone, ActAlone, RunPipeline, RunGroupChat
    <3>2. ~ Supervised
      BY <2>2, <3>1 DEF Supervised
    <3>3. pc \notin {"supervision", "propose", "negotiate", "dispatch"}
      BY <3>2 DEF ConsultationInv, ControllerKept, InHand
    <3>4. heard' \in {heard, {}} \/ \E chat : heard' = {chat}
      BY <3>3 DEF Next, vars, Launch, BeginRun, Diagnose, Propose, Negotiate, Dispatch,
             DecideAlone, ActAlone, RunPipeline, RunGroupChat
    <3> QED
      BY <3>4
  <2> QED
    BY <2>1, <2>2
<1>3. One => OneChatPerRun
  <2> SUFFICES ASSUME NEW c, heard \subseteq {c} PROVE OneChatPerRun
    OBVIOUS
  <2>1. heard = {} \/ heard = {c}
    OBVIOUS
  <2>2. Cardinality({}) = 0 /\ Cardinality({c}) = 1
    BY FS_EmptySet, FS_Singleton
  <2> QED
    <3>1. Cardinality(heard) = 0 \/ Cardinality(heard) = 1
      BY <2>1, <2>2
    <3> QED
      BY <3>1 DEF OneChatPerRun
<1> HIDE DEF One
<1> QED
  BY <1>1, <1>2, <1>3, ConsultationInductive, PTL DEF Spec
=============================================================================
