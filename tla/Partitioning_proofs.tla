-------------------------- MODULE Partitioning_proofs --------------------------
(***************************************************************************)
(* Partitioning.  First the rankers: a model is judged on lineage groups   *)
(* it has not seen and trusted only where it was fitted, for every set of  *)
(* plans, roots, datasets, versions and processes that build, train and    *)
(* evaluate.  Then planning: what the agent accepts the validator accepts, *)
(* a first plan is blocked only when no split would do, exclusions hold    *)
(* along a lineage, its replans are counted, and a saved plan respects its *)
(* devices, for every set of submissions, callers, models and weights.     *)
(***************************************************************************)
EXTENDS PartitionRankers, PartitionPlanning, FiniteSetTheorems, SequenceTheorems, TLAPS

\* The rows some build has collected, and the manifests written for them.
Collections == {Collected[b] : b \in Builds}
Manifest == [rows : Collections, scope : Scopes]

\* An artifact as training makes it from some collection: the trusted scope has
\* been checked row by row, and the held-out rows are whole groups.
Trained(a) ==
    /\ a.rows \in Collections
    /\ Cardinality(Groups(a.rows)) >= 2
    /\ a.test \in Holdouts(a.rows)
    /\ a.range = TrainingRange(a.rows, a.test) /\ a.groups = Groups(a.rows)
    /\ a.base = IF a.eligible THEN 95 ELSE 0
    /\ a.scope = "observed" => \A p \in a.rows : Observed(p) /\ OutcomeMatches(p)

\* Whoever wrote or moved them, the files hold something that was collected.
FilesCollected ==
    /\ temp \in [Datasets -> [rows : {NoFile} \cup Collections,
                              manifest : {NoFile} \cup Manifest]]
    /\ rows \in [Datasets -> {NoFile} \cup Collections]
    /\ manifest \in [Datasets -> {NoFile} \cup Manifest]

\* So does a builder; an evaluation holds an artifact that training has made,
\* even when the registry holds another one by now.
Writing == [at : {"write", "publish"}, file : {"rows", "manifest"}, dataset : Datasets,
            rows : Collections, scope : Scopes]

StepsKnown ==
    /\ DOMAIN pc = Processes
    /\ \A j \in Processes :
         \/ pc[j] = Idle
         \/ pc[j] \in Writing
         \/ pc[j].at = "evaluate" /\ Trained(pc[j].artifact)

RegistryTrained ==
    /\ DOMAIN registry = Versions
    /\ \A v \in Versions : registry[v] # NoFile => Trained(registry[v])

RankerInv ==
    /\ FilesCollected /\ StepsKnown /\ RegistryTrained
    /\ EvaluatedOnUnseenGroups /\ LearnedChoiceTrusted

-----------------------------------------------------------------------------
USE RankerAssumption DEF RankerAssumption

(* A finite set of integers has a least and a greatest element.            *)
LEMMA Extremes ==
    ASSUME NEW S \in SUBSET Int, IsFiniteSet(S), S # {}
    PROVE  /\ Min(S) \in S /\ \A y \in S : Min(S) <= y
           /\ Max(S) \in S /\ \A y \in S : y <= Max(S)
<1>w. IsWellFoundedOn(StrictSubsetOrdering(S), FiniteSubsetsOf(S))
  BY FS_StrictSubsetOrderingWellFounded
<1>1. \E x \in S : \A y \in S : x <= y
  <2> DEFINE Below(x) == {y \in S : y <= x}
             T == {Below(x) : x \in S}
  <2>1. T \subseteq FiniteSubsetsOf(S) /\ T # {}
    <3>1. \A A \in SUBSET S : IsFiniteSet(A)
      BY FS_Subset
    <3> QED
      BY <3>1 DEF FiniteSubsetsOf
  <2>2. \E A \in T : \A B \in T : <<B, A>> \notin StrictSubsetOrdering(S)
    BY <1>w, <2>1, WFMin
  <2>3. PICK x \in S : \A y \in S : <<Below(y), Below(x)>> \notin StrictSubsetOrdering(S)
    BY <2>2
  <2>4. ASSUME NEW y \in S, ~(x <= y) PROVE FALSE
    <3>1. Below(y) \subseteq Below(x) /\ Below(x) # Below(y)
      <4>1. x \in Int /\ y \in Int
        OBVIOUS
      <4>2. \A z \in S : z <= y => z <= x
        BY <2>4, <4>1
      <4>3. x \in Below(x) /\ x \notin Below(y)
        BY <2>4, <4>1
      <4>4. Below(y) \subseteq Below(x)
        BY <4>2, Zenon
      <4> QED
        BY <4>3, <4>4
    <3>2. <<Below(y), Below(x)>> \in StrictSubsetOrdering(S)
      BY <3>1 DEF StrictSubsetOrdering
    <3> QED
      BY <2>3, <3>2
  <2> QED
    BY <2>4
<1>2. \E x \in S : \A y \in S : y <= x
  <2> DEFINE Above(x) == {y \in S : x <= y}
             T == {Above(x) : x \in S}
  <2>1. T \subseteq FiniteSubsetsOf(S) /\ T # {}
    <3>1. \A A \in SUBSET S : IsFiniteSet(A)
      BY FS_Subset
    <3> QED
      BY <3>1 DEF FiniteSubsetsOf
  <2>2. \E A \in T : \A B \in T : <<B, A>> \notin StrictSubsetOrdering(S)
    BY <1>w, <2>1, WFMin
  <2>3. PICK x \in S : \A y \in S : <<Above(y), Above(x)>> \notin StrictSubsetOrdering(S)
    BY <2>2
  <2>4. ASSUME NEW y \in S, ~(y <= x) PROVE FALSE
    <3>1. Above(y) \subseteq Above(x) /\ Above(x) # Above(y)
      <4>1. x \in Int /\ y \in Int
        OBVIOUS
      <4>2. \A z \in S : y <= z => x <= z
        BY <2>4, <4>1
      <4>3. x \in Above(x) /\ x \notin Above(y)
        BY <2>4, <4>1
      <4>4. Above(y) \subseteq Above(x)
        BY <4>2, Zenon
      <4> QED
        BY <4>3, <4>4
    <3>2. <<Above(y), Above(x)>> \in StrictSubsetOrdering(S)
      BY <3>1 DEF StrictSubsetOrdering
    <3> QED
      BY <2>3, <3>2
  <2> QED
    BY <2>4
<1>3. Min(S) \in S /\ \A y \in S : Min(S) <= y
  BY <1>1 DEF Min
<1>4. Max(S) \in S /\ \A y \in S : Max(S) >= y
  BY <1>2 DEF Max
<1> QED
  BY <1>3, <1>4

(* The image of a finite set under a function is finite.                   *)
LEMMA FiniteImage ==
    ASSUME NEW S, IsFiniteSet(S), NEW f, S \subseteq DOMAIN f
    PROVE  IsFiniteSet({f[x] : x \in S})
<1> DEFINE T == {f[x] : x \in S}
           g == [x \in S |-> f[x]]
<1>1. g \in Surjection(S, T)
  BY DEF Surjection
<1> QED
  BY <1>1, FS_Surjection

(* What is collected is a finite set of plans.                             *)
LEMMA CollectionsFinite ==
    ASSUME NEW S \in Collections
    PROVE  S \in SUBSET Plans /\ IsFiniteSet(S)
<1>1. S \in SUBSET Plans
  BY DEF Collections, Collected
<1> QED
  BY <1>1, FS_Subset

(* The groups of some rows are finitely many, and none have none.          *)
LEMMA GroupsFinite ==
    ASSUME NEW S \in SUBSET Plans
    PROVE  /\ IsFiniteSet(Groups(S)) /\ Cardinality(Groups(S)) \in Nat
           /\ S = {} => Cardinality(Groups(S)) = 0
<1>1. IsFiniteSet(S)
  BY FS_Subset
<1>2. IsFiniteSet({Group[p] : p \in S})
  BY <1>1, FiniteImage DEF Group
<1>3. IsFiniteSet(Groups(S)) /\ Cardinality(Groups(S)) \in Nat
  BY <1>2, FS_CardinalityType DEF Groups
<1>4. S = {} => Groups(S) = {}
  BY DEF Groups
<1> QED
  BY <1>3, <1>4, FS_EmptySet

(* group_holdout_split keeps at least one group for either side.           *)
LEMMA TestCountBetween ==
    ASSUME NEW n \in Nat, n >= 2 PROVE TestCount(n) \in 1..n - 1
BY DEF TestCount

(* A holdout of two groups or more is neither empty nor everything, and    *)
(* shares no group with the rows it leaves.                                *)
LEMMA HoldoutProper ==
    ASSUME NEW S \in Collections, Cardinality(Groups(S)) >= 2, NEW T \in Holdouts(S)
    PROVE  /\ T \subseteq S /\ T # {} /\ T # S
           /\ Groups(T) \cap Groups(S \ T) = {}
<1>1. S \in SUBSET Plans
  BY CollectionsFinite
<1>2. T \in SUBSET S /\ Groups(T) \cap Groups(S \ T) = {}
      /\ Cardinality(Groups(T)) = TestCount(Cardinality(Groups(S)))
  BY DEF Holdouts
<1>3. Cardinality(Groups(S)) \in Nat
  BY <1>1, GroupsFinite
<1>4. Cardinality(Groups(T)) \in 1..Cardinality(Groups(S)) - 1
  BY <1>2, <1>3, TestCountBetween
<1>5. T # {}
  BY <1>1, <1>2, <1>4, GroupsFinite
<1>6. T # S
  BY <1>3, <1>4
<1> QED
  BY <1>2, <1>5, <1>6

(* A feature inside the range of the training rows lies between those of   *)
(* two rows the model was fitted on: the guard counts every one that does  *)
(* not.                                                                    *)
LEMMA RangeIsBetweenRows ==
    ASSUME NEW a, Trained(a), NEW x \in [FeatureOrder -> Int]
    PROVE  Unlike(a, x) \subseteq Outside(x, a.range)
<1> DEFINE R == a.rows \ a.test
<1>t. /\ a.rows \in Collections /\ a.test \in Holdouts(a.rows)
      /\ Cardinality(Groups(a.rows)) >= 2
  BY DEF Trained
<1>1. /\ a.rows \in SUBSET Plans /\ IsFiniteSet(a.rows)
      /\ a.test \subseteq a.rows /\ a.test # a.rows
  <2>1. a.rows \in SUBSET Plans /\ IsFiniteSet(a.rows)
    BY <1>t, CollectionsFinite
  <2>2. a.test \subseteq a.rows /\ a.test # a.rows
    <3>1. \A S \in Collections : Cardinality(Groups(S)) >= 2 =>
            \A T \in Holdouts(S) : T \subseteq S /\ T # S
      <4> TAKE S \in Collections
      <4> HAVE Cardinality(Groups(S)) >= 2
      <4> TAKE T \in Holdouts(S)
      <4> QED
        BY HoldoutProper
    <3> QED
      BY <1>t, <3>1, Zenon
  <2> QED
    BY <2>1, <2>2
<1>2. R # {} /\ R \in SUBSET Plans /\ IsFiniteSet(R)
  <2>1. R # {} /\ R \in SUBSET a.rows
    BY <1>1
  <2> QED
    BY <1>1, <2>1, FS_Subset
<1>3. ASSUME NEW f \in FeatureOrder, f \notin Outside(x, a.range)
      PROVE  \E p, q \in R : Plan[p].feature[f] <= x[f] /\ x[f] <= Plan[q].feature[f]
  <2> DEFINE F == {Plan[p].feature[f] : p \in R}
  <2>1. a.range[f] = F
    BY DEF Trained, TrainingRange
  <2>2. F \in SUBSET Int /\ F # {}
    BY <1>2
  <2>3. IsFiniteSet(F)
    <3> DEFINE g == [p \in Plans |-> Plan[p].feature[f]]
    <3>1. IsFiniteSet({g[p] : p \in R})
      BY <1>2, FiniteImage
    <3>2. {g[p] : p \in R} = F
      BY <1>2
    <3> QED
      BY <3>1, <3>2
  <2>4. Min(F) \in F /\ Max(F) \in F
    BY <2>2, <2>3, Extremes
  <2>5. ~(x[f] < Min(F)) /\ ~(x[f] > Max(F))
    BY <1>3, <2>1 DEF Outside
  <2> HIDE DEF R
  <2>6. x[f] \in Int /\ Min(F) \in Int /\ Max(F) \in Int
    BY <2>2, <2>4
  <2>7. Min(F) <= x[f] /\ x[f] <= Max(F)
    BY <2>5, <2>6
  <2> QED
    BY <2>4, <2>7
<1> QED
  BY <1>3 DEF Unlike

(* What training may fit on a collection is tested on one of its holdouts. *)
LEMMA FitsAreHoldouts ==
    ASSUME NEW S \in Collections, NEW fit \in Outcomes[S]
    PROVE  fit[1] \in Holdouts(S)
BY DEF Outcomes, Collections

(* The initial state satisfies the inductive invariant.                    *)
LEMMA RankerInit == Init => RankerInv
<1> SUFFICES ASSUME Init PROVE RankerInv
  OBVIOUS
<1>1. FilesCollected
  BY DEF Init, FilesCollected, NoFiles
<1>2. StepsKnown /\ RegistryTrained
  BY DEF Init, StepsKnown, RegistryTrained
<1>3. EvaluatedOnUnseenGroups /\ LearnedChoiceTrusted
  BY DEF Init, EvaluatedOnUnseenGroups, LearnedChoiceTrusted
<1> QED
  BY <1>1, <1>2, <1>3 DEF RankerInv

-----------------------------------------------------------------------------
(* A step that only a writer's files feel, one conjunct at a time.         *)
LEMMA CollectStep ==
    ASSUME RankerInv, NEW j \in Processes, NEW d \in Datasets, NEW build \in Builds,
           Collect(j, d, build)
    PROVE  RankerInv'
<1>1. [at |-> "write", file |-> "rows", dataset |-> d, rows |-> Collected[build],
       scope |-> build[2]] \in Writing
  BY DEF Writing, Collections, Scopes
<1>2. StepsKnown'
  BY <1>1 DEF RankerInv, StepsKnown, Collect, Goto
<1>3. FilesCollected' /\ RegistryTrained'
  BY Zenon DEF RankerInv, Collect, FilesCollected, RegistryTrained
<1>4. EvaluatedOnUnseenGroups' /\ LearnedChoiceTrusted'
  BY DEF Collect, EvaluatedOnUnseenGroups, LearnedChoiceTrusted
<1> QED
  BY <1>2, <1>3, <1>4 DEF RankerInv

(* A builder about to write or move a file holds a collection.             *)
LEMMA WriterHolds ==
    ASSUME StepsKnown, NEW j \in Processes, At(j, "write") \/ At(j, "publish")
    PROVE  pc[j] \in Writing
BY DEF StepsKnown, At

(* write_partition_ranking_dataset, up to the temporary file.              *)
LEMMA WriteTemporaryStep ==
    ASSUME RankerInv, NEW j \in Processes, WriteTemporary(j)
    PROVE  RankerInv'
<1>1. pc[j] \in Writing
  BY WriterHolds DEF RankerInv, WriteTemporary
<1>2. StepsKnown'
  <2>1. [pc[j] EXCEPT !.at = "publish"] \in Writing
    BY <1>1 DEF Writing
  <2> QED
    BY <2>1 DEF RankerInv, StepsKnown, WriteTemporary, Goto
<1>3. temp' \in [Datasets -> [rows : {NoFile} \cup Collections,
                              manifest : {NoFile} \cup Manifest]]
  <2>1. pc[j].dataset \in Datasets /\ pc[j].rows \in Collections /\ pc[j].scope \in Scopes
        /\ pc[j].file \in {"rows", "manifest"}
    BY <1>1 DEF Writing
  <2>2. [rows |-> pc[j].rows, scope |-> pc[j].scope] \in Manifest
    BY <2>1 DEF Manifest
  <2>3. CASE pc[j].file = "rows"
    <3>1. temp' = [temp EXCEPT ![pc[j].dataset]["rows"] = pc[j].rows]
      BY <2>3 DEF WriteTemporary
    <3> QED
      BY <2>1, <3>1 DEF RankerInv, FilesCollected
  <2>4. CASE pc[j].file = "manifest"
    <3>1. temp' = [temp EXCEPT ![pc[j].dataset]["manifest"] =
                     [rows |-> pc[j].rows, scope |-> pc[j].scope]]
      BY <2>4 DEF WriteTemporary
    <3> QED
      BY <2>1, <2>2, <3>1 DEF RankerInv, FilesCollected
  <2> QED
    BY <2>1, <2>3, <2>4
<1>4. rows' = rows /\ manifest' = manifest /\ registry' = registry /\ result' = NoResult
  BY DEF WriteTemporary
<1>5. FilesCollected' /\ RegistryTrained'
  BY <1>3, <1>4, Zenon DEF RankerInv, FilesCollected, RegistryTrained
<1>6. EvaluatedOnUnseenGroups' /\ LearnedChoiceTrusted'
  BY <1>4 DEF EvaluatedOnUnseenGroups, LearnedChoiceTrusted
<1> QED
  BY <1>2, <1>5, <1>6 DEF RankerInv

(* The rows file moved into place is some builder's, if not this one's.    *)
LEMMA PublishRowsStep ==
    ASSUME RankerInv, NEW j \in Processes, PublishRows(j)
    PROVE  RankerInv'
<1>1. pc[j] \in Writing
  BY WriterHolds DEF RankerInv, PublishRows
<1>2. StepsKnown'
  <2>1. [pc[j] EXCEPT !.at = "write", !.file = "manifest"] \in Writing
    BY <1>1 DEF Writing
  <2> QED
    BY <2>1 DEF RankerInv, StepsKnown, PublishRows, Goto
<1>3. FilesCollected'
  <2>1. pc[j].dataset \in Datasets
    BY <1>1 DEF Writing
  <2>2. temp' \in [Datasets -> [rows : {NoFile} \cup Collections,
                                manifest : {NoFile} \cup Manifest]]
    BY <2>1 DEF RankerInv, FilesCollected, PublishRows
  <2>3. temp[pc[j].dataset].rows \in {NoFile} \cup Collections
    BY <2>1 DEF RankerInv, FilesCollected
  <2>4. rows' \in [Datasets -> {NoFile} \cup Collections]
    BY <2>1, <2>3 DEF RankerInv, FilesCollected, PublishRows
  <2> QED
    BY <2>2, <2>4 DEF RankerInv, FilesCollected, PublishRows
<1>4. RegistryTrained' /\ EvaluatedOnUnseenGroups' /\ LearnedChoiceTrusted'
  <2>1. registry' = registry /\ result' = NoResult
    BY DEF PublishRows
  <2> QED
    BY <2>1, Zenon DEF RankerInv, RegistryTrained, EvaluatedOnUnseenGroups,
                       LearnedChoiceTrusted
<1> QED
  BY <1>2, <1>3, <1>4 DEF RankerInv

(* So is the manifest.                                                     *)
LEMMA PublishManifestStep ==
    ASSUME RankerInv, NEW j \in Processes, PublishManifest(j)
    PROVE  RankerInv'
<1>1. pc[j] \in Writing
  BY WriterHolds DEF RankerInv, PublishManifest
<1>2. StepsKnown'
  BY DEF RankerInv, StepsKnown, PublishManifest, Goto
<1>3. FilesCollected'
  <2>1. pc[j].dataset \in Datasets
    BY <1>1 DEF Writing
  <2>2. temp' \in [Datasets -> [rows : {NoFile} \cup Collections,
                                manifest : {NoFile} \cup Manifest]]
    BY <2>1 DEF RankerInv, FilesCollected, PublishManifest
  <2>3. temp[pc[j].dataset].manifest \in {NoFile} \cup Manifest
    BY <2>1 DEF RankerInv, FilesCollected
  <2>4. manifest' \in [Datasets -> {NoFile} \cup Manifest]
    BY <2>1, <2>3 DEF RankerInv, FilesCollected, PublishManifest
  <2> QED
    BY <2>2, <2>4 DEF RankerInv, FilesCollected, PublishManifest
<1>4. RegistryTrained' /\ EvaluatedOnUnseenGroups' /\ LearnedChoiceTrusted'
  <2>1. registry' = registry /\ result' = NoResult
    BY DEF PublishManifest
  <2> QED
    BY <2>1, Zenon DEF RankerInv, RegistryTrained, EvaluatedOnUnseenGroups,
                       LearnedChoiceTrusted
<1> QED
  BY <1>2, <1>3, <1>4 DEF RankerInv

(* Training registers an artifact made of what the loaded files hold, an   *)
(* observed one only after each of its rows was made again from its source. *)
LEMMA TrainStep ==
    ASSUME RankerInv, NEW v \in Versions, NEW d \in Datasets, Train(v, d)
    PROVE  RankerInv'
<1> DEFINE S == rows[d]
<1>1. S \in Collections /\ Cardinality(Groups(S)) >= 2
  BY DEF RankerInv, FilesCollected, Train, Loads
<1>2. PICK fit \in Outcomes[S] :
        /\ v \in Versions
        /\ registry' = [registry EXCEPT ![v] =
                          Artifact(v, S, manifest[d].scope, fit[1], fit[2])]
  BY DEF Train, Register, Artifact
<1> DEFINE a == Artifact(v, S, manifest[d].scope, fit[1], fit[2])
<1>3. Trained(a)
  <2>1. /\ a.rows = S /\ a.test = fit[1] /\ a.range = TrainingRange(S, fit[1])
        /\ a.groups = Groups(S) /\ a.scope = manifest[d].scope
        /\ a.eligible = QualityEligible(S, manifest[d].scope, fit[2])
        /\ a.base = BaseConfidence(S, manifest[d].scope, fit[2])
    BY DEF Artifact
  <2>2. fit[1] \in Holdouts(S)
    BY <1>1, <1>2, FitsAreHoldouts
  <2>3. a.base = IF a.eligible THEN 95 ELSE 0
    BY <2>1 DEF BaseConfidence
  <2>4. a.scope = "observed" => \A p \in a.rows : Observed(p) /\ OutcomeMatches(p)
    BY <2>1 DEF Train, Loads, SourcesOk, Row
  <2> HIDE DEF a
  <2> QED
    BY <1>1, <2>1, <2>2, <2>3, <2>4 DEF Trained
<1>4. RegistryTrained'
  <2> HIDE DEF a
  <2>1. DOMAIN registry' = Versions
    BY <1>2 DEF RankerInv, RegistryTrained
  <2>2. ASSUME NEW w \in Versions, registry'[w] # NoFile PROVE Trained(registry'[w])
    BY <1>2, <1>3, <2>2 DEF RankerInv, RegistryTrained, a
  <2> QED
    BY <2>1, <2>2 DEF RegistryTrained, Trained
<1>5. temp' = temp /\ rows' = rows /\ manifest' = manifest /\ pc' = pc /\ result' = NoResult
  BY DEF Train
<1>6. FilesCollected' /\ StepsKnown' /\ EvaluatedOnUnseenGroups' /\ LearnedChoiceTrusted'
  BY <1>5, Zenon DEF RankerInv, FilesCollected, StepsKnown, EvaluatedOnUnseenGroups,
                     LearnedChoiceTrusted
<1> QED
  BY <1>4, <1>6 DEF RankerInv

(* An evaluation keeps the artifact it has read.                           *)
LEMMA ReadArtifactStep ==
    ASSUME RankerInv, NEW j \in Processes, NEW v \in Versions, ReadArtifact(j, v)
    PROVE  RankerInv'
<1>1. Trained(registry[v])
  BY DEF RankerInv, RegistryTrained, ReadArtifact, Registered
<1>2. StepsKnown'
  BY <1>1 DEF RankerInv, StepsKnown, ReadArtifact, Goto
<1>3. temp' = temp /\ rows' = rows /\ manifest' = manifest /\ registry' = registry
      /\ result' = NoResult
  BY DEF ReadArtifact
<1>4. FilesCollected' /\ RegistryTrained' /\ EvaluatedOnUnseenGroups' /\ LearnedChoiceTrusted'
  BY <1>3, Zenon DEF RankerInv, FilesCollected, RegistryTrained, EvaluatedOnUnseenGroups,
                     LearnedChoiceTrusted
<1> QED
  BY <1>2, <1>4 DEF RankerInv

(* The groups compared before an evaluation are those of the rows the      *)
(* artifact was trained from, whatever the registry holds by then.         *)
LEMMA EvaluateStep ==
    ASSUME RankerInv, NEW j \in Processes, NEW d \in Datasets, Evaluate(j, d)
    PROVE  RankerInv'
<1> DEFINE a == pc[j].artifact
<1>1. Trained(a)
  BY DEF RankerInv, StepsKnown, Evaluate, At, Writing
<1>2. /\ result'.of = a /\ result'.on = rows[d] /\ result'.at = {}
      /\ result'.deployable => a.eligible
  BY DEF Evaluate
<1>3. Groups(rows[d]) \cap a.groups = {} /\ a.groups = Groups(a.rows)
  BY <1>1 DEF Evaluate, Independent, Trained
<1>4. EvaluatedOnUnseenGroups'
  BY <1>2, <1>3 DEF EvaluatedOnUnseenGroups, Groups
<1>5. LearnedChoiceTrusted'
  BY <1>2 DEF LearnedChoiceTrusted
<1>6. StepsKnown'
  BY DEF RankerInv, StepsKnown, Evaluate, Goto
<1>7. temp' = temp /\ rows' = rows /\ manifest' = manifest /\ registry' = registry
  BY DEF Evaluate
<1>8. FilesCollected' /\ RegistryTrained'
  BY <1>7, Zenon DEF RankerInv, FilesCollected, RegistryTrained
<1> QED
  BY <1>4, <1>5, <1>6, <1>8 DEF RankerInv

(* A process that ends leaves the files as they are.                       *)
LEMMA EndsStep ==
    ASSUME RankerInv, NEW j \in Processes, Ends(j)
    PROVE  RankerInv'
<1>1. StepsKnown'
  BY DEF RankerInv, StepsKnown, Ends, Goto
<1>2. temp' = temp /\ rows' = rows /\ manifest' = manifest /\ registry' = registry
      /\ result' = NoResult
  BY DEF Ends
<1>3. FilesCollected' /\ RegistryTrained' /\ EvaluatedOnUnseenGroups' /\ LearnedChoiceTrusted'
  BY <1>2, Zenon DEF RankerInv, FilesCollected, RegistryTrained, EvaluatedOnUnseenGroups,
                     LearnedChoiceTrusted
<1> QED
  BY <1>1, <1>3 DEF RankerInv

(* The model's candidate is final only under the guard: training gives an  *)
(* ineligible artifact no confidence, which satisfies only a policy that   *)
(* asks for none, and the guard counts the features outside the range.     *)
LEMMA ChooseStep ==
    ASSUME RankerInv, NEW mode, NEW v \in Versions, NEW x \in Features, Choose(mode, v, x)
    PROVE  RankerInv'
<1> DEFINE a == registry[v]
           all == Cardinality(FeatureOrder)
           outside == Cardinality(Outside(x, a.range))
<1>1. Trained(a)
  BY DEF RankerInv, RegistryTrained, Choose, Registered
<1>2. result'.of = a /\ result'.on = {} /\ result'.at = {x}
  BY DEF Choose
<1>3. 100 * outside < MaxOutside * all /\ a.base * (all - outside) >= MinConfidence * all
  BY DEF Choose, Select, GuardHolds, Confident
<1>c. /\ all \in Nat /\ all > 0 /\ outside \in Nat
      /\ IsFiniteSet(Outside(x, a.range))
  <2>1. Outside(x, a.range) \in SUBSET FeatureOrder
    BY DEF Outside
  <2>2. all \in Nat /\ all # 0
    BY FS_CardinalityType, FS_EmptySet
  <2> QED
    BY <2>1, <2>2, FS_Subset, FS_CardinalityType
<1>4. a.eligible \/ MinConfidence = 0
  <2> SUFFICES ASSUME ~a.eligible PROVE MinConfidence = 0
    OBVIOUS
  <2>1. a.base = 0
    BY <1>1 DEF Trained
  <2> HIDE DEF a, all, outside
  <2>2. 0 >= MinConfidence * all
    BY <1>3, <1>c, <2>1
  <2>3. MinConfidence \in Nat /\ (MinConfidence # 0 => MinConfidence * all >= all)
    BY <1>c
  <2> QED
    BY <1>c, <2>2, <2>3
<1>5. 100 * Cardinality(Unlike(a, x)) < MaxOutside * all
  <2>1. Unlike(a, x) \subseteq Outside(x, a.range)
    BY <1>1, RangeIsBetweenRows
  <2>2. Cardinality(Unlike(a, x)) \in Nat /\ Cardinality(Unlike(a, x)) <= outside
    BY <1>c, <2>1, FS_Subset, FS_CardinalityType
  <2> HIDE DEF a, all, outside
  <2>3. MaxOutside * all \in Nat
    BY <1>c
  <2> QED
    BY <1>3, <1>c, <2>2, <2>3
<1>6. LearnedChoiceTrusted'
  <2> HIDE DEF a
  <2>1. \A y \in {x} : 100 * Cardinality(Unlike(a, y)) < MaxOutside * all
    BY <1>5
  <2> QED
    BY <1>2, <1>4, <2>1 DEF LearnedChoiceTrusted
<1>7. EvaluatedOnUnseenGroups'
  BY <1>2 DEF EvaluatedOnUnseenGroups, Groups
<1>8. temp' = temp /\ rows' = rows /\ manifest' = manifest /\ registry' = registry
      /\ pc' = pc
  BY DEF Choose
<1>9. FilesCollected' /\ StepsKnown' /\ RegistryTrained'
  BY <1>8, Zenon DEF RankerInv, FilesCollected, StepsKnown, RegistryTrained
<1> QED
  BY <1>6, <1>7, <1>9 DEF RankerInv

(* RankerInv is inductive: every step of every process preserves it.       *)
THEOREM RankerInductive == Spec => []RankerInv
<1>1. RankerInv /\ [Next]_vars => RankerInv'
  <2> SUFFICES ASSUME RankerInv, [Next]_vars PROVE RankerInv'
    OBVIOUS
  <2>1. ASSUME NEW j \in Processes,
               \/ \E d \in Datasets, build \in Builds : Collect(j, d, build)
               \/ \E d \in Datasets : Evaluate(j, d)
               \/ \E v \in Versions : ReadArtifact(j, v)
               \/ WriteTemporary(j) \/ PublishRows(j) \/ PublishManifest(j) \/ Ends(j)
        PROVE  RankerInv'
    BY <2>1, CollectStep, EvaluateStep, ReadArtifactStep, WriteTemporaryStep,
       PublishRowsStep, PublishManifestStep, EndsStep
  <2>2. ASSUME NEW v \in Versions, NEW d \in Datasets, Train(v, d) PROVE RankerInv'
    BY <2>2, TrainStep
  <2>3. ASSUME NEW mode, NEW v \in Versions, NEW x \in Features, Choose(mode, v, x)
        PROVE  RankerInv'
    BY <2>3, ChooseStep
  <2>4. CASE UNCHANGED vars
    BY <2>4, Zenon DEF vars, RankerInv, FilesCollected, StepsKnown, RegistryTrained,
                       EvaluatedOnUnseenGroups, LearnedChoiceTrusted
  <2> QED
    BY <2>1, <2>2, <2>3, <2>4, Zenon DEF Next
<1> QED
  BY <1>1, RankerInit, PTL DEF Spec

(* However builds, trainings and evaluations overlap, crash or overwrite   *)
(* each other's files and registrations: no model is tested on a group it  *)
(* was fitted on, nor evaluated on one, and an observed model knows only   *)
(* observed rows.                                                          *)
THEOREM UnseenTheorem == Spec => []JudgedOnUnseenGroups
<1>1. RankerInv => JudgedOnUnseenGroups
  <2> SUFFICES ASSUME RankerInv PROVE JudgedOnUnseenGroups
    OBVIOUS
  <2>1. ASSUME NEW a \in Artifacts
        PROVE  /\ a.scope = "observed" => \A p \in a.rows : Observed(p) /\ OutcomeMatches(p)
               /\ a.test # {} /\ a.test # a.rows
               /\ Groups(a.test) \cap Groups(a.rows \ a.test) = {}
    <3>1. Trained(a)
      BY DEF RankerInv, RegistryTrained, Artifacts
    <3>2. a.rows \in Collections /\ a.test \in Holdouts(a.rows)
          /\ Cardinality(Groups(a.rows)) >= 2
      BY <3>1 DEF Trained
    <3>3. /\ a.test # {} /\ a.test # a.rows
          /\ Groups(a.test) \cap Groups(a.rows \ a.test) = {}
      <4> DEFINE S == a.rows
                 T == a.test
      <4> HIDE DEF S, T
      <4>1. S \in Collections /\ T \in Holdouts(S) /\ Cardinality(Groups(S)) >= 2
        BY <3>2 DEF S, T
      <4>2. T # {} /\ T # S /\ Groups(T) \cap Groups(S \ T) = {}
        BY <4>1, HoldoutProper
      <4> QED
        BY <4>2 DEF S, T
    <3> QED
      BY <3>1, <3>3 DEF Trained
  <2>2. HeldOutGroupsUnseen
    BY <2>1 DEF HeldOutGroupsUnseen
  <2> QED
    BY <2>2 DEF RankerInv, JudgedOnUnseenGroups
<1> QED
  BY <1>1, RankerInductive, PTL

(* A candidate chosen by a model is chosen by one that training found      *)
(* eligible, unless the policy asks for no confidence, and less than the   *)
(* policy's share of its features lies outside the rows it was fitted on.  *)
THEOREM LearnedChoiceTheorem == Spec => []LearnedChoiceTrusted
<1>1. RankerInv => LearnedChoiceTrusted
  BY DEF RankerInv
<1> QED
  BY <1>1, RankerInductive, PTL

(* Every file, artifact and process keeps its type; a version's directory  *)
(* holds an artifact of that version.                                      *)
THEOREM RankerTypes == Spec => []TypeOK
<1> DEFINE Filed == \A v \in Versions : registry[v] # NoFile => registry[v].version = v
<1>1. Init => Filed
  BY DEF Init
<1>2. RankerInv /\ Filed /\ [Next]_vars => Filed'
  <2> SUFFICES ASSUME RankerInv, Filed, [Next]_vars PROVE Filed'
    OBVIOUS
  <2>1. CASE UNCHANGED registry
    BY <2>1
  <2>2. ASSUME NEW v \in Versions, NEW d \in Datasets, Train(v, d) PROVE Filed'
    <3>1. PICK fit \in Outcomes[rows[d]] :
            Register(Artifact(v, rows[d], manifest[d].scope, fit[1], fit[2]))
      BY <2>2 DEF Train
    <3> DEFINE a == Artifact(v, rows[d], manifest[d].scope, fit[1], fit[2])
    <3>2. a.version = v
      BY DEF Artifact
    <3> HIDE DEF a
    <3>3. registry' = [registry EXCEPT ![v] = a] /\ DOMAIN registry = Versions
      BY <3>1, <3>2 DEF Register, RankerInv, RegistryTrained, a
    <3> QED
      BY <3>2, <3>3
  <2>3. ASSUME NEW j \in Processes,
               \/ \E d \in Datasets, build \in Builds : Collect(j, d, build)
               \/ \E d \in Datasets : Evaluate(j, d)
               \/ \E v \in Versions : ReadArtifact(j, v)
               \/ WriteTemporary(j) \/ PublishRows(j) \/ PublishManifest(j) \/ Ends(j)
        PROVE  UNCHANGED registry
    BY <2>3 DEF Collect, Evaluate, ReadArtifact, WriteTemporary, PublishRows,
                PublishManifest, Ends
  <2>4. ASSUME NEW mode, NEW v \in Versions, NEW x \in Features, Choose(mode, v, x)
        PROVE  UNCHANGED registry
    BY <2>4 DEF Choose
  <2>5. UNCHANGED vars => UNCHANGED registry
    BY DEF vars
  <2> HIDE DEF Filed
  <2> QED
    BY <2>1, <2>2, <2>3, <2>4, <2>5, Zenon DEF Next
<1>3. RankerInv /\ Filed => TypeOK
  <2> SUFFICES ASSUME RankerInv, Filed PROVE TypeOK
    OBVIOUS
  <2>1. Collections \subseteq SUBSET Plans
    BY DEF Collections, Collected
  <2>2. Manifest \subseteq [rows : SUBSET Plans, scope : Scopes]
    BY <2>1 DEF Manifest
  <2>3. \A j \in Processes : pc[j] = Idle \/ pc[j].at \in {"write", "publish", "evaluate"}
    BY DEF RankerInv, StepsKnown, Writing
  <2>4. /\ temp \in [Datasets -> [rows : {NoFile} \cup SUBSET Plans,
                                  manifest : {NoFile} \cup
                                    [rows : SUBSET Plans, scope : Scopes]]]
        /\ rows \in [Datasets -> {NoFile} \cup SUBSET Plans]
        /\ manifest \in [Datasets -> {NoFile} \cup
                                       [rows : SUBSET Plans, scope : Scopes]]
    <3> DEFINE Ms == [rows : SUBSET Plans, scope : Scopes]
    <3> HIDE DEF Ms
    <3>1. Manifest \subseteq Ms
      BY <2>2 DEF Ms
    <3>2. /\ temp \in [Datasets -> [rows : {NoFile} \cup SUBSET Plans,
                                    manifest : {NoFile} \cup Ms]]
          /\ rows \in [Datasets -> {NoFile} \cup SUBSET Plans]
          /\ manifest \in [Datasets -> {NoFile} \cup Ms]
      BY <2>1, <3>1 DEF RankerInv, FilesCollected
    <3> QED
      BY <3>2 DEF Ms
  <2>5. \A v \in Versions : registry[v] # NoFile => registry[v].version = v
    OBVIOUS
  <2> QED
    BY <2>3, <2>4, <2>5, Zenon DEF TypeOK
<1> HIDE DEF Filed
<1> QED
  BY <1>1, <1>2, <1>3, RankerInductive, PTL DEF Spec

HIDE RankerAssumption DEF RankerAssumption

-----------------------------------------------------------------------------
(* What a plan descends from.                                               *)

\* The plans a plan of a store descends from.
Lineage(s, p) ==
    {q \in DOMAIN s :
       \A S \in SUBSET DOMAIN s :
         (\A x \in S \cup {p} : s[x].parent \in S \cup {0}) => q \in S}

\* The parent of a plan was saved before it.
Ordered(s) == DOMAIN s = 1..Len(s) /\ Len(s) \in Nat /\ \A p \in DOMAIN s : s[p].parent \in 0..p - 1

(* A first plan descends from none.                                        *)
LEMMA LineageOfFirst ==
  ASSUME NEW s, NEW p, s[p].parent = 0
  PROVE  Lineage(s, p) = {}
<1>1. {} \in SUBSET DOMAIN s /\ \A x \in {} \cup {p} : s[x].parent \in {} \cup {0}
  OBVIOUS
<1> QED
  BY <1>1 DEF Lineage

(* A successor descends from its parent and what the parent descends from. *)
LEMMA LineageOfSuccessor ==
  ASSUME NEW s, NEW p, NEW q \in DOMAIN s, s[p].parent = q, q # 0
  PROVE  Lineage(s, p) = {q} \cup Lineage(s, q)
<1>1. ASSUME NEW x \in Lineage(s, q) PROVE x \in Lineage(s, p)
  <2>1. ASSUME NEW S \in SUBSET DOMAIN s, \A y \in S \cup {p} : s[y].parent \in S \cup {0}
        PROVE  x \in S
    BY <1>1, <2>1 DEF Lineage
  <2> QED
    BY <1>1, <2>1 DEF Lineage
<1>2. q \in Lineage(s, p)
  BY DEF Lineage
<1>3. ASSUME NEW x \in Lineage(s, p), x # q PROVE x \in Lineage(s, q)
  <2>1. ASSUME NEW S \in SUBSET DOMAIN s, \A y \in S \cup {q} : s[y].parent \in S \cup {0}
        PROVE  x \in S
    <3> DEFINE T == S \cup {q}
    <3>1. T \in SUBSET DOMAIN s /\ \A y \in T \cup {p} : s[y].parent \in T \cup {0}
      BY <2>1
    <3>2. x \in T
      BY <1>3, <3>1 DEF Lineage
    <3> QED
      BY <1>3, <3>2
  <2> QED
    BY <1>3, <2>1 DEF Lineage
<1> QED
  BY <1>1, <1>2, <1>3

(* Nobody descends from a later plan, nor from itself.                     *)
LEMMA LineageEarlier ==
  ASSUME NEW s, Ordered(s), NEW p \in DOMAIN s
  PROVE  Lineage(s, p) \subseteq 1..p - 1 /\ IsFiniteSet(Lineage(s, p))
<1>1. 1..p - 1 \in SUBSET DOMAIN s
  BY DEF Ordered
<1>2. \A x \in 1..p - 1 \cup {p} : s[x].parent \in 1..p - 1 \cup {0}
  BY DEF Ordered
<1>3. Lineage(s, p) \subseteq 1..p - 1
  BY <1>1, <1>2 DEF Lineage
<1>4. IsFiniteSet(1..p - 1)
  BY FS_Interval DEF Ordered
<1> QED
  BY <1>3, <1>4, FS_Subset

(* So a successor descends from one plan more than its parent.             *)
LEMMA LineageGrows ==
  ASSUME NEW s, Ordered(s), NEW p \in DOMAIN s, s[p].parent # 0
  PROVE  Cardinality(Lineage(s, p)) = Cardinality(Lineage(s, s[p].parent)) + 1
<1> DEFINE q == s[p].parent
<1>1. q \in DOMAIN s /\ q # 0 /\ q \in Nat
  BY DEF Ordered
<1>2. Lineage(s, p) = Lineage(s, q) \cup {q}
  BY <1>1, LineageOfSuccessor
<1>3. IsFiniteSet(Lineage(s, q)) /\ q \notin Lineage(s, q)
  BY <1>1, LineageEarlier
<1> HIDE DEF q
<1> QED
  BY <1>2, <1>3, FS_AddElement DEF q

(* A plan saved later changes nothing for the plans there are.             *)
LEMMA LineageStays ==
  ASSUME NEW s, Ordered(s), NEW t, DOMAIN s \subseteq DOMAIN t,
         \A i \in DOMAIN s : t[i] = s[i],
         NEW p \in DOMAIN s
  PROVE  Lineage(t, p) = Lineage(s, p)
<1>1. ASSUME NEW x \in Lineage(t, p) PROVE x \in Lineage(s, p)
  <2>1. ASSUME NEW S \in SUBSET DOMAIN s, \A y \in S \cup {p} : s[y].parent \in S \cup {0}
        PROVE  x \in S
    <3>1. S \in SUBSET DOMAIN t /\ \A y \in S \cup {p} : t[y].parent \in S \cup {0}
      BY <2>1 DEF Ordered
    <3> QED
      BY <1>1, <3>1 DEF Lineage
  <2>2. x \in DOMAIN s
    <3>1. DOMAIN s \in SUBSET DOMAIN t
          /\ \A y \in DOMAIN s \cup {p} : t[y].parent \in DOMAIN s \cup {0}
      BY DEF Ordered
    <3> QED
      BY <1>1, <3>1 DEF Lineage
  <2> QED
    BY <2>1, <2>2 DEF Lineage
<1>2. ASSUME NEW x \in Lineage(s, p) PROVE x \in Lineage(t, p)
  <2>1. ASSUME NEW S \in SUBSET DOMAIN t, \A y \in S \cup {p} : t[y].parent \in S \cup {0}
        PROVE  x \in S
    <3> DEFINE T == S \cap DOMAIN s
    <3>1. T \in SUBSET DOMAIN s /\ \A y \in T \cup {p} : s[y].parent \in T \cup {0}
      BY <2>1 DEF Ordered
    <3>2. x \in T
      BY <1>2, <3>1 DEF Lineage
    <3> QED
      BY <3>2
  <2>2. x \in DOMAIN t
    BY <1>2 DEF Lineage, Ordered
  <2> QED
    BY <2>1, <2>2 DEF Lineage
<1> QED
  BY <1>1, <1>2

-----------------------------------------------------------------------------
(* Sums over finite functions.                                              *)

(* Among finite sets there is one that includes no other.                  *)
LEMMA LeastSubset ==
  ASSUME NEW S, NEW Q \in SUBSET FiniteSubsetsOf(S), Q # {}
  PROVE  \E A \in Q : \A B \in Q : B \subseteq A => B = A
<1>1. PICK A \in Q : \A B \in Q : <<B, A>> \notin StrictSubsetOrdering(S)
  BY FS_StrictSubsetOrderingWellFounded, WFMin
<1>2. ASSUME NEW B \in Q, B \subseteq A PROVE B = A
  BY <1>1, <1>2 DEF StrictSubsetOrdering, FiniteSubsetsOf
<1> QED
  BY <1>2

\* The sums of the subsets of D, as a fold over them works them out.
Pick(s) == CHOOSE x \in s : TRUE
Rest(s) == s \ {Pick(s)}
Sums(f, D, g) ==
  g = [s \in SUBSET D |-> IF s = {} THEN 0 ELSE f[Pick(s)] + g[Rest(s)]]

(* The sum of a function is the last of its partial sums.                  *)
LEMMA SumIsLast ==
  ASSUME NEW f
  PROVE  SumFunction(f) = (CHOOSE g : Sums(f, DOMAIN f, g))[DOMAIN f]
  BY DEF SumFunction, SumFunctionOnSet, FoldFunctionOnSet, MapThenFoldSet, Sums, Pick, Rest

(* Picking leaves a smaller finite set.                                    *)
LEMMA RestSmaller ==
  ASSUME NEW s, s # {}
  PROVE  Pick(s) \in s /\ Rest(s) \subseteq s /\ Rest(s) # s
         /\ (IsFiniteSet(s) => IsFiniteSet(Rest(s)))
<1>1. Pick(s) \in s
  BY DEF Pick
<1> QED
  BY <1>1, FS_RemoveElement DEF Rest

(* Two such foldings agree where both are defined.                         *)
LEMMA SumsAgree ==
  ASSUME NEW f, NEW D, IsFiniteSet(D), NEW g, Sums(f, D, g),
         NEW E, IsFiniteSet(E), NEW h, Sums(f, E, h)
  PROVE  \A s \in SUBSET (D \cap E) : g[s] = h[s]
<1> DEFINE C == D \cap E
           Q == {s \in SUBSET C : g[s] # h[s]}
<1>1. IsFiniteSet(C) /\ C \subseteq D /\ C \subseteq E
  BY FS_Subset
<1>2. Q \in SUBSET FiniteSubsetsOf(C)
  BY <1>1, FS_Subset DEF FiniteSubsetsOf
<1>3. ASSUME Q # {} PROVE FALSE
  <2> HIDE DEF Q
  <2>1. PICK A \in Q : \A B \in Q : B \subseteq A => B = A
    BY <1>2, <1>3, LeastSubset
  <2>2. A \subseteq C /\ g[A] # h[A]
    BY DEF Q
  <2>3. A \in SUBSET D /\ A \in SUBSET E
    BY <1>1, <2>2
  <2>4. A # {}
    BY <2>2, <2>3 DEF Sums
  <2>5. Rest(A) \subseteq A /\ Rest(A) # A
    BY <2>4, RestSmaller
  <2>6. g[Rest(A)] = h[Rest(A)]
    BY <2>1, <2>2, <2>5 DEF Q
  <2>7. g[A] = f[Pick(A)] + g[Rest(A)] /\ h[A] = f[Pick(A)] + h[Rest(A)]
    BY <2>3, <2>4 DEF Sums
  <2> QED
    BY <2>2, <2>6, <2>7
<1> QED
  BY <1>3

(* The partial sums of a function on a finite set exist.                   *)
LEMMA SumsExist ==
  ASSUME NEW f, NEW D, IsFiniteSet(D)
  PROVE  \E g : Sums(f, D, g)
<1> DEFINE Q == {s \in SUBSET D : ~ \E g : Sums(f, s, g)}
<1>1. Q \in SUBSET FiniteSubsetsOf(D)
  BY FS_Subset DEF FiniteSubsetsOf
<1>2. ASSUME Q # {} PROVE FALSE
  <2> HIDE DEF Q
  <2>1. PICK T \in Q : \A B \in Q : B \subseteq T => B = T
    BY <1>1, <1>2, LeastSubset
  <2>2. T \subseteq D /\ IsFiniteSet(T) /\ ~ \E g : Sums(f, T, g)
    BY FS_Subset DEF Q
  <2> DEFINE G(U) == CHOOSE g : Sums(f, U, g)
             h == [s \in SUBSET T |-> IF s = {} THEN 0 ELSE f[Pick(s)] + G(Rest(s))[Rest(s)]]
  <2>3. ASSUME NEW U \in SUBSET T, U # T PROVE Sums(f, U, G(U)) /\ IsFiniteSet(U)
    <3>1. U \notin Q /\ U \in SUBSET D
      BY <2>1, <2>2, <2>3
    <3>2. \E g : Sums(f, U, g)
      BY <3>1 DEF Q
    <3> QED
      BY <3>1, <3>2, FS_Subset
  <2> HIDE DEF G
  <2>4. ASSUME NEW U \in SUBSET T, U # T PROVE h[U] = G(U)[U]
    <3>1. CASE U = {}
      BY <2>3, <2>4, <3>1 DEF Sums
    <3>2. CASE U # {}
      <4>1. Rest(U) \subseteq U /\ Rest(U) # U
        BY <3>2, RestSmaller
      <4>2. Rest(U) \in SUBSET T /\ Rest(U) # T
        BY <4>1, <2>4
      <4>3. /\ Sums(f, U, G(U)) /\ IsFiniteSet(U)
            /\ Sums(f, Rest(U), G(Rest(U))) /\ IsFiniteSet(Rest(U))
        BY <2>3, <2>4, <4>2
      <4>4. \A s \in SUBSET (U \cap Rest(U)) : G(U)[s] = G(Rest(U))[s]
        BY <4>3, SumsAgree
      <4>5. G(U)[Rest(U)] = G(Rest(U))[Rest(U)]
        BY <4>1, <4>4
      <4>6. G(U)[U] = f[Pick(U)] + G(U)[Rest(U)]
        BY <3>2, <4>3 DEF Sums
      <4> QED
        BY <3>2, <4>5, <4>6
    <3> QED
      BY <3>1, <3>2
  <2>5. ASSUME NEW s \in SUBSET T, s # {} PROVE h[s] = f[Pick(s)] + h[Rest(s)]
    <3>1. Rest(s) \in SUBSET T /\ Rest(s) # T
      BY <2>5, RestSmaller
    <3> QED
      BY <2>4, <2>5, <3>1
  <2>6. h = [s \in SUBSET T |-> IF s = {} THEN 0 ELSE f[Pick(s)] + h[Rest(s)]]
    <3>1. \A s \in SUBSET T : h[s] = IF s = {} THEN 0 ELSE f[Pick(s)] + h[Rest(s)]
      BY <2>5
    <3>2. DOMAIN h = SUBSET T /\ h = [s \in DOMAIN h |-> h[s]]
      OBVIOUS
    <3> HIDE DEF h
    <3> QED
      BY <3>1, <3>2
  <2> HIDE DEF h
  <2>7. Sums(f, T, h)
    BY <2>6 DEF Sums
  <2> QED
    BY <2>2, <2>7
<1>3. D \notin Q
  BY <1>2
<1> QED
  BY <1>3

(* The sum of finitely many naturals is one; of none it is zero, and of    *)
(* one it is that one.                                                     *)
LEMMA SumNat ==
  ASSUME NEW f, IsFiniteSet(DOMAIN f), \A x \in DOMAIN f : f[x] \in Nat
  PROVE  /\ SumFunction(f) \in Nat
         /\ DOMAIN f = {} => SumFunction(f) = 0
         /\ \A x : DOMAIN f = {x} => SumFunction(f) = f[x]
<1> DEFINE D == DOMAIN f
           g == CHOOSE g : Sums(f, D, g)
           Q == {s \in SUBSET D : g[s] \notin Nat}
<1>1. Sums(f, D, g) /\ SumFunction(f) = g[D]
  BY SumsExist, SumIsLast
<1>2. Q \in SUBSET FiniteSubsetsOf(D)
  BY FS_Subset DEF FiniteSubsetsOf
<1> HIDE DEF g
<1>3. ASSUME Q # {} PROVE FALSE
  <2> HIDE DEF Q
  <2>1. PICK A \in Q : \A B \in Q : B \subseteq A => B = A
    BY <1>2, <1>3, LeastSubset
  <2>2. A \in SUBSET D /\ g[A] \notin Nat
    BY DEF Q
  <2>3. A # {}
    BY <1>1, <2>2 DEF Sums
  <2>4. Pick(A) \in A /\ Rest(A) \subseteq A /\ Rest(A) # A
    BY <2>3, RestSmaller
  <2>5. g[Rest(A)] \in Nat
    BY <2>1, <2>2, <2>4 DEF Q
  <2>6. g[A] = f[Pick(A)] + g[Rest(A)]
    BY <1>1, <2>2, <2>3 DEF Sums
  <2> QED
    BY <2>2, <2>4, <2>5, <2>6
<1>4. g[D] \in Nat /\ g[{}] = 0
  BY <1>1, <1>3 DEF Sums
<1>5. ASSUME NEW x, D = {x} PROVE g[D] = f[x]
  <2>1. Pick(D) = x /\ Rest(D) = {}
    BY <1>5 DEF Pick, Rest
  <2>2. g[D] = f[Pick(D)] + g[Rest(D)]
    BY <1>1, <1>5 DEF Sums
  <2> QED
    BY <1>4, <1>5, <2>1, <2>2
<1> QED
  BY <1>1, <1>4, <1>5

-----------------------------------------------------------------------------
(* The order of the ranker.                                                 *)

\* s has the first position that only one of the two has.
First(s, t) == \E x \in s \ t : \A z \in Int : z < x => (z \in s <=> z \in t)

(* The order of splits by their first difference is total and transitive.  *)
LEMMA EarlierIsFirst ==
  ASSUME NEW s \in SUBSET Int, IsFiniteSet(s), NEW t \in SUBSET Int, IsFiniteSet(t)
  PROVE  /\ EarlierSplit(s, t) <=> s = t \/ First(s, t)
         /\ s = t \/ First(s, t) \/ First(t, s)
<1> DEFINE D == (s \ t) \cup (t \ s)
<1>1. CASE s = t
  BY <1>1, Zenon DEF EarlierSplit, First
<1>2. CASE s # t
  <2>1. D \in SUBSET Int /\ D # {} /\ IsFiniteSet(D)
    BY <1>2, FS_Subset, FS_Union
  <2> DEFINE m == Min(D)
  <2>2. m \in D /\ \A y \in D : m <= y
    BY <2>1, Extremes
  <2> HIDE DEF m
  <2>3. m \in Int /\ \A z \in Int : z < m => (z \in s <=> z \in t)
    BY <2>1, <2>2
  <2>4. m \in s => First(s, t)
    BY <2>2, <2>3 DEF First
  <2>5. m \notin s => First(t, s)
    BY <2>2, <2>3 DEF First
  <2>6. First(s, t) => m \in s
    <3> SUFFICES ASSUME First(s, t) PROVE m \in s
      OBVIOUS
    <3>1. PICK x \in s \ t : \A z \in Int : z < x => (z \in s <=> z \in t)
      BY DEF First
    <3>2. m <= x /\ x \in Int
      BY <2>2
    <3>3. CASE m < x
      BY <2>2, <2>3, <3>1, <3>3
    <3>4. CASE m = x
      BY <3>4
    <3> QED
      BY <2>3, <3>2, <3>3, <3>4
  <2>7. EarlierSplit(s, t) <=> m \in s
    BY <1>2 DEF EarlierSplit, m
  <2> QED
    BY <1>2, <2>4, <2>5, <2>6, <2>7
<1> QED
  BY <1>1, <1>2

(* Differing first from one split and that from another.                   *)
LEMMA FirstTransitive ==
  ASSUME NEW s \in SUBSET Int, NEW t \in SUBSET Int, NEW u \in SUBSET Int,
         First(s, t), First(t, u)
  PROVE  First(s, u)
<1>1. PICK x \in s \ t : \A z \in Int : z < x => (z \in s <=> z \in t)
  BY DEF First
<1>2. PICK y \in t \ u : \A z \in Int : z < y => (z \in t <=> z \in u)
  BY DEF First
<1>3. CASE x < y
  <2>1. x \in s \ u /\ \A z \in Int : z < x => (z \in s <=> z \in u)
    BY <1>1, <1>2, <1>3
  <2> QED
    BY <2>1 DEF First
<1>4. CASE y < x
  <2>1. y \in s \ u /\ \A z \in Int : z < y => (z \in s <=> z \in u)
    BY <1>1, <1>2, <1>4
  <2> QED
    BY <2>1 DEF First
<1> QED
  BY <1>3, <1>4

\* Candidates the ranker can compare, and the order it takes them in.
Comparable(c) == c.score \in Int /\ c.split \in SUBSET Int /\ IsFiniteSet(c.split)
Before(c, d) ==
  \/ c.score < d.score
  \/ c.score = d.score /\ EarlierSplit(c.split, d.split)

(* The order of the ranker is total and transitive.                        *)
LEMMA BeforeOrders ==
  ASSUME NEW c, Comparable(c), NEW d, Comparable(d), NEW e, Comparable(e)
  PROVE  /\ Before(c, c)
         /\ Before(c, d) \/ Before(d, c)
         /\ Before(c, d) /\ Before(d, e) => Before(c, e)
<1> USE DEF Comparable
<1>1. EarlierSplit(c.split, c.split)
  BY DEF EarlierSplit
<1>2. EarlierSplit(c.split, d.split) \/ EarlierSplit(d.split, c.split)
  BY EarlierIsFirst
<1>3. ASSUME EarlierSplit(c.split, d.split), EarlierSplit(d.split, e.split)
      PROVE  EarlierSplit(c.split, e.split)
  <2>1. /\ c.split = d.split \/ First(c.split, d.split)
        /\ d.split = e.split \/ First(d.split, e.split)
    BY <1>3, EarlierIsFirst
  <2>2. c.split = e.split \/ First(c.split, e.split)
    BY <2>1, FirstTransitive
  <2> QED
    BY <2>2, EarlierIsFirst
<1>4. c.score \in Int /\ d.score \in Int /\ e.score \in Int
  OBVIOUS
<1> QED
  BY <1>1, <1>2, <1>3, <1>4 DEF Before

(* Of finitely many such candidates the ranker selects a valid one, if     *)
(* there is one.                                                           *)
LEMMA BaselineValid ==
  ASSUME NEW C, IsFiniteSet(C), \A c \in C : Comparable(c)
  PROVE  LET valid == {c \in C : c.valid}
         IN  IF valid = {} THEN Baseline(C) = NoCandidate ELSE Baseline(C) \in valid
<1> DEFINE V == {c \in C : c.valid}
           Below(x) == {y \in V : Before(y, x)}
           Q == {Below(x) : x \in V}
<1>1. CASE V = {}
  BY <1>1 DEF Baseline
<1>2. CASE V # {}
  <2>1. IsFiniteSet(V) /\ \A c \in V : Comparable(c)
    BY FS_Subset
  <2> HIDE DEF V
  <2>2. Q \in SUBSET FiniteSubsetsOf(V) /\ Q # {}
    <3>1. \A A \in SUBSET V : IsFiniteSet(A)
      BY <2>1, FS_Subset
    <3> QED
      BY <1>2, <3>1 DEF FiniteSubsetsOf
  <2>i. \A x \in V : Below(x) \in Q
    OBVIOUS
  <2>j. \A A \in Q : \E x \in V : A = Below(x)
    OBVIOUS
  <2> HIDE DEF Q
  <2>3. PICK A \in Q : \A B \in Q : B \subseteq A => B = A
    BY <2>2, LeastSubset
  <2>k. PICK x \in V : A = Below(x)
    BY <2>j
  <2> HIDE DEF Below
  <2>4. \A y \in V : Below(y) \subseteq Below(x) => Below(y) = Below(x)
    BY <2>3, <2>i, <2>k
  <2> USE DEF Below
  <2>5. ASSUME NEW y \in V, ~ Before(x, y) PROVE FALSE
    <3>1. Before(y, x) /\ Before(x, x)
      BY <2>1, <2>5, BeforeOrders
    <3>2. \A z \in V : Before(z, y) => Before(z, x)
      BY <2>1, <3>1, BeforeOrders
    <3>3. Below(y) \subseteq Below(x)
      BY <3>2, Zenon
    <3>4. x \in Below(x) /\ x \notin Below(y)
      BY <2>5, <3>1
    <3> QED
      BY <2>4, <3>3, <3>4
  <2>6. \E c \in V : \A d \in V : Before(c, d)
    BY <2>5
  <2>7. Baseline(C) = CHOOSE c \in V : \A d \in V : Before(c, d)
    BY <1>2 DEF Baseline, Before, V
  <2>8. Baseline(C) \in V
    BY <2>6, <2>7
  <2> QED
    BY <1>2, <2>8 DEF V
<1> QED
  BY <1>1, <1>2

-----------------------------------------------------------------------------
(* Flattening.                                                              *)

\* The prefixes of a flattened sequence of sequences.
Flattened(ss, m, g) ==
  g = [i \in 1..m |-> IF i = 1 THEN ss[i] ELSE g[i - 1] \o ss[i]]

(* The concatenations of the first sequences exist.                        *)
LEMMA FlattenedExists ==
  ASSUME NEW ss, NEW n \in Nat
  PROVE  \E g : Flattened(ss, n, g)
<1> DEFINE Q == {m \in 0..n : ~ \E g : Flattened(ss, m, g)}
<1>1. ASSUME Q # {} PROVE FALSE
  <2>1. Q \in SUBSET Int /\ IsFiniteSet(Q)
    <3>1. IsFiniteSet(0..n) /\ Q \in SUBSET (0..n) /\ 0..n \in SUBSET Int
      BY FS_Interval
    <3> QED
      BY <3>1, FS_Subset
  <2> DEFINE m == Min(Q)
  <2>2. m \in Q /\ \A y \in Q : m <= y
    BY <1>1, <2>1, Extremes
  <2> HIDE DEF m
  <2>3. m \in 0..n /\ ~ \E g : Flattened(ss, m, g)
    BY <2>2
  <2>4. m # 0
    <3>1. Flattened(ss, 0, <<>>)
      BY DEF Flattened
    <3> QED
      BY <2>3, <3>1
  <2>5. m - 1 \in 0..n /\ m - 1 \notin Q
    BY <2>2, <2>3, <2>4
  <2>6. PICK g : Flattened(ss, m - 1, g)
    BY <2>5
  <2> DEFINE h == [i \in 1..m |-> IF i = m THEN (IF m = 1 THEN ss[m] ELSE g[m - 1] \o ss[m])
                                          ELSE g[i]]
  <2>7. \A i \in 1..m : h[i] = IF i = 1 THEN ss[i] ELSE h[i - 1] \o ss[i]
    <3>1. \A i \in 1..m - 1 : g[i] = IF i = 1 THEN ss[i] ELSE g[i - 1] \o ss[i]
      BY <2>6 DEF Flattened
    <3>2. \A i \in 1..m - 1 : h[i] = g[i]
      BY <2>3
    <3>3. h[m] = IF m = 1 THEN ss[m] ELSE g[m - 1] \o ss[m]
      BY <2>3, <2>4
    <3>4. \A i \in 1..m : i = m \/ (i \in 1..m - 1 /\ (i # 1 => i - 1 \in 1..m - 1))
      BY <2>3
    <3>5. m # 1 => m - 1 \in 1..m - 1
      BY <2>3, <2>4
    <3> HIDE DEF h
    <3> QED
      BY <3>1, <3>2, <3>3, <3>4, <3>5
  <2>8. h = [i \in 1..m |-> h[i]]
    OBVIOUS
  <2> HIDE DEF h
  <2>9. Flattened(ss, m, h)
    BY <2>7, <2>8 DEF Flattened
  <2> QED
    BY <2>3, <2>9
<1> QED
  BY <1>1

(* A flattened sequence of sequences is a sequence of their elements.      *)
LEMMA FlattenTyped ==
  ASSUME NEW S, NEW ss \in Seq(Seq(S))
  PROVE  FlattenSeq(ss) \in Seq(S)
<1> DEFINE n == Len(ss)
           g == CHOOSE g : Flattened(ss, n, g)
           Q == {m \in 1..n : g[m] \notin Seq(S)}
<1>1. FlattenSeq(ss) = IF n = 0 THEN ss ELSE g[n]
  BY DEF FlattenSeq, Flattened
<1>2. n \in Nat /\ Flattened(ss, n, g)
  BY FlattenedExists
<1> HIDE DEF g
<1>3. ASSUME Q # {} PROVE FALSE
  <2>1. Q \in SUBSET Int /\ IsFiniteSet(Q)
    BY FS_Interval, FS_Subset
  <2> DEFINE m == Min(Q)
  <2>2. m \in Q /\ \A y \in Q : m <= y
    BY <1>3, <2>1, Extremes
  <2> HIDE DEF m
  <2>3. m \in 1..n /\ g[m] \notin Seq(S) /\ ss[m] \in Seq(S)
    BY <2>2
  <2>4. g[m] = IF m = 1 THEN ss[m] ELSE g[m - 1] \o ss[m]
    BY <1>2, <2>3 DEF Flattened
  <2>5. m # 1 => m - 1 \in 1..n /\ m - 1 \notin Q
    BY <2>2, <2>3
  <2>6. m # 1 => g[m - 1] \in Seq(S)
    BY <2>5
  <2> QED
    BY <2>3, <2>4, <2>6
<1> QED
  BY <1>1, <1>2, <1>3

-----------------------------------------------------------------------------
(* What is read is typed.                                                   *)

\* The planning requests the agent can be given and can plan.
Plannable == {p \in UNION {Admitted(s) : s \in Submissions} : Processable(p)}

\* What can be relied on in a request that has been processed.
LayersTyped(layers) ==
  /\ IsSequence(layers)
  /\ \A l \in DOMAIN layers :
       {layers[l].params, layers[l].act, layers[l].work, layers[l].compute} \subseteq Nat
DevicesTyped(r) ==
  /\ DOMAIN r.speed = DOMAIN r.memory
  /\ \A d \in DOMAIN r.memory : r.memory[d] \in Nat /\ r.speed[d] \in Nat
LinksTyped(r) ==
  \A pair \in DOMAIN r.link : r.link[pair].latency \in Nat /\ r.link[pair].perByte \in Nat

RequestTyped(r) ==
  /\ r.kind \in {"inference", "training", "federated", "legacy"}
  /\ IsSequence(r.participants) /\ LayersTyped(r.layers)
  /\ DevicesTyped(r) /\ LinksTyped(r)
  /\ r.headroom \in 0..99 /\ r.maxLatency \in Nat \cup {NoLimit} /\ EarlyFeasible(r)
  /\ r.kind = "inference" => r.availability \in 0..100

\* The same of the planning request it is made from.
SourceTyped(p) ==
  /\ IsSequence(p.plan.participants) /\ LayersTyped(Layers(p))
  /\ DevicesRead(p.snapshot.devices) /\ DevicesOk(p.snapshot.devices)
  /\ LinksRead(p.snapshot.links) /\ LinksOk(p.snapshot.links, p.snapshot.devices)
  /\ p.plan.constraints.headroom \in 0..99
  /\ p.plan.constraints.maxLatency \in Nat \cup {NoLimit}
  /\ Kind(p) \in {"inference", "training", "federated", "legacy"}
  /\ Kind(p) = "inference" => p.plan.availability \in 0..100

(* A sequence over some set is one over its elements.                      *)
LEMMA SequenceOf ==
  ASSUME NEW S, NEW s \in Seq(S)
  PROVE  IsSequence(s) /\ DOMAIN s = 1..Len(s) /\ Len(s) \in Nat
<1>1. \A i \in 1..Len(s) : s[i] \in ToSet(s)
  BY DEF ToSet
<1>2. s \in [1..Len(s) -> ToSet(s)]
  BY <1>1
<1>3. s \in Seq(ToSet(s))
  BY <1>2, SeqDef
<1> QED
  BY <1>3 DEF IsSequence

(* Dividing naturals.                                                      *)
LEMMA DivNat ==
  ASSUME NEW a \in Nat, NEW b \in Nat \ {0}
  PROVE  a \div b \in Nat
  OBVIOUS

(* The layers of a profile of whole blocks are whole.                      *)
LEMMA ProfileLayers ==
  ASSUME NEW profile, ProfileRead(profile), ProfileOk(profile)
  PROVE  LayersTyped(FlattenSeq([i \in DOMAIN profile.blocks |-> LayersOf(profile.blocks[i])]))
<1> DEFINE blocks == profile.blocks
           ss == [i \in DOMAIN blocks |-> LayersOf(blocks[i])]
           S == UNION {ToSet(ss[i]) : i \in DOMAIN blocks}
<1>1. blocks \in Seq(ToSet(blocks)) /\ DOMAIN blocks = 1..Len(blocks) /\ Len(blocks) \in Nat
  BY SequenceOf DEF ProfileRead, IsSequence
<1>2. ASSUME NEW i \in DOMAIN blocks
      PROVE  /\ blocks[i].layers \in Seq(ToSet(blocks[i].layers))
             /\ Len(blocks[i].layers) \in Nat \ {0}
             /\ blocks[i].params \in Nat /\ blocks[i].act \in Nat /\ blocks[i].work \in Nat
             /\ DOMAIN blocks[i].layers = 1..Len(blocks[i].layers)
  <2>1. blocks[i].layers \in Seq(ToSet(blocks[i].layers)) /\ blocks[i].layers # <<>>
    BY <1>2 DEF ProfileRead, ProfileOk, BlockOk, IsSequence
  <2>2. blocks[i].params \in Nat /\ blocks[i].act \in Nat /\ blocks[i].work \in Nat
    BY <1>2 DEF ProfileRead, ProfileOk, BlockOk
  <2> QED
    BY <2>1, <2>2, EmptySeq, SequenceOf
<1>3. ASSUME NEW i \in DOMAIN blocks, NEW j \in DOMAIN ss[i]
      PROVE  {ss[i][j].params, ss[i][j].act, ss[i][j].work, ss[i][j].compute} \subseteq Nat
  <2>1. ss[i] = LayersOf(blocks[i]) /\ j \in DOMAIN blocks[i].layers
    BY <1>3 DEF LayersOf
  <2>2. /\ ss[i][j].params = blocks[i].params \div Len(blocks[i].layers)
        /\ ss[i][j].act = blocks[i].act /\ ss[i][j].compute = 1
        /\ ss[i][j].work = blocks[i].work \div Len(blocks[i].layers)
    BY <2>1 DEF LayersOf
  <2>3. /\ blocks[i].params \div Len(blocks[i].layers) \in Nat
        /\ blocks[i].work \div Len(blocks[i].layers) \in Nat
    BY <1>2, DivNat
  <2>4. blocks[i].act \in Nat
    BY <1>2
  <2> HIDE DEF ss
  <2> QED
    BY <2>2, <2>3, <2>4
<1>4. ASSUME NEW i \in DOMAIN blocks PROVE ss[i] \in Seq(S)
  <2>1. ss[i] = LayersOf(blocks[i]) /\ DOMAIN ss[i] = 1..Len(blocks[i].layers)
    BY <1>2, <1>4 DEF LayersOf
  <2>2. \A j \in DOMAIN ss[i] : ss[i][j] \in S
    BY <1>4 DEF ToSet
  <2>3. ss[i] = [j \in 1..Len(blocks[i].layers) |-> ss[i][j]]
    BY <2>1 DEF LayersOf
  <2>4. Len(blocks[i].layers) \in Nat
    BY <1>2, <1>4
  <2> HIDE DEF ss, S
  <2>5. ss[i] \in [1..Len(blocks[i].layers) -> S]
    BY <2>1, <2>2, <2>3
  <2> QED
    BY <2>4, <2>5, SeqDef
<1>5. ss \in Seq(Seq(S))
  <2>1. ss \in [1..Len(blocks) -> Seq(S)]
    BY <1>1, <1>4
  <2> HIDE DEF ss, S
  <2> QED
    BY <1>1, <2>1, SeqDef
<1> DEFINE layers == FlattenSeq(ss)
<1>6. layers \in Seq(S)
  BY <1>5, FlattenTyped
<1>7. \A x \in S : {x.params, x.act, x.work, x.compute} \subseteq Nat
  <2>1. ASSUME NEW x \in S PROVE {x.params, x.act, x.work, x.compute} \subseteq Nat
    <3>1. PICK i \in DOMAIN blocks : x \in ToSet(ss[i])
      BY <2>1
    <3>2. PICK j \in DOMAIN ss[i] : x = ss[i][j]
      BY <3>1 DEF ToSet
    <3> HIDE DEF ss
    <3> QED
      BY <1>3, <3>2
  <2> QED
    BY <2>1
<1> HIDE DEF ss, S
<1>8. IsSequence(layers) /\ \A l \in DOMAIN layers : layers[l] \in S
  BY <1>6, SequenceOf
<1> HIDE DEF layers
<1>9. LayersTyped(layers)
  BY <1>7, <1>8 DEF LayersTyped
<1> QED
  BY <1>9 DEF layers, ss

\* The members of a set of positions before one of them.
Ahead(I, i) == {j \in I : j < i}

(* A finite set of positions has a first, a second, and so on.             *)
LEMMA NthExists ==
  ASSUME NEW I \in SUBSET Int, IsFiniteSet(I), NEW k \in 1..Cardinality(I)
  PROVE  \E i \in I : Cardinality(Ahead(I, i)) = k - 1
<1> DEFINE Q == {i \in I : Cardinality(Ahead(I, i)) >= k - 1}
<1>0. Cardinality(I) \in Nat /\ I # {}
  BY FS_CardinalityType, FS_EmptySet
<1>1. ASSUME NEW i \in I
      PROVE  Ahead(I, i) \in SUBSET I /\ IsFiniteSet(Ahead(I, i))
             /\ Cardinality(Ahead(I, i)) \in Nat
  <2>1. Ahead(I, i) \in SUBSET I
    BY DEF Ahead
  <2> QED
    BY <2>1, FS_Subset, FS_CardinalityType
<1>2. Q # {}
  <2> DEFINE m == Max(I)
  <2>1. m \in I /\ \A y \in I : y <= m
    BY <1>0, Extremes
  <2> HIDE DEF m
  <2>2. Ahead(I, m) = I \ {m}
    <3>1. \A y \in I : y < m <=> y # m
      BY <2>1
    <3> QED
      BY <3>1, Zenon DEF Ahead
  <2>3. Cardinality(Ahead(I, m)) = Cardinality(I) - 1
    BY <2>1, <2>2, FS_RemoveElement
  <2> QED
    BY <1>0, <2>1, <2>3
<1> DEFINE i == Min(Q)
<1>3. i \in Q /\ \A y \in Q : i <= y
  <2>1. Q \in SUBSET Int /\ IsFiniteSet(Q)
    BY FS_Subset
  <2> QED
    BY <1>2, <2>1, Extremes
<1> HIDE DEF i
<1>4. i \in I /\ Cardinality(Ahead(I, i)) >= k - 1 /\ i \in Int
  BY <1>3
<1>5. ASSUME Cardinality(Ahead(I, i)) # k - 1 PROVE FALSE
  <2> DEFINE A == Ahead(I, i)
             m == Max(A)
  <2>0. /\ A \in SUBSET I /\ IsFiniteSet(A) /\ Cardinality(A) \in Nat
        /\ Cardinality(A) > k - 1
    BY <1>0, <1>1, <1>4, <1>5
  <2>1. A # {} /\ A \in SUBSET Int /\ IsFiniteSet(A) /\ Cardinality(A) \in Nat
        /\ Cardinality(A) > k - 1
    <3> HIDE DEF A
    <3>1. A # {}
      BY <1>0, <2>0, FS_EmptySet
    <3> QED
      BY <2>0, <3>1
  <2>2. m \in A /\ \A y \in A : y <= m
    BY <2>1, Extremes
  <2> HIDE DEF m
  <2>3. m \in I /\ m < i /\ m \in Int
    BY <2>1, <2>2 DEF Ahead
  <2>4. Ahead(I, m) = A \ {m}
    <3>1. \A y \in I : y < m <=> y < i /\ y # m
      <4>1. \A y \in I : y < i => y <= m
        BY <2>2 DEF Ahead
      <4>2. \A y \in I : y \in Int
        OBVIOUS
      <4> QED
        BY <1>4, <2>3, <4>1, <4>2
    <3> QED
      BY <3>1, Zenon DEF Ahead
  <2> HIDE DEF A
  <2>5. Cardinality(Ahead(I, m)) = Cardinality(A) - 1
    BY <2>1, <2>2, <2>4, FS_RemoveElement
  <2>6. m \in Q
    BY <1>0, <2>1, <2>3, <2>5
  <2> QED
    BY <1>3, <1>4, <2>3, <2>6
<1> QED
  BY <1>4, <1>5

\* The position of the k-th element that is kept.
Nth(I, k) == CHOOSE i \in I : Cardinality(Ahead(I, i)) = k - 1

(* What is kept of a sequence is a sequence of elements of it, each of a   *)
(* position of its own.                                                    *)
LEMMA KeptTyped ==
  ASSUME NEW s, NEW I \in SUBSET DOMAIN s, DOMAIN s \subseteq Int, IsFiniteSet(I)
  PROVE  /\ IsSequence(Kept(s, I)) /\ Len(Kept(s, I)) = Cardinality(I)
         /\ DOMAIN Kept(s, I) = 1..Cardinality(I)
         /\ \A k \in DOMAIN Kept(s, I) : Nth(I, k) \in I /\ Kept(s, I)[k] = s[Nth(I, k)]
         /\ \A k, m \in DOMAIN Kept(s, I) : Nth(I, k) = Nth(I, m) => k = m
<1>0. Cardinality(I) \in Nat
  BY FS_CardinalityType
<1>1. Kept(s, I) = [k \in 1..Cardinality(I) |-> s[Nth(I, k)]]
  BY DEF Kept, Nth, Ahead
<1>2. ASSUME NEW k \in 1..Cardinality(I)
      PROVE  Nth(I, k) \in I /\ Cardinality(Ahead(I, Nth(I, k))) = k - 1
  BY NthExists DEF Nth
<1> DEFINE t == Kept(s, I)
<1>3. DOMAIN t = 1..Cardinality(I) /\ \A k \in DOMAIN t : t[k] = s[Nth(I, k)]
  BY <1>1
<1>4. t \in [1..Cardinality(I) -> ToSet(t)]
  <2>1. t = [k \in 1..Cardinality(I) |-> t[k]]
    BY <1>1
  <2>2. \A k \in 1..Cardinality(I) : t[k] \in ToSet(t)
    BY <1>3 DEF ToSet
  <2> HIDE DEF t
  <2> QED
    BY <2>1, <2>2
<1> HIDE DEF t
<1>5. t \in Seq(ToSet(t)) /\ Len(t) = Cardinality(I)
  BY <1>0, <1>3, <1>4, SeqDef
<1>6. \A k, m \in 1..Cardinality(I) : Nth(I, k) = Nth(I, m) => k = m
  BY <1>0, <1>2
<1> QED
  BY <1>2, <1>3, <1>5, <1>6 DEF t, IsSequence

(* The positions of a sequence.                                            *)
LEMMA IntervalSize ==
  ASSUME NEW n \in Nat
  PROVE  IsFiniteSet(1..n) /\ Cardinality(1..n) = n
<1>1. 1 \in Int /\ n \in Int
  OBVIOUS
<1>2. IsFiniteSet(1..n) /\ Cardinality(1..n) = IF 1 > n THEN 0 ELSE n - 1 + 1
  BY <1>1, FS_Interval
<1> QED
  BY <1>2

(* Keeping everything changes nothing.                                     *)
LEMMA KeptAll ==
  ASSUME NEW s, IsSequence(s)
  PROVE  Kept(s, DOMAIN s) = s
<1> DEFINE I == DOMAIN s
<1>1. I = 1..Len(s) /\ Len(s) \in Nat /\ s = [k \in I |-> s[k]]
  BY SequenceOf DEF IsSequence
<1>2. IsFiniteSet(I) /\ Cardinality(I) = Len(s)
  <2>1. IsFiniteSet(1..Len(s)) /\ Cardinality(1..Len(s)) = Len(s)
    BY <1>1, IntervalSize
  <2> QED
    BY <1>1, <2>1
<1>3. ASSUME NEW k \in I PROVE Nth(I, k) = k
  <2>1. ASSUME NEW i \in I PROVE Cardinality(Ahead(I, i)) = i - 1
    <3>1. Ahead(I, i) = 1..i - 1
      BY <1>1 DEF Ahead
    <3>2. Cardinality(1..i - 1) = i - 1
      <4>1. i - 1 \in Nat
        BY <1>1
      <4> QED
        BY <4>1, IntervalSize
    <3> QED
      BY <3>1, <3>2
  <2>2. \A i \in I : Cardinality(Ahead(I, i)) = k - 1 <=> i = k
    BY <1>1, <2>1
  <2> QED
    BY <2>2 DEF Nth
<1>4. Kept(s, I) = [k \in 1..Cardinality(I) |-> s[Nth(I, k)]]
  BY DEF Kept, Nth, Ahead
<1>5. Kept(s, I) = [k \in I |-> s[k]]
  BY <1>1, <1>2, <1>3, <1>4
<1> QED
  BY <1>1, <1>5

(* A planning request that has been read and accepted.                     *)
LEMMA AcceptedTyped ==
  ASSUME NEW p, ~p.legacy, PlanningRequestOk(p), PlanRead(p.plan),
         ConstraintsRead(p.plan.constraints), IsSequence(p.plan.participants),
         DevicesRead(p.snapshot.devices), LinksRead(p.snapshot.links),
         ProfileRead(p.snapshot.profile)
  PROVE  SourceTyped(p)
<1>1. SnapshotOk(p.snapshot) /\ EnvelopeOk(p.envelope)
  BY DEF PlanningRequestOk
<1>2. /\ DevicesOk(p.snapshot.devices) /\ ProfileOk(p.snapshot.profile)
      /\ LinksOk(p.snapshot.links, p.snapshot.devices)
  BY <1>1 DEF SnapshotOk
<1>3. LayersTyped(Layers(p))
  BY <1>2, ProfileLayers DEF Layers
<1>4. p.plan.whole /\ ConstraintsOk(p.plan.constraints)
  BY DEF PlanningRequestOk, TrainingPlanOk, InferencePlanOk
<1>5. p.plan.constraints.headroom \in 0..99 /\ p.plan.constraints.maxLatency \in Nat \cup {NoLimit}
  BY <1>4 DEF ConstraintsOk, ConstraintsRead
<1>6. Kind(p) \in {"inference", "training", "federated", "legacy"}
  BY <1>1 DEF Kind, EnvelopeOk
<1>7. Kind(p) = "inference" => p.plan.availability \in 0..100
  <2>1. Kind(p) = "inference" => p.envelope.type = "inference"
    BY DEF Kind
  <2>2. p.envelope.type = "inference" => p.plan.availability <= 100
    BY DEF PlanningRequestOk, InferencePlanOk
  <2>3. p.plan.availability \in Nat
    BY <1>4 DEF PlanRead
  <2> QED
    BY <2>1, <2>2, <2>3
<1> QED
  BY <1>2, <1>3, <1>5, <1>6, <1>7 DEF SourceTyped

(* The request a round plan is adapted to.                                 *)
LEMMA RoundPlanTyped ==
  ASSUME NEW rp, RoundPlanRead(rp), RoundPlanOk(rp)
  PROVE  SourceTyped(Adapt(rp)) /\ Adapt(rp).legacy
<1> DEFINE p == Adapt(rp)
<1>1. /\ p.legacy /\ p.layers = rp.layers /\ p.plan.participants = rp.participants
      /\ p.plan.constraints = rp.constraints /\ p.snapshot.devices = rp.devices
      /\ p.snapshot.links = rp.links
  BY DEF Adapt
<1>2. Layers(p) = rp.layers /\ Kind(p) = "legacy"
  BY <1>1 DEF Layers, Kind
<1>3. LayersTyped(rp.layers)
  BY DEF RoundPlanRead, RoundPlanOk, LayerOk, LayerRead, LayersTyped
<1>4. rp.constraints.headroom \in 0..99 /\ rp.constraints.maxLatency \in Nat \cup {NoLimit}
  <2>1. ConstraintsRead(rp.constraints) /\ ConstraintsOk(rp.constraints)
    BY DEF RoundPlanRead, RoundPlanOk
  <2> QED
    BY <2>1 DEF ConstraintsOk, ConstraintsRead
<1>5. /\ IsSequence(rp.participants) /\ DevicesRead(rp.devices) /\ LinksRead(rp.links)
      /\ DevicesOk(rp.devices) /\ LinksOk(rp.links, rp.devices)
  BY DEF RoundPlanRead, RoundPlanOk
<1> HIDE DEF p
<1>6. SourceTyped(p)
  BY <1>1, <1>2, <1>3, <1>4, <1>5 DEF SourceTyped
<1> QED
  BY <1>1, <1>6 DEF p

(* The devices and links resolved from the context are whole ones.         *)
LEMMA ResolvedRead ==
  ASSUME NEW f
  PROVE  DevicesRead(ResolvedDevices(f)) /\ LinksRead(ResolvedLinks(f))
<1>1. ASSUME NEW s, IsSequence(s), NEW I \in SUBSET DOMAIN s
      PROVE  \A k \in DOMAIN Kept(s, I) : \E i \in DOMAIN s : Kept(s, I)[k] = s[i]
  <2>1. DOMAIN s = 1..Len(s) /\ Len(s) \in Nat
    BY <1>1, SequenceOf DEF IsSequence
  <2>2. IsFiniteSet(I) /\ DOMAIN s \subseteq Int
    BY <1>1, <2>1, IntervalSize, FS_Subset
  <2> QED
    BY <1>1, <2>2, KeptTyped
<1>2. DevicesRead(ResolvedDevices(f))
  <2> DEFINE all == Context.devices
             I == {i \in DOMAIN all : all[i].id \in ToSet(ByPriority(f))}
  <2>1. ResolvedDevices(f) = Kept(all, I) /\ I \in SUBSET DOMAIN all
    BY DEF ResolvedDevices
  <2>2. IsSequence(all) /\ DevicesRead(all)
    BY ContextAssumption DEF ContextAssumption
  <2> HIDE DEF I, all
  <2> QED
    BY <1>1, <2>1, <2>2 DEF DevicesRead
<1>3. LinksRead(ResolvedLinks(f))
  <2> DEFINE all == Context.links
             I == {i \in DOMAIN all : {all[i].from, all[i].to} \subseteq ToSet(ByPriority(f))}
  <2>1. ResolvedLinks(f) = Kept(all, I) /\ I \in SUBSET DOMAIN all
    BY DEF ResolvedLinks
  <2>2. IsSequence(all) /\ LinksRead(all)
    BY ContextAssumption DEF ContextAssumption
  <2> HIDE DEF I, all
  <2> QED
    BY <1>1, <2>1, <2>2 DEF LinksRead
<1> QED
  BY <1>2, <1>3

(* The request a coordination plan is completed to.                        *)
LEMMA CoordinationTyped ==
  ASSUME NEW f, CoordinationRead(f), CoordinationPlanOk(f), Enriched(f),
         PlanningRequestOk(AdaptCoordination(f))
  PROVE  SourceTyped(AdaptCoordination(f))
<1> DEFINE p == AdaptCoordination(f)
           model == CHOOSE m \in ModelContext(f) : TRUE
<1>1. model \in Context.models
  <2>1. model \in ModelContext(f)
    BY DEF Enriched
  <2>2. ModelContext(f) \subseteq Context.models
    BY Zenon DEF ModelContext
  <2> QED
    BY <2>1, <2>2
<1>2. /\ ~p.legacy /\ p.plan.participants = ByPriority(f)
      /\ p.plan.constraints = AdaptedConstraints(f)
      /\ p.plan.availability = f.availability
      /\ p.snapshot.devices = ResolvedDevices(f) /\ p.snapshot.links = ResolvedLinks(f)
      /\ p.snapshot.profile = model.profile
  BY DEF AdaptCoordination
<1>3. PlanRead(p.plan)
  BY <1>2 DEF PlanRead, CoordinationRead, CoordinationPlanOk
<1>4. ConstraintsRead(p.plan.constraints)
  BY <1>2 DEF ConstraintsRead, AdaptedConstraints, CoordinationRead, CoordinationPlanOk
<1>5. IsSequence(ByPriority(f))
  <2>1. DOMAIN f.participants = 1..Len(f.participants) /\ Len(f.participants) \in Nat
    BY SequenceOf DEF CoordinationRead, IsSequence
  <2> DEFINE s == ByPriority(f)
             n == Len(f.participants)
  <2>2. DOMAIN s = 1..n /\ s = [k \in 1..n |-> s[k]]
    BY <2>1 DEF ByPriority
  <2> HIDE DEF s, n
  <2>3. s \in [1..n -> ToSet(s)]
    BY <2>2 DEF ToSet
  <2> QED
    BY <2>1, <2>3, SeqDef DEF IsSequence, n, s
<1>6. ProfileRead(p.snapshot.profile)
  BY <1>1, <1>2, ContextAssumption DEF ContextAssumption
<1> HIDE DEF p, model
<1>7. PlanningRequestOk(p)
  BY DEF p
<1>8. SourceTyped(p)
  BY <1>2, <1>3, <1>4, <1>5, <1>6, <1>7, ResolvedRead, AcceptedTyped
<1> QED
  BY <1>8 DEF p

(* So whatever the agent can plan has been read as numbers and sequences.  *)
LEMMA PlannableTyped ==
  ASSUME NEW p \in Plannable
  PROVE  SourceTyped(p) /\ EarlyFeasible(Normalize(p))
<1>1. PICK s \in Submissions : p \in Admitted(s)
  BY DEF Plannable
<1>2. Processable(p)
  BY DEF Plannable
<1>3. CASE s.form = "request"
  <2>1. p = s.body
    BY <1>1, <1>3 DEF Admitted
  <2>2. RequestRead(p)
    BY <1>3, <2>1, SubmissionAssumption DEF SubmissionAssumption
  <2>3. ~p.legacy /\ PlanningRequestOk(p)
    BY <1>2, <2>2 DEF RequestRead, Processable
  <2> QED
    BY <1>2, <2>2, <2>3, AcceptedTyped DEF RequestRead, Processable
<1>4. CASE s.form = "round_plan"
  <2>1. p = Adapt(s.body) /\ RoundPlanOk(s.body)
    BY <1>1, <1>4 DEF Admitted
  <2>2. RoundPlanRead(s.body)
    BY <1>4, SubmissionAssumption DEF SubmissionAssumption
  <2> QED
    BY <1>2, <2>1, <2>2, RoundPlanTyped DEF Processable
<1>5. CASE s.form = "coordination"
  <2>1. p = AdaptCoordination(s.body) /\ CoordinationPlanOk(s.body) /\ Enriched(s.body)
    BY <1>1, <1>5 DEF Admitted
  <2>2. CoordinationRead(s.body)
    BY <1>5, SubmissionAssumption DEF SubmissionAssumption
  <2>3. ~p.legacy
    BY <2>1 DEF AdaptCoordination
  <2>4. PlanningRequestOk(p)
    BY <1>2, <2>3 DEF Processable
  <2> QED
    BY <1>2, <2>1, <2>2, <2>4, CoordinationTyped DEF Processable
<1> QED
  BY <1>1, <1>3, <1>4, <1>5, SubmissionAssumption DEF SubmissionAssumption

(* The request the agent plans is typed.                                   *)
LEMMA NormalizeTyped ==
  ASSUME NEW p \in Plannable
  PROVE  RequestTyped(Normalize(p))
<1> DEFINE r == Normalize(p)
           devices == p.snapshot.devices
           links == p.snapshot.links
           ids == ToSet(Field(devices, "id"))
           device(d) == CHOOSE x \in ToSet(devices) : x.id = d
           link(pair) == CHOOSE x \in ToSet(links) : <<x.from, x.to>> = pair
<1>1. SourceTyped(p) /\ EarlyFeasible(r)
  BY PlannableTyped
<1>2. /\ r.kind = Kind(p) /\ r.participants = p.plan.participants /\ r.layers = Layers(p)
      /\ r.headroom = p.plan.constraints.headroom
      /\ r.maxLatency = p.plan.constraints.maxLatency /\ r.availability = p.plan.availability
      /\ r.memory = [d \in ids |-> device(d).available]
      /\ r.speed = [d \in ids |-> device(d).speed]
      /\ r.link = [pair \in ToSet(Pairs(links)) |->
                     [latency |-> link(pair).latency, perByte |-> link(pair).perByte]]
  BY DEF Normalize
<1>3. DevicesTyped(r)
  <2>1. ASSUME NEW d \in ids PROVE device(d).available \in Nat /\ device(d).speed \in Nat
    <3>1. PICK i \in DOMAIN devices : devices[i].id = d
      BY <2>1 DEF ToSet, Field
    <3>2. devices[i] \in ToSet(devices)
      BY DEF ToSet
    <3>3. device(d) \in ToSet(devices)
      BY <3>1, <3>2
    <3>4. PICK j \in DOMAIN devices : device(d) = devices[j]
      BY <3>3 DEF ToSet
    <3>5. DeviceRead(devices[j]) /\ DeviceOk(devices[j])
      BY <1>1 DEF SourceTyped, DevicesRead, DevicesOk
    <3> HIDE DEF device
    <3> QED
      BY <3>4, <3>5 DEF DeviceRead, DeviceOk
  <2> HIDE DEF r, device, ids
  <2> QED
    BY <1>2, <2>1 DEF DevicesTyped
<1>4. LinksTyped(r)
  <2>1. ASSUME NEW pair \in ToSet(Pairs(links))
        PROVE  link(pair).latency \in Nat /\ link(pair).perByte \in Nat
    <3>1. PICK i \in DOMAIN links : <<links[i].from, links[i].to>> = pair
      BY <2>1 DEF ToSet, Pairs
    <3>2. links[i] \in ToSet(links)
      BY DEF ToSet
    <3>3. link(pair) \in ToSet(links)
      BY <3>1, <3>2
    <3>4. PICK j \in DOMAIN links : link(pair) = links[j]
      BY <3>3 DEF ToSet
    <3>5. LinkRead(links[j]) /\ LinkOk(links[j])
      BY <1>1 DEF SourceTyped, LinksRead, LinksOk
    <3> HIDE DEF link
    <3> QED
      BY <3>4, <3>5 DEF LinkRead, LinkOk
  <2> HIDE DEF r, link
  <2> QED
    BY <1>2, <2>1 DEF LinksTyped
<1> HIDE DEF r
<1>5. RequestTyped(r)
  BY <1>1, <1>2, <1>3, <1>4 DEF SourceTyped, RequestTyped
<1> QED
  BY <1>5 DEF r

-----------------------------------------------------------------------------
(* Partitions.                                                              *)

(* The greatest and the least of finitely many naturals.                   *)
LEMMA ExtremesNat ==
  ASSUME NEW S \in SUBSET Nat, IsFiniteSet(S), S # {}
  PROVE  Max(S) \in S /\ Min(S) \in S /\ Max(S) \in Nat /\ Min(S) \in Nat
         /\ Min(S) <= Max(S)
<1>1. S \in SUBSET Int
  OBVIOUS
<1>2. /\ Min(S) \in S /\ \A y \in S : Min(S) <= y
      /\ Max(S) \in S /\ \A y \in S : y <= Max(S)
  BY <1>1, Extremes
<1> QED
  BY <1>2

(* The greater and the lesser of two numbers.                              *)
LEMMA PairExtremes ==
  ASSUME NEW x \in Nat, NEW y \in Nat
  PROVE  /\ Max({x, y}) \in {x, y} /\ x <= Max({x, y})
         /\ Min({x, y}) \in {x, y}
<1> DEFINE S == {x, y}
<1>1. S \in SUBSET Int /\ S # {} /\ IsFiniteSet(S) /\ x \in S
  <2>1. IsFiniteSet({x} \cup {y})
    BY FS_Singleton, FS_Union
  <2>2. S = {x} \cup {y}
    OBVIOUS
  <2> QED
    BY <2>1, <2>2
<1> HIDE DEF S
<1>2. Max(S) \in S /\ x <= Max(S) /\ Min(S) \in S
  BY <1>1, Extremes
<1> QED
  BY <1>2 DEF S

(* Scaled to thousandths of a reference, a natural is one.                 *)
LEMMA PerMilleNat ==
  ASSUME NEW x \in Nat, NEW ref \in Nat
  PROVE  PerMille(x, ref) \in Nat
<1> DEFINE m == Max({1, ref})
           q == (1000 * x) \div m
<1>1. m \in Nat \ {0}
  BY PairExtremes
<1> HIDE DEF m
<1>2. q \in Nat
  BY <1>1, DivNat
<1> HIDE DEF q
<1>3. Min({1000, q}) \in Nat
  BY <1>2, PairExtremes
<1> QED
  BY <1>3 DEF PerMille, q, m

(* The layers of a request are finitely many, and so are those of a slice. *)
LEMMA LayersFinite ==
  ASSUME NEW r, LayersTyped(r.layers)
  PROVE  /\ DOMAIN r.layers = 1..Len(r.layers) /\ Len(r.layers) \in Nat
         /\ IsFiniteSet(DOMAIN r.layers)
<1>1. DOMAIN r.layers = 1..Len(r.layers) /\ Len(r.layers) \in Nat
  BY SequenceOf DEF LayersTyped, IsSequence
<1> QED
  BY <1>1, IntervalSize

(* The memory and the time of a partition are numbers.                     *)
LEMMA PartitionTyped ==
  ASSUME NEW r, RequestTyped(r), NEW d \in DOMAIN r.memory, NEW slice \in SUBSET DOMAIN r.layers
  PROVE  MemoryDemand(r, slice) \in Nat /\ Partition(r, d, slice).time \in Nat
<1>1. LayersTyped(r.layers) /\ r.speed[d] \in Nat
  BY DEF RequestTyped, DevicesTyped
<1>2. IsFiniteSet(slice)
  BY <1>1, LayersFinite, FS_Subset
<1>3. \A l \in slice : /\ r.layers[l].params \in Nat /\ r.layers[l].act \in Nat
                       /\ r.layers[l].work \in Nat /\ r.layers[l].compute \in Nat
  BY <1>1 DEF LayersTyped
<1> DEFINE f == [l \in slice |-> r.layers[l].params + r.layers[l].work]
           g == [l \in slice |-> r.layers[l].compute]
           a == [l \in slice |-> r.layers[l].act]
           A == {a[l] : l \in slice}
<1>4. SumFunction(f) \in Nat
  <2>1. DOMAIN f = slice /\ \A l \in slice : f[l] \in Nat
    BY <1>3
  <2> HIDE DEF f
  <2> QED
    BY <1>2, <2>1, SumNat
<1>5. SumFunction(g) \in Nat
  <2>1. DOMAIN g = slice /\ \A l \in slice : g[l] \in Nat
    BY <1>3
  <2> HIDE DEF g
  <2> QED
    BY <1>2, <2>1, SumNat
<1>6. Max({0} \cup A) \in Nat
  <2>1. slice \subseteq DOMAIN a
    OBVIOUS
  <2>2. A \in SUBSET Nat
    BY <1>3
  <2>3. IsFiniteSet(A)
    <3> HIDE DEF a
    <3> QED
      BY <1>2, <2>1, FiniteImage
  <2> HIDE DEF A
  <2>4. IsFiniteSet({0} \cup A) /\ {0} \cup A \in SUBSET Nat /\ {0} \cup A # {}
    <3>1. {0} \cup A = A \cup {0}
      OBVIOUS
    <3> QED
      BY <2>2, <2>3, <3>1, FS_AddElement
  <2> QED
    BY <2>4, ExtremesNat
<1>7. {r.layers[l].act : l \in slice} = A
  OBVIOUS
<1>8. MemoryDemand(r, slice) = SumFunction(f) + Max({0} \cup A)
  BY <1>7 DEF MemoryDemand
<1>9. Partition(r, d, slice).time = r.speed[d] * SumFunction(g)
  BY DEF Partition
<1> HIDE DEF f, g, A
<1> QED
  BY <1>1, <1>4, <1>5, <1>6, <1>8, <1>9

(* The slices between the boundaries of a split are all the layers, in     *)
(* order, and none of them is empty.                                       *)
LEMMA SlicesCover ==
  ASSUME NEW r, LayersTyped(r.layers), r.layers # <<>>, NEW n \in Nat \ {0},
         NEW split \in SUBSET (1..Len(r.layers) - 1), Cardinality(split) = n - 1
  PROVE  /\ \A i \in 1..n : Slice(r, split, i) # {}
         /\ \A l \in DOMAIN r.layers : \E i \in 1..n : l \in Slice(r, split, i)
         /\ \A i, j \in 1..n : i < j =>
              \A k \in Slice(r, split, i), l \in Slice(r, split, j) : k < l
<1> DEFINE m == Len(r.layers)
<1>1. DOMAIN r.layers = 1..m /\ m \in Nat /\ m # 0
  BY LayersFinite, EmptySeq DEF LayersTyped, IsSequence
<1> HIDE DEF m
<1>2. \A i : Slice(r, split, i) = {l \in 1..m : Cardinality(Ahead(split, l)) = i - 1}
  BY <1>1 DEF Slice, Ahead
<1>3. split \in SUBSET (1..m - 1) /\ split \in SUBSET Int /\ IsFiniteSet(split)
  <2>1. m - 1 \in Nat
    BY <1>1
  <2>2. IsFiniteSet(1..m - 1)
    BY <2>1, IntervalSize
  <2>3. split \in SUBSET (1..m - 1)
    BY DEF m
  <2>4. 1..m - 1 \in SUBSET Int
    OBVIOUS
  <2> QED
    BY <2>2, <2>3, <2>4, FS_Subset
<1>4. ASSUME NEW l \in Int
      PROVE  /\ Ahead(split, l) \in SUBSET split /\ IsFiniteSet(Ahead(split, l))
             /\ Cardinality(Ahead(split, l)) \in 0..n - 1
  <2>1. Ahead(split, l) \in SUBSET split
    BY DEF Ahead
  <2>2. /\ IsFiniteSet(Ahead(split, l)) /\ Cardinality(Ahead(split, l)) <= n - 1
        /\ Cardinality(Ahead(split, l)) \in Nat
    BY <1>3, <2>1, FS_Subset, FS_CardinalityType
  <2> QED
    BY <2>1, <2>2
<1>5. ASSUME NEW i \in 1..n PROVE Slice(r, split, i) # {}
  <2>1. CASE i = n
    <3>1. Ahead(split, m) = split
      <4>1. \A b \in split : b < m
        BY <1>1, <1>3
      <4> QED
        BY <4>1, Zenon DEF Ahead
    <3>2. m \in 1..m /\ Cardinality(Ahead(split, m)) = i - 1
      BY <1>1, <2>1, <3>1
    <3>3. m \in Slice(r, split, i)
      BY <1>2, <3>2
    <3> QED
      BY <3>3
  <2>2. CASE i # n
    <3>1. PICK b \in split : Cardinality(Ahead(split, b)) = i - 1
      <4>1. i \in 1..Cardinality(split)
        BY <2>2
      <4> QED
        BY <1>3, <4>1, NthExists
    <3>2. b \in 1..m
      BY <1>1, <1>3
    <3> QED
      BY <1>2, <3>1, <3>2
  <2> QED
    BY <2>1, <2>2
<1>6. ASSUME NEW l \in DOMAIN r.layers PROVE \E i \in 1..n : l \in Slice(r, split, i)
  <2> DEFINE c == Cardinality(Ahead(split, l))
  <2>1. l \in 1..m /\ c \in 0..n - 1
    BY <1>1, <1>4
  <2> HIDE DEF c
  <2>2. c + 1 \in 1..n /\ c = (c + 1) - 1
    BY <2>1
  <2>3. l \in Slice(r, split, c + 1)
    BY <1>2, <2>1, <2>2 DEF c
  <2> QED
    BY <2>2, <2>3
<1>7. ASSUME NEW i \in 1..n, NEW j \in 1..n, i < j,
             NEW k \in Slice(r, split, i), NEW l \in Slice(r, split, j)
      PROVE  k < l
  <2>1. /\ k \in Int /\ l \in Int /\ Cardinality(Ahead(split, k)) = i - 1
        /\ Cardinality(Ahead(split, l)) = j - 1
    BY <1>1, <1>2
  <2>2. ASSUME l <= k PROVE FALSE
    <3>1. Ahead(split, l) \in SUBSET Ahead(split, k)
      <4>1. \A b \in split : b < l => b < k
        BY <1>3, <2>1, <2>2
      <4> QED
        BY <4>1, Zenon DEF Ahead
    <3>2. Cardinality(Ahead(split, l)) <= Cardinality(Ahead(split, k))
      BY <1>4, <2>1, <3>1, FS_Subset
    <3> QED
      BY <1>7, <2>1, <3>2
  <2> QED
    BY <2>1, <2>2
<1> QED
  BY <1>5, <1>6, <1>7

\* A request, the participants left of it and a split of its layers for them.
Placed(r, people, split) ==
  /\ RequestTyped(r)
  /\ IsSequence(people) /\ Len(people) >= 2 /\ ToSet(people) \subseteq ToSet(r.participants)
  /\ IF r.kind = "federated"
       THEN split = {}
       ELSE split \in SUBSET (1..Len(r.layers) - 1) /\ Cardinality(split) = Len(people) - 1

\* What the partitions of a candidate have to be for the validator.
PartsTyped(r, parts) ==
  /\ DOMAIN parts = 1..Len(parts) /\ Len(parts) \in Nat /\ Len(parts) >= 2
  /\ \A i \in DOMAIN parts :
       /\ parts[i].device \in DOMAIN r.memory /\ parts[i].device \in ToSet(r.participants)
       /\ parts[i].layers \in SUBSET DOMAIN r.layers /\ parts[i].layers # {}
       /\ parts[i].memory = MemoryDemand(r, parts[i].layers)
       /\ parts[i].memory \in Nat /\ parts[i].time \in Nat

(* The partitions of a placement.                                          *)
LEMMA PartsOfPlacement ==
  ASSUME NEW r, NEW people, NEW split, Placed(r, people, split)
  PROVE  LET parts == Partitions(r, people, split)
         IN  /\ PartsTyped(r, parts) /\ Len(parts) = Len(people)
             /\ \A i \in DOMAIN parts :
                  /\ parts[i].device = people[i]
                  /\ parts[i].layers = IF r.kind = "federated" THEN DOMAIN r.layers
                                                               ELSE Slice(r, split, i)
<1> DEFINE parts == Partitions(r, people, split)
           n == Len(people)
           slice(i) == IF r.kind = "federated" THEN DOMAIN r.layers ELSE Slice(r, split, i)
<1>1. DOMAIN people = 1..n /\ n \in Nat /\ n >= 2
  BY SequenceOf DEF Placed, IsSequence
<1>2. parts = [i \in 1..n |-> Partition(r, people[i], slice(i))]
  BY <1>1 DEF Partitions, Replicas, SplitPartitions
<1>3. /\ RequestTyped(r) /\ LayersTyped(r.layers) /\ r.layers # <<>>
      /\ ToSet(r.participants) \subseteq DOMAIN r.memory
  BY DEF Placed, RequestTyped, EarlyFeasible
<1>4. ASSUME NEW i \in 1..n
      PROVE  people[i] \in DOMAIN r.memory /\ people[i] \in ToSet(r.participants)
  <2>1. people[i] \in ToSet(people)
    BY <1>1 DEF ToSet
  <2> QED
    BY <1>3, <2>1 DEF Placed
<1>5. ASSUME NEW i \in 1..n
      PROVE  slice(i) \in SUBSET DOMAIN r.layers /\ slice(i) # {}
  <2>1. CASE r.kind = "federated"
    <3>1. DOMAIN r.layers # {}
      BY <1>3, LayersFinite, EmptySeq DEF LayersTyped, IsSequence
    <3> QED
      BY <2>1, <3>1
  <2>2. CASE r.kind # "federated"
    <3>1. split \in SUBSET (1..Len(r.layers) - 1) /\ Cardinality(split) = n - 1
      BY <2>2 DEF Placed
    <3>2. n \in Nat \ {0}
      BY <1>1
    <3> HIDE DEF n
    <3>3. Slice(r, split, i) # {}
      BY <1>3, <3>1, <3>2, SlicesCover
    <3> QED
      BY <2>2, <3>3 DEF Slice
  <2> QED
    BY <2>1, <2>2
<1> HIDE DEF slice, n, parts
<1>6. ASSUME NEW i \in 1..n
      PROVE  /\ parts[i].device = people[i] /\ parts[i].layers = slice(i)
             /\ parts[i].memory = MemoryDemand(r, slice(i))
             /\ parts[i].memory \in Nat /\ parts[i].time \in Nat
  <2>1. parts[i] = Partition(r, people[i], slice(i))
    BY <1>2
  <2>2. MemoryDemand(r, slice(i)) \in Nat /\ Partition(r, people[i], slice(i)).time \in Nat
    BY <1>3, <1>4, <1>5, PartitionTyped
  <2>3. /\ Partition(r, people[i], slice(i)).device = people[i]
        /\ Partition(r, people[i], slice(i)).layers = slice(i)
        /\ Partition(r, people[i], slice(i)).memory = MemoryDemand(r, slice(i))
    BY DEF Partition
  <2> QED
    BY <2>1, <2>2, <2>3
<1>7. DOMAIN parts = 1..n /\ Len(parts) = n
  BY <1>1, <1>2
<1>8. PartsTyped(r, parts)
  BY <1>1, <1>4, <1>5, <1>6, <1>7 DEF PartsTyped
<1> QED
  BY <1>6, <1>7, <1>8 DEF parts, n, slice

(* The pairs of partitions that exchange data.                             *)
LEMMA CrossingFinite ==
  ASSUME NEW r, NEW parts, PartsTyped(r, parts), NEW lim
  PROVE  /\ IsFiniteSet(Usable(r, parts, lim))
         /\ Usable(r, parts, lim) \subseteq Crossing(r, parts)
         /\ \A c \in Crossing(r, parts) : c[1] \in DOMAIN parts /\ c[2] \in DOMAIN parts
<1> DEFINE n == Len(parts)
           f == [i \in 1..n |-> <<i, i + 1>>]
           g == [i \in 1..n |-> <<i, 1>>]
<1>1. DOMAIN parts = 1..n /\ n \in Nat /\ n >= 2
  BY DEF PartsTyped
<1>2. IsFiniteSet(Chained(parts)) /\ \A c \in Chained(parts) : c[1] \in 1..n /\ c[2] \in 1..n
  <2>1. Chained(parts) = {f[i] : i \in 1..n - 1}
    <3>1. \A i \in 1..n - 1 : f[i] = <<i, i + 1>>
      BY <1>1
    <3> HIDE DEF f
    <3> QED
      BY <3>1 DEF Chained
  <2>2. n - 1 \in Nat /\ 1..n - 1 \subseteq DOMAIN f
    BY <1>1
  <2>3. IsFiniteSet({f[i] : i \in 1..n - 1})
    <3>1. IsFiniteSet(1..n - 1)
      BY <2>2, IntervalSize
    <3> HIDE DEF f
    <3> QED
      BY <2>2, <3>1, FiniteImage
  <2>4. \A c \in Chained(parts) : c[1] \in 1..n /\ c[2] \in 1..n
    BY <1>1 DEF Chained
  <2> QED
    BY <2>1, <2>3, <2>4
<1>3. IsFiniteSet(ToAggregator(parts))
      /\ \A c \in ToAggregator(parts) : c[1] \in 1..n /\ c[2] \in 1..n
  <2>1. ToAggregator(parts) = {g[i] : i \in 2..n}
    <3>1. \A i \in 2..n : g[i] = <<i, 1>>
      BY <1>1
    <3> HIDE DEF g
    <3> QED
      BY <3>1 DEF ToAggregator
  <2>2. 2..n \subseteq 1..n /\ 1..n = DOMAIN g
    BY <1>1
  <2>3. IsFiniteSet({g[i] : i \in 2..n})
    <3>1. IsFiniteSet(2..n)
      BY <1>1, <2>2, IntervalSize, FS_Subset
    <3> HIDE DEF g
    <3> QED
      BY <2>2, <3>1, FiniteImage
  <2>4. \A c \in ToAggregator(parts) : c[1] \in 1..n /\ c[2] \in 1..n
    BY <1>1 DEF ToAggregator
  <2> QED
    BY <2>1, <2>3, <2>4
<1>4. Usable(r, parts, lim) \subseteq Crossing(r, parts)
  BY Zenon DEF Usable
<1> QED
  BY <1>1, <1>2, <1>3, <1>4, FS_Subset DEF Crossing

-----------------------------------------------------------------------------
(* Edges.                                                                   *)

EdgesTyped(edges) ==
  IsFiniteSet(edges) /\ \A e \in edges : e.bytes \in Nat /\ e.time \in Nat

(* An edge over a link of the request.                                     *)
LEMMA EdgeTyped ==
  ASSUME NEW r, LinksTyped(r), NEW from, NEW to, NEW pair, NEW bytes \in Nat, NEW type
  PROVE  LET e == Edge(r, from, to, pair, bytes, type)
         IN  /\ e.bytes \in Nat /\ e.time \in Nat
             /\ e.from = from /\ e.to = to /\ e.type = type
<1> DEFINE e == Edge(r, from, to, pair, bytes, type)
<1>1. /\ e.bytes = bytes /\ e.from = from /\ e.to = to /\ e.type = type
      /\ e.time = IF pair \in DOMAIN r.link
                    THEN r.link[pair].latency + bytes * r.link[pair].perByte ELSE 0
  BY DEF Edge
<1>2. pair \in DOMAIN r.link => r.link[pair].latency \in Nat /\ r.link[pair].perByte \in Nat
  BY DEF LinksTyped
<1> HIDE DEF e
<1>3. e.time \in Nat
  BY <1>1, <1>2
<1> QED
  BY <1>1, <1>3 DEF e

(* What a partition sends on and what a replica sends in.                  *)
LEMMA BytesTyped ==
  ASSUME NEW r, RequestTyped(r), NEW parts, PartsTyped(r, parts)
  PROVE  /\ ModelBytes(r) \in Nat
         /\ \A i \in DOMAIN parts : BoundaryBytes(r, parts, i) \in Nat
<1>1. LayersTyped(r.layers)
  BY DEF RequestTyped
<1>2. /\ DOMAIN r.layers = 1..Len(r.layers) /\ Len(r.layers) \in Nat
      /\ IsFiniteSet(DOMAIN r.layers)
  BY <1>1, LayersFinite
<1>3. \A l \in DOMAIN r.layers : r.layers[l].params \in Nat /\ r.layers[l].act \in Nat
  BY <1>1 DEF LayersTyped
<1>4. ModelBytes(r) \in Nat
  <2> DEFINE f == [l \in DOMAIN r.layers |-> r.layers[l].params]
  <2>1. DOMAIN f = DOMAIN r.layers /\ \A l \in DOMAIN r.layers : f[l] \in Nat
    BY <1>3
  <2>2. ModelBytes(r) = SumFunction(f)
    BY DEF ModelBytes
  <2> HIDE DEF f
  <2> QED
    BY <1>2, <2>1, <2>2, SumNat
<1>5. ASSUME NEW i \in DOMAIN parts PROVE BoundaryBytes(r, parts, i) \in Nat
  <2>1. parts[i].layers \in SUBSET DOMAIN r.layers /\ parts[i].layers # {}
    BY DEF PartsTyped
  <2>2. IsFiniteSet(parts[i].layers) /\ parts[i].layers \in SUBSET Nat
    BY <1>2, <2>1, FS_Subset
  <2>3. Max(parts[i].layers) \in DOMAIN r.layers
    BY <2>1, <2>2, ExtremesNat
  <2> QED
    BY <1>3, <2>3 DEF BoundaryBytes
<1> QED
  BY <1>4, <1>5

(* The forward edges, one for each usable pair.                            *)
ForwardEdge(r, parts, c) ==
  IF r.kind = "federated"
    THEN Edge(r, <<c[1], "forward">>, Aggregation, Pair(parts, c), ModelBytes(r), "aggregation")
    ELSE Edge(r, <<c[1], "forward">>, <<c[2], "forward">>, Pair(parts, c),
              BoundaryBytes(r, parts, c[1]), "forward")

(* They are edges over links, and finitely many.                           *)
LEMMA ForwardEdgesTyped ==
  ASSUME NEW r, RequestTyped(r), NEW parts, PartsTyped(r, parts), NEW lim
  PROVE  /\ EdgesTyped(ForwardEdges(r, parts, lim))
         /\ ForwardEdges(r, parts, lim)
              = {ForwardEdge(r, parts, c) : c \in Usable(r, parts, lim)}
         /\ \A c \in Usable(r, parts, lim) :
              LET e == ForwardEdge(r, parts, c)
              IN  /\ e.from = <<c[1], "forward">> /\ e.bytes \in Nat /\ e.time \in Nat
                  /\ e.to = IF r.kind = "federated" THEN Aggregation ELSE <<c[2], "forward">>
                  /\ e.type = IF r.kind = "federated" THEN "aggregation" ELSE "forward"
<1> DEFINE U == Usable(r, parts, lim)
           f == [c \in U |-> ForwardEdge(r, parts, c)]
<1>1. IsFiniteSet(U) /\ \A c \in U : c[1] \in DOMAIN parts /\ c[2] \in DOMAIN parts
  BY CrossingFinite
<1>2. ForwardEdges(r, parts, lim) = {ForwardEdge(r, parts, c) : c \in U}
  BY DEF ForwardEdges, UpdateEdges, ActivationEdges, ForwardEdge
<1>3. ASSUME NEW c \in U
      PROVE  LET e == ForwardEdge(r, parts, c)
             IN  /\ e.from = <<c[1], "forward">> /\ e.bytes \in Nat /\ e.time \in Nat
                 /\ e.to = IF r.kind = "federated" THEN Aggregation ELSE <<c[2], "forward">>
                 /\ e.type = IF r.kind = "federated" THEN "aggregation" ELSE "forward"
  <2>1. ModelBytes(r) \in Nat /\ BoundaryBytes(r, parts, c[1]) \in Nat /\ LinksTyped(r)
    BY <1>1, <1>3, BytesTyped DEF RequestTyped
  <2>2. CASE r.kind = "federated"
    BY <2>1, <2>2, EdgeTyped DEF ForwardEdge
  <2>3. CASE r.kind # "federated"
    BY <2>1, <2>3, EdgeTyped DEF ForwardEdge
  <2> QED
    BY <2>2, <2>3
<1>4. EdgesTyped({ForwardEdge(r, parts, c) : c \in U})
  <2>1. \A e \in {ForwardEdge(r, parts, c) : c \in U} : e.bytes \in Nat /\ e.time \in Nat
    BY <1>3
  <2>2. {ForwardEdge(r, parts, c) : c \in U} = {f[c] : c \in U}
    OBVIOUS
  <2>3. U \subseteq DOMAIN f
    OBVIOUS
  <2>4. IsFiniteSet({f[c] : c \in U})
    <3> HIDE DEF f, U
    <3> QED
      BY <1>1, <2>3, FiniteImage
  <2> QED
    BY <2>1, <2>2, <2>4 DEF EdgesTyped
<1> QED
  BY <1>2, <1>3, <1>4

(* Their bytes and times.                                                  *)
LEMMA EdgeSums ==
  ASSUME NEW edges, EdgesTyped(edges)
  PROVE  EdgeBytes(edges) \in Nat /\ EdgeTime(edges) \in Nat
         /\ Max({0} \cup {e.time : e \in edges}) \in Nat
<1> DEFINE f == [e \in edges |-> e.bytes]
           g == [e \in edges |-> e.time]
           T == {g[e] : e \in edges}
<1>1. SumFunction(f) \in Nat
  <2>1. DOMAIN f = edges /\ \A e \in edges : f[e] \in Nat
    BY DEF EdgesTyped
  <2> HIDE DEF f
  <2> QED
    BY <2>1, SumNat DEF EdgesTyped
<1>2. DOMAIN g = edges /\ \A e \in edges : g[e] \in Nat
  BY DEF EdgesTyped
<1>3. SumFunction(g) \in Nat
  <2> HIDE DEF g
  <2> QED
    BY <1>2, SumNat DEF EdgesTyped
<1>4. Max({0} \cup T) \in Nat
  <2>1. IsFiniteSet(T) /\ T \in SUBSET Nat
    <3> HIDE DEF g
    <3> QED
      BY <1>2, FiniteImage DEF EdgesTyped
  <2> HIDE DEF T
  <2>2. IsFiniteSet({0} \cup T) /\ {0} \cup T \in SUBSET Nat /\ {0} \cup T # {}
    <3>1. {0} \cup T = T \cup {0}
      OBVIOUS
    <3> QED
      BY <2>1, <3>1, FS_AddElement
  <2> QED
    BY <2>2, ExtremesNat
<1>5. T = {e.time : e \in edges}
  OBVIOUS
<1> HIDE DEF T, f, g
<1> QED
  BY <1>1, <1>3, <1>4, <1>5 DEF EdgeBytes, EdgeTime, f, g

-----------------------------------------------------------------------------
(* Scores and candidates.                                                   *)

(* The computing times of a candidate.                                     *)
LEMMA TimesTyped ==
  ASSUME NEW r, NEW parts, PartsTyped(r, parts)
  PROVE  /\ ComputeTime(parts) \in Nat
         /\ Max(Times(parts)) \in Nat /\ Max(Times(parts)) - Min(Times(parts)) \in Nat
<1> DEFINE f == [i \in DOMAIN parts |-> parts[i].time]
           T == {f[i] : i \in DOMAIN parts}
<1>1. /\ DOMAIN parts = 1..Len(parts) /\ Len(parts) \in Nat /\ Len(parts) >= 2
      /\ \A i \in DOMAIN parts : parts[i].time \in Nat
  BY DEF PartsTyped
<1>2. IsFiniteSet(DOMAIN parts) /\ 1 \in DOMAIN parts
  BY <1>1, IntervalSize
<1>3. DOMAIN f = DOMAIN parts /\ \A i \in DOMAIN parts : f[i] \in Nat
  BY <1>1
<1>4. Times(parts) = T
  BY DEF Times
<1>5. ComputeTime(parts) = SumFunction(f)
  BY DEF ComputeTime
<1> HIDE DEF f
<1>6. SumFunction(f) \in Nat
  BY <1>2, <1>3, SumNat
<1>7. IsFiniteSet(T) /\ T \in SUBSET Nat /\ T # {}
  BY <1>2, <1>3, FiniteImage
<1> HIDE DEF T
<1>8. Max(T) \in Nat /\ Min(T) \in Nat /\ Min(T) <= Max(T)
  BY <1>7, ExtremesNat
<1> QED
  BY <1>4, <1>5, <1>6, <1>8

(* The time of a candidate.                                                *)
LEMMA LatencyTyped ==
  ASSUME NEW r, NEW parts, PartsTyped(r, parts), NEW fwd, EdgesTyped(fwd)
  PROVE  Latency(r, parts, fwd) \in Nat
<1>1. ComputeTime(parts) \in Nat /\ Max(Times(parts)) \in Nat
  BY TimesTyped
<1>2. EdgeTime(fwd) \in Nat /\ Max({0} \cup {e.time : e \in fwd}) \in Nat
  BY EdgeSums
<1> QED
  BY <1>1, <1>2 DEF Latency, RoundTime

(* Rounding moves a time by half a last place at most.                     *)
LEMMA RoundedNear ==
  ASSUME NEW x \in Nat
  PROVE  /\ Rounded(x) \in Nat
         /\ 2 * (Rounded(x) - x) <= Grain /\ 2 * (x - Rounded(x)) <= Grain
<1> DEFINE q == x \div Grain
           rest == x % Grain
<1>1. Grain \in Nat \ {0}
  BY GrainAssumption DEF GrainAssumption
<1>2. q \in Nat /\ rest \in 0..Grain - 1 /\ x = Grain * q + rest
  BY <1>1
<1>3. Rounded(x) \in {q * Grain, q * Grain + Grain}
      /\ (Rounded(x) = q * Grain => 2 * rest <= Grain)
      /\ (Rounded(x) = q * Grain + Grain => 2 * rest >= Grain)
  <2>1. q * Grain # q * Grain + Grain
    BY <1>1, <1>2
  <2>2. 2 * rest < Grain \/ (2 * rest = Grain /\ q % 2 = 0) => 2 * rest <= Grain
    BY <1>1, <1>2
  <2>3. ~(2 * rest < Grain \/ (2 * rest = Grain /\ q % 2 = 0)) => 2 * rest >= Grain
    BY <1>1, <1>2
  <2> HIDE DEF q, rest
  <2> QED
    BY <2>1, <2>2, <2>3 DEF Rounded, q, rest
<1>4. q * Grain \in Nat /\ q * Grain = Grain * q
  BY <1>1, <1>2
<1> DEFINE floor == q * Grain
<1>5. floor \in Nat /\ x = floor + rest
  BY <1>2, <1>4
<1>6. Rounded(x) = floor \/ Rounded(x) = floor + Grain
  BY <1>3
<1>7. /\ Rounded(x) = floor => 2 * rest <= Grain
      /\ Rounded(x) = floor + Grain => 2 * rest >= Grain
  BY <1>3
<1> HIDE DEF q, rest, floor
<1> QED
  BY <1>1, <1>2, <1>5, <1>6, <1>7

(* Where judging the rounded time differs from judging the time itself,    *)
(* the candidate is on the border.                                         *)
LEMMA RoundedJudged ==
  ASSUME NEW r, RequestTyped(r), NEW x \in Nat, NEW c, c.latency = Rounded(x),
         Over(c.latency, r.maxLatency) # Over(x, r.maxLatency)
  PROVE  Borderline(r, c)
<1>1. r.maxLatency # NoLimit /\ r.maxLatency \in Nat
  BY DEF Over, RequestTyped
<1>2. Grain \in Nat \ {0}
  BY GrainAssumption DEF GrainAssumption
<1>3. /\ c.latency \in Nat
      /\ 2 * (c.latency - x) <= Grain /\ 2 * (x - c.latency) <= Grain
  BY RoundedNear
<1>4. (c.latency > r.maxLatency) # (x > r.maxLatency)
  BY <1>1 DEF Over
<1>5. /\ 2 * (c.latency - r.maxLatency) \in Int
      /\ 2 * (c.latency - r.maxLatency) <= Grain /\ -Grain <= 2 * (c.latency - r.maxLatency)
  <2>1. CASE c.latency > r.maxLatency /\ ~(x > r.maxLatency)
    BY <1>1, <1>2, <1>3, <2>1
  <2>2. CASE ~(c.latency > r.maxLatency) /\ x > r.maxLatency
    BY <1>1, <1>2, <1>3, <2>2
  <2> QED
    BY <1>4, <2>1, <2>2
<1> QED
  BY <1>1, <1>2, <1>5 DEF Borderline

(* The terms of a score.                                                   *)
LEMMA TermsTyped ==
  ASSUME NEW r, RequestTyped(r), NEW parts, PartsTyped(r, parts),
         NEW fwd, EdgesTyped(fwd)
  PROVE  /\ Terms(r, parts, fwd).time \in Nat /\ Terms(r, parts, fwd).bytes \in Nat
         /\ Terms(r, parts, fwd).memory \in Nat
<1>1. Latency(r, parts, fwd) \in Nat
  BY LatencyTyped
<1>2. TransferBytes(r, fwd) \in Nat
  <2>1. EdgeBytes(fwd) \in Nat
    BY EdgeSums
  <2> QED
    BY <2>1 DEF TransferBytes
<1>3. Pressure(r, parts) \in Nat
  <2> DEFINE p(i) == (1000 * parts[i].memory) \div Max({1, r.memory[parts[i].device]})
             f == [i \in DOMAIN parts |-> p(i)]
             S == {f[i] : i \in DOMAIN parts}
  <2>1. ASSUME NEW i \in DOMAIN parts PROVE p(i) \in Nat
    <3>1. parts[i].memory \in Nat /\ r.memory[parts[i].device] \in Nat
      BY <2>1 DEF PartsTyped, RequestTyped, DevicesTyped
    <3>2. Max({1, r.memory[parts[i].device]}) \in Nat \ {0}
      BY <3>1, PairExtremes
    <3> QED
      BY <3>1, <3>2, DivNat
  <2>2. Pressure(r, parts) = Max(S)
    <3>1. S = {p(i) : i \in DOMAIN parts}
      OBVIOUS
    <3> HIDE DEF S
    <3> QED
      BY <3>1, Zenon DEF Pressure
  <2> HIDE DEF p
  <2>3. DOMAIN f = DOMAIN parts /\ \A i \in DOMAIN parts : f[i] \in Nat
    BY <2>1
  <2>4. IsFiniteSet(DOMAIN parts) /\ 1 \in DOMAIN parts
    BY IntervalSize DEF PartsTyped
  <2> HIDE DEF f
  <2>5. IsFiniteSet(S) /\ S \in SUBSET Nat /\ S # {}
    BY <2>3, <2>4, FiniteImage
  <2> HIDE DEF S
  <2> QED
    BY <2>2, <2>5, ExtremesNat
<1>4. PerMille(Latency(r, parts, fwd), LatencyReference) \in Nat
  BY <1>1, PerMilleNat, PolicyAssumption DEF PolicyAssumption
<1>5. PerMille(TransferBytes(r, fwd), TransferReference) \in Nat
  BY <1>2, PerMilleNat, PolicyAssumption DEF PolicyAssumption
<1>6. Min({1000, Pressure(r, parts)}) \in Nat
  BY <1>3, PairExtremes
<1> QED
  BY <1>4, <1>5, <1>6 DEF Terms

(* A score is a number, whatever the candidate.                            *)
LEMMA ScoreTyped ==
  ASSUME NEW r, RequestTyped(r), NEW parts, PartsTyped(r, parts),
         NEW fwd, EdgesTyped(fwd)
  PROVE  Score(r, parts, fwd) \in Int
<1>1. /\ Weight.stepTime \in Nat /\ Weight.balance \in Nat /\ Weight.memory \in Nat
      /\ Weight.bytes \in Nat /\ Weight.resilience \in Nat /\ Weight.latency \in Nat
      /\ Weight.pressure \in Nat /\ Weight.communication \in Nat
  <2> DEFINE all == {Weight.stepTime, Weight.balance, Weight.memory, Weight.bytes,
                     Weight.resilience, Weight.latency, Weight.pressure,
                     Weight.communication}
  <2>1. \A w \in all : w \in 0..1000
    BY WeightAssumption, Zenon DEF WeightAssumption
  <2>2. \A w \in all : w \in Nat
    <3> HIDE DEF all
    <3>1. \A w : w \in 0..1000 => w \in Nat
      OBVIOUS
    <3> QED
      BY <2>1, <3>1
  <2> QED
    BY <2>2
<1>2. Imbalance(parts) \in Nat /\ Risk(parts) \in Nat
  BY TimesTyped, PerMilleNat DEF Imbalance, Risk
<1>3. /\ Terms(r, parts, fwd).time \in Nat /\ Terms(r, parts, fwd).bytes \in Nat
      /\ Terms(r, parts, fwd).memory \in Nat
  BY TermsTyped
<1>4. InferenceScore(r, parts, fwd) \in Nat
  BY <1>1, <1>3 DEF InferenceScore
<1>5. TrainingScore(r, parts, fwd) \in Nat
  BY <1>1, <1>2, <1>3 DEF TrainingScore
<1> QED
  BY <1>4, <1>5 DEF Score

(* The candidates of a placement can be compared by the ranker, and there  *)
(* are finitely many of them.                                              *)
LEMMA CandidateComparable ==
  ASSUME NEW r, NEW people, NEW split, Placed(r, people, split), NEW lim
  PROVE  Comparable(Candidate(r, people, split, lim))
<1> DEFINE parts == Partitions(r, people, split)
           fwd == ForwardEdges(r, parts, lim)
           c == Candidate(r, people, split, lim)
<1>1. RequestTyped(r) /\ PartsTyped(r, parts)
  BY PartsOfPlacement DEF Placed
<1> HIDE DEF parts
<1>2. EdgesTyped(fwd)
  BY <1>1, ForwardEdgesTyped
<1>3. c.score = Score(r, parts, fwd) /\ c.split = split
  BY DEF Candidate, parts
<1> HIDE DEF fwd, c
<1>4. c.score \in Int
  BY <1>1, <1>2, <1>3, ScoreTyped
<1>5. split \in SUBSET Int /\ IsFiniteSet(split)
  <2>1. CASE r.kind = "federated"
    BY <2>1, FS_EmptySet DEF Placed
  <2>2. CASE r.kind # "federated"
    <3>1. split \in SUBSET (1..Len(r.layers) - 1)
      BY <2>2 DEF Placed
    <3>2. Len(r.layers) \in Nat
      BY <1>1, LayersFinite DEF RequestTyped
    <3>3. IsFiniteSet(1..Len(r.layers) - 1)
      BY <3>2, FS_Interval
    <3>4. IsFiniteSet(split)
      BY <3>1, <3>3, FS_Subset
    <3>5. 1..Len(r.layers) - 1 \subseteq Int
      OBVIOUS
    <3> QED
      BY <3>1, <3>4, <3>5
  <2> QED
    BY <2>1, <2>2
<1> QED
  BY <1>3, <1>4, <1>5 DEF Comparable, c

(* The candidates of a request are finitely many and comparable.           *)
LEMMA CandidatesTyped ==
  ASSUME NEW r, RequestTyped(r), NEW people, IsSequence(people), Len(people) >= 2,
         ToSet(people) \subseteq ToSet(r.participants), NEW excluded, NEW lim
  PROVE  /\ IsFiniteSet(Candidates(r, people, excluded, lim))
         /\ \A c \in Candidates(r, people, excluded, lim) : Comparable(c)
         /\ \A s \in Splits(r, people, excluded) : Placed(r, people, s)
<1> DEFINE S == Splits(r, people, excluded)
           f == [s \in S |-> Candidate(r, people, s, lim)]
           all == 1..Len(r.layers) - 1
<1>1. Len(r.layers) \in Nat
  BY LayersFinite DEF RequestTyped
<1>2. IsFiniteSet(SUBSET all)
  <2>1. IsFiniteSet(all)
    BY <1>1, FS_Interval
  <2> HIDE DEF all
  <2> QED
    BY <2>1, FS_SUBSET
<1>3. ASSUME NEW s \in S, r.kind # "federated"
      PROVE  s \in SUBSET all /\ Cardinality(s) = Len(people) - 1
  <2>1. s \in kSubset(Len(people) - 1, Boundaries(r)) /\ Boundaries(r) \subseteq all
    BY <1>3 DEF Splits, Boundaries, InferenceBoundaries, TrainingBoundaries
  <2> QED
    BY <2>1 DEF kSubset
<1>4. ASSUME NEW s \in S PROVE Placed(r, people, s)
  <2>1. CASE r.kind = "federated"
    BY <1>4, <2>1 DEF Splits, FederatedBoundaries, Placed
  <2>2. CASE r.kind # "federated"
    <3>1. s \in SUBSET all /\ Cardinality(s) = Len(people) - 1
      BY <1>3, <2>2
    <3> QED
      BY <2>2, <3>1 DEF Placed
  <2> QED
    BY <2>1, <2>2
<1>5. IsFiniteSet(S)
  <2>1. CASE r.kind = "federated"
    BY <2>1, FS_Singleton DEF Splits
  <2>2. CASE r.kind # "federated"
    BY <1>2, <1>3, <2>2, FS_Subset
  <2> QED
    BY <2>1, <2>2
<1>6. Candidates(r, people, excluded, lim) = {f[s] : s \in S} /\ S = DOMAIN f
  BY DEF Candidates
<1>7. \A s \in S : f[s] = Candidate(r, people, s, lim)
  OBVIOUS
<1> HIDE DEF f, S
<1>8. IsFiniteSet({f[s] : s \in S})
  BY <1>5, <1>6, FiniteImage
<1>9. \A s \in S : Comparable(f[s])
  BY <1>4, <1>7, CandidateComparable
<1> QED
  BY <1>4, <1>6, <1>8, <1>9 DEF S

-----------------------------------------------------------------------------
(* Reports.                                                                 *)

(* Who is left when feedback has excluded devices.                         *)
LEMMA RemainingTyped ==
  ASSUME NEW r, IsSequence(r.participants), NEW ex
  PROVE  /\ IsSequence(Remaining(r, ex))
         /\ ToSet(Remaining(r, ex)) \subseteq ToSet(r.participants)
         /\ \A i \in DOMAIN Remaining(r, ex) : Remaining(r, ex)[i] \notin ex.devices
         /\ Unique(r.participants) => Unique(Remaining(r, ex))
         /\ ex.devices = {} => Remaining(r, ex) = r.participants
<1> DEFINE s == r.participants
           I == {i \in DOMAIN s : s[i] \notin ex.devices}
           t == Kept(s, I)
<1>0. Remaining(r, ex) = t
  BY DEF Remaining
<1>1. DOMAIN s = 1..Len(s) /\ Len(s) \in Nat
  BY SequenceOf DEF IsSequence
<1>2. I \in SUBSET DOMAIN s /\ DOMAIN s \subseteq Int /\ IsFiniteSet(I)
  <2>1. I \in SUBSET DOMAIN s /\ DOMAIN s \subseteq Int
    BY <1>1
  <2> QED
    BY <1>1, <2>1, IntervalSize, FS_Subset
<1>3. \A i \in I : s[i] \notin ex.devices /\ i \in DOMAIN s
  OBVIOUS
<1>4. ex.devices = {} => I = DOMAIN s
  OBVIOUS
<1> HIDE DEF I
<1>5. /\ IsSequence(t)
      /\ \A k \in DOMAIN t : Nth(I, k) \in I /\ t[k] = s[Nth(I, k)]
      /\ \A k, m \in DOMAIN t : Nth(I, k) = Nth(I, m) => k = m
  BY <1>2, KeptTyped
<1>6. ex.devices = {} => t = s
  BY <1>4, KeptAll
<1> HIDE DEF t
<1>7. ToSet(t) \subseteq ToSet(s)
  BY <1>3, <1>5 DEF ToSet
<1>8. \A i \in DOMAIN t : t[i] \notin ex.devices
  BY <1>3, <1>5
<1>9. Unique(s) => Unique(t)
  BY <1>3, <1>5 DEF Unique, IsInjective
<1> HIDE DEF s
<1> QED
  BY <1>0, <1>5, <1>6, <1>7, <1>8, <1>9 DEF s

(* The selection is a valid candidate, and none only when none is valid.   *)
LEMMA SelectionValid ==
  ASSUME NEW C, IsFiniteSet(C), \A c \in C : Comparable(c),
         NEW choice, NEW s \in Selections(choice, C)
  PROVE  IF s.final = NoCandidate THEN \A c \in C : ~c.valid
                                  ELSE s.final \in C /\ s.final.valid
<1>1. PICK g \in {[pick |-> NoCandidate, confident |-> FALSE, error |-> TRUE]} \cup Guesses(C) :
        s = Select(choice[1], choice[2], Registry, Baseline(C), g)
  BY DEF Selections
<1>2. g.error = TRUE \/ (g.pick \in C /\ g.pick.valid)
  BY <1>1 DEF Guesses
<1>3. s.final = Baseline(C) \/ (s.final = g.pick /\ ~g.error)
  BY <1>1 DEF Select
<1>4. NoCandidate.valid = FALSE
  BY DEF NoCandidate
<1>5. IF {c \in C : c.valid} = {} THEN Baseline(C) = NoCandidate
                                 ELSE Baseline(C) \in {c \in C : c.valid}
  BY BaselineValid
<1> QED
  BY <1>2, <1>3, <1>4, <1>5

\* What is known of a report, whoever made it.
Chosen(r, ex, c) ==
  c # NoCandidate =>
    /\ c.valid /\ Len(Remaining(r, ex)) >= 2
    /\ \E split \in Splits(r, Remaining(r, ex), ex.splits) :
         c = Candidate(r, Remaining(r, ex), split, ex)

BlockedFirst(report) ==
  /\ report.parent = 0 /\ report.bounded = NoExclusions /\ report.candidate = NoCandidate
  => \A c \in PlanCandidates(report.request, NoExclusions) : ~c.valid

Made(report) ==
  /\ report.source \in Plannable /\ report.request = Normalize(report.source)
  /\ Chosen(report.request, report.bounded, report.candidate)
  /\ report.errors = Errors(report.request, report.candidate)
  /\ report.planned = (report.errors = {})
  /\ BlockedFirst(report)

(* The candidates a planning call ranks.                                   *)
LEMMA PlanCandidatesTyped ==
  ASSUME NEW r, RequestTyped(r), NEW ex
  PROVE  /\ IsFiniteSet(PlanCandidates(r, ex))
         /\ \A c \in PlanCandidates(r, ex) : Comparable(c)
         /\ \A c \in PlanCandidates(r, ex) : c.valid => Chosen(r, ex, c)
<1> DEFINE people == Remaining(r, ex)
<1>1. IsSequence(people) /\ ToSet(people) \subseteq ToSet(r.participants)
  BY RemainingTyped DEF RequestTyped
<1>2. CASE Len(people) < 2
  BY <1>2, FS_EmptySet DEF PlanCandidates
<1>3. CASE ~(Len(people) < 2)
  <2>1. Len(people) >= 2
    BY <1>1, <1>3, SequenceOf DEF IsSequence
  <2>2. PlanCandidates(r, ex) = Candidates(r, people, ex.splits, ex)
    BY <1>3 DEF PlanCandidates
  <2>3. \A c \in Candidates(r, people, ex.splits, ex) :
          \E split \in Splits(r, people, ex.splits) : c = Candidate(r, people, split, ex)
    BY DEF Candidates
  <2>4. \A c \in PlanCandidates(r, ex) : c.valid => Chosen(r, ex, c)
    BY <2>1, <2>2, <2>3 DEF Chosen
  <2>5. /\ IsFiniteSet(Candidates(r, people, ex.splits, ex))
        /\ \A c \in Candidates(r, people, ex.splits, ex) : Comparable(c)
    <3> HIDE DEF people
    <3> QED
      BY <1>1, <2>1, CandidatesTyped
  <2> QED
    BY <2>2, <2>4, <2>5
<1> QED
  BY <1>2, <1>3

(* So a report is made as it should be, whether it plans or replans.       *)
LEMMA ReportMade ==
  ASSUME NEW p \in Plannable, NEW ex, NEW C, NEW choice, NEW s \in Selections(choice, C),
         C = {} \/ C = PlanCandidates(Normalize(p), ex),
         NEW parent, NEW version, NEW new, NEW ready,
         parent = 0 /\ ex = NoExclusions => C = PlanCandidates(Normalize(p), ex)
  PROVE  LET report == Report(p, parent, version, new, ex, s, ready)
         IN  /\ Made(report)
             /\ report.source = p /\ report.parent = parent /\ report.version = version
             /\ report.directive = new /\ report.bounded = ex
             /\ report.candidate = s.final
             /\ C = {} => ~report.planned
<1> DEFINE report == Report(p, parent, version, new, ex, s, ready)
           r == Normalize(p)
<1>1. /\ report.source = p /\ report.parent = parent /\ report.version = version
      /\ report.directive = new /\ report.bounded = ex /\ report.candidate = s.final
      /\ report.request = r /\ report.errors = Errors(r, s.final)
      /\ report.planned = (report.errors = {})
  BY DEF Report
<1>2. RequestTyped(r)
  BY NormalizeTyped
<1>3. /\ IsFiniteSet(C) /\ \A c \in C : Comparable(c)
      /\ \A c \in C : c.valid => Chosen(r, ex, c)
  <2>1. CASE C = {}
    BY <2>1, FS_EmptySet
  <2>2. CASE C = PlanCandidates(r, ex)
    BY <1>2, <2>2, PlanCandidatesTyped
  <2> QED
    BY <2>1, <2>2
<1>4. IF s.final = NoCandidate THEN \A c \in C : ~c.valid
                               ELSE s.final \in C /\ s.final.valid
  BY <1>3, SelectionValid
<1>5. Chosen(r, ex, s.final)
  BY <1>3, <1>4 DEF Chosen
<1> HIDE DEF report, r
<1>6. BlockedFirst(report)
  BY <1>1, <1>4 DEF BlockedFirst, r
<1>7. Made(report)
  BY <1>1, <1>5, <1>6 DEF Made, r
<1>8. C = {} => ~report.planned
  <2>1. C = {} => s.final = NoCandidate
    BY <1>4
  <2>2. Errors(r, NoCandidate) # {}
    BY DEF Errors
  <2> QED
    BY <1>1, <2>1, <2>2
<1> QED
  BY <1>1, <1>7, <1>8 DEF report

-----------------------------------------------------------------------------
(* The store.                                                               *)

\* What a plan takes over from the plan of the store it replaces, if any.
Descends(s, report) ==
  \/ /\ report.parent = 0 /\ report.version = 1
     /\ report.directive = NoExclusions /\ report.bounded = NoExclusions
  \/ /\ report.parent \in DOMAIN s /\ report.version = s[report.parent].version + 1
     /\ report.version <= MaxReplanAttempts + 1
     /\ report.bounded = Merge(s[report.parent].bounded, report.directive)

\* Nothing that a directive excludes is taken back.
Includes(ex, new) ==
  new.devices \subseteq ex.devices /\ new.links \subseteq ex.links /\ new.splits \subseteq ex.splits

PlansKept(s) ==
  /\ IsSequence(s) /\ Ordered(s)
  /\ \A p \in DOMAIN s : /\ Made(s[p]) /\ s[p].planned /\ Persistable(s[p])
                         /\ Descends(s, s[p])

VersionsKept(s) ==
  \A p \in DOMAIN s :
    s[p].version = 1 + Cardinality(Lineage(s, p)) /\ s[p].version <= MaxReplanAttempts + 1

ExclusionsKept(s) ==
  \A p \in DOMAIN s : \A q \in Lineage(s, p) \cup {p} : Includes(s[p].bounded, s[q].directive)

StoreKept(s) == PlansKept(s) /\ VersionsKept(s) /\ ExclusionsKept(s)

(* The store after one more plan.                                          *)
LEMMA AppendTyped ==
  ASSUME NEW s, IsSequence(s), NEW x
  PROVE  LET t == Append(s, x)
         IN  /\ IsSequence(t) /\ Len(t) = Len(s) + 1 /\ DOMAIN t = DOMAIN s \cup {Len(s) + 1}
             /\ DOMAIN t = 1..Len(s) + 1 /\ DOMAIN s = 1..Len(s) /\ Len(s) \in Nat
             /\ \A i \in DOMAIN s : t[i] = s[i]
             /\ t[Len(s) + 1] = x
<1> DEFINE S == ToSet(s) \cup {x}
           t == Append(s, x)
           n == Len(s)
<1>1. s \in Seq(S) /\ x \in S
  <2>1. s \in Seq(ToSet(s))
    BY DEF IsSequence
  <2>2. s \in Seq(S)
    BY <2>1, SeqMonotonic
  <2> QED
    BY <2>2
<1> HIDE DEF S
<1>2. /\ t \in Seq(S) /\ Len(t) = n + 1 /\ n \in Nat /\ DOMAIN s = 1..n
      /\ \A i \in 1..n : t[i] = s[i]
      /\ t[n + 1] = x
  BY <1>1, AppendProperties, SequenceOf
<1>3. IsSequence(t) /\ DOMAIN t = 1..n + 1
  BY <1>2, SequenceOf
<1> HIDE DEF t, n
<1>4. 1..n + 1 = 1..n \cup {n + 1}
  BY <1>2
<1> QED
  BY <1>2, <1>3, <1>4 DEF t, n

(* What a plan takes over stays where it was.                              *)
LEMMA DescendsStays ==
  ASSUME NEW s, NEW t, DOMAIN s \subseteq DOMAIN t, \A i \in DOMAIN s : t[i] = s[i],
         NEW report, Descends(s, report)
  PROVE  Descends(t, report)
  BY DEF Descends

(* A plan that is saved joins the lineage it descends from.                *)
LEMMA SaveKept ==
  ASSUME NEW s, StoreKept(s), NEW report, Made(report), report.planned,
         Persistable(report), Descends(s, report)
  PROVE  StoreKept(Append(s, report))
<1> DEFINE t == Append(s, report)
           n == Len(s)
<1>1. /\ IsSequence(t) /\ Len(t) = n + 1 /\ DOMAIN t = DOMAIN s \cup {n + 1}
      /\ DOMAIN t = 1..n + 1 /\ DOMAIN s = 1..n /\ n \in Nat
      /\ \A i \in DOMAIN s : t[i] = s[i]
      /\ t[n + 1] = report
  BY AppendTyped DEF StoreKept, PlansKept
<1> HIDE DEF t, n
<1>2. PlansKept(s) /\ VersionsKept(s) /\ ExclusionsKept(s) /\ Ordered(s)
  BY DEF StoreKept, PlansKept
<1>3. report.parent = 0 \/ report.parent \in DOMAIN s
  BY DEF Descends
<1>4. Ordered(t)
  <2>1. \A p \in DOMAIN s : t[p].parent \in 0..p - 1
    BY <1>1, <1>2 DEF Ordered
  <2>2. t[n + 1].parent \in 0..(n + 1) - 1
    BY <1>1, <1>3
  <2> QED
    BY <1>1, <2>1, <2>2 DEF Ordered
<1>5. PlansKept(t)
  <2>1. ASSUME NEW p \in DOMAIN t
        PROVE  Made(t[p]) /\ t[p].planned /\ Persistable(t[p]) /\ Descends(t, t[p])
    <3>1. CASE p \in DOMAIN s
      <4>1. Made(s[p]) /\ s[p].planned /\ Persistable(s[p]) /\ Descends(s, s[p]) /\ t[p] = s[p]
        BY <1>1, <1>2, <3>1 DEF PlansKept
      <4>2. Descends(t, s[p])
        BY <1>1, <4>1, DescendsStays
      <4> QED
        BY <4>1, <4>2
    <3>2. CASE p = n + 1
      BY <1>1, <3>2, DescendsStays
    <3> QED
      BY <1>1, <3>1, <3>2
  <2> QED
    BY <1>1, <1>4, <2>1 DEF PlansKept
<1>6. \A p \in DOMAIN s : Lineage(t, p) = Lineage(s, p)
  BY <1>1, <1>2, LineageStays
<1>7. ASSUME report.parent = 0
     PROVE  StoreKept(t)
  <2>1. Lineage(t, n + 1) = {} /\ report.version = 1
    <3>1. t[n + 1].parent = 0
      BY <1>1, <1>7
    <3>2. report.parent \notin DOMAIN s
      BY <1>1, <1>7
    <3> QED
      BY <3>1, <3>2, LineageOfFirst DEF Descends
  <2>2. VersionsKept(t)
    <3>1. report.version = 1 + Cardinality(Lineage(t, n + 1))
      BY <2>1, FS_EmptySet
    <3>2. report.version <= MaxReplanAttempts + 1
      BY <2>1, PlanningAssumption DEF PlanningAssumption
    <3> QED
      BY <1>1, <1>2, <1>6, <3>1, <3>2 DEF VersionsKept
  <2>3. ExclusionsKept(t)
    <3>1. Includes(report.bounded, report.directive)
      <4>1. report.parent \notin DOMAIN s
        BY <1>1, <1>7
      <4> QED
        BY <4>1 DEF Descends, Includes
    <3>2. ASSUME NEW p \in DOMAIN s, NEW q \in Lineage(t, p) \cup {p}
          PROVE  Includes(t[p].bounded, t[q].directive)
      <4>1. q \in Lineage(s, p) \cup {p} /\ q \in DOMAIN s
        BY <1>6, <3>2 DEF Lineage
      <4> QED
        BY <1>1, <1>2, <4>1 DEF ExclusionsKept
    <3> QED
      BY <1>1, <2>1, <3>1, <3>2 DEF ExclusionsKept
  <2> QED
    BY <1>5, <2>2, <2>3 DEF StoreKept
<1>8. ASSUME report.parent # 0
     PROVE  StoreKept(t)
  <2> DEFINE m == report.parent
  <2>1. /\ m \in DOMAIN s /\ report.version = s[m].version + 1
        /\ report.version <= MaxReplanAttempts + 1
        /\ report.bounded = Merge(s[m].bounded, report.directive)
    BY <1>8 DEF Descends
  <2>2. t[n + 1].parent = m /\ m \in DOMAIN t /\ n + 1 \in DOMAIN t /\ m # 0
    BY <1>1, <1>8, <2>1
  <2> HIDE DEF m
  <2>3. Lineage(t, n + 1) = {m} \cup Lineage(s, m)
    BY <1>6, <2>1, <2>2, LineageOfSuccessor
  <2>4. VersionsKept(t)
    <3>1. Cardinality(Lineage(t, n + 1)) = Cardinality(Lineage(t, m)) + 1
      BY <1>4, <2>2, LineageGrows
    <3>2. s[m].version = 1 + Cardinality(Lineage(s, m))
      BY <1>2, <2>1 DEF VersionsKept
    <3>3. Cardinality(Lineage(s, m)) \in Nat
      BY <1>2, <2>1, LineageEarlier, FS_CardinalityType
    <3>4. report.version = 1 + Cardinality(Lineage(t, n + 1))
      BY <1>6, <2>1, <3>1, <3>2, <3>3
    <3> QED
      BY <1>1, <1>2, <1>6, <2>1, <3>4 DEF VersionsKept
  <2>5. ExclusionsKept(t)
    <3>1. Includes(report.bounded, report.directive)
      BY <2>1 DEF Includes, Merge
    <3>2. ASSUME NEW p \in DOMAIN s, NEW q \in Lineage(t, p) \cup {p}
          PROVE  Includes(t[p].bounded, t[q].directive)
      <4>1. q \in Lineage(s, p) \cup {p} /\ q \in DOMAIN s
        BY <1>6, <3>2 DEF Lineage
      <4> QED
        BY <1>1, <1>2, <4>1 DEF ExclusionsKept
    <3>3. ASSUME NEW q \in {m} \cup Lineage(s, m)
          PROVE  Includes(report.bounded, t[q].directive)
      <4>1. Includes(s[m].bounded, s[q].directive) /\ t[q] = s[q]
        BY <1>1, <1>2, <2>1, <3>3 DEF ExclusionsKept, Lineage
      <4> QED
        BY <2>1, <4>1 DEF Includes, Merge
    <3>4. ASSUME NEW p \in DOMAIN t, NEW q \in Lineage(t, p) \cup {p}
          PROVE  Includes(t[p].bounded, t[q].directive)
      <4>1. CASE p \in DOMAIN s
        BY <3>2, <3>4, <4>1
      <4>2. CASE p = n + 1
        BY <1>1, <2>3, <3>1, <3>3, <3>4, <4>2
      <4> QED
        BY <1>1, <4>1, <4>2
    <3> QED
      BY <3>4 DEF ExclusionsKept
  <2> QED
    BY <1>5, <2>4, <2>5 DEF StoreKept
<1> QED
  BY <1>7, <1>8 DEF t

-----------------------------------------------------------------------------
(* The steps.                                                               *)

(* The plan a caller is about to save, and the report of the last step.    *)
InFlight(s, report) == Made(report) /\ report.planned /\ Descends(s, report)

PlanningInv ==
  /\ StoreKept(store)
  /\ DOMAIN call = Callers
  /\ \A c \in Callers : call[c] = NoReport \/ InFlight(store, call[c])
  /\ answer = NoReport \/ Made(answer)
  /\ checked \subseteq {c \in Callers : call[c] # NoReport}
  /\ \A c \in checked : Persistable(call[c])

(* A directive of feedback excludes something.                             *)
LEMMA DirectiveExcludes ==
  ASSUME NEW report, NEW ex \in LegacyDirectives(report)
  PROVE  ex # NoExclusions
<1> DEFINE parts == IF report.candidate = NoCandidate THEN <<>> ELSE report.candidate.parts
<1>1. CASE \E d \in Devices : ex = [NoExclusions EXCEPT !.devices = {d}]
  BY <1>1 DEF NoExclusions
<1>2. CASE \E l \in FailedLinks : ex = [NoExclusions EXCEPT !.links = {l}]
  BY <1>2 DEF NoExclusions
<1>3. CASE \E c \in {report.candidate} \ {NoCandidate} : ex = [NoExclusions EXCEPT !.splits = {c.split}]
  BY <1>3 DEF NoExclusions
<1>4. CASE \E i \in DOMAIN parts :
             ex = [NoExclusions EXCEPT !.memory = [d \in {parts[i].device} |-> parts[i].memory - 1]]
  <2>1. PICK i \in DOMAIN parts :
          ex = [NoExclusions EXCEPT !.memory = [d \in {parts[i].device} |-> parts[i].memory - 1]]
    BY <1>4
  <2>2. ex.memory = [d \in {parts[i].device} |-> parts[i].memory - 1]
    BY <2>1 DEF NoExclusions
  <2>3. DOMAIN ex.memory # {}
    BY <2>2
  <2>4. DOMAIN NoExclusions.memory = {}
    BY DEF NoExclusions
  <2> QED
    BY <2>3, <2>4
<1> QED
  BY <1>1, <1>2, <1>3, <1>4 DEF LegacyDirectives, Directives

(* The saved plans are numbered from one, and so are their versions.       *)
LEMMA StoreTyped ==
  ASSUME StoreKept(store)
  PROVE  /\ Position = DOMAIN store /\ 0 \notin Position
         /\ \A p \in Position : store[p].version \in Nat
<1>1. Ordered(store)
  BY DEF StoreKept, PlansKept
<1>2. \A p \in DOMAIN store : Cardinality(Lineage(store, p)) \in Nat
  BY <1>1, LineageEarlier, FS_CardinalityType
<1>3. \A p \in DOMAIN store : store[p].version = 1 + Cardinality(Lineage(store, p))
  BY DEF StoreKept, VersionsKept
<1> QED
  BY <1>1, <1>2, <1>3 DEF Ordered, Position

(* What a first call, a feedback call and a legacy replan report.          *)
LEMMA FirstReport ==
  ASSUME NEW submission \in Submissions, NEW p \in Admitted(submission), Processable(p),
         NEW choice,
         NEW s \in Selections(choice, PlanCandidates(Normalize(p), NoExclusions)),
         NEW ready
  PROVE  LET report == Report(p, 0, 1, NoExclusions, NoExclusions, s, ready)
         IN  Made(report) /\ Descends(store, report)
<1> DEFINE report == Report(p, 0, 1, NoExclusions, NoExclusions, s, ready)
           C == PlanCandidates(Normalize(p), NoExclusions)
<1>1. p \in Plannable
  BY DEF Plannable
<1>2. s \in Selections(choice, C) /\ C = PlanCandidates(Normalize(p), NoExclusions)
  OBVIOUS
<1> HIDE DEF C
<1>3. /\ Made(report) /\ report.parent = 0 /\ report.version = 1
      /\ report.directive = NoExclusions /\ report.bounded = NoExclusions
  BY <1>1, <1>2, ReportMade
<1> HIDE DEF report
<1>4. Descends(store, report)
  BY <1>3 DEF Descends
<1> QED
  BY <1>3, <1>4 DEF report

(* A replan counts on from the plan it replaces, and stops when it may.    *)
LEMMA ReplanReport ==
  ASSUME NEW prev, Made(prev), NEW parent, NEW new, NEW ex, NEW attempt, NEW choice,
         NEW report \in Replans(prev, parent, new, ex, attempt, choice),
         parent # 0 \/ ex # NoExclusions
  PROVE  /\ Made(report) /\ report.parent = parent /\ report.version = prev.version + 1
         /\ report.directive = new /\ report.bounded = ex
         /\ report.planned => ~(attempt > MaxReplanAttempts)
<1> DEFINE C == IF attempt > MaxReplanAttempts \/ prev.candidate = NoCandidate THEN {}
                ELSE PlanCandidates(prev.request, ex)
           p == prev.source
<1>1. p \in Plannable /\ prev.request = Normalize(p)
  BY DEF Made
<1>2. C = {} \/ C = PlanCandidates(Normalize(p), ex)
  BY <1>1
<1>3. PICK s \in Selections(choice, C) :
        report = Report(p, parent, prev.version + 1, new, ex, s, prev.handoff = "ready")
  BY DEF Replans
<1>4. attempt > MaxReplanAttempts => C = {}
  OBVIOUS
<1> HIDE DEF C, p
<1>5. /\ Made(report) /\ report.parent = parent /\ report.version = prev.version + 1
      /\ report.directive = new /\ report.bounded = ex
      /\ C = {} => ~report.planned
  BY <1>1, <1>2, <1>3, ReportMade
<1> QED
  BY <1>4, <1>5

(* Setting the version back changes nothing else of a report.              *)
LEMMA VersionReset ==
  ASSUME NEW prev, NEW parent, NEW new, NEW ex, NEW attempt, NEW choice,
         NEW report \in Replans(prev, parent, new, ex, attempt, choice),
         Made(report)
  PROVE  Made([report EXCEPT !.version = 1])
<1> DEFINE x == [report EXCEPT !.version = 1]
<1>1. PICK p, version, s, ready : report = Report(p, parent, version, new, ex, s, ready)
  BY DEF Replans
<1>2. /\ x.source = report.source /\ x.request = report.request
      /\ x.bounded = report.bounded /\ x.candidate = report.candidate
      /\ x.errors = report.errors /\ x.planned = report.planned /\ x.parent = report.parent
  BY <1>1 DEF Report
<1> HIDE DEF x
<1>3. BlockedFirst(x)
  BY <1>2 DEF Made, BlockedFirst
<1>4. Made(x)
  BY <1>2, <1>3 DEF Made
<1> QED
  BY <1>4 DEF x

(* Nothing is stored or under way at first.                                *)
LEMMA PlanningStart == PlanningInit => PlanningInv
<1> SUFFICES ASSUME PlanningInit PROVE PlanningInv
  OBVIOUS
<1>1. store = <<>> /\ DOMAIN store = {} /\ Len(store) = 0 /\ IsSequence(store)
  <2>1. <<>> \in Seq({})
    OBVIOUS
  <2>2. Len(<<>>) = 0 /\ DOMAIN <<>> = {}
    OBVIOUS
  <2>3. IsSequence(<<>>)
    BY <2>1, SequenceOf
  <2> QED
    BY <2>2, <2>3 DEF PlanningInit
<1>2. StoreKept(store)
  BY <1>1 DEF StoreKept, PlansKept, VersionsKept, ExclusionsKept, Ordered
<1> QED
  BY <1>2 DEF PlanningInit, PlanningInv

(* What a caller is about to save, or the answer, changes.                 *)
LEMMA CallStep ==
  ASSUME PlanningInv, NEW c \in Callers, UNCHANGED <<store, checked>>, call[c] = NoReport,
         NEW report, Made(report), Descends(store, report),
         IF report.planned THEN call' = [call EXCEPT ![c] = report] /\ answer' = NoReport
                           ELSE answer' = report /\ UNCHANGED call
  PROVE  PlanningInv'
<1>1. CASE report.planned
  <2>1. /\ DOMAIN call' = Callers /\ call'[c] = report
        /\ \A d \in Callers : d # c => call'[d] = call[d]
    BY <1>1 DEF PlanningInv
  <2>2. InFlight(store, report)
    BY <1>1 DEF InFlight
  <2>3. \A d \in Callers : call'[d] = NoReport \/ InFlight(store, call'[d])
    BY <2>1, <2>2 DEF PlanningInv
  <2>4. c \notin checked /\ \A d \in checked : call'[d] = call[d]
    BY <2>1 DEF PlanningInv
  <2> QED
    BY <1>1, <2>1, <2>3, <2>4 DEF PlanningInv
<1>2. CASE ~report.planned
  BY <1>2 DEF PlanningInv
<1> QED
  BY <1>1, <1>2

(* A first plan is reported.                                               *)
LEMMA RequestPlanStep ==
  ASSUME PlanningInv, NEW c \in Callers, NEW submission \in Submissions, NEW choice \in Rankings,
         RequestPlan(c, submission, choice)
  PROVE  PlanningInv'
<1>1. PICK p \in Admitted(submission) :
        /\ Processable(p)
        /\ \E s \in Selections(choice, PlanCandidates(Normalize(p), NoExclusions)) :
             LET report == Report(p, 0, 1, NoExclusions, NoExclusions, s, ~p.legacy)
             IN  IF report.planned
                   THEN call' = [call EXCEPT ![c] = report] /\ answer' = NoReport
                   ELSE answer' = report /\ UNCHANGED call
  BY DEF RequestPlan
<1>2. PICK s \in Selections(choice, PlanCandidates(Normalize(p), NoExclusions)) :
        LET report == Report(p, 0, 1, NoExclusions, NoExclusions, s, ~p.legacy)
        IN  IF report.planned
              THEN call' = [call EXCEPT ![c] = report] /\ answer' = NoReport
              ELSE answer' = report /\ UNCHANGED call
  BY <1>1
<1> DEFINE report == Report(p, 0, 1, NoExclusions, NoExclusions, s, ~p.legacy)
<1>3. Made(report) /\ Descends(store, report)
  BY <1>1, FirstReport
<1>4. IF report.planned THEN call' = [call EXCEPT ![c] = report] /\ answer' = NoReport
                        ELSE answer' = report /\ UNCHANGED call
  BY <1>2
<1>5. UNCHANGED <<store, checked>> /\ call[c] = NoReport
  BY DEF RequestPlan
<1> HIDE DEF report
<1> QED
  BY <1>3, <1>4, <1>5, CallStep

(* A plan of the store is replanned.                                       *)
LEMMA FeedbackStep ==
  ASSUME PlanningInv, NEW c \in Callers, NEW p \in Position, NEW new \in Directives(store[p]),
         Feedback(c, p, new)
  PROVE  PlanningInv'
<1> DEFINE prev == store[p]
           ex == Merge(prev.bounded, new)
<1>1. PICK report \in Replans(prev, p, new, ex, prev.version, Inherited(prev)) :
        IF report.planned THEN call' = [call EXCEPT ![c] = report] /\ answer' = NoReport
                          ELSE answer' = report /\ UNCHANGED call
  BY DEF Feedback
<1>2. UNCHANGED <<store, checked>> /\ call[c] = NoReport
  BY DEF Feedback
<1>3. StoreKept(store)
  BY DEF PlanningInv
<1>4. p \in DOMAIN store /\ p # 0 /\ prev.version \in Nat
  BY <1>3, StoreTyped
<1>5. Made(prev)
  BY <1>3, <1>4 DEF StoreKept, PlansKept
<1>6. ex = Merge(store[p].bounded, new)
  OBVIOUS
<1> DEFINE choice == Inherited(prev)
<1> HIDE DEF ex, prev, choice
<1>10. report \in Replans(prev, p, new, ex, prev.version, choice)
  BY <1>1 DEF choice
<1>7. /\ Made(report) /\ report.parent = p /\ report.version = prev.version + 1
      /\ report.directive = new /\ report.bounded = ex
      /\ report.planned => ~(prev.version > MaxReplanAttempts)
  BY <1>10, <1>4, <1>5, ReplanReport
<1>8. CASE report.planned
  <2>1. report.version <= MaxReplanAttempts + 1
    BY <1>4, <1>7, <1>8, PlanningAssumption DEF PlanningAssumption
  <2>2. Descends(store, report)
    BY <1>4, <1>6, <1>7, <2>1 DEF Descends, prev
  <2> QED
    BY <1>1, <1>2, <1>7, <2>2, CallStep
<1>9. CASE ~report.planned
  BY <1>1, <1>2, <1>7, <1>9 DEF PlanningInv
<1> QED
  BY <1>8, <1>9

(* A caller is done, with its plan saved or not.                           *)
LEMMA CallDone ==
  ASSUME PlanningInv, NEW c \in Callers, call' = [call EXCEPT ![c] = NoReport],
         checked' = checked \ {c},
         DOMAIN store \subseteq DOMAIN store', \A i \in DOMAIN store : store'[i] = store[i],
         StoreKept(store'), answer' = NoReport \/ Made(answer')
  PROVE  PlanningInv'
<1>1. /\ DOMAIN call' = Callers /\ call'[c] = NoReport
      /\ \A d \in Callers : d # c => call'[d] = call[d]
  BY DEF PlanningInv
<1>2. \A d \in Callers : call[d] # NoReport => InFlight(store', call[d])
  BY DescendsStays DEF PlanningInv, InFlight
<1>3. /\ checked' \subseteq {d \in Callers : call'[d] # NoReport}
      /\ \A d \in checked' : Persistable(call'[d])
  BY <1>1 DEF PlanningInv
<1> QED
  BY <1>1, <1>2, <1>3 DEF PlanningInv

(* A plan that is checked is persistable; one that is not is given up.     *)
LEMMA CheckSaveStep ==
  ASSUME PlanningInv, NEW c \in Callers, CheckSave(c)
  PROVE  PlanningInv'
<1>1. call[c] # NoReport /\ c \notin checked /\ UNCHANGED store /\ answer' = NoReport
  BY DEF CheckSave
<1>2. CASE Persistable(call[c]) /\ checked' = checked \cup {c} /\ UNCHANGED call
  BY <1>1, <1>2 DEF PlanningInv
<1>3. CASE call' = [call EXCEPT ![c] = NoReport] /\ UNCHANGED checked
  <2>1. checked' = checked \ {c} /\ StoreKept(store')
    BY <1>1, <1>3 DEF PlanningInv
  <2> QED
    BY <1>1, <1>3, <2>1, CallDone
<1> QED
  BY <1>2, <1>3 DEF CheckSave

(* A checked plan is published.                                            *)
LEMMA PublishPlanStep ==
  ASSUME PlanningInv, NEW c \in Callers, PublishPlan(c)
  PROVE  PlanningInv'
<1> DEFINE report == call[c]
<1>1. /\ c \in checked /\ store' = Append(store, report) /\ answer' = report
      /\ checked' = checked \ {c} /\ call' = [call EXCEPT ![c] = NoReport]
  BY DEF PublishPlan
<1>2. /\ StoreKept(store) /\ Made(report) /\ report.planned /\ Descends(store, report)
      /\ Persistable(report)
  BY <1>1 DEF PlanningInv, InFlight
<1>3. StoreKept(Append(store, report))
  BY <1>2, SaveKept
<1>4. /\ DOMAIN store \subseteq DOMAIN Append(store, report)
      /\ \A i \in DOMAIN store : Append(store, report)[i] = store[i]
  BY <1>2, AppendTyped DEF StoreKept, PlansKept
<1> QED
  BY <1>1, <1>2, <1>3, <1>4, CallDone

(* A reported plan is lost.                                                *)
LEMMA CallLostStep ==
  ASSUME PlanningInv, NEW c \in Callers, CallLost(c)
  PROVE  PlanningInv'
<1>1. /\ store' = store /\ answer' = NoReport /\ call' = [call EXCEPT ![c] = NoReport]
      /\ checked' = checked \ {c} /\ StoreKept(store)
  BY DEF CallLost, PlanningInv
<1> QED
  BY <1>1, CallDone

(* A legacy client replans the plan it was answered with.                  *)
LEMMA LegacyReplanStep ==
  ASSUME PlanningInv, NEW attempt, LegacyReplan(attempt)
  PROVE  PlanningInv'
<1>1. Made(answer) /\ UNCHANGED <<store, call, checked>>
  BY DEF LegacyReplan, PlanningInv
<1>2. PICK ex \in LegacyDirectives(answer) :
        \E report \in Replans(answer, 0, ex, ex, attempt, <<"deterministic", NoModel>>) :
          answer' = [report EXCEPT !.version = 1]
  BY DEF LegacyReplan
<1>3. PICK report \in Replans(answer, 0, ex, ex, attempt, <<"deterministic", NoModel>>) :
        answer' = [report EXCEPT !.version = 1]
  BY <1>2
<1>4. ex # NoExclusions
  BY DirectiveExcludes
<1>5. Made(report)
  BY <1>1, <1>4, ReplanReport
<1>6. Made(answer')
  BY <1>3, <1>5, VersionReset
<1> QED
  BY <1>1, <1>6 DEF PlanningInv

(* What is known of the store, the calls and the answer is inductive.      *)
THEOREM PlanningInductive == PlanningSpec => []PlanningInv
<1>1. PlanningInit => PlanningInv
  BY PlanningStart
<1>2. PlanningInv /\ [PlanningNext]_planningVars => PlanningInv'
  <2> SUFFICES ASSUME PlanningInv, [PlanningNext]_planningVars PROVE PlanningInv'
    OBVIOUS
  <2>1. ASSUME NEW c \in Callers, NEW submission \in Submissions, NEW choice \in Rankings,
               RequestPlan(c, submission, choice)
        PROVE  PlanningInv'
    BY <2>1, RequestPlanStep
  <2>2. ASSUME NEW c \in Callers, NEW p \in Position, NEW new \in Directives(store[p]),
               Feedback(c, p, new)
        PROVE  PlanningInv'
    BY <2>2, FeedbackStep
  <2>3. ASSUME NEW c \in Callers, CheckSave(c) \/ PublishPlan(c) PROVE PlanningInv'
    BY <2>3, CheckSaveStep, PublishPlanStep
  <2>4. ASSUME NEW c \in Callers, CallLost(c) PROVE PlanningInv'
    BY <2>4, CallLostStep
  <2>5. ASSUME NEW attempt, LegacyReplan(attempt) PROVE PlanningInv'
    BY <2>5, LegacyReplanStep
  <2>6. CASE UNCHANGED planningVars
    BY <2>6 DEF planningVars, PlanningInv
  <2> QED
    BY <2>1, <2>2, <2>3, <2>4, <2>5, <2>6 DEF PlanningNext
<1> QED
  BY <1>1, <1>2, PTL DEF PlanningSpec

-----------------------------------------------------------------------------
(* Who replaces what.                                                       *)

\* A plan of the store is replaced once; and a save that is past its check
\* replaces a plan that nobody has replaced.  In both, but for the plans two
\* saves of successors of which overlapped.
ReplacedOnce ==
  /\ overlapped \subseteq Position
  /\ \A p, q \in Position :
       store[p].parent = store[q].parent /\ store[p].parent # 0 =>
         p = q \/ store[p].parent \in overlapped
  /\ \A c \in checked :
       \/ call[c].parent \in {0} \cup overlapped
       \/ \A q \in Position : store[q].parent # call[c].parent

(* The store grows by the plan of the caller that publishes; every other   *)
(* caller past its check for the same plan now knows to have overlapped.   *)
LEMMA PublishReplaces ==
  ASSUME PlanningInv, ReplacedOnce, NEW c \in Callers, PublishPlan(c)
  PROVE  ReplacedOnce'
<1> DEFINE report == call[c]
           n == Len(store)
<1>1. /\ Position = 1..n /\ Position' = 1..n + 1 /\ n \in Nat
      /\ \A p \in 1..n : store'[p] = store[p]
      /\ store'[n + 1] = report
  <2>1. IsSequence(store) /\ store' = Append(store, report)
    BY DEF PublishPlan, PlanningInv, StoreKept, PlansKept
  <2> QED
    BY <2>1, AppendTyped DEF Position
<1>2. /\ c \in checked /\ checked' = checked \ {c}
      /\ overlapped \subseteq overlapped'
      /\ \A o \in checked \ {c} : call[o].parent = report.parent /\ report.parent # 0
                                   => report.parent \in overlapped'
      /\ overlapped' \subseteq overlapped \cup ({report.parent} \ {0})
  BY DEF PublishPlan
<1>3. /\ checked \subseteq Callers /\ \A d \in checked \ {c} : call'[d] = call[d]
      /\ Descends(store, report)
  BY <1>2 DEF PublishPlan, PlanningInv, InFlight
<1>4. \/ report.parent \in {0} \cup overlapped
      \/ \A q \in 1..n : store[q].parent # report.parent
  BY <1>1, <1>2 DEF ReplacedOnce
<1>5. report.parent \in {0} \cup 1..n
  <2>1. StoreKept(store)
    BY DEF PlanningInv
  <2> QED
    BY <1>1, <1>3, <2>1, StoreTyped DEF Descends
<1> HIDE DEF report, n
<1>6. overlapped' \subseteq Position'
  BY <1>1, <1>2, <1>5 DEF ReplacedOnce
<1>7. ASSUME NEW p \in Position', NEW q \in Position',
             store'[p].parent = store'[q].parent, store'[p].parent # 0
      PROVE  p = q \/ store'[p].parent \in overlapped'
  <2>1. CASE p \in 1..n /\ q \in 1..n
    BY <1>1, <1>2, <1>7, <2>1 DEF ReplacedOnce
  <2>2. CASE p = n + 1 /\ q \in 1..n
    BY <1>1, <1>2, <1>4, <1>7, <2>2
  <2>3. CASE p \in 1..n /\ q = n + 1
    BY <1>1, <1>2, <1>4, <1>7, <2>3
  <2> QED
    BY <1>1, <1>7, <2>1, <2>2, <2>3
<1>8. ASSUME NEW d \in checked'
      PROVE  \/ call'[d].parent \in {0} \cup overlapped'
             \/ \A q \in Position' : store'[q].parent # call'[d].parent
  <2>1. d \in checked \ {c} /\ call'[d] = call[d]
    BY <1>2, <1>3, <1>8
  <2>2. CASE call[d].parent \in {0} \cup overlapped
    BY <1>2, <2>1, <2>2
  <2>3. CASE call[d].parent = report.parent
    BY <1>2, <2>1, <2>3
  <2>4. CASE call[d].parent # report.parent /\ \A q \in 1..n : store[q].parent # call[d].parent
    BY <1>1, <2>1, <2>4
  <2> QED
    BY <1>1, <2>1, <2>2, <2>3, <2>4 DEF ReplacedOnce
<1> QED
  BY <1>6, <1>7, <1>8 DEF ReplacedOnce

(* Every other step leaves the store; a check looks for a successor.       *)
LEMMA ReplacedOnceInductive == PlanningSpec => [](PlanningInv /\ ReplacedOnce)
<1>1. PlanningInit => ReplacedOnce
  BY DEF PlanningInit, ReplacedOnce, Position
<1>2. PlanningInv /\ ReplacedOnce /\ [PlanningNext]_planningVars => ReplacedOnce'
  <2> SUFFICES ASSUME PlanningInv, ReplacedOnce, [PlanningNext]_planningVars
               PROVE  ReplacedOnce'
    OBVIOUS
  <2>1. ASSUME UNCHANGED <<store, overlapped>>, checked' \subseteq checked,
               \A c \in checked' : call'[c] = call[c]
        PROVE  ReplacedOnce'
    BY <2>1 DEF ReplacedOnce, Position
  <2>2. ASSUME NEW c \in Callers, UNCHANGED <<store, checked, overlapped>>,
               call[c] = NoReport, \/ UNCHANGED call
                                  \/ \E report : call' = [call EXCEPT ![c] = report]
        PROVE  ReplacedOnce'
    <3>1. checked \subseteq Callers /\ c \notin checked /\ DOMAIN call = Callers
      BY <2>2 DEF PlanningInv
    <3>2. \A d \in checked : call'[d] = call[d]
      BY <2>2, <3>1
    <3> QED
      BY <2>1, <2>2, <3>2
  <2>3. ASSUME NEW c \in Callers, NEW submission \in Submissions, NEW choice \in Rankings,
               RequestPlan(c, submission, choice)
        PROVE  ReplacedOnce'
    BY <2>2, <2>3 DEF RequestPlan
  <2>4. ASSUME NEW c \in Callers, NEW p \in Position, NEW new \in Directives(store[p]),
               Feedback(c, p, new)
        PROVE  ReplacedOnce'
    BY <2>2, <2>4 DEF Feedback
  <2>5. ASSUME NEW c \in Callers, CheckSave(c) PROVE ReplacedOnce'
    <3>1. /\ UNCHANGED <<store, overlapped>> /\ c \notin checked
          /\ checked \subseteq Callers /\ DOMAIN call = Callers
      BY <2>5 DEF CheckSave, PlanningInv
    <3>2. CASE /\ call[c].parent = 0 \/ Child(call[c].parent) = {}
               /\ checked' = checked \cup {c} /\ UNCHANGED call
      BY <3>1, <3>2 DEF ReplacedOnce, Child, Position
    <3>3. CASE call' = [call EXCEPT ![c] = NoReport] /\ UNCHANGED checked
      <4>1. \A d \in checked : call'[d] = call[d]
        BY <3>1, <3>3
      <4> QED
        BY <2>1, <3>1, <3>3, <4>1
    <3> QED
      BY <2>5, <3>2, <3>3 DEF CheckSave
  <2>6. ASSUME NEW c \in Callers, PublishPlan(c) PROVE ReplacedOnce'
    BY <2>6, PublishReplaces
  <2>7. ASSUME NEW c \in Callers, CallLost(c) PROVE ReplacedOnce'
    <3>1. /\ UNCHANGED <<store, overlapped>> /\ checked' = checked \ {c}
          /\ checked \subseteq Callers /\ DOMAIN call = Callers
          /\ call' = [call EXCEPT ![c] = NoReport]
      BY <2>7 DEF CallLost, PlanningInv
    <3>2. \A d \in checked' : call'[d] = call[d]
      BY <3>1
    <3> QED
      BY <2>1, <3>1, <3>2
  <2>8. ASSUME NEW attempt, LegacyReplan(attempt) PROVE ReplacedOnce'
    BY <2>1, <2>8 DEF LegacyReplan
  <2>9. CASE UNCHANGED planningVars
    BY <2>1, <2>9 DEF planningVars
  <2> QED
    BY <2>3, <2>4, <2>5, <2>6, <2>7, <2>8, <2>9 DEF PlanningNext
<1> QED
  BY <1>1, <1>2, PlanningInductive, PTL DEF PlanningSpec

(* The plans of the store are validated, and each replaces an earlier one; *)
(* a call under way holds a validated plan.                                *)
THEOREM PlanningTypes == PlanningSpec => []PlanningTypeOK
<1>1. PlanningInv /\ ReplacedOnce => PlanningTypeOK
  <2> SUFFICES ASSUME PlanningInv, ReplacedOnce PROVE PlanningTypeOK
    OBVIOUS
  <2>1. StoreKept(store) /\ Position = DOMAIN store
    BY StoreTyped DEF PlanningInv
  <2>2. \A p \in Position : store[p].planned /\ store[p].parent \in 0..p - 1
    BY <2>1 DEF StoreKept, PlansKept, Ordered
  <2>3. \A c \in Callers : call[c] # NoReport => call[c].planned
    BY DEF PlanningInv, InFlight
  <2>4. checked \subseteq {c \in Callers : call[c] # NoReport} /\ overlapped \subseteq Position
    BY DEF PlanningInv, ReplacedOnce
  <2> QED
    BY <2>2, <2>3, <2>4 DEF PlanningTypeOK
<1> QED
  BY <1>1, ReplacedOnceInductive, PTL

(* ReplansBounded: however the feedback calls of request threads and CLI   *)
(* processes interleave (process_feedback, repository.save), the versions  *)
(* of a plan and those it descends from are counted one by one and end     *)
(* after the replans the policy allows; and a plan is replaced once, but   *)
(* for two saves that were both past _validate_lineage before either       *)
(* published.                                                              *)
THEOREM ReplansTheorem == PlanningSpec => []ReplansBounded
<1>1. PlanningInv /\ ReplacedOnce => ReplansBounded
  <2> SUFFICES ASSUME PlanningInv, ReplacedOnce PROVE ReplansBounded
    OBVIOUS
  <2>1. StoreKept(store) /\ Position = DOMAIN store
    BY StoreTyped DEF PlanningInv
  <2>2. \A p \in Position : Ancestors(p) = Lineage(store, p)
    BY <2>1 DEF Ancestors, Lineage
  <2> QED
    BY <2>1, <2>2 DEF StoreKept, VersionsKept, ReplacedOnce, ReplansBounded
<1> QED
  BY <1>1, ReplacedOnceInductive, PTL

-----------------------------------------------------------------------------
(* Exclusions.                                                              *)

\* The candidate c of a request with these people and this split, under the
\* exclusions ex.
Realized(r, ex, c, people, split) ==
  /\ people = Remaining(r, ex) /\ Placed(r, people, split)
  /\ split \in Splits(r, people, ex.splits)
  /\ c = Candidate(r, people, split, ex) /\ c.valid

(* The candidate of a report is one of those the report could have.        *)
LEMMA ChosenRealized ==
  ASSUME NEW r, RequestTyped(r), NEW ex, NEW c, Chosen(r, ex, c), c # NoCandidate
  PROVE  \E split : Realized(r, ex, c, Remaining(r, ex), split)
<1> DEFINE people == Remaining(r, ex)
<1>1. IsSequence(people) /\ ToSet(people) \subseteq ToSet(r.participants)
  BY RemainingTyped DEF RequestTyped
<1>2. PICK split \in Splits(r, people, ex.splits) : c = Candidate(r, people, split, ex)
  BY DEF Chosen
<1>3. c.valid /\ Len(people) >= 2
  BY DEF Chosen
<1> HIDE DEF people
<1>4. Placed(r, people, split)
  BY <1>1, <1>2, <1>3, CandidatesTyped
<1>5. Realized(r, ex, c, people, split)
  BY <1>2, <1>3, <1>4 DEF Realized, people
<1> QED
  BY <1>5 DEF people

\* The edges of a candidate's graph, in order of c \in Usable.
BackEdge(e) ==
  [e EXCEPT !.from = <<e.to[1], "backward">>, !.to = <<e.from[1], "backward">>,
            !.type = "backward"]
GradientEdge(r, n, bytes) ==
  Edge(r, <<n, "forward">>, <<n, "backward">>, <<>>, bytes, "gradient")
UpdateEdge(r, bytes) ==
  Edge(r, <<1, "backward">>, Aggregation, <<>>, bytes, "aggregation")

Graph(r, parts, lim) ==
  LET fwd == ForwardEdges(r, parts, lim)
  IN  IF r.kind = "training" THEN TrainingEdges(r, parts, fwd) ELSE fwd

(* The parts of a candidate, by name.                                      *)
LEMMA CandidateFields ==
  ASSUME NEW r, NEW people, NEW split, NEW lim
  PROVE  LET c == Candidate(r, people, split, lim)
             parts == Partitions(r, people, split)
             fwd == ForwardEdges(r, parts, lim)
         IN  /\ c.split = split /\ c.parts = parts /\ c.nodes = Nodes(r, parts)
             /\ c.edges = Graph(r, parts, lim)
             /\ c.latency = Rounded(Latency(r, parts, fwd)) /\ c.bytes = TransferBytes(r, fwd)
             /\ c.valid => /\ \A i \in DOMAIN parts : MemoryFits(r, parts[i], lim)
                           /\ Usable(r, parts, lim) = Crossing(r, parts)
                           /\ ~Over(c.bytes, r.maxBytes)
                           /\ ~Over(Latency(r, parts, fwd), r.maxLatency)
             /\ ~c.valid => \/ \E i \in DOMAIN parts : ~MemoryFits(r, parts[i], lim)
                            \/ Usable(r, parts, lim) # Crossing(r, parts)
                            \/ Over(c.bytes, r.maxBytes)
                            \/ Over(Latency(r, parts, fwd), r.maxLatency)
  BY DEF Candidate, Graph

(* The edges of a training step.                                           *)
LEMMA TrainingGraph ==
  ASSUME NEW r, NEW parts, NEW fwd
  PROVE  TrainingEdges(r, parts, fwd)
           = fwd \cup {BackEdge(e) : e \in fwd}
                 \cup {GradientEdge(r, Len(parts), EdgeBytes(fwd)), UpdateEdge(r, EdgeBytes(fwd))}
  BY DEF TrainingEdges, BackEdge, GradientEdge, UpdateEdge

(* The way back of a forward edge.                                         *)
LEMMA EdgeEnds ==
  ASSUME NEW r, NEW parts, NEW c
  PROVE  LET e == ForwardEdge(r, parts, c)
             b == BackEdge(e)
         IN  /\ b.from = <<e.to[1], "backward">> /\ b.to = <<e.from[1], "backward">>
             /\ b.type = "backward"
  BY DEF ForwardEdge, BackEdge, Edge

(* The edge at which a training step turns back.                           *)
LEMMA GradientEnds ==
  ASSUME NEW r, NEW n, NEW bytes
  PROVE  LET g == GradientEdge(r, n, bytes)
         IN  g.from = <<n, "forward">> /\ g.to = <<n, "backward">> /\ g.type = "gradient"
  BY DEF GradientEdge, Edge

(* The edge that ends a training step.                                     *)
LEMMA UpdateEnds ==
  ASSUME NEW r, NEW bytes
  PROVE  LET u == UpdateEdge(r, bytes)
         IN  u.from = <<1, "backward">> /\ u.to = Aggregation /\ u.type = "aggregation"
  BY DEF UpdateEdge, Edge

(* A forward edge of the graph runs over a pair of devices that is usable. *)
LEMMA ForwardOverUsable ==
  ASSUME NEW r, RequestTyped(r), NEW parts, PartsTyped(r, parts), NEW lim,
         NEW e \in Graph(r, parts, lim), e.from[2] = "forward",
         e.type \in {"forward", "aggregation"}
  PROVE  \E c \in Usable(r, parts, lim) :
           /\ e = ForwardEdge(r, parts, c)
           /\ Pair(parts, c) = <<parts[e.from[1]].device,
                                 parts[IF e.to[1] = 0 THEN 1 ELSE e.to[1]].device>>
<1> DEFINE fwd == ForwardEdges(r, parts, lim)
           U == Usable(r, parts, lim)
<1>1. /\ fwd = {ForwardEdge(r, parts, c) : c \in U}
      /\ \A c \in U :
           /\ ForwardEdge(r, parts, c).from = <<c[1], "forward">>
           /\ ForwardEdge(r, parts, c).to
                = IF r.kind = "federated" THEN Aggregation ELSE <<c[2], "forward">>
  BY ForwardEdgesTyped
<1>2. e \in fwd
  <2>1. CASE r.kind = "training"
    <3>1. \/ e \in fwd
          \/ \E c \in U : e = BackEdge(ForwardEdge(r, parts, c))
          \/ e = GradientEdge(r, Len(parts), EdgeBytes(fwd))
          \/ e = UpdateEdge(r, EdgeBytes(fwd))
      BY <1>1, <2>1, TrainingGraph DEF Graph
    <3>2. ASSUME NEW c \in U, e = BackEdge(ForwardEdge(r, parts, c)) PROVE FALSE
      <4>1. e.from[2] = "backward"
        BY <3>2, EdgeEnds
      <4> QED
        BY <4>1
    <3>3. e # GradientEdge(r, Len(parts), EdgeBytes(fwd))
      BY GradientEnds
    <3>4. e # UpdateEdge(r, EdgeBytes(fwd))
      <4>1. UpdateEdge(r, EdgeBytes(fwd)).from = <<1, "backward">>
        BY UpdateEnds
      <4> QED
        BY <4>1
    <3> QED
      BY <3>1, <3>2, <3>3, <3>4
  <2>2. CASE r.kind # "training"
    BY <2>2 DEF Graph
  <2> QED
    BY <2>1, <2>2
<1>3. PICK c \in U : e = ForwardEdge(r, parts, c)
  BY <1>1, <1>2
<1>4. c \in Crossing(r, parts) /\ c[2] \in DOMAIN parts
  BY CrossingFinite
<1>5. c[2] = IF e.to[1] = 0 THEN 1 ELSE e.to[1]
  <2>1. CASE r.kind = "federated"
    <3>1. c[2] = 1
      BY <1>4, <2>1 DEF Crossing, ToAggregator
    <3>2. e.to[1] = 0
      BY <1>1, <1>3, <2>1 DEF Aggregation
    <3> QED
      BY <3>1, <3>2
  <2>2. CASE r.kind # "federated"
    <3>1. e.to[1] = c[2]
      BY <1>1, <1>3, <2>2
    <3>2. c[2] # 0
      BY <1>4 DEF PartsTyped
    <3> QED
      BY <3>1, <3>2
  <2> QED
    BY <2>1, <2>2
<1>6. e.from[1] = c[1]
  <2>1. e.from = <<c[1], "forward">>
    BY <1>1, <1>3
  <2> QED
    BY <2>1
<1>7. Pair(parts, c) = <<parts[e.from[1]].device,
                         parts[IF e.to[1] = 0 THEN 1 ELSE e.to[1]].device>>
  BY <1>5, <1>6 DEF Pair
<1> QED
  BY <1>3, <1>7

(* The plans of the store.                                                 *)
LEMMA SavedPlans ==
  ASSUME StoreKept(store), NEW p \in Position
  PROVE  LET r == store[p].request
             c == store[p].candidate
             ex == store[p].bounded
         IN  /\ RequestTyped(r) /\ Persistable(store[p])
             /\ r = Normalize(store[p].source) /\ store[p].source \in Plannable
             /\ c # NoCandidate /\ store[p].errors = {}
             /\ \E split : Realized(r, ex, c, Remaining(r, ex), split)
<1> DEFINE r == store[p].request
           c == store[p].candidate
           ex == store[p].bounded
<1>1. Made(store[p]) /\ store[p].planned /\ Persistable(store[p])
  BY StoreTyped DEF StoreKept, PlansKept
<1>2. /\ RequestTyped(r) /\ r = Normalize(store[p].source) /\ store[p].source \in Plannable
      /\ Chosen(r, ex, c) /\ Errors(r, c) = {} /\ store[p].errors = {}
  BY <1>1, NormalizeTyped DEF Made
<1>3. c # NoCandidate
  BY <1>2 DEF Errors
<1>4. \E split : Realized(r, ex, c, Remaining(r, ex), split)
  <2> HIDE DEF r, c, ex
  <2> QED
    BY <1>2, <1>3, ChosenRealized
<1> QED
  BY <1>1, <1>2, <1>3, <1>4

(* What a realized candidate leaves out.                                   *)
LEMMA RealizedExcludes ==
  ASSUME NEW r, NEW ex, NEW c, NEW people, NEW split, Realized(r, ex, c, people, split)
  PROVE  /\ \A i \in DOMAIN c.parts : c.parts[i].device \notin ex.devices
         /\ Forward(c) \cap ex.links = {}
         /\ r.kind # "federated" => c.split \notin ex.splits
<1> DEFINE parts == Partitions(r, people, split)
<1>1. Placed(r, people, split) /\ RequestTyped(r) /\ people = Remaining(r, ex)
  BY DEF Realized, Placed
<1>2. /\ PartsTyped(r, parts) /\ Len(parts) = Len(people)
      /\ \A i \in DOMAIN parts : parts[i].device = people[i]
  BY <1>1, PartsOfPlacement
<1>3. c.parts = parts /\ c.split = split /\ c.edges = Graph(r, parts, ex)
  BY CandidateFields DEF Realized
<1> HIDE DEF parts
<1>4. ASSUME NEW i \in DOMAIN parts PROVE parts[i].device \notin ex.devices
  <2>1. DOMAIN people = DOMAIN parts
    BY <1>1, <1>2, SequenceOf DEF PartsTyped, Placed, IsSequence
  <2>2. people[i] \notin ex.devices
    BY <1>1, <2>1, RemainingTyped DEF RequestTyped
  <2> QED
    BY <1>2, <2>2
<1>5. ASSUME NEW e \in c.edges, e.from[2] = "forward", e.type \in {"forward", "aggregation"}
      PROVE  <<c.parts[e.from[1]].device,
               c.parts[IF e.to[1] = 0 THEN 1 ELSE e.to[1]].device>> \notin ex.links
  <2>1. PICK x \in Usable(r, parts, ex) :
          Pair(parts, x) = <<parts[e.from[1]].device,
                             parts[IF e.to[1] = 0 THEN 1 ELSE e.to[1]].device>>
    BY <1>1, <1>2, <1>3, <1>5, ForwardOverUsable
  <2>2. Pair(parts, x) \notin ex.links
    BY DEF Usable
  <2> QED
    BY <1>3, <2>1, <2>2
<1>6. Forward(c) \cap ex.links = {}
  BY <1>5 DEF Forward
<1>7. r.kind # "federated" => split \notin ex.splits
  BY DEF Realized, Splits
<1> QED
  BY <1>3, <1>4, <1>6, <1>7

(* ExclusionsHold: no device, forward link or split that feedback ever     *)
(* excluded in a lineage comes back in a later saved plan of it, whichever *)
(* call saved that one.  The exclusions a call read are those of the leaf  *)
(* it replaces, which _replan merges with the new ones.                    *)
THEOREM ExclusionsTheorem == PlanningSpec => []ExclusionsHold
<1>1. PlanningInv => ExclusionsHold
  <2> SUFFICES ASSUME PlanningInv, NEW p \in Position, NEW q \in Ancestors(p) \cup {p}
               PROVE  LET ex == store[q].directive
                          plan == store[p].candidate
                      IN  /\ {plan.parts[i].device : i \in DOMAIN plan.parts} \cap ex.devices = {}
                          /\ Forward(plan) \cap ex.links = {}
                          /\ store[p].request.kind # "federated" => plan.split \notin ex.splits
    BY DEF ExclusionsHold
  <2> DEFINE r == store[p].request
             c == store[p].candidate
             lim == store[p].bounded
  <2>1. StoreKept(store) /\ Position = DOMAIN store
    BY StoreTyped DEF PlanningInv
  <2>2. q \in Lineage(store, p) \cup {p}
    BY <2>1 DEF Ancestors, Lineage
  <2>3. Includes(lim, store[q].directive)
    BY <2>1, <2>2 DEF StoreKept, ExclusionsKept
  <2>4. PICK split : Realized(r, lim, c, Remaining(r, lim), split)
    BY <2>1, SavedPlans
  <2>5. /\ \A i \in DOMAIN c.parts : c.parts[i].device \notin lim.devices
        /\ Forward(c) \cap lim.links = {}
        /\ r.kind # "federated" => c.split \notin lim.splits
    <3> HIDE DEF r, c, lim
    <3> QED
      BY <2>4, RealizedExcludes
  <2> QED
    BY <2>3, <2>5 DEF Includes
<1> QED
  BY <1>1, PlanningInductive, PTL

-----------------------------------------------------------------------------
(* Devices.                                                                 *)

(* A saved plan names each device once.                                    *)
LEMMA SavedOnce ==
  ASSUME StoreKept(store), NEW p \in Position
  PROVE  Unique(store[p].request.participants)
<1> DEFINE r == store[p].request
           source == store[p].source
<1>1. RoundPlanOk(RoundPlanOf(source)) /\ r = Normalize(source)
  BY SavedPlans DEF Persistable
<1>2. Unique(source.plan.participants)
  BY <1>1 DEF RoundPlanOk, RoundPlanOf
<1>3. r.participants = source.plan.participants
  BY <1>1 DEF Normalize
<1> QED
  BY <1>2, <1>3

(* Memory that a device may give is not negative.                          *)
LEMMA AllowedNat ==
  ASSUME NEW r, RequestTyped(r), NEW d \in DOMAIN r.memory
  PROVE  Allowed(r, d) \in Nat
<1>1. r.memory[d] \in Nat /\ r.headroom \in 0..99
  BY DEF RequestTyped, DevicesTyped
<1>2. 100 - r.headroom \in Nat
  BY <1>1
<1> DEFINE m == r.memory[d]
           k == 100 - r.headroom
<1> HIDE DEF m, k
<1>3. m \in Nat /\ k \in Nat
  BY <1>1, <1>2 DEF m, k
<1>4. m * k \in Nat
  BY <1>3
<1>5. (m * k) \div 100 \in Nat
  BY <1>4, DivNat
<1> QED
  BY <1>5 DEF Allowed, m, k

(* The partitions that a realized candidate puts on one device.            *)
LEMMA RealizedFits ==
  ASSUME NEW r, NEW ex, NEW c, NEW people, NEW split, Realized(r, ex, c, people, split),
         Unique(r.participants), NEW d \in DOMAIN r.memory
  PROVE  SumFunction([i \in {j \in DOMAIN c.parts : c.parts[j].device = d} |-> c.parts[i].memory])
           <= Allowed(r, d)
<1> DEFINE parts == Partitions(r, people, split)
           J == {j \in DOMAIN c.parts : c.parts[j].device = d}
           f == [i \in J |-> c.parts[i].memory]
<1>1. Placed(r, people, split) /\ RequestTyped(r) /\ people = Remaining(r, ex)
  BY DEF Realized, Placed
<1>2. /\ PartsTyped(r, parts) /\ Len(parts) = Len(people)
      /\ \A i \in DOMAIN parts : parts[i].device = people[i]
  BY <1>1, PartsOfPlacement
<1>3. c.parts = parts /\ \A i \in DOMAIN parts : MemoryFits(r, parts[i], ex)
  BY CandidateFields DEF Realized
<1> HIDE DEF parts
<1>4. Unique(people) /\ DOMAIN people = DOMAIN parts
  <2>1. Unique(people)
    BY <1>1, RemainingTyped DEF RequestTyped
  <2>2. DOMAIN people = DOMAIN parts
    BY <1>1, <1>2, SequenceOf DEF PartsTyped, Placed, IsSequence
  <2> QED
    BY <2>1, <2>2
<1>5. \A i, j \in J : i = j
  BY <1>2, <1>3, <1>4 DEF Unique, IsInjective
<1>6. \A i \in J : c.parts[i].memory <= Allowed(r, d) /\ c.parts[i].memory \in Nat
  BY <1>2, <1>3 DEF MemoryFits, PartsTyped
<1>7. Allowed(r, d) \in Nat
  BY <1>1, AllowedNat
<1>8. DOMAIN f = J /\ \A i \in J : f[i] = c.parts[i].memory
  OBVIOUS
<1> HIDE DEF f, J
<1>9. CASE J = {}
  <2>1. SumFunction(f) = 0
    BY <1>8, <1>9, FS_EmptySet, SumNat
  <2> QED
    BY <1>7, <2>1 DEF f, J
<1>10. CASE J # {}
  <2>1. PICK i \in J : TRUE
    BY <1>10
  <2>2. J = {i}
    BY <1>5, <2>1
  <2>3. IsFiniteSet(DOMAIN f) /\ \A x \in DOMAIN f : f[x] \in Nat
    <3>1. IsFiniteSet(J)
      BY <2>2, FS_Singleton
    <3> QED
      BY <1>6, <1>8, <3>1
  <2>4. SumFunction(f) = f[i]
    BY <1>8, <2>2, <2>3, SumNat
  <2> QED
    BY <1>6, <1>8, <2>4 DEF f, J
<1> QED
  BY <1>9, <1>10

(* SavedRespectsDevices: whatever a submission names, what a saved plan    *)
(* puts on a device fits in the memory the device may give.  It needs the  *)
(* validation of repository.save: only the legacy contract it reads the    *)
(* round plan under refuses a participant that is named twice.             *)
THEOREM DevicesTheorem == PlanningSpec => []SavedRespectsDevices
<1>1. PlanningInv => SavedRespectsDevices
  <2> SUFFICES ASSUME PlanningInv, NEW p \in Position, NEW d \in DOMAIN store[p].request.memory
               PROVE  LET r == store[p].request
                          parts == store[p].candidate.parts
                      IN  SumFunction([i \in {j \in DOMAIN parts : parts[j].device = d}
                                         |-> parts[i].memory]) <= Allowed(r, d)
    BY DEF SavedRespectsDevices
  <2> DEFINE r == store[p].request
             c == store[p].candidate
             ex == store[p].bounded
  <2>1. Unique(r.participants) /\ \E split : Realized(r, ex, c, Remaining(r, ex), split)
    BY SavedOnce, SavedPlans DEF PlanningInv
  <2>2. PICK split : Realized(r, ex, c, Remaining(r, ex), split)
    BY <2>1
  <2>3. SumFunction([i \in {j \in DOMAIN c.parts : c.parts[j].device = d} |-> c.parts[i].memory])
          <= Allowed(r, d)
    <3>1. d \in DOMAIN r.memory
      OBVIOUS
    <3> HIDE DEF r, c, ex
    <3> QED
      BY <2>1, <2>2, <3>1, RealizedFits
  <2> QED
    BY <2>3
<1> QED
  BY <1>1, PlanningInductive, PTL

-----------------------------------------------------------------------------
(* The graph of a candidate.                                                *)

\* From where to where, and of what type, the edges over the pairs U run.
ForwardEnds(r, U) ==
  IF r.kind = "federated"
    THEN {<<<<c[1], "forward">>, Aggregation, "aggregation">> : c \in U}
    ELSE {<<<<c[1], "forward">>, <<c[2], "forward">>, "forward">> : c \in U}
BackwardEnds(U) == {<<<<c[2], "backward">>, <<c[1], "backward">>, "backward">> : c \in U}
TurnEnds(n) ==
  {<<<<n, "forward">>, <<n, "backward">>, "gradient">>,
   <<<<1, "backward">>, Aggregation, "aggregation">>}
GraphEnds(r, n, U) ==
  ForwardEnds(r, U) \cup (IF r.kind = "training" THEN BackwardEnds(U) \cup TurnEnds(n) ELSE {})

EndsOf(e) == <<e.from, e.to, e.type>>

(* The forward edges have these ends and no others.                        *)
LEMMA ForwardEndsOf ==
  ASSUME NEW r, RequestTyped(r), NEW parts, PartsTyped(r, parts), NEW lim
  PROVE  {EndsOf(e) : e \in ForwardEdges(r, parts, lim)} = ForwardEnds(r, Usable(r, parts, lim))
<1> DEFINE U == Usable(r, parts, lim)
<1>1. /\ ForwardEdges(r, parts, lim) = {ForwardEdge(r, parts, c) : c \in U}
      /\ \A c \in U :
           /\ ForwardEdge(r, parts, c).from = <<c[1], "forward">>
           /\ ForwardEdge(r, parts, c).to
                = IF r.kind = "federated" THEN Aggregation ELSE <<c[2], "forward">>
           /\ ForwardEdge(r, parts, c).type
                = IF r.kind = "federated" THEN "aggregation" ELSE "forward"
  BY ForwardEdgesTyped
<1> HIDE DEF U
<1>2. CASE r.kind = "federated"
  <2>1. \A c \in U : EndsOf(ForwardEdge(r, parts, c)) = <<<<c[1], "forward">>, Aggregation, "aggregation">>
    BY <1>1, <1>2 DEF EndsOf
  <2>2. \A t : t \in {EndsOf(e) : e \in ForwardEdges(r, parts, lim)}
               <=> \E c \in U : t = EndsOf(ForwardEdge(r, parts, c))
    BY <1>1
  <2>3. \A t : t \in ForwardEnds(r, U)
               <=> \E c \in U : t = <<<<c[1], "forward">>, Aggregation, "aggregation">>
    BY <1>2 DEF ForwardEnds
  <2>4. \A t : t \in {EndsOf(e) : e \in ForwardEdges(r, parts, lim)} <=> t \in ForwardEnds(r, U)
    <3>1. \A t : (\E c \in U : t = EndsOf(ForwardEdge(r, parts, c)))
                 <=> (\E c \in U : t = <<<<c[1], "forward">>, Aggregation, "aggregation">>)
      BY <2>1
    <3> QED
      BY <2>2, <2>3, <3>1
  <2> QED
    BY <2>4, Zenon DEF U
<1>3. CASE r.kind # "federated"
  <2>1. \A c \in U : EndsOf(ForwardEdge(r, parts, c))
                       = <<<<c[1], "forward">>, <<c[2], "forward">>, "forward">>
    BY <1>1, <1>3 DEF EndsOf
  <2>2. \A t : t \in {EndsOf(e) : e \in ForwardEdges(r, parts, lim)}
               <=> \E c \in U : t = EndsOf(ForwardEdge(r, parts, c))
    BY <1>1
  <2>3. \A t : t \in ForwardEnds(r, U)
               <=> \E c \in U : t = <<<<c[1], "forward">>, <<c[2], "forward">>, "forward">>
    BY <1>3 DEF ForwardEnds
  <2>4. \A t : t \in {EndsOf(e) : e \in ForwardEdges(r, parts, lim)} <=> t \in ForwardEnds(r, U)
    <3>1. \A t : (\E c \in U : t = EndsOf(ForwardEdge(r, parts, c)))
                 <=> (\E c \in U : t = <<<<c[1], "forward">>, <<c[2], "forward">>, "forward">>)
      BY <2>1
    <3> QED
      BY <2>2, <2>3, <3>1
  <2> QED
    BY <2>4, Zenon DEF U
<1> QED
  BY <1>2, <1>3

(* The ways back of the forward edges have the ends turned round.          *)
LEMMA BackwardEndsOf ==
  ASSUME NEW r, RequestTyped(r), r.kind # "federated", NEW parts, PartsTyped(r, parts), NEW lim
  PROVE  {EndsOf(BackEdge(e)) : e \in ForwardEdges(r, parts, lim)}
           = BackwardEnds(Usable(r, parts, lim))
<1> DEFINE U == Usable(r, parts, lim)
<1>1. /\ ForwardEdges(r, parts, lim) = {ForwardEdge(r, parts, c) : c \in U}
      /\ \A c \in U :
           /\ ForwardEdge(r, parts, c).from = <<c[1], "forward">>
           /\ ForwardEdge(r, parts, c).to = <<c[2], "forward">>
  BY ForwardEdgesTyped
<1> HIDE DEF U
<1>2. ASSUME NEW c \in U
      PROVE  EndsOf(BackEdge(ForwardEdge(r, parts, c)))
               = <<<<c[2], "backward">>, <<c[1], "backward">>, "backward">>
  <2> DEFINE e == ForwardEdge(r, parts, c)
             b == BackEdge(e)
  <2>1. /\ b.from = <<e.to[1], "backward">> /\ b.to = <<e.from[1], "backward">>
        /\ b.type = "backward"
    BY EdgeEnds
  <2>2. e.to = <<c[2], "forward">> /\ e.from = <<c[1], "forward">>
    BY <1>1
  <2> HIDE DEF e, b
  <2>3. e.to[1] = c[2] /\ e.from[1] = c[1]
    BY <2>2
  <2>4. b.from = <<c[2], "backward">> /\ b.to = <<c[1], "backward">>
    BY <2>1, <2>3
  <2> QED
    BY <2>1, <2>4 DEF EndsOf, e, b
<1>3. \A t : t \in {EndsOf(BackEdge(e)) : e \in ForwardEdges(r, parts, lim)}
             <=> \E c \in U : t = EndsOf(BackEdge(ForwardEdge(r, parts, c)))
  BY <1>1
<1>4. \A t : t \in BackwardEnds(U)
             <=> \E c \in U : t = <<<<c[2], "backward">>, <<c[1], "backward">>, "backward">>
  BY DEF BackwardEnds
<1>5. \A t : t \in {EndsOf(BackEdge(e)) : e \in ForwardEdges(r, parts, lim)} <=> t \in BackwardEnds(U)
  BY <1>2, <1>3, <1>4
<1> QED
  BY <1>5, Zenon DEF U

(* So the ends of all edges are known.                                     *)
LEMMA GraphEndsOf ==
  ASSUME NEW r, RequestTyped(r), NEW parts, PartsTyped(r, parts), NEW lim
  PROVE  {EndsOf(e) : e \in Graph(r, parts, lim)}
           = GraphEnds(r, Len(parts), Usable(r, parts, lim))
<1> DEFINE U == Usable(r, parts, lim)
           fwd == ForwardEdges(r, parts, lim)
           n == Len(parts)
<1>1. {EndsOf(e) : e \in fwd} = ForwardEnds(r, U)
  BY ForwardEndsOf
<1>2. CASE r.kind # "training"
  BY <1>1, <1>2, Zenon DEF Graph, GraphEnds
<1>3. CASE r.kind = "training"
  <2> DEFINE g == GradientEdge(r, n, EdgeBytes(fwd))
             u == UpdateEdge(r, EdgeBytes(fwd))
  <2>1. Graph(r, parts, lim) = fwd \cup {BackEdge(e) : e \in fwd} \cup {g, u}
    BY <1>3, TrainingGraph DEF Graph
  <2>2. {EndsOf(BackEdge(e)) : e \in fwd} = BackwardEnds(U)
    BY <1>3, BackwardEndsOf
  <2>3. {EndsOf(g), EndsOf(u)} = TurnEnds(n)
    <3>1. /\ g.from = <<n, "forward">> /\ g.to = <<n, "backward">> /\ g.type = "gradient"
          /\ u.from = <<1, "backward">> /\ u.to = Aggregation /\ u.type = "aggregation"
      <4> DEFINE bytes == EdgeBytes(fwd)
      <4> HIDE DEF n, bytes
      <4> QED
        BY GradientEnds, UpdateEnds DEF bytes
    <3> HIDE DEF g, u
    <3> QED
      BY <3>1 DEF EndsOf, TurnEnds
  <2> HIDE DEF g, u, fwd, U, n
  <2>4. {EndsOf(e) : e \in Graph(r, parts, lim)}
          = {EndsOf(e) : e \in fwd} \cup {EndsOf(BackEdge(e)) : e \in fwd} \cup {EndsOf(g), EndsOf(u)}
    BY <2>1, Zenon
  <2>5. {EndsOf(e) : e \in Graph(r, parts, lim)}
          = ForwardEnds(r, U) \cup (BackwardEnds(U) \cup TurnEnds(n))
    BY <1>1, <2>2, <2>3, <2>4 DEF fwd
  <2> QED
    BY <1>3, <2>5 DEF GraphEnds, U, n
<1> QED
  BY <1>2, <1>3

(* With every pair usable, they are the ends of the contract.              *)
LEMMA AsContracted ==
  ASSUME NEW r, RequestTyped(r), NEW c, PartsTyped(r, c.parts), NEW lim,
         c.edges = Graph(r, c.parts, lim), Usable(r, c.parts, lim) = Crossing(r, c.parts)
  PROVE  EdgesAsContracted(r, c)
<1> DEFINE parts == c.parts
           n == Len(parts)
           U == Usable(r, parts, lim)
           actual == {<<e.from, e.to, e.type>> : e \in c.edges}
<1>1. actual = GraphEnds(r, n, U)
  <2>1. actual = {EndsOf(e) : e \in Graph(r, parts, lim)}
    BY DEF EndsOf
  <2> QED
    BY <2>1, GraphEndsOf
<1>2. U = Crossing(r, parts)
  OBVIOUS
<1> HIDE DEF U, n
<1>3. CASE r.kind = "federated"
  <2>1. U = {<<i, 1>> : i \in 2..n}
    BY <1>2, <1>3 DEF Crossing, ToAggregator, n
  <2>2. ForwardEnds(r, U) = {<<<<i, "forward">>, Aggregation, "aggregation">> : i \in 2..n}
    <3>1. \A t : t \in ForwardEnds(r, U)
                 <=> \E x \in U : t = <<<<x[1], "forward">>, Aggregation, "aggregation">>
      BY <1>3 DEF ForwardEnds
    <3>2. \A t : (\E x \in U : t = <<<<x[1], "forward">>, Aggregation, "aggregation">>)
                 <=> \E i \in 2..n : t = <<<<i, "forward">>, Aggregation, "aggregation">>
      <4>1. \A x \in U : \E i \in 2..n : x[1] = i
        BY <2>1
      <4>2. \A i \in 2..n : \E x \in U : x[1] = i
        <5>1. \A i \in 2..n : <<i, 1>> \in U /\ <<i, 1>>[1] = i
          BY <2>1
        <5> QED
          BY <5>1
      <4> QED
        BY <4>1, <4>2
    <3>3. \A t : t \in ForwardEnds(r, U)
                 <=> t \in {<<<<i, "forward">>, Aggregation, "aggregation">> : i \in 2..n}
      BY <3>1, <3>2
    <3> QED
      BY <3>3, Zenon
  <2>3. GraphEnds(r, n, U) = ExpectedEdges(r, c)
    BY <1>3, <2>2 DEF GraphEnds, ExpectedEdges, n
  <2> QED
    BY <1>1, <1>3, <2>3 DEF EdgesAsContracted, Training
<1>4. CASE r.kind # "federated"
  <2> DEFINE chain == 1..n - 1
  <2>1. U = {<<i, i + 1>> : i \in chain}
    BY <1>2, <1>4 DEF Crossing, Chained, n
  <2> HIDE DEF chain
  <2>2. ForwardEnds(r, U) = {<<<<i, "forward">>, <<i + 1, "forward">>, "forward">> : i \in chain}
    <3>1. \A t : t \in ForwardEnds(r, U)
                 <=> \E x \in U : t = <<<<x[1], "forward">>, <<x[2], "forward">>, "forward">>
      BY <1>4 DEF ForwardEnds
    <3>2. \A t : (\E x \in U : t = <<<<x[1], "forward">>, <<x[2], "forward">>, "forward">>)
                 <=> \E i \in chain : t = <<<<i, "forward">>, <<i + 1, "forward">>, "forward">>
      <4>1. \A x \in U : \E i \in chain : x[1] = i /\ x[2] = i + 1
        BY <2>1
      <4>2. \A i \in chain : \E x \in U : x[1] = i /\ x[2] = i + 1
        <5>1. \A i \in chain : <<i, i + 1>> \in U /\ <<i, i + 1>>[1] = i /\ <<i, i + 1>>[2] = i + 1
          BY <2>1
        <5> QED
          BY <5>1
      <4> QED
        BY <4>1, <4>2
    <3>3. \A t : t \in ForwardEnds(r, U)
                 <=> t \in {<<<<i, "forward">>, <<i + 1, "forward">>, "forward">> : i \in chain}
      BY <3>1, <3>2
    <3> QED
      BY <3>3, Zenon
  <2>3. BackwardEnds(U) = {<<<<i + 1, "backward">>, <<i, "backward">>, "backward">> : i \in chain}
    <3>1. \A t : t \in BackwardEnds(U)
                 <=> \E x \in U : t = <<<<x[2], "backward">>, <<x[1], "backward">>, "backward">>
      BY DEF BackwardEnds
    <3>2. \A t : (\E x \in U : t = <<<<x[2], "backward">>, <<x[1], "backward">>, "backward">>)
                 <=> \E i \in chain : t = <<<<i + 1, "backward">>, <<i, "backward">>, "backward">>
      <4>1. \A x \in U : \E i \in chain : x[1] = i /\ x[2] = i + 1
        BY <2>1
      <4>2. \A i \in chain : \E x \in U : x[1] = i /\ x[2] = i + 1
        <5>1. \A i \in chain : <<i, i + 1>> \in U /\ <<i, i + 1>>[1] = i /\ <<i, i + 1>>[2] = i + 1
          BY <2>1
        <5> QED
          BY <5>1
      <4> QED
        BY <4>1, <4>2
    <3>3. \A t : t \in BackwardEnds(U)
                 <=> t \in {<<<<i + 1, "backward">>, <<i, "backward">>, "backward">> : i \in chain}
      BY <3>1, <3>2
    <3> QED
      BY <3>3, Zenon
  <2>4. CASE r.kind = "training"
    <3>1. GraphEnds(r, n, U) = ExpectedEdges(r, c)
      BY <2>2, <2>3, <2>4 DEF GraphEnds, ExpectedEdges, TurnEnds, chain, n
    <3> QED
      BY <1>1, <2>4, <3>1 DEF EdgesAsContracted, Training
  <2>5. CASE r.kind # "training"
    <3>1. GraphEnds(r, n, U) = ExpectedEdges(r, c)
      BY <1>4, <2>2, <2>5 DEF GraphEnds, ExpectedEdges, chain, n
    <3> QED
      BY <1>1, <1>4, <2>5, <3>1 DEF EdgesAsContracted, Training
  <2> QED
    BY <2>4, <2>5
<1> QED
  BY <1>3, <1>4

\* The device a node runs on; the aggregation runs where the first one does.
DeviceOf(parts, n) == parts[IF n[1] = 0 THEN 1 ELSE n[1]].device

(* The nodes of the graph, and the device of each.                         *)
LEMMA ForwardNode ==
  ASSUME NEW r, NEW parts, PartsTyped(r, parts), NEW i \in DOMAIN parts, NEW n, n = <<i, "forward">>
  PROVE  <<n, DeviceOf(parts, n)>> \in Nodes(r, parts) /\ DeviceOf(parts, n) = parts[i].device
<1>1. i # 0 /\ n[1] = i
  BY DEF PartsTyped
<1>2. DeviceOf(parts, n) = parts[i].device
  BY <1>1 DEF DeviceOf
<1>3. <<<<i, "forward">>, parts[i].device>> \in Nodes(r, parts)
  BY DEF Nodes
<1> QED
  BY <1>2, <1>3

(* A backward node runs where the forward node of its partition does.      *)
LEMMA BackwardNode ==
  ASSUME NEW r, r.kind = "training", NEW parts, PartsTyped(r, parts), NEW i \in DOMAIN parts,
         NEW n, n = <<i, "backward">>
  PROVE  <<n, DeviceOf(parts, n)>> \in Nodes(r, parts) /\ DeviceOf(parts, n) = parts[i].device
<1>1. i # 0 /\ n[1] = i
  BY DEF PartsTyped
<1>2. DeviceOf(parts, n) = parts[i].device
  BY <1>1 DEF DeviceOf
<1>3. <<<<i, "backward">>, parts[i].device>> \in Nodes(r, parts)
  BY DEF Nodes
<1> QED
  BY <1>2, <1>3

(* The aggregation runs where the first partition does.                    *)
LEMMA AggregationNode ==
  ASSUME NEW r, Training(r), NEW parts, NEW n, n = Aggregation
  PROVE  <<n, DeviceOf(parts, n)>> \in Nodes(r, parts) /\ DeviceOf(parts, n) = parts[1].device
<1>1. n[1] = 0
  BY DEF Aggregation
<1>2. DeviceOf(parts, n) = parts[1].device
  BY <1>1 DEF DeviceOf
<1>3. <<Aggregation, parts[1].device>> \in Nodes(r, parts)
  BY DEF Nodes
<1> QED
  BY <1>2, <1>3

(* Each node is on one device.                                             *)
LEMMA NodeDevice ==
  ASSUME NEW r, NEW parts, PartsTyped(r, parts), NEW n, NEW d, <<n, d>> \in Nodes(r, parts)
  PROVE  d = DeviceOf(parts, n) /\ d \in DOMAIN r.memory
<1> DEFINE x == <<n, d>>
<1>1. \A i \in DOMAIN parts : parts[i].device \in DOMAIN r.memory
  BY DEF PartsTyped
<1>2. 1 \in DOMAIN parts
  BY DEF PartsTyped
<1>3. \/ \E i \in DOMAIN parts : x = <<<<i, "forward">>, parts[i].device>>
      \/ \E i \in DOMAIN parts : x = <<<<i, "backward">>, parts[i].device>>
      \/ x = <<Aggregation, parts[1].device>>
  BY DEF Nodes
<1>4. ASSUME NEW i \in DOMAIN parts, NEW phase, x = <<<<i, phase>>, parts[i].device>>
      PROVE  d = DeviceOf(parts, n) /\ d \in DOMAIN r.memory
  <2>1. n = <<i, phase>> /\ d = parts[i].device
    BY <1>4
  <2>2. i # 0 /\ n[1] = i
    BY <2>1 DEF PartsTyped
  <2> QED
    BY <1>1, <2>1, <2>2 DEF DeviceOf
<1>5. CASE x = <<Aggregation, parts[1].device>>
  <2>1. n = Aggregation /\ d = parts[1].device
    BY <1>5
  <2>2. n[1] = 0
    BY <2>1 DEF Aggregation
  <2> QED
    BY <1>1, <1>2, <2>1, <2>2 DEF DeviceOf
<1> HIDE DEF x
<1> QED
  BY <1>3, <1>4, <1>5

\* What an edge with ends t needs of the links.
Linked(r, parts, t) ==
  LET d == DeviceOf(parts, t[1])
      e == DeviceOf(parts, t[2])
  IN  \/ d = e \/ <<d, e>> \in DOMAIN r.link
      \/ Training(r) /\ t[3] = "backward" /\ <<e, d>> \in DOMAIN r.link

(* Every end of the graph is a node, and every edge has its link.          *)
LEMMA EndsLinked ==
  ASSUME NEW r, RequestTyped(r), NEW parts, PartsTyped(r, parts), NEW lim,
         NEW t \in GraphEnds(r, Len(parts), Usable(r, parts, lim))
  PROVE  /\ <<t[1], DeviceOf(parts, t[1])>> \in Nodes(r, parts)
         /\ <<t[2], DeviceOf(parts, t[2])>> \in Nodes(r, parts)
         /\ Linked(r, parts, t)
<1> DEFINE U == Usable(r, parts, lim)
           n == Len(parts)
<1>1. \A c \in U : /\ c[1] \in DOMAIN parts /\ c[2] \in DOMAIN parts
                   /\ <<parts[c[1]].device, parts[c[2]].device>> \in DOMAIN r.link
                   /\ r.kind = "federated" => c[2] = 1
  <2>1. \A c \in U : c \in Crossing(r, parts) /\ Pair(parts, c) \in DOMAIN r.link
    BY DEF Usable
  <2>2. \A c \in Crossing(r, parts) :
          /\ c[1] \in DOMAIN parts /\ c[2] \in DOMAIN parts
          /\ r.kind = "federated" => c[2] = 1
    BY CrossingFinite DEF Crossing, ToAggregator
  <2> QED
    BY <2>1, <2>2 DEF Pair
<1>2. n \in DOMAIN parts /\ 1 \in DOMAIN parts
  BY DEF PartsTyped
<1>7. t \in ForwardEnds(r, U) \/ (r.kind = "training" /\ (t \in BackwardEnds(U) \/ t \in TurnEnds(n)))
  <2>1. t \in GraphEnds(r, n, U)
    OBVIOUS
  <2> HIDE DEF U, n
  <2>2. CASE r.kind = "training"
    BY <2>1, <2>2 DEF GraphEnds
  <2>3. CASE r.kind # "training"
    BY <2>1, <2>3 DEF GraphEnds
  <2> QED
    BY <2>2, <2>3
<1> HIDE DEF U, n
<1>3. CASE t \in ForwardEnds(r, U) /\ r.kind = "federated"
  <2>1. PICK c \in U : t = <<<<c[1], "forward">>, Aggregation, "aggregation">>
    BY <1>3 DEF ForwardEnds
  <2>2. t[1] = <<c[1], "forward">> /\ t[2] = Aggregation
    BY <2>1
  <2>3. Training(r)
    BY <1>3 DEF Training
  <2>4. /\ DeviceOf(parts, t[1]) = parts[c[1]].device /\ DeviceOf(parts, t[2]) = parts[c[2]].device
        /\ <<t[1], DeviceOf(parts, t[1])>> \in Nodes(r, parts)
        /\ <<t[2], DeviceOf(parts, t[2])>> \in Nodes(r, parts)
    <3>1. c[1] \in DOMAIN parts /\ c[2] \in DOMAIN parts
      BY <1>1
    <3>2. DeviceOf(parts, t[1]) = parts[c[1]].device /\ <<t[1], DeviceOf(parts, t[1])>> \in Nodes(r, parts)
      BY <2>2, <3>1, ForwardNode
    <3>3. DeviceOf(parts, t[2]) = parts[c[2]].device /\ <<t[2], DeviceOf(parts, t[2])>> \in Nodes(r, parts)
      BY <1>1, <1>3, <2>2, <2>3, <3>1, AggregationNode
    <3> QED
      BY <3>2, <3>3
  <2> QED
    BY <1>1, <2>4 DEF Linked
<1>4. CASE t \in ForwardEnds(r, U) /\ r.kind # "federated"
  <2>1. PICK c \in U : t = <<<<c[1], "forward">>, <<c[2], "forward">>, "forward">>
    BY <1>4 DEF ForwardEnds
  <2>2. t[1] = <<c[1], "forward">> /\ t[2] = <<c[2], "forward">>
    BY <2>1
  <2>3. /\ DeviceOf(parts, t[1]) = parts[c[1]].device /\ DeviceOf(parts, t[2]) = parts[c[2]].device
        /\ <<t[1], DeviceOf(parts, t[1])>> \in Nodes(r, parts)
        /\ <<t[2], DeviceOf(parts, t[2])>> \in Nodes(r, parts)
    <3>1. c[1] \in DOMAIN parts /\ c[2] \in DOMAIN parts
      BY <1>1
    <3>2. DeviceOf(parts, t[1]) = parts[c[1]].device /\ <<t[1], DeviceOf(parts, t[1])>> \in Nodes(r, parts)
      BY <2>2, <3>1, ForwardNode
    <3>3. DeviceOf(parts, t[2]) = parts[c[2]].device /\ <<t[2], DeviceOf(parts, t[2])>> \in Nodes(r, parts)
      BY <2>2, <3>1, ForwardNode
    <3> QED
      BY <3>2, <3>3
  <2> QED
    BY <1>1, <2>3 DEF Linked
<1>5. CASE t \in BackwardEnds(U) /\ r.kind = "training"
  <2>1. PICK c \in U : t = <<<<c[2], "backward">>, <<c[1], "backward">>, "backward">>
    BY <1>5 DEF BackwardEnds
  <2>2. t[1] = <<c[2], "backward">> /\ t[2] = <<c[1], "backward">> /\ t[3] = "backward"
    BY <2>1
  <2>3. /\ DeviceOf(parts, t[1]) = parts[c[2]].device /\ DeviceOf(parts, t[2]) = parts[c[1]].device
        /\ <<t[1], DeviceOf(parts, t[1])>> \in Nodes(r, parts)
        /\ <<t[2], DeviceOf(parts, t[2])>> \in Nodes(r, parts)
    <3>1. c[1] \in DOMAIN parts /\ c[2] \in DOMAIN parts
      BY <1>1
    <3>2. DeviceOf(parts, t[1]) = parts[c[2]].device /\ <<t[1], DeviceOf(parts, t[1])>> \in Nodes(r, parts)
      BY <1>5, <2>2, <3>1, BackwardNode
    <3>3. DeviceOf(parts, t[2]) = parts[c[1]].device /\ <<t[2], DeviceOf(parts, t[2])>> \in Nodes(r, parts)
      BY <1>5, <2>2, <3>1, BackwardNode
    <3> QED
      BY <3>2, <3>3
  <2> QED
    BY <1>1, <1>5, <2>2, <2>3 DEF Linked, Training
<1>6. CASE t \in TurnEnds(n) /\ r.kind = "training"
  <2>1. Training(r)
    BY <1>6 DEF Training
  <2>2. CASE t = <<<<n, "forward">>, <<n, "backward">>, "gradient">>
    <3>1. t[1] = <<n, "forward">> /\ t[2] = <<n, "backward">>
      BY <2>2
    <3>2. /\ DeviceOf(parts, t[1]) = DeviceOf(parts, t[2])
          /\ <<t[1], DeviceOf(parts, t[1])>> \in Nodes(r, parts)
          /\ <<t[2], DeviceOf(parts, t[2])>> \in Nodes(r, parts)
      BY <1>2, <1>6, <3>1, ForwardNode, BackwardNode
    <3> QED
      BY <3>2 DEF Linked
  <2>3. CASE t = <<<<1, "backward">>, Aggregation, "aggregation">>
    <3>1. t[1] = <<1, "backward">> /\ t[2] = Aggregation
      BY <2>3
    <3>2. /\ DeviceOf(parts, t[1]) = DeviceOf(parts, t[2])
          /\ <<t[1], DeviceOf(parts, t[1])>> \in Nodes(r, parts)
          /\ <<t[2], DeviceOf(parts, t[2])>> \in Nodes(r, parts)
      BY <1>2, <1>6, <2>1, <3>1, AggregationNode, BackwardNode
    <3> QED
      BY <3>2 DEF Linked
  <2> QED
    BY <1>6, <2>2, <2>3 DEF TurnEnds
<1> QED
  BY <1>3, <1>4, <1>5, <1>6, <1>7

(* So the validator finds a link for each edge.                            *)
LEMMA LinksFound ==
  ASSUME NEW r, RequestTyped(r), NEW c, PartsTyped(r, c.parts), NEW lim,
         c.edges = Graph(r, c.parts, lim), c.nodes = Nodes(r, c.parts)
  PROVE  \A e \in c.edges : LinkExists(r, c, e)
<1> DEFINE parts == c.parts
           dev(n) == CHOOSE d \in DOMAIN r.memory : <<n, d>> \in c.nodes
<1>1. ASSUME NEW n, <<n, DeviceOf(parts, n)>> \in Nodes(r, parts)
      PROVE  dev(n) = DeviceOf(parts, n)
  <2>1. DeviceOf(parts, n) \in DOMAIN r.memory
    BY <1>1, NodeDevice
  <2>2. \A d : <<n, d>> \in c.nodes => d = DeviceOf(parts, n)
    BY NodeDevice
  <2> QED
    BY <1>1, <2>1, <2>2
<1>2. ASSUME NEW e \in c.edges PROVE LinkExists(r, c, e)
  <2>1. EndsOf(e) \in GraphEnds(r, Len(parts), Usable(r, parts, lim))
    <3>1. EndsOf(e) \in {EndsOf(x) : x \in Graph(r, parts, lim)}
      OBVIOUS
    <3> QED
      BY <3>1, GraphEndsOf
  <2>2. EndsOf(e)[1] = e.from /\ EndsOf(e)[2] = e.to /\ EndsOf(e)[3] = e.type
    BY DEF EndsOf
  <2>3. /\ <<e.from, DeviceOf(parts, e.from)>> \in Nodes(r, parts)
        /\ <<e.to, DeviceOf(parts, e.to)>> \in Nodes(r, parts)
        /\ Linked(r, parts, EndsOf(e))
    BY <2>1, <2>2, EndsLinked
  <2>4. dev(e.from) = DeviceOf(parts, e.from) /\ dev(e.to) = DeviceOf(parts, e.to)
    BY <1>1, <2>3
  <2>5. LET p == <<dev(e.from), dev(e.to)>>
        IN  \/ p[1] = p[2] \/ p \in DOMAIN r.link
            \/ Training(r) /\ e.type = "backward" /\ <<p[2], p[1]>> \in DOMAIN r.link
    <3> HIDE DEF dev
    <3> QED
      BY <2>2, <2>3, <2>4 DEF Linked
  <2> QED
    BY <2>5 DEF LinkExists
<1> QED
  BY <1>2

\* A step of the graph goes up in height: out along the forward nodes, back
\* along the backward ones, and last to the aggregation.
Height(n, m) ==
  IF n[2] = "forward" THEN n[1]
  ELSE IF n[2] = "backward" THEN 2 * m + 1 - n[1]
  ELSE 2 * m + 1

(* Every edge goes up in height.                                           *)
LEMMA HeightRises ==
  ASSUME NEW r, NEW parts, PartsTyped(r, parts), NEW lim,
         NEW t \in GraphEnds(r, Len(parts), Usable(r, parts, lim))
  PROVE  Height(t[1], Len(parts)) < Height(t[2], Len(parts))
<1> DEFINE U == Usable(r, parts, lim)
           n == Len(parts)
<1>1. DOMAIN parts = 1..n /\ n \in Nat /\ n >= 2
  BY DEF PartsTyped
<1>2. \A c \in U : c \in Crossing(r, parts) /\ c[1] \in 1..n /\ c[2] \in 1..n
  BY <1>1, CrossingFinite
<1>3. \A c \in U : r.kind # "federated" => c[2] = c[1] + 1
  BY <1>1, <1>2 DEF Crossing, Chained
<1>4. t \in ForwardEnds(r, U) \/ (r.kind = "training" /\ (t \in BackwardEnds(U) \/ t \in TurnEnds(n)))
  <2>1. t \in GraphEnds(r, n, U)
    OBVIOUS
  <2> HIDE DEF U, n
  <2>2. CASE r.kind = "training"
    BY <2>1, <2>2 DEF GraphEnds
  <2>3. CASE r.kind # "training"
    BY <2>1, <2>3 DEF GraphEnds
  <2> QED
    BY <2>2, <2>3
<1> HIDE DEF U, n
<1>5. CASE t \in ForwardEnds(r, U) /\ r.kind = "federated"
  <2>1. PICK c \in U : t = <<<<c[1], "forward">>, Aggregation, "aggregation">>
    BY <1>5 DEF ForwardEnds
  <2>2. t[1] = <<c[1], "forward">> /\ t[2] = <<0, "aggregation">>
    BY <2>1 DEF Aggregation
  <2>3. Height(t[1], n) = c[1] /\ Height(t[2], n) = 2 * n + 1
    BY <2>2 DEF Height
  <2>4. c[1] \in 1..n
    BY <1>2
  <2> QED
    BY <1>1, <2>3, <2>4 DEF n
<1>6. CASE t \in ForwardEnds(r, U) /\ r.kind # "federated"
  <2>1. PICK c \in U : t = <<<<c[1], "forward">>, <<c[2], "forward">>, "forward">>
    BY <1>6 DEF ForwardEnds
  <2>2. t[1] = <<c[1], "forward">> /\ t[2] = <<c[2], "forward">>
    BY <2>1
  <2>3. Height(t[1], n) = c[1] /\ Height(t[2], n) = c[2]
    BY <2>2 DEF Height
  <2>4. c[1] \in 1..n /\ c[2] = c[1] + 1
    BY <1>2, <1>3, <1>6
  <2> QED
    BY <1>1, <2>3, <2>4 DEF n
<1>7. CASE t \in BackwardEnds(U) /\ r.kind = "training"
  <2>1. PICK c \in U : t = <<<<c[2], "backward">>, <<c[1], "backward">>, "backward">>
    BY <1>7 DEF BackwardEnds
  <2>2. t[1] = <<c[2], "backward">> /\ t[2] = <<c[1], "backward">>
    BY <2>1
  <2>3. Height(t[1], n) = 2 * n + 1 - c[2] /\ Height(t[2], n) = 2 * n + 1 - c[1]
    BY <2>2 DEF Height
  <2>4. c[1] \in 1..n /\ c[2] = c[1] + 1
    BY <1>2, <1>3, <1>7
  <2> QED
    BY <1>1, <2>3, <2>4 DEF n
<1>8. CASE t = <<<<n, "forward">>, <<n, "backward">>, "gradient">>
  <2>1. t[1] = <<n, "forward">> /\ t[2] = <<n, "backward">>
    BY <1>8
  <2>2. Height(t[1], n) = n /\ Height(t[2], n) = 2 * n + 1 - n
    BY <2>1 DEF Height
  <2> QED
    BY <1>1, <2>2 DEF n
<1>9. CASE t = <<<<1, "backward">>, Aggregation, "aggregation">>
  <2>1. t[1] = <<1, "backward">> /\ t[2] = <<0, "aggregation">>
    BY <1>9 DEF Aggregation
  <2>2. Height(t[1], n) = 2 * n + 1 - 1 /\ Height(t[2], n) = 2 * n + 1
    BY <2>1 DEF Height
  <2> QED
    BY <1>1, <2>2 DEF n
<1>10. t \in TurnEnds(n) => \/ t = <<<<n, "forward">>, <<n, "backward">>, "gradient">>
                            \/ t = <<<<1, "backward">>, Aggregation, "aggregation">>
  BY DEF TurnEnds
<1> QED
  BY <1>4, <1>5, <1>6, <1>7, <1>8, <1>9, <1>10

(* So the graph has no cycle.                                              *)
LEMMA NoCycle ==
  ASSUME NEW r, RequestTyped(r), NEW c, PartsTyped(r, c.parts), NEW lim,
         c.edges = Graph(r, c.parts, lim), c.nodes = Nodes(r, c.parts)
  PROVE  Acyclic(c)
<1> DEFINE parts == c.parts
           n == Len(parts)
<1>1. DOMAIN parts = 1..n /\ n \in Nat /\ n >= 2
  BY DEF PartsTyped
<1>2. ASSUME NEW e \in c.edges PROVE Height(e.from, n) < Height(e.to, n)
  <2>1. EndsOf(e) \in GraphEnds(r, n, Usable(r, parts, lim))
    <3>1. EndsOf(e) \in {EndsOf(x) : x \in Graph(r, parts, lim)}
      OBVIOUS
    <3> QED
      BY <3>1, GraphEndsOf
  <2>2. EndsOf(e)[1] = e.from /\ EndsOf(e)[2] = e.to
    BY DEF EndsOf
  <2> QED
    BY <2>1, <2>2, HeightRises
<1>3. ASSUME NEW x \in c.nodes PROVE Height(x[1], n) \in 1..2 * n + 1
  <2>1. \/ \E i \in DOMAIN parts : x[1] = <<i, "forward">>
        \/ \E i \in DOMAIN parts : x[1] = <<i, "backward">>
        \/ x[1] = Aggregation
    <3>1. \/ \E i \in DOMAIN parts : x = <<<<i, "forward">>, parts[i].device>>
          \/ \E i \in DOMAIN parts : x = <<<<i, "backward">>, parts[i].device>>
          \/ x = <<Aggregation, parts[1].device>>
      BY DEF Nodes
    <3> QED
      BY <3>1
  <2> HIDE DEF n
  <2>2. CASE \E i \in DOMAIN parts : x[1] = <<i, "forward">>
    <3>1. PICK i \in 1..n : x[1] = <<i, "forward">>
      BY <1>1, <2>2
    <3>2. Height(x[1], n) = i
      BY <3>1 DEF Height
    <3> QED
      BY <1>1, <3>2
  <2>3. CASE \E i \in DOMAIN parts : x[1] = <<i, "backward">>
    <3>1. PICK i \in 1..n : x[1] = <<i, "backward">>
      BY <1>1, <2>3
    <3>2. Height(x[1], n) = 2 * n + 1 - i
      BY <3>1 DEF Height
    <3> QED
      BY <1>1, <3>2
  <2>4. CASE x[1] = Aggregation
    <3>1. Height(x[1], n) = 2 * n + 1
      BY <2>4 DEF Height, Aggregation
    <3> QED
      BY <1>1, <3>1
  <2> QED
    BY <2>1, <2>2, <2>3, <2>4
<1>4. ASSUME NEW S \in SUBSET {x[1] : x \in c.nodes}, S # {}
      PROVE  \E x \in S : \A e \in c.edges : e.from = x => e.to \notin S
  <2> DEFINE R == {Height(x, n) : x \in S}
  <2> HIDE DEF n
  <2>1. R \in SUBSET (1..2 * n + 1) /\ R # {}
    BY <1>3, <1>4
  <2>2. IsFiniteSet(R) /\ R \in SUBSET Int
    <3>1. 2 * n + 1 \in Nat
      BY <1>1
    <3>2. IsFiniteSet(1..2 * n + 1)
      BY <3>1, IntervalSize
    <3>3. 1..2 * n + 1 \subseteq Int
      OBVIOUS
    <3> HIDE DEF R
    <3>4. IsFiniteSet(R)
      BY <2>1, <3>2, FS_Subset
    <3> QED
      BY <2>1, <3>3, <3>4
  <2>3. \E m \in R : \A k \in R : k <= m
    <3> HIDE DEF R
    <3> QED
      BY <2>1, <2>2, Extremes
  <2>4. PICK x \in S : \A y \in S : Height(y, n) <= Height(x, n)
    BY <2>3
  <2>5. \A y \in S : Height(y, n) \in Int
    BY <2>2
  <2>6. \A e \in c.edges : e.from = x => e.to \notin S
    BY <1>2, <2>4, <2>5 DEF n
  <2> QED
    BY <2>6
<1> QED
  BY <1>4 DEF Acyclic

-----------------------------------------------------------------------------
(* What the validator finds.                                                *)

(* The layers of a candidate, as the validator looks at them.              *)
LEMMA CandidateCovers ==
  ASSUME NEW r, NEW people, NEW split, Placed(r, people, split), NEW lim,
         r.kind = "federated" => Len(people) = Len(r.participants)
  PROVE  LayersCovered(r, Candidate(r, people, split, lim))
<1> DEFINE c == Candidate(r, people, split, lim)
           parts == Partitions(r, people, split)
           n == Len(people)
<1>1. c.parts = parts
  BY CandidateFields
<1>2. /\ PartsTyped(r, parts) /\ Len(parts) = n
      /\ \A i \in DOMAIN parts :
           parts[i].layers = IF r.kind = "federated" THEN DOMAIN r.layers ELSE Slice(r, split, i)
  BY PartsOfPlacement
<1>3. DOMAIN parts = 1..n /\ n \in Nat /\ n >= 2
  BY <1>2 DEF PartsTyped
<1>4. CASE r.kind = "federated"
  BY <1>1, <1>2, <1>4 DEF LayersCovered
<1>5. CASE r.kind # "federated"
  <2>1. /\ LayersTyped(r.layers) /\ r.layers # <<>>
        /\ split \in SUBSET (1..Len(r.layers) - 1) /\ Cardinality(split) = n - 1
    BY <1>5 DEF Placed, RequestTyped, EarlyFeasible
  <2>2. n \in Nat \ {0}
    BY <1>3
  <2> HIDE DEF n, parts, c
  <2>3. /\ \A l \in DOMAIN r.layers : \E i \in 1..n : l \in Slice(r, split, i)
        /\ \A i, j \in 1..n : i < j =>
             \A k \in Slice(r, split, i), l \in Slice(r, split, j) : k < l
    BY <2>1, <2>2, SlicesCover
  <2>4. \A i \in 1..n : parts[i].layers = Slice(r, split, i) /\ parts[i].layers \subseteq DOMAIN r.layers
    BY <1>2, <1>3, <1>5 DEF PartsTyped
  <2>5. UNION {parts[i].layers : i \in DOMAIN parts} = DOMAIN r.layers
    <3>1. \A l : l \in UNION {parts[i].layers : i \in DOMAIN parts} <=> \E i \in 1..n : l \in parts[i].layers
      BY <1>3
    <3>2. \A l : (\E i \in 1..n : l \in parts[i].layers) <=> l \in DOMAIN r.layers
      BY <2>3, <2>4
    <3> QED
      BY <3>1, <3>2, Zenon
  <2>6. \A i, j \in DOMAIN parts : i < j =>
          \A k \in parts[i].layers, l \in parts[j].layers : k < l
    BY <1>3, <2>3, <2>4
  <2> QED
    BY <1>1, <2>5, <2>6 DEF LayersCovered, c
<1> QED
  BY <1>4, <1>5

\* All that the validator asks of the structure but the coverage of layers, the
\* time with the allowance of its rounding.
Structured(r, c) ==
  /\ \A i \in DOMAIN c.parts : c.parts[i].layers # {}
  /\ \A i \in DOMAIN c.parts : c.parts[i].device \in ToSet(r.participants)
  /\ \A i \in DOMAIN c.parts : MemoryRight(r, c.parts[i])
  /\ c.nodes = Nodes(r, c.parts)
  /\ \A e \in c.edges : LinkExists(r, c, e)
  /\ EdgesAsContracted(r, c) /\ Acyclic(c)
  /\ Over(c.latency, r.maxLatency) => Borderline(r, c)
  /\ ~Over(c.bytes, r.maxBytes)

(* What is structured has no error but coverage and the rounded time.      *)
LEMMA StructureFine ==
  ASSUME NEW r, NEW c, Structured(r, c), NEW x \in StructureErrors(r, c)
  PROVE  \/ x = "layer_coverage_mismatch" /\ ~LayersCovered(r, c)
         \/ x = "latency_slo_exceeded" /\ Borderline(r, c)
BY DEF StructureErrors, Structured

(* What the agent found valid is so structured.                            *)
LEMMA RealizedStructured ==
  ASSUME NEW r, NEW ex, NEW c, NEW people, NEW split, Realized(r, ex, c, people, split)
  PROVE  /\ Structured(r, c) /\ PartsTyped(r, c.parts)
         /\ Usable(r, c.parts, ex) = Crossing(r, c.parts)
<1> DEFINE parts == Partitions(r, people, split)
<1>1. RequestTyped(r) /\ Placed(r, people, split) /\ c.valid
  BY DEF Realized, Placed
<1>2. PartsTyped(r, parts)
  BY <1>1, PartsOfPlacement
<1>3. /\ c.parts = parts /\ c.nodes = Nodes(r, parts) /\ c.edges = Graph(r, parts, ex)
      /\ \A i \in DOMAIN parts : MemoryFits(r, parts[i], ex)
      /\ Usable(r, parts, ex) = Crossing(r, parts)
      /\ ~Over(c.bytes, r.maxBytes)
      /\ c.latency = Rounded(Latency(r, parts, ForwardEdges(r, parts, ex)))
      /\ ~Over(Latency(r, parts, ForwardEdges(r, parts, ex)), r.maxLatency)
  BY CandidateFields DEF Realized
<1> HIDE DEF parts
<1>4. \A i \in DOMAIN parts : /\ parts[i].layers # {} /\ parts[i].device \in ToSet(r.participants)
                              /\ MemoryRight(r, parts[i])
  BY <1>2, <1>3 DEF PartsTyped, MemoryRight, MemoryFits
<1>5. \A e \in c.edges : LinkExists(r, c, e)
  BY <1>1, <1>2, <1>3, LinksFound
<1>6. EdgesAsContracted(r, c)
  BY <1>1, <1>2, <1>3, AsContracted
<1>7. Acyclic(c)
  BY <1>1, <1>2, <1>3, NoCycle
<1>8. Latency(r, parts, ForwardEdges(r, parts, ex)) \in Nat
  BY <1>1, <1>2, ForwardEdgesTyped, LatencyTyped
<1>9. Over(c.latency, r.maxLatency) => Borderline(r, c)
  BY <1>1, <1>3, <1>8, RoundedJudged
<1> QED
  BY <1>2, <1>3, <1>4, <1>5, <1>6, <1>7, <1>9 DEF Structured

(* The agent's candidate has the errors of its blind spots at most.        *)
LEMMA RealizedErrors ==
  ASSUME NEW report,
         NEW people, NEW split,
         Realized(report.request, report.bounded, report.candidate, people, split),
         report.candidate # NoCandidate,
         report.errors = Errors(report.request, report.candidate)
  PROVE  report.errors \subseteq AgentBlindSpots(report)
<1> DEFINE r == report.request
           c == report.candidate
           ex == report.bounded
<1>1. /\ RequestTyped(r) /\ Placed(r, people, split) /\ c.valid
      /\ people = Remaining(r, ex) /\ c = Candidate(r, people, split, ex)
  BY DEF Realized, Placed
<1>2. /\ Structured(r, c) /\ PartsTyped(r, c.parts)
      /\ Usable(r, c.parts, ex) = Crossing(r, c.parts)
  BY RealizedStructured
<1>3. Errors(r, c) = StructureErrors(r, c) \cup ServiceErrors(r, c)
  BY <1>1 DEF Errors
<1> HIDE DEF r, c, ex
<1>4. ASSUME NEW x \in StructureErrors(r, c)
      PROVE  \/ x = "layer_coverage_mismatch" /\ r.kind = "federated" /\ ex.devices # {}
             \/ x = "latency_slo_exceeded" /\ Borderline(r, c)
  <2> SUFFICES ASSUME ~(x = "latency_slo_exceeded" /\ Borderline(r, c))
               PROVE  x = "layer_coverage_mismatch" /\ r.kind = "federated" /\ ex.devices # {}
    OBVIOUS
  <2>1. x = "layer_coverage_mismatch" /\ ~LayersCovered(r, c)
    BY <1>2, <1>4, StructureFine
  <2>2. ~(r.kind = "federated" => Len(people) = Len(r.participants))
    BY <1>1, <2>1, CandidateCovers
  <2>3. ex.devices = {} => people = r.participants
    BY <1>1, RemainingTyped DEF RequestTyped
  <2> QED
    BY <2>1, <2>2, <2>3
<1>5. ASSUME NEW x \in ServiceErrors(r, c)
      PROVE  /\ r.kind = "inference"
             /\ x \in {"latency_slo_exceeded", "predicted_throughput_capacity_exceeded",
                       "predicted_throughput_unverifiable"}
  <2>1. r.kind = "inference"
    BY <1>5 DEF ServiceErrors
  <2>2. SnapshotAvailability(r, c) = 100
    <3>1. /\ \A i \in DOMAIN c.parts : c.parts[i].device \in DOMAIN r.memory \cap ToSet(r.participants)
          /\ c.nodes = Nodes(r, c.parts) /\ EdgesAsContracted(r, c)
      BY <1>2 DEF PartsTyped, Structured
    <3>2. Chained(c.parts) = Usable(r, c.parts, ex)
      BY <1>2, <2>1 DEF Crossing
    <3>3. \A pair \in Chained(c.parts) : Pair(c.parts, pair) \in DOMAIN r.link
      BY <3>2 DEF Usable
    <3> QED
      BY <3>1, <3>3 DEF SnapshotAvailability
  <2>3. r.availability \in 0..100
    BY <1>1, <2>1 DEF RequestTyped
  <2>4. ~(SnapshotAvailability(r, c) < r.availability)
    BY <2>2, <2>3
  <2> QED
    BY <1>5, <2>1, <2>4 DEF ServiceErrors
<1>6. /\ r.kind = "inference" =>
           {"latency_slo_exceeded", "predicted_throughput_capacity_exceeded",
            "predicted_throughput_unverifiable"} \subseteq AgentBlindSpots(report)
      /\ r.kind = "federated" /\ ex.devices # {} =>
           "layer_coverage_mismatch" \in AgentBlindSpots(report)
      /\ Borderline(r, c) => "latency_slo_exceeded" \in AgentBlindSpots(report)
  BY DEF AgentBlindSpots, r, c, ex
<1>7. \A x \in StructureErrors(r, c) \cup ServiceErrors(r, c) : x \in AgentBlindSpots(report)
  BY <1>4, <1>5, <1>6
<1> QED
  BY <1>3, <1>7 DEF r, c

(* The reports the invariant speaks of.                                    *)
LEMMA ReportsMade ==
  ASSUME PlanningInv, NEW report \in Reports
  PROVE  Made(report)
<1>1. CASE \E p \in Position : report = store[p]
  BY <1>1, StoreTyped DEF PlanningInv, StoreKept, PlansKept
<1>2. CASE \E c \in Callers : report = call[c] /\ report # NoReport
  BY <1>2 DEF PlanningInv, InFlight
<1>3. CASE report = answer /\ report # NoReport
  BY <1>3 DEF PlanningInv
<1> QED
  BY <1>1, <1>2, <1>3 DEF Reports

(* AgentAgreesWithValidator: of a candidate the agent (_build_candidate)   *)
(* found valid, PartitionPlanValidator finds no more than the blind spots, *)
(* the rounding of a borderline time among them, for every submission,     *)
(* exclusion, split, weight and last place.                                *)
THEOREM AgreementTheorem == PlanningSpec => []AgentAgreesWithValidator
<1>1. PlanningInv => AgentAgreesWithValidator
  <2> SUFFICES ASSUME PlanningInv, NEW report \in Reports, report.candidate # NoCandidate
               PROVE  report.errors \subseteq AgentBlindSpots(report)
    BY DEF AgentAgreesWithValidator
  <2>1. Made(report)
    BY ReportsMade
  <2>2. /\ RequestTyped(report.request) /\ report.errors = Errors(report.request, report.candidate)
        /\ Chosen(report.request, report.bounded, report.candidate)
    BY <2>1, NormalizeTyped DEF Made
  <2>3. PICK split : Realized(report.request, report.bounded, report.candidate,
                              Remaining(report.request, report.bounded), split)
    BY <2>2, ChosenRealized
  <2> QED
    BY <2>2, <2>3, RealizedErrors
<1> QED
  BY <1>1, PlanningInductive, PTL

-----------------------------------------------------------------------------
(* What is blocked.                                                         *)

(* Without exclusions every pair that exchanges data has its link: the     *)
(* processor has seen to it.                                               *)
LEMMA LinksThere ==
  ASSUME NEW r, NEW split, Placed(r, r.participants, split)
  PROVE  LET parts == Partitions(r, r.participants, split)
         IN  Usable(r, parts, NoExclusions) = Crossing(r, parts)
<1> DEFINE people == r.participants
           parts == Partitions(r, people, split)
           n == Len(people)
<1>1. /\ PartsTyped(r, parts) /\ Len(parts) = n
      /\ \A i \in DOMAIN parts : parts[i].device = people[i]
  BY PartsOfPlacement
<1>2. RequiredPairs(r) \subseteq DOMAIN r.link
  BY DEF Placed, RequestTyped, EarlyFeasible
<1>3. ASSUME NEW x \in Crossing(r, parts) PROVE Pair(parts, x) \in (DOMAIN r.link) \ NoExclusions.links
  <2>1. x[1] \in DOMAIN parts /\ x[2] \in DOMAIN parts
    BY <1>1, CrossingFinite
  <2>2. Pair(parts, x) = <<people[x[1]], people[x[2]]>>
    BY <1>1, <2>1 DEF Pair
  <2>3. <<people[x[1]], people[x[2]]>> \in RequiredPairs(r)
    <3> HIDE DEF parts
    <3>1. CASE r.kind = "federated"
      <4>1. PICK i \in 2..n : x = <<i, 1>>
        BY <1>1, <1>3, <3>1 DEF Crossing, ToAggregator
      <4>2. x[1] = i /\ x[2] = 1
        BY <4>1
      <4> QED
        BY <3>1, <4>2 DEF RequiredPairs
    <3>2. CASE r.kind # "federated"
      <4>1. PICK i \in 1..n - 1 : x = <<i, i + 1>>
        BY <1>1, <1>3, <3>2 DEF Crossing, Chained
      <4>2. x[1] = i /\ x[2] = i + 1
        BY <4>1
      <4> QED
        BY <3>2, <4>2 DEF RequiredPairs
    <3> QED
      BY <3>1, <3>2
  <2>4. NoExclusions.links = {}
    BY DEF NoExclusions
  <2> QED
    BY <1>2, <2>2, <2>3, <2>4
<1> HIDE DEF parts
<1>4. Usable(r, parts, NoExclusions) = Crossing(r, parts)
  BY <1>3 DEF Usable
<1> QED
  BY <1>4 DEF parts

(* Every approved split is one the agent tries first.                      *)
LEMMA ApprovedTried ==
  ASSUME NEW r, RequestTyped(r), NEW s \in ApprovedSplits(r)
  PROVE  /\ Placed(r, r.participants, s)
         /\ Candidate(r, r.participants, s, NoExclusions) \in PlanCandidates(r, NoExclusions)
<1> DEFINE people == r.participants
           all == 1..Len(r.layers) - 1
<1>1. IsSequence(people) /\ Len(people) >= 2 /\ ToSet(people) \subseteq ToSet(people)
  BY DEF RequestTyped, EarlyFeasible
<1>2. Remaining(r, NoExclusions) = people
  BY <1>1, RemainingTyped DEF NoExclusions
<1>3. NoExclusions.splits = {}
  BY DEF NoExclusions
<1>4. ~(Len(people) < 2)
  BY <1>1, SequenceOf DEF IsSequence
<1>5. PlanCandidates(r, NoExclusions) = Candidates(r, people, {}, NoExclusions)
  BY <1>2, <1>3, <1>4 DEF PlanCandidates
<1>6. s \in Splits(r, people, {})
  <2>1. CASE r.kind = "federated"
    BY <2>1 DEF ApprovedSplits, Splits, FederatedBoundaries
  <2>2. CASE r.kind # "federated"
    <3>1. s \in SUBSET all /\ Cardinality(s) = Len(people) - 1
      BY <2>2 DEF ApprovedSplits
    <3>2. r.kind = "training" => s \cap ForbiddenBoundaries = {}
      BY <2>2 DEF ApprovedSplits
    <3>3. s \in SUBSET Boundaries(r)
      <4> HIDE DEF all
      <4>1. CASE r.kind = "training"
        BY <3>1, <3>2, <4>1 DEF Boundaries, TrainingBoundaries, all
      <4>2. CASE r.kind # "training"
        BY <2>2, <3>1, <4>2 DEF Boundaries, InferenceBoundaries, all
      <4> QED
        BY <4>1, <4>2
    <3>4. s \in kSubset(Len(people) - 1, Boundaries(r))
      BY <3>1, <3>3 DEF kSubset
    <3> QED
      BY <2>2, <3>4 DEF Splits
  <2> QED
    BY <2>1, <2>2
<1>7. Candidate(r, people, s, NoExclusions) \in Candidates(r, people, {}, NoExclusions)
  BY <1>6 DEF Candidates
<1>8. Placed(r, people, s)
  <2> HIDE DEF people
  <2>1. ToSet(people) \subseteq ToSet(r.participants)
    BY DEF people
  <2> QED
    BY <1>1, <1>6, <2>1, CandidatesTyped
<1> QED
  BY <1>5, <1>7, <1>8

(* A candidate that is not valid has an error of structure, or is on the   *)
(* border.                                                                 *)
LEMMA InvalidFaulty ==
  ASSUME NEW r, NEW s, Placed(r, r.participants, s),
         ~Candidate(r, r.participants, s, NoExclusions).valid
  PROVE  LET c == Candidate(r, r.participants, s, NoExclusions)
         IN  StructureErrors(r, c) # {} \/ Borderline(r, c)
<1> DEFINE parts == Partitions(r, r.participants, s)
           c == Candidate(r, r.participants, s, NoExclusions)
           time == Latency(r, parts, ForwardEdges(r, parts, NoExclusions))
<1>1. c.parts = parts /\ Usable(r, parts, NoExclusions) = Crossing(r, parts)
      /\ c.latency = Rounded(time)
  BY CandidateFields, LinksThere
<1>2. \/ \E i \in DOMAIN parts : ~MemoryFits(r, parts[i], NoExclusions)
      \/ Usable(r, parts, NoExclusions) # Crossing(r, parts)
      \/ Over(c.bytes, r.maxBytes) \/ Over(time, r.maxLatency)
  BY CandidateFields
<1>3. NoExclusions.memory = <<>> /\ DOMAIN NoExclusions.memory = {}
  BY DEF NoExclusions
<1>7. RequestTyped(r) /\ time \in Nat
  BY PartsOfPlacement, ForwardEdgesTyped, LatencyTyped DEF Placed
<1> HIDE DEF parts, c, time
<1>4. CASE \E i \in DOMAIN parts : ~MemoryFits(r, parts[i], NoExclusions)
  <2>1. \E i \in DOMAIN c.parts : ~MemoryRight(r, c.parts[i])
    BY <1>1, <1>3, <1>4 DEF MemoryFits, MemoryRight
  <2>2. "memory_capacity_exceeded" \in StructureErrors(r, c)
    BY <2>1 DEF StructureErrors
  <2> QED
    BY <2>2 DEF c
<1>5. CASE Over(c.bytes, r.maxBytes)
  <2>1. "max_transfer_bytes_exceeded" \in StructureErrors(r, c)
    BY <1>5 DEF StructureErrors
  <2> QED
    BY <2>1 DEF c
<1>6. CASE Over(time, r.maxLatency)
  <2>1. Over(c.latency, r.maxLatency) => "latency_slo_exceeded" \in StructureErrors(r, c)
    BY DEF StructureErrors
  <2>2. ~Over(c.latency, r.maxLatency) => Borderline(r, c)
    BY <1>1, <1>6, <1>7, RoundedJudged
  <2> QED
    BY <2>1, <2>2 DEF c
<1> QED
  BY <1>1, <1>2, <1>4, <1>5, <1>6

(* BlockedMeansInfeasible: when run_partition_planning blocks a first plan *)
(* for want of a candidate, every split of the layers that the strategy    *)
(* approves breaks a structural rule of the validator, or has a time so    *)
(* near to the limit that rounding it decides.                             *)
THEOREM BlockedTheorem == PlanningSpec => []BlockedMeansInfeasible
<1>1. PlanningInv => BlockedMeansInfeasible
  <2> SUFFICES ASSUME PlanningInv, NEW report \in Reports,
                      report.version = 1 /\ report.parent = 0 /\ report.bounded = NoExclusions
                        /\ report.candidate = NoCandidate,
                      NEW s \in ApprovedSplits(report.request)
               PROVE  LET c == Candidate(report.request, report.request.participants, s,
                                         NoExclusions)
                      IN  StructureErrors(report.request, c) # {}
                            \/ Borderline(report.request, c)
    BY DEF BlockedMeansInfeasible
  <2>1. Made(report)
    BY ReportsMade
  <2>2. RequestTyped(report.request) /\ \A c \in PlanCandidates(report.request, NoExclusions) : ~c.valid
    BY <2>1, NormalizeTyped DEF Made, BlockedFirst
  <2> DEFINE r == report.request
  <2>3. s \in ApprovedSplits(r)
    OBVIOUS
  <2> HIDE DEF r
  <2>4. /\ Placed(r, r.participants, s)
        /\ ~Candidate(r, r.participants, s, NoExclusions).valid
    BY <2>2, <2>3, ApprovedTried DEF r
  <2> QED
    BY <2>4, InvalidFaulty DEF r
<1> QED
  BY <1>1, PlanningInductive, PTL
=============================================================================
