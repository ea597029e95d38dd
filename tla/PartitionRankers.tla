--------------------------- MODULE PartitionRankers ---------------------------
(***************************************************************************)
(* The life of a learned candidate ranker (partition_learning.py,          *)
(* partition_ranker_repository.py and the selector that uses it): ranking  *)
(* datasets are built from committed plan artifacts, a model is trained    *)
(* and registered, evaluated on another dataset, and chosen from by guard. *)
(* Each is a CLI process of its own, or a planning call.  A dataset is two *)
(* files, rows and manifest; each is written to a temporary file whose     *)
(* name every builder of that dataset shares, and then moved into place.   *)
(*                                                                         *)
(* A row stands for its plan.  Nothing in the code takes back a committed  *)
(* plan, so the plans are a constant, and the sources of a row stay there. *)
(* The fit is a free choice of what the model predicts for the rows held   *)
(* out.                                                                    *)
(***************************************************************************)
EXTENDS Integers, FiniteSetsExt, CandidateSelection

CONSTANTS
    Plans,
    Plan,                    \* the artifact of each plan, a record
    Builds,                  \* the <<artifact roots, scope>> a build is given
    Processes, Datasets, Versions,
    FeatureOrder,            \* the features' names, 47 in the code
    Rewards, Features,       \* what a model may predict, or be asked about
    MinSamples, MinGroups, MaxError, MinCorrelation,
                             \* DEFAULT_LEARNED_RANKER_GUARD_POLICY, the
                             \* correlation in tenths
    GuardSamples, GuardGroups,  \* the guard of the planning policy in use,
    MinConfidence, MaxOutside,  \* its two fractions in hundredths
    NoFile, Idle, NoResult

ASSUME RankerAssumption ==
    /\ IsFiniteSet(Plans) /\ IsFiniteSet(FeatureOrder) /\ FeatureOrder # {}
    /\ \A p \in Plans : Plan[p].feature \in [FeatureOrder -> Int]
    /\ Features \subseteq [FeatureOrder -> Int]
    /\ MinSamples \in Nat /\ MinGroups \in Nat
    /\ MinCorrelation \in 1..10
    /\ GuardSamples \in Nat /\ GuardGroups \in Nat
    /\ MinConfidence \in 0..100 /\ MaxOutside \in 0..100
    /\ NoModel \notin Versions

VARIABLES
    temp,       \* the temporary files of each dataset
    rows,       \* its rows file
    manifest,   \* and its manifest: the rows it was written for, the scope
    registry,   \* registered artifacts
    pc,         \* what each process is about to do
    result      \* what the last step evaluated or chose

vars == <<temp, rows, manifest, registry, pc, result>>

----------------------------------------------------------------------------
(* From plan artifacts to rows.                                            *)

(* _read_committed_partition_report.                                       *)
Committed(p) == Plan[p].committed /\ ~Plan[p].pending /\ Plan[p].latest

(* The sidecars a row's features are read from; a plan saved by feedback   *)
(* has none.                                                               *)
RequestReadable(p) == Plan[p].request
IntentReadable(p) == Plan[p].intent

(* _runtime_outcome_matches_report, after the signature of the version.    *)
OutcomeMatches(p) == Plan[p].signed /\ Plan[p].outcomeMatches

Observed(p) == Plan[p].evidence = "observed"

(* _training_row: a planned, selected and validated candidate; in the      *)
(* observed scope its evidence is measured, signed and repeated in the     *)
(* runtime outcome.                                                        *)
Row(p, scope) ==
    /\ Committed(p) /\ Plan[p].selected
    /\ scope = "observed" => Observed(p) /\ OutcomeMatches(p)
    /\ RequestReadable(p) /\ IntentReadable(p)

Collected ==
    [b \in Builds |-> {p \in Plans : Plan[p].root \in b[1] /\ Row(p, b[2])}]

GroupKey(p) == <<Plan[p].job, Plan[p].snapshot, Plan[p].lineage>>
Group == [p \in Plans |-> GroupKey(p)]
Groups(S) == {Group[p] : p \in S}

----------------------------------------------------------------------------
(* load_partition_ranking_dataset.                                         *)

\* A build takes any scope, the reader these only.
EvidenceScopes == {"observed", "predicted", "synthetic"}

ManifestOk(d) ==
    /\ manifest[d] # NoFile /\ manifest[d].rows = rows[d]
    /\ manifest[d].scope \in EvidenceScopes

RowsOk(d) ==
    /\ rows[d] # {}
    /\ \A p \in rows[d] : Observed(p) <=> manifest[d].scope = "observed"

(* _validate_observed_source_contract: every observed row is made again    *)
(* from its source, which hashes as the manifest says.                     *)
SourcesOk(d) ==
    manifest[d].scope = "observed" => \A p \in rows[d] : Row(p, "observed")

Loads(d) == rows[d] # NoFile /\ ManifestOk(d) /\ RowsOk(d) /\ SourcesOk(d)

----------------------------------------------------------------------------
(* Training and the metrics of the held-out rows.                          *)

(* group_holdout_split: about a fifth of the groups, at least one and not  *)
(* all, chosen by a shuffle.                                               *)
TestCount(n) == LET wanted == (2 * n + 5) \div 10
                IN  IF wanted < 1 THEN 1 ELSE IF wanted > n - 1 THEN n - 1
                    ELSE wanted

Holdouts(S) ==
    {T \in SUBSET S :
       /\ Groups(T) \cap Groups(S \ T) = {}
       /\ Cardinality(Groups(T)) = TestCount(Cardinality(Groups(S)))}

(* fit_feature_normalizer: the ranges of the rows the model is fitted on.  *)
TrainingRange(S, test) ==
    [f \in FeatureOrder |-> {Plan[p].feature[f] : p \in S \ test}]
Outside(x, range) ==
    {f \in FeatureOrder : x[f] < Min(range[f]) \/ x[f] > Max(range[f])}

ErrorMet(test, guess) ==
    MapThenSumSet(LAMBDA p : Max({guess[p] - Plan[p].reward,
                                               Plan[p].reward - guess[p]}), test)
      <= MaxError * Cardinality(test)

(* _average_ranks, doubled: ties share the mean of their ranks.            *)
Rank(value, p, test) ==
    2 * Cardinality({q \in test : value[q] < value[p]})
      + Cardinality({q \in test : value[q] = value[p]}) + 1

Covariance(x, y, test) ==
    LET mean == Cardinality(test) + 1
    IN  MapThenSumSet(LAMBDA p : (Rank(x, p, test) - mean) * (Rank(y, p, test) - mean),
                      test)

(* _spearman is zero for a single row and where either ranking is flat.    *)
CorrelationMet(test, guess) ==
    LET actual == [p \in test |-> Plan[p].reward]
        both == Covariance(actual, guess, test)
    IN  /\ Cardinality(test) >= 2 /\ both > 0
        /\ 100 * both * both >=
             MinCorrelation * MinCorrelation
               * Covariance(actual, actual, test) * Covariance(guess, guess, test)

(* What rows a fit may be tested on, and whether its metrics are good.     *)
Outcomes ==
    [S \in {Collected[b] : b \in Builds} |->
       UNION {{<<test, ErrorMet(test, guess) /\ CorrelationMet(test, guess)>>
               : guess \in [test -> Rewards]} : test \in Holdouts(S)}]

QualityEligible(S, scope, good) ==
    /\ scope = "observed" /\ good
    /\ Cardinality(S) >= MinSamples /\ Cardinality(Groups(S)) >= MinGroups

BaseConfidenceAlways(S, scope, good) == 95

(* confidence_policy: base_confidence, in hundredths.                      *)
BaseConfidence(S, scope, good) ==
    IF QualityEligible(S, scope, good) THEN 95 ELSE 0

(* The artifact as the registry keeps it, with what the selector's guard   *)
(* finds in it: sound speaks of the planning policy's thresholds.          *)
Artifact(v, S, scope, test, good) ==
    [version |-> v, scope |-> scope, whole |-> TRUE,
     sound |-> /\ good /\ Cardinality(S) >= GuardSamples
               /\ Cardinality(Groups(S)) >= GuardGroups,
     rows |-> S, test |-> test, range |-> TrainingRange(S, test),
     groups |-> Groups(S), count |-> Cardinality(Groups(S)),
     eligible |-> QualityEligible(S, scope, good),
     base |-> BaseConfidence(S, scope, good)]

(* PartitionRankerModelArtifact._validate: the version can be a directory  *)
(* name, and the group count is that of the lineage hashes.                *)
ArtifactOk(artifact) ==
    artifact.version \in Versions /\ artifact.count = Cardinality(artifact.groups)

----------------------------------------------------------------------------
NoFiles == [rows |-> NoFile, manifest |-> NoFile]

Init ==
    /\ temp = [d \in Datasets |-> NoFiles]
    /\ rows = [d \in Datasets |-> NoFile] /\ manifest = [d \in Datasets |-> NoFile]
    /\ registry = [v \in Versions |-> NoFile]
    /\ pc = [j \in Processes |-> Idle] /\ result = NoResult

Goto(j, step) == pc' = [pc EXCEPT ![j] = step]
At(j, name) == pc[j] # Idle /\ pc[j].at = name

(* build_partition_ranking_dataset over some roots.                        *)
Collect(j, d, build) ==
    /\ pc[j] = Idle
    /\ Goto(j, [at |-> "write", file |-> "rows", dataset |-> d, rows |-> Collected[build],
                scope |-> build[2]])
    /\ result' = NoResult
    /\ UNCHANGED <<temp, rows, manifest, registry>>

(* write_partition_ranking_dataset: rows, then manifest, each by way of    *)
(* its temporary file.                                                     *)
WriteTemporary(j) ==
    /\ At(j, "write")
    /\ temp' = [temp EXCEPT ![pc[j].dataset][pc[j].file] =
                  IF pc[j].file = "rows" THEN pc[j].rows
                  ELSE [rows |-> pc[j].rows, scope |-> pc[j].scope]]
    /\ Goto(j, [pc[j] EXCEPT !.at = "publish"])
    /\ result' = NoResult /\ UNCHANGED <<rows, manifest, registry>>

(* The move fails when another builder has moved the file away.            *)
PublishRows(j) ==
    /\ At(j, "publish") /\ pc[j].file = "rows"
    /\ temp[pc[j].dataset].rows # NoFile
    /\ rows' = [rows EXCEPT ![pc[j].dataset] = temp[pc[j].dataset].rows]
    /\ temp' = [temp EXCEPT ![pc[j].dataset].rows = NoFile]
    /\ Goto(j, [pc[j] EXCEPT !.at = "write", !.file = "manifest"])
    /\ result' = NoResult /\ UNCHANGED <<manifest, registry>>
PublishManifest(j) ==
    /\ At(j, "publish") /\ pc[j].file = "manifest"
    /\ temp[pc[j].dataset].manifest # NoFile
    /\ manifest' = [manifest EXCEPT ![pc[j].dataset] = temp[pc[j].dataset].manifest]
    /\ temp' = [temp EXCEPT ![pc[j].dataset].manifest = NoFile]
    /\ Goto(j, Idle)
    /\ result' = NoResult /\ UNCHANGED <<rows, registry>>

(* PartitionRankerRepository.save replaces what is there in one step: its  *)
(* temporary files have names of their own.                                *)
Register(artifact) ==
    ArtifactOk(artifact) /\ registry' = [registry EXCEPT ![artifact.version] = artifact]

(* train_partition_ranker: the dataset is read, split and fitted.          *)
Train(v, d) ==
    /\ Loads(d)
    /\ Cardinality(Groups(rows[d])) >= 2
    /\ \E fit \in Outcomes[rows[d]] :
         Register(Artifact(v, rows[d], manifest[d].scope, fit[1], fit[2]))
    /\ result' = NoResult
    /\ UNCHANGED <<temp, rows, manifest, pc>>

(* evaluate_partition_ranker: the registered artifact is read first, then  *)
(* the dataset.                                                            *)
Registered(v) == registry[v] # NoFile /\ ArtifactOk(registry[v])

ReadArtifact(j, v) ==
    /\ pc[j] = Idle /\ Registered(v)
    /\ Goto(j, [at |-> "evaluate", artifact |-> registry[v]])
    /\ result' = NoResult
    /\ UNCHANGED <<temp, rows, manifest, registry>>

IndependentByHash(artifact, S) == S # artifact.rows

Independent(artifact, S) ==
    /\ S # artifact.rows
    /\ Groups(S) \cap artifact.groups = {}

Evaluate(j, d) ==
    /\ At(j, "evaluate") /\ Loads(d)
    /\ Independent(pc[j].artifact, rows[d])
    /\ result' = [of |-> pc[j].artifact, on |-> rows[d], at |-> {},
                  deployable |-> /\ manifest[d].scope = "observed"
                                 /\ pc[j].artifact.scope = "observed"
                                 /\ pc[j].artifact.eligible]
    /\ Goto(j, Idle)
    /\ UNCHANGED <<temp, rows, manifest, registry>>

(* Any process can be killed, or refuse its input, at any step.            *)
Ends(j) ==
    /\ pc[j] # Idle /\ Goto(j, Idle)
    /\ result' = NoResult
    /\ UNCHANGED <<temp, rows, manifest, registry>>

(* _guard_failure on the candidate: fewer of its features lie outside the  *)
(* fitted ranges than the policy's share, and prediction_confidence, which *)
(* falls with that share, is what the policy asks for.                     *)
Confident(artifact, x) ==
    LET outside == Cardinality(Outside(x, artifact.range))
        all == Cardinality(FeatureOrder)
    IN  /\ 100 * outside < MaxOutside * all
        /\ artifact.base * (all - outside) >= MinConfidence * all

(* A planning call in a learned mode; the model prefers another candidate  *)
(* than the baseline, whose features are x.                                *)
Choose(mode, v, x) ==
    /\ Registered(v) /\ ~SelectorRefused(mode, v, registry)
    /\ LET guess == [pick |-> "learned", error |-> FALSE,
                     confident |-> Confident(registry[v], x)]
       IN  Select(mode, v, registry, "baseline", guess).final = "learned"
    /\ result' = [of |-> registry[v], on |-> {}, at |-> {x}, deployable |-> TRUE]
    /\ UNCHANGED <<temp, rows, manifest, registry, pc>>

Next ==
    \/ \E j \in Processes :
         \/ \E d \in Datasets, build \in Builds : Collect(j, d, build)
         \/ \E d \in Datasets : Evaluate(j, d)
         \/ \E v \in Versions : ReadArtifact(j, v)
         \/ WriteTemporary(j) \/ PublishRows(j) \/ PublishManifest(j) \/ Ends(j)
    \/ \E v \in Versions, d \in Datasets : Train(v, d)
    \/ \E mode \in Modes \ {"deterministic"}, v \in Versions, x \in Features :
         Choose(mode, v, x)

Spec == Init /\ [][Next]_vars

----------------------------------------------------------------------------
Scopes == {b[2] : b \in Builds}

TypeOK ==
    LET NoneOr(S) == {NoFile} \cup S
        Rows == NoneOr(SUBSET Plans)
        Manifests == NoneOr([rows : SUBSET Plans, scope : Scopes])
    IN  /\ temp \in [Datasets -> [rows : Rows, manifest : Manifests]]
        /\ rows \in [Datasets -> Rows] /\ manifest \in [Datasets -> Manifests]
        /\ \A v \in Versions : registry[v] # NoFile => registry[v].version = v
        /\ \A j \in Processes :
             pc[j] = Idle \/ pc[j].at \in {"write", "publish", "evaluate"}

Artifacts == {registry[v] : v \in Versions} \ {NoFile}

(* Whatever builds and trainings overlapped, crashed or overwrote each     *)
(* other's files, a model registered as observed was fitted on observed    *)
(* rows only, and no lineage group it was tested on was also fitted.       *)
HeldOutGroupsUnseen ==
    \A a \in Artifacts :
      /\ a.scope = "observed" => \A p \in a.rows : Observed(p) /\ OutcomeMatches(p)
      /\ a.test # {} /\ a.test # a.rows
      /\ Groups(a.test) \cap Groups(a.rows \ a.test) = {}

(* A model is never evaluated on a group it was trained on, though the     *)
(* dataset files and the registry may change while the evaluation runs.    *)
EvaluatedOnUnseenGroups ==
    result # NoResult => Groups(result.on) \cap Groups(result.of.rows) = {}

(* Whatever a model is judged by, in training or later, it has not seen.   *)
JudgedOnUnseenGroups == HeldOutGroupsUnseen /\ EvaluatedOnUnseenGroups

(* A feature of x that no two of the rows the model was fitted on enclose. *)
Unlike(artifact, x) ==
    LET fitted == artifact.rows \ artifact.test
    IN  {f \in FeatureOrder : ~\E p, q \in fitted :
           Plan[p].feature[f] <= x[f] /\ x[f] <= Plan[q].feature[f]}

(* The guard of a planning policy may ask for fewer rows and groups than   *)
(* training does.  A model that training found ineligible still never      *)
(* chooses, unless the policy asks for no confidence at all, and none ever *)
(* evaluates as deployable.  A candidate that a model chooses is unlike    *)
(* the very rows it was fitted on in less than the policy's share of its   *)
(* features, whatever has become of the dataset since.                     *)
LearnedChoiceTrusted ==
    result # NoResult /\ result.deployable =>
      /\ result.of.eligible \/ (result.at # {} /\ MinConfidence = 0)
      /\ \A x \in result.at :
           100 * Cardinality(Unlike(result.of, x)) < MaxOutside * Cardinality(FeatureOrder)

(* The design document: one job or one snapshot is never on both sides of  *)
(* the split.                                                              *)
NoJobOnBothSides ==
    \A a \in Artifacts :
      {Plan[p].job : p \in a.test} \cap {Plan[p].job : p \in a.rows \ a.test} = {}
=============================================================================
