--------------------- MODULE PartitionRepository_proofs ---------------------
(***************************************************************************)
(* What the store of partition plans promises, proved for any plans, any   *)
(* number of saves and readers, I/O errors and crashes anywhere, as long   *)
(* as no two callers have worked on one path at once.                      *)
(*                                                                         *)
(* The invariant follows a transaction from its marker to the removal of   *)
(* the marker.  While the marker is there, the directory that was there    *)
(* before is whole in one of two places unless the new one is committed;   *)
(* when no transaction of a plan is marked, the plan is settled.  Callers  *)
(* only keep what concerns the paths they touch, so that the step of one   *)
(* disturbs nothing that another relies on.                                *)
(***************************************************************************)
EXTENDS PartitionRepository, TLAPS

Directory(d) ==
    d = NoDir \/ (DOMAIN d \subseteq Files /\ d \in [DOMAIN d -> Saves \cup {NoSave}])

DiskTypes ==
    /\ fs = [x \in Paths |-> fs[x]]
    /\ \A x \in Paths : Directory(fs[x])
    /\ marker \in [Saves -> {"none", "fresh", "had"}]
    /\ temporary \in [Saves -> {"none", "fresh", "had"}]
    /\ target \in [Saves -> Plans]

CallTypes ==
    /\ pc \in [Callers -> Steps]
    /\ look \in [Callers -> Saves \cup Paths \cup {Nothing}]
    /\ todo \in [Callers -> SUBSET (Saves \cup Paths)]
    /\ back \in [Callers -> {"idle", "read", "check", "lineage"}]
    /\ \A c \in Callers :
          /\ pc[c] \in RollingBack \cup Cleaning => look[c] \in Saves
          /\ pc[c] = "sweep_remove" => look[c] \in Paths
          /\ todo[c] \subseteq IF pc[c] \in {"sweep", "sweep_remove"} THEN Paths ELSE Saves
          /\ c \in Saves => pc[c] # "read" /\ back[c] # "read"
          /\ c \notin Saves => /\ pc[c] \notin Publishing \cup {"check", "lineage", "saved", "failed"}
                               /\ back[c] \in {"idle", "read"}

WellTyped ==
    /\ DiskTypes /\ CallTypes
    /\ clash \in BOOLEAN /\ raced \in BOOLEAN /\ alone \subseteq Callers

\* what the histories have noted so far
HistoryIsTrue == (Overlap => clash) /\ (Race => raced)

\* what a plan was before the store published it, and is again after a rollback
Base(p) == IF p \in LegacyPlans THEN LegacyDir ELSE NoDir
Settled(p) == Committed(p) \/ fs[Plan(p)] = Base(p)

Content == {"version", "latest", "extras"}
WrittenBy(x, s, F) == \A f \in F : Has(x, f) /\ fs[x][f] = s

----------------------------------------------------------------------------
(* Transactions and plans, whoever works on them                           *)

MarkerFacts ==
    \A t \in Saves :
        /\ marker[t] = "none" => ~Exists(Backup(t))
        /\ marker[t] = "fresh" => ~Exists(Backup(t)) /\ target[t] \notin LegacyPlans
        /\ marker[t] = "had" => target[t] \in LegacyPlans
        /\ Exists(Backup(t)) => DOMAIN fs[Backup(t)] \subseteq {"old"}
        /\ marker[t] = "had" /\ ~Committed(target[t]) =>
               IF Exists(Backup(t)) THEN fs[Backup(t)] = LegacyDir
               ELSE fs[Plan(target[t])] = LegacyDir

SettledFacts ==
    \A p \in Plans :
        \/ Settled(p)
        \/ \E t \in Saves : target[t] = p /\ marker[t] # "none"

CommitFacts ==
    /\ \A p \in Plans : Committed(p) =>
           Whole(p) /\ (p \in LegacyPlans => Has(Plan(p), "old"))
    /\ \A s \in Saves : ~Has(Staging(s), "commit")

----------------------------------------------------------------------------
(* Which calls may be under way together                                   *)

OneCallPerPlan ==
    \A r, s \in Saves : Running(r) /\ Running(s) /\ target[r] = target[s] => r = s

\* a call marks its transaction late, and nobody marks it again
MarkedLate ==
    \A s \in Saves : marker[s] # "none" =>
        \/ pc[s] \in {"backup", "replace", "commit", "unpend", "failed"}
        \/ pc[s] \in Cleaning /\ look[s] = s

\* The recovery of a save comes by every transaction of its own plan.
OwnPlanRecovered ==
    \A s, t \in Saves :
        Running(s) /\ t # s /\ target[t] = target[s] /\ marker[t] # "none" =>
            \/ pc[s] = "markers" /\ t \in todo[s]
            \/ pc[s] \in RollingBack \cup Cleaning /\ t \in todo[s] \cup {look[s]}

OneMarkerPerPlan ==
    \A t, u \in Saves :
        marker[t] # "none" /\ marker[u] # "none" /\ target[t] = target[u] => t = u

----------------------------------------------------------------------------
(* What a caller knows of the paths it touches                             *)

Uncommitted == {"copy", "pending", "version", "latest", "extras", "draft", "mark",
                "backup", "replace", "commit"}
Staged == {"pending", "version", "latest", "extras", "draft", "mark", "backup", "replace"}

\* what the staging area contains before each step of the publication
Written(step) ==
    CASE step = "latest" -> {"version"}
      [] step = "extras" -> {"version", "latest"}
      [] step \in {"draft", "mark", "backup", "replace"} -> Content
      [] OTHER -> {}

Publishes(s) ==
    LET p == target[s] IN
    /\ pc[s] \in Uncommitted => ~Committed(p)
    /\ pc[s] \in Staged => /\ WrittenBy(Staging(s), s, Written(pc[s]))
                           /\ p \in LegacyPlans => Has(Staging(s), "old")
    /\ pc[s] = "mark" => temporary[s] = IF Exists(Plan(p)) THEN "had" ELSE "fresh"
    /\ pc[s] \in {"backup", "replace", "commit", "unpend"} => marker[s] # "none"
    /\ pc[s] = "backup" => /\ ~Exists(Backup(s))
                           /\ marker[s] = "fresh" => ~Exists(Plan(p))
    /\ pc[s] = "replace" => ~Exists(Plan(p))
    /\ pc[s] = "commit" => /\ WrittenBy(Plan(p), s, Content)
                           /\ p \in LegacyPlans => Has(Plan(p), "old")
    /\ pc[s] = "unpend" => Committed(p)

\* the transaction may lose its marker once its artifacts are gone
RolledBack(t) ==
    \/ Committed(target[t])
    \/ ~Exists(Backup(t)) /\ fs[Plan(target[t])] = Base(target[t])

\* a directory with a marked transaction that does not need it
Disposable(p) ==
    /\ ~Committed(p)
    /\ \E t \in Saves :
          /\ target[t] = p /\ marker[t] # "none"
          /\ marker[t] = "had" => Exists(Backup(t))

Recovers(c) ==
    LET t == look[c] IN
    /\ pc[c] \in RollingBack => ~Committed(target[t])
    /\ pc[c] \in {"restore_remove", "restore_rename"} =>
           marker[t] = "had" /\ Exists(Backup(t))
    /\ pc[c] = "wipe" => marker[t] = "fresh"
    /\ pc[c] = "restore_rename" => ~Exists(Plan(target[t]))
    /\ pc[c] \in Cleaning => /\ marker[t] # "none" /\ RolledBack(t)
                             /\ t = c => Committed(target[t])
    /\ pc[c] = "unmark" => ~Exists(Backup(t))
    /\ pc[c] = "sweep_remove" =>
           \/ \E s \in Saves : t = Staging(s)
           \/ \E p \in Plans : t = Plan(p) /\ Disposable(p)

Saved(s) == pc[s] = "saved" => Committed(target[s])

CallerFacts ==
    /\ \A s \in Saves : Publishes(s) /\ Saved(s)
    /\ \A c \in Callers : Recovers(c)

----------------------------------------------------------------------------
(* Lineage                                                                 *)

Recovering == {"markers", "sweep", "sweep_remove"} \cup RollingBack \cup Cleaning

\* A save checks the lineage of a later version that is not there yet.
ChecksLineage(s) ==
    /\ back[s] = "lineage" => pc[s] \in Recovering
    /\ back[s] = "lineage" \/ pc[s] = "lineage" =>
           ~Committed(target[s]) /\ Parent[target[s]] \in Plans

\* a plan that begins a lineage, or one of the version after its parent's
Succeeds(p) ==
    \/ Version[p] = 1 /\ Parent[p] = NoPlan
    \/ Parent[p] \in Plans /\ Version[p] = Version[Parent[p]] + 1

ParentFacts ==
    /\ \A s \in Saves : ChecksLineage(s)
    /\ \A s \in Saves : pc[s] \in Publishing => Succeeds(target[s])
    /\ \A s \in Saves : pc[s] \in Publishing /\ Version[target[s]] > 1 =>
           Parent[target[s]] \in Plans /\ Committed(Parent[target[s]])
    /\ \A p \in Plans \ Roots : Committed(p) /\ Version[p] > 1 => Parent[p] \in Plans

SiblingFacts ==
    raced \/ \A s \in Saves, q \in Plans :
        pc[s] \in Publishing /\ Committed(q) => ~Siblings(target[s], q)

----------------------------------------------------------------------------
(* A recovery that nobody runs beside leaves the store settled.            *)

Marked == {t \in Saves : marker[t] # "none"}
StagingAreas == {x \in Paths : x[1] = "staging" /\ Exists(x)}

AloneFact(c) ==
    /\ pc[c] = "markers" => Marked \subseteq todo[c]
    /\ pc[c] \in RollingBack \cup Cleaning /\ look[c] # c =>
           Marked \subseteq todo[c] \cup {look[c]}
    /\ pc[c] \in {"sweep", "sweep_remove", "read", "check"} => Marked = {}
    /\ pc[c] = "sweep" => StagingAreas \subseteq todo[c]
    /\ pc[c] = "sweep_remove" => StagingAreas \subseteq todo[c] \cup {look[c]}
    /\ pc[c] \in {"read", "check"} => StagingAreas = {}

AloneFacts ==
    \A c \in alone :
        /\ Running(c) /\ \A d \in Callers \ {c} : ~Running(d)
        /\ AloneFact(c)

Facts ==
    /\ MarkerFacts /\ SettledFacts /\ CommitFacts
    /\ OneCallPerPlan /\ MarkedLate /\ OwnPlanRecovered /\ OneMarkerPerPlan
    /\ CallerFacts
    /\ ParentFacts /\ LineageClosed
    /\ SiblingFacts /\ OneChild
    /\ AloneFacts

StoreInv == WellTyped /\ HistoryIsTrue /\ (clash \/ Facts)

----------------------------------------------------------------------------
(* The paths of plans, staging areas and backups are different ones.       *)
LEMMA PathFacts ==
    /\ \A s \in Saves : Staging(s) \in Paths /\ Backup(s) \in Paths
    /\ \A p \in Plans : Plan(p) \in Paths
    /\ \A s, t : Staging(s) # Backup(t) /\ Staging(s) # Plan(t) /\ Backup(s) # Plan(t)
    /\ \A s, t : Staging(s) = Staging(t) => s = t
    /\ \A s, t : Backup(s) = Backup(t) => s = t
    /\ \A p, q : Plan(p) = Plan(q) => p = q
    /\ \A x \in Paths : \/ \E s \in Saves : x = Staging(s) \/ x = Backup(s)
                        \/ \E p \in Plans : x = Plan(p)
    /\ \A s : Staging(s)[1] = "staging" /\ Backup(s)[1] = "backup" /\ Plan(s)[1] = "plan"
  BY DEF Paths, Staging, Backup, Plan

(* A function from files to saves is a directory and there.                *)
LEMMA DirectoryIsThere ==
    ASSUME NEW D \in SUBSET Files, NEW d \in [D -> Saves \cup {NoSave}]
    PROVE  Directory(d) /\ d # NoDir
  BY NoDirAssumption DEF Directory

(* The directories the model names are directories, and there.             *)
LEMMA DirectoryFacts ==
    /\ Directory(NoDir)
    /\ Directory(Empty) /\ Empty # NoDir /\ DOMAIN Empty = {}
    /\ Directory(LegacyDir) /\ LegacyDir # NoDir /\ DOMAIN LegacyDir = {"old"}
    /\ \A p : Directory(PublishedDir(p)) /\ PublishedDir(p) # NoDir
<1>1. {} \in SUBSET Files /\ {"old"} \in SUBSET Files
  BY DEF Files
<1>2. Empty \in [{} -> Saves \cup {NoSave}] /\ LegacyDir \in [{"old"} -> Saves \cup {NoSave}]
  BY DEF Empty, LegacyDir
<1>3. ASSUME NEW p PROVE Directory(PublishedDir(p)) /\ PublishedDir(p) # NoDir
  <2> DEFINE D == {"version", "latest", "extras", "commit"}
                      \cup (IF p \in LegacyPlans THEN {"old"} ELSE {})
  <2>1. D \in SUBSET Files /\ PublishedDir(p) \in [D -> Saves \cup {NoSave}]
    BY DEF PublishedDir, Files
  <2> QED
    BY <2>1, DirectoryIsThere
<1>4. Directory(NoDir) /\ DOMAIN Empty = {} /\ DOMAIN LegacyDir = {"old"}
  BY DEF Directory, Empty, LegacyDir
<1> QED
  BY <1>1, <1>2, <1>3, <1>4, DirectoryIsThere

(* A directory without some of its files is a directory.                   *)
LEMMA WithoutFacts ==
    ASSUME NEW d, NEW S, Directory(d), d # NoDir
    PROVE  /\ Directory(Without(d, S)) /\ Without(d, S) # NoDir
           /\ DOMAIN Without(d, S) = DOMAIN d \ S
           /\ \A f \in DOMAIN d \ S : Without(d, S)[f] = d[f]
<1>1. Without(d, S) \in [DOMAIN d \ S -> Saves \cup {NoSave}] /\ DOMAIN d \ S \in SUBSET Files
  BY DEF Directory, Without, Restrict
<1>2. \A f \in DOMAIN d \ S : Without(d, S)[f] = d[f]
  BY DEF Without, Restrict
<1> QED
  BY <1>1, <1>2, DirectoryIsThere

(* A file more makes a directory, of nothing too.                          *)
LEMMA WithDirectory ==
    ASSUME NEW d, NEW f \in Files, NEW s \in Saves, Directory(d)
    PROVE  Directory(With(d, f, s)) /\ With(d, f, s) # NoDir
<1> DEFINE D == {f} \cup (IF d = NoDir THEN {} ELSE DOMAIN d)
<1>1. With(d, f, s) \in [D -> Saves \cup {NoSave}] /\ D \in SUBSET Files
  BY DEF Directory, With
<1> QED
  BY <1>1, DirectoryIsThere

(* With adds its file to a directory, or makes a directory of it ...       *)
LEMMA WithDomain ==
    \A d, f, s : DOMAIN With(d, f, s) = {f} \cup (IF d = NoDir THEN {} ELSE DOMAIN d)
  BY DEF With

(* ... written by the given save, and leaves the other files as they are.   *)
LEMMA WithContents ==
    \A d, f, s :
        /\ With(d, f, s)[f] = s
        /\ d # NoDir => \A g \in DOMAIN d \ {f} : With(d, f, s)[g] = d[g]
  BY DEF With

(* shutil.rmtree takes files away from one directory, or it is done.       *)
LEMMA RmTreeEffect ==
    ASSUME WellTyped, NEW c \in Callers, NEW x \in Paths, NEW next \in Steps,
           RmTree(c, x, next)
    PROVE  /\ fs' = [fs EXCEPT ![x] = fs'[x]]
           /\ Directory(fs'[x])
           /\ fs'[x] # NoDir =>
                 /\ Exists(x) /\ DOMAIN fs'[x] \subseteq DOMAIN fs[x]
                 /\ \A f \in DOMAIN fs'[x] : fs'[x][f] = fs[x][f]
           /\ \/ pc' = pc /\ Exists(x)
              \/ pc' = [pc EXCEPT ![c] = next] /\ fs'[x] = NoDir
<1>0. fs = [y \in Paths |-> fs[y]] /\ Directory(fs[x]) /\ pc = [d \in Callers |-> pc[d]]
  BY DEF WellTyped, DiskTypes, CallTypes
<1> USE DEF Exists, Goto
<1>1. CASE ~Exists(x) /\ Goto(c, next) /\ UNCHANGED fs
  BY <1>0, <1>1
<1>2. CASE Exists(x) /\ fs[x] = Empty /\ fs' = [fs EXCEPT ![x] = NoDir] /\ Goto(c, next)
  BY <1>0, <1>2, DirectoryFacts
<1>3. ASSUME Exists(x), UNCHANGED pc, NEW f \in DOMAIN fs[x],
             fs' = [fs EXCEPT ![x] = Without(@, {f})]
      PROVE  /\ fs' = [fs EXCEPT ![x] = fs'[x]]
             /\ Directory(fs'[x])
             /\ DOMAIN fs'[x] \subseteq DOMAIN fs[x]
             /\ \A g \in DOMAIN fs'[x] : fs'[x][g] = fs[x][g]
  <2>1. Directory(fs[x]) /\ fs[x] # NoDir
    BY <1>0, <1>3
  <2>2. fs' = [fs EXCEPT ![x] = Without(fs[x], {f})] /\ fs'[x] = Without(fs[x], {f})
    BY <1>0, <1>3
  <2>3. /\ Directory(Without(fs[x], {f}))
        /\ DOMAIN Without(fs[x], {f}) = DOMAIN fs[x] \ {f}
        /\ \A g \in DOMAIN fs[x] \ {f} : Without(fs[x], {f})[g] = fs[x][g]
    BY <2>1, WithoutFacts
  <2> QED
    BY <2>2, <2>3
<1> QED
  BY <1>1, <1>2, <1>3 DEF RmTree


CallerStep(c) ==
    \/ RecoveryStep(c)
    \/ c \in Readers /\ (Get(c) \/ Read(c))
    \/ c \in Saves /\ SaveStep(c)

(* The step of a caller keeps the types of the disk.                       *)
LEMMA DiskTypesStep ==
    ASSUME WellTyped, NEW c \in Callers, CallerStep(c) PROVE DiskTypes'
<1>0. /\ fs = [x \in Paths |-> fs[x]] /\ \A x \in Paths : Directory(fs[x])
      /\ marker \in [Saves -> {"none", "fresh", "had"}] /\ target \in [Saves -> Plans]
      /\ temporary \in [Saves -> {"none", "fresh", "had"}]
      /\ pc[c] \in RollingBack \cup Cleaning => look[c] \in Saves
      /\ pc[c] = "sweep_remove" => look[c] \in Paths
  BY DEF WellTyped, DiskTypes, CallTypes
<1>1. CASE NextMarker(c) \/ ListPaths(c) \/ Sweep(c) \/ Recovered(c)
  BY <1>0, <1>1 DEF NextMarker, ListPaths, Sweep, Recovered, DiskTypes
<1>2. CASE RestoreRemove(c)
  <2>1. Plan(target[look[c]]) \in Paths /\ "restore_rename" \in Steps
    BY <1>0, <1>2, PathFacts DEF RestoreRemove, RollingBack, Cleaning, Steps
  <2>2. fs' = [fs EXCEPT ![Plan(target[look[c]])] = fs'[Plan(target[look[c]])]] /\ Directory(fs'[Plan(target[look[c]])])
    BY <1>2, <2>1, RmTreeEffect DEF RestoreRemove
  <2> QED
    BY <1>0, <1>2, <2>1, <2>2 DEF RestoreRemove, DiskTypes
<1>3. CASE Wipe(c)
  <2>1. Plan(target[look[c]]) \in Paths /\ "clean_staging" \in Steps
    BY <1>0, <1>3, PathFacts DEF Wipe, RollingBack, Cleaning, Steps
  <2>2. fs' = [fs EXCEPT ![Plan(target[look[c]])] = fs'[Plan(target[look[c]])]] /\ Directory(fs'[Plan(target[look[c]])])
    BY <1>3, <2>1, RmTreeEffect DEF Wipe
  <2> QED
    BY <1>0, <1>3, <2>1, <2>2 DEF Wipe, DiskTypes
<1>4. CASE CleanStaging(c)
  <2>1. Staging(look[c]) \in Paths /\ "clean_backup" \in Steps
    BY <1>0, <1>4, PathFacts DEF CleanStaging, RollingBack, Cleaning, Steps
  <2>2. fs' = [fs EXCEPT ![Staging(look[c])] = fs'[Staging(look[c])]] /\ Directory(fs'[Staging(look[c])])
    BY <1>4, <2>1, RmTreeEffect DEF CleanStaging
  <2> QED
    BY <1>0, <1>4, <2>1, <2>2 DEF CleanStaging, DiskTypes
<1>5. CASE CleanBackup(c)
  <2>1. Backup(look[c]) \in Paths /\ "unmark" \in Steps
    BY <1>0, <1>5, PathFacts DEF CleanBackup, RollingBack, Cleaning, Steps
  <2>2. fs' = [fs EXCEPT ![Backup(look[c])] = fs'[Backup(look[c])]] /\ Directory(fs'[Backup(look[c])])
    BY <1>5, <2>1, RmTreeEffect DEF CleanBackup
  <2> QED
    BY <1>0, <1>5, <2>1, <2>2 DEF CleanBackup, DiskTypes
<1>6. CASE SweepRemove(c)
  <2>1. look[c] \in Paths /\ "sweep" \in Steps
    BY <1>0, <1>6, PathFacts DEF SweepRemove, RollingBack, Cleaning, Steps
  <2>2. fs' = [fs EXCEPT ![look[c]] = fs'[look[c]]] /\ Directory(fs'[look[c]])
    BY <1>6, <2>1, RmTreeEffect DEF SweepRemove
  <2> QED
    BY <1>0, <1>6, <2>1, <2>2 DEF SweepRemove, DiskTypes
<1>7. CASE RestoreRename(c)
  <2>1. Backup(look[c]) \in Paths /\ Plan(target[look[c]]) \in Paths
    BY <1>0, <1>7, PathFacts DEF RestoreRename, RollingBack
  <2> QED
    BY <1>0, <1>7, <2>1, DirectoryFacts DEF RestoreRename, Rename, DiskTypes
<1>8. CASE Unmark(c)
  BY <1>0, <1>8 DEF Unmark, DiskTypes
<1>9. CASE Get(c) \/ Read(c)
  BY <1>0, <1>9 DEF Get, Read, DiskTypes
<1>10. ASSUME c \in Saves, SaveStep(c) PROVE DiskTypes'
  <2>0. Staging(c) \in Paths /\ Backup(c) \in Paths /\ Plan(target[c]) \in Paths
    BY <1>0, <1>10, PathFacts
  <2>1. CASE Save(c) \/ Check(c) \/ Lineage(c) \/ IOError(c)
    BY <1>0, <2>1 DEF Save, Check, Lineage, IOError, DiskTypes
  <2>2. CASE Copy(c)
    <3>1. fs[Plan(target[c])] # NoDir =>
              Directory(Without(fs[Plan(target[c])], {"latest", "commit", "pending"}))
      BY <1>0, <2>0, WithoutFacts
    <3> QED
      BY <1>0, <2>0, <2>2, <3>1 DEF Copy, DiskTypes
  <2>3. ASSUME NEW f \in Files, NEW next, Write(c, f, next) PROVE DiskTypes'
    <3>1. Directory(With(fs[Staging(c)], f, c))
      BY <1>0, <1>10, <2>0, <2>3, WithDirectory
    <3> QED
      BY <1>0, <2>0, <2>3, <3>1 DEF Write, DiskTypes
  <2>4. CASE WritePending(c) \/ WriteVersion(c) \/ WriteLatest(c) \/ WriteExtras(c)
    <3>1. {"pending", "version", "latest", "extras"} \subseteq Files
      BY DEF Files
    <3> QED
      BY <2>3, <2>4, <3>1 DEF WritePending, WriteVersion, WriteLatest, WriteExtras
  <2>5. CASE (Draft(c) \/ Mark(c))
    BY <1>0, <2>5 DEF Draft, Mark, DiskTypes
  <2>6. CASE MoveToBackup(c)
    BY <1>0, <2>0, <2>6, DirectoryFacts DEF MoveToBackup, Rename, DiskTypes
  <2>7. CASE Replace(c)
    BY <1>0, <2>0, <2>7, DirectoryFacts DEF Replace, Rename, DiskTypes
  <2>8. CASE Commit(c)
    <3>1. Directory(With(fs[Plan(target[c])], "commit", c))
      BY <1>0, <1>10, <2>0, WithDirectory DEF Files
    <3> QED
      BY <1>0, <2>0, <2>8, <3>1 DEF Commit, DiskTypes
  <2>9. CASE Unpend(c)
    <3>1. fs[Plan(target[c])] # NoDir =>
              Directory(Without(fs[Plan(target[c])], {"pending"}))
      BY <1>0, <2>0, WithoutFacts
    <3> QED
      BY <1>0, <2>0, <2>9, <3>1 DEF Unpend, DiskTypes, Exists
  <2>10. CASE Abort(c)
    <3>1. fs' = [fs EXCEPT ![Staging(c)] = fs'[Staging(c)]] /\ Directory(fs'[Staging(c)])
      BY <2>0, <2>10, RmTreeEffect DEF Abort, Steps
    <3> QED
      BY <1>0, <2>0, <2>10, <3>1 DEF Abort, DiskTypes
  <2> QED
    BY <1>10, <2>1, <2>2, <2>4, <2>5, <2>6, <2>7, <2>8, <2>9, <2>10 DEF SaveStep
<1> QED
  BY <1>1, <1>2, <1>3, <1>4, <1>5, <1>6, <1>7, <1>8, <1>9, <1>10
     DEF CallerStep, RecoveryStep

(* The step of a caller keeps the types of the calls.                      *)
LEMMA CallTypesStep ==
    ASSUME WellTyped, NEW c \in Callers, CallerStep(c) PROVE CallTypes'
<1>0. CallTypes /\ Saves \cap Readers = {} /\ Callers = Saves \cup Readers
  BY StoreAssumption DEF WellTyped, Callers, StoreAssumption
<1> USE DEF CallTypes, Goto, Forget, Raised, Recover, Steps, Publishing, Cleaning, RollingBack
<1>1. CASE NextMarker(c)
  BY <1>0, <1>1 DEF NextMarker, Verdict
<1>2. CASE ListPaths(c)
  BY <1>0, <1>2 DEF ListPaths
<1>3. CASE RestoreRename(c)
  BY <1>0, <1>3 DEF RestoreRename
<1>4. CASE Unmark(c)
  BY <1>0, <1>4 DEF Unmark
<1>5. CASE Sweep(c)
  BY <1>0, <1>5 DEF Sweep
<1>6. CASE Recovered(c)
  BY <1>0, <1>6 DEF Recovered
<1>7. CASE RestoreRemove(c)
  <2>1. Plan(target[look[c]]) \in Paths
    BY <1>0, <1>7, PathFacts DEF RestoreRemove, WellTyped, DiskTypes
  <2>2. pc' = pc \/ pc' = [pc EXCEPT ![c] = "restore_rename"]
    BY <1>7, <2>1, RmTreeEffect DEF RestoreRemove
  <2> QED
    BY <1>0, <1>7, <2>2 DEF RestoreRemove
<1>8. CASE Wipe(c)
  <2>1. Plan(target[look[c]]) \in Paths
    BY <1>0, <1>8, PathFacts DEF Wipe, WellTyped, DiskTypes
  <2>2. pc' = pc \/ pc' = [pc EXCEPT ![c] = "clean_staging"]
    BY <1>8, <2>1, RmTreeEffect DEF Wipe
  <2> QED
    BY <1>0, <1>8, <2>2 DEF Wipe
<1>9. CASE CleanStaging(c)
  <2>1. Staging(look[c]) \in Paths
    BY <1>0, <1>9, PathFacts DEF CleanStaging, WellTyped, DiskTypes
  <2>2. pc' = pc \/ pc' = [pc EXCEPT ![c] = "clean_backup"]
    BY <1>9, <2>1, RmTreeEffect DEF CleanStaging
  <2> QED
    BY <1>0, <1>9, <2>2 DEF CleanStaging
<1>10. CASE CleanBackup(c)
  <2>1. Backup(look[c]) \in Paths
    BY <1>0, <1>10, PathFacts DEF CleanBackup, WellTyped, DiskTypes
  <2>2. pc' = pc \/ pc' = [pc EXCEPT ![c] = "unmark"]
    BY <1>10, <2>1, RmTreeEffect DEF CleanBackup
  <2> QED
    BY <1>0, <1>10, <2>2 DEF CleanBackup
<1>11. CASE SweepRemove(c)
  <2>1. look[c] \in Paths
    BY <1>0, <1>11, PathFacts DEF SweepRemove, WellTyped, DiskTypes
  <2>2. pc' = pc \/ pc' = [pc EXCEPT ![c] = "sweep"]
    BY <1>11, <2>1, RmTreeEffect DEF SweepRemove
  <2> QED
    BY <1>0, <1>11, <2>2 DEF SweepRemove
<1>12. CASE c \in Readers /\ (Get(c) \/ Read(c))
  BY <1>0, <1>12 DEF Get, Read
<1>13. CASE c \in Saves /\ Save(c)
  BY <1>0, <1>13 DEF Save
<1>14. CASE c \in Saves /\ Check(c)
  BY <1>0, <1>14 DEF Check
<1>15. CASE c \in Saves /\ Lineage(c)
  BY <1>0, <1>15 DEF Lineage
<1>16. CASE c \in Saves /\ Copy(c)
  BY <1>0, <1>16 DEF Copy
<1>17. CASE c \in Saves /\ WritePending(c)
  BY <1>0, <1>17 DEF WritePending, Write
<1>18. CASE c \in Saves /\ WriteVersion(c)
  BY <1>0, <1>18 DEF WriteVersion, Write
<1>19. CASE c \in Saves /\ WriteLatest(c)
  BY <1>0, <1>19 DEF WriteLatest, Write
<1>20. CASE c \in Saves /\ WriteExtras(c)
  BY <1>0, <1>20 DEF WriteExtras, Write
<1>21. CASE c \in Saves /\ (Draft(c) \/ Mark(c))
  BY <1>0, <1>21 DEF Draft, Mark
<1>22. CASE c \in Saves /\ MoveToBackup(c)
  BY <1>0, <1>22 DEF MoveToBackup
<1>23. CASE c \in Saves /\ Replace(c)
  BY <1>0, <1>23 DEF Replace
<1>24. CASE c \in Saves /\ Commit(c)
  BY <1>0, <1>24 DEF Commit
<1>25. CASE c \in Saves /\ Unpend(c)
  BY <1>0, <1>25 DEF Unpend
<1>26. CASE c \in Saves /\ Abort(c)
  <2>1. Staging(c) \in Paths
    BY <1>26, PathFacts
  <2>2. pc' = pc \/ pc' = [pc EXCEPT ![c] = "failed"]
    BY <1>26, <2>1, RmTreeEffect DEF Abort
  <2> QED
    BY <1>0, <1>26, <2>2 DEF Abort
<1>27. CASE c \in Saves /\ IOError(c)
  BY <1>0, <1>27 DEF IOError
<1> QED
  BY <1>1, <1>2, <1>3, <1>4, <1>5, <1>6, <1>7, <1>8, <1>9, <1>10, <1>11, <1>12, <1>13, <1>14, <1>15, <1>16, <1>17, <1>18, <1>19, <1>20, <1>21, <1>22, <1>23, <1>24, <1>25, <1>26, <1>27
     DEF CallerStep, RecoveryStep, SaveStep

(* A caller changes nothing but the paths it touches, the marker of a      *)
(* transaction whose paths it touches, its own temporary file and its own  *)
(* progress.                                                               *)
Framed(c) ==
    /\ UNCHANGED target
    /\ \A x \in Paths : x \notin Touching(c) => fs'[x] = fs[x]
    /\ \A t \in Saves : marker'[t] = marker[t] \/ PathsOf(t) \subseteq Touching(c)
    /\ \A t \in Saves : temporary'[t] = temporary[t] \/ t = c
    /\ \A d \in Callers : d = c \/ /\ pc'[d] = pc[d] /\ look'[d] = look[d]
                                   /\ todo'[d] = todo[d] /\ back'[d] = back[d]

(* A step of a caller changes no path that it does not touch, no marker of *)
(* a transaction whose paths it does not touch, and no other caller.       *)
LEMMA Frame ==
    ASSUME WellTyped, NEW c \in Callers, CallerStep(c) PROVE Framed(c)
<1>0. /\ fs = [x \in Paths |-> fs[x]] /\ marker = [t \in Saves |-> marker[t]]
      /\ temporary = [t \in Saves |-> temporary[t]]
      /\ target \in [Saves -> Plans]
      /\ pc = [d \in Callers |-> pc[d]] /\ look = [d \in Callers |-> look[d]]
      /\ todo = [d \in Callers |-> todo[d]] /\ back = [d \in Callers |-> back[d]]
      /\ pc[c] \in RollingBack \cup Cleaning => look[c] \in Saves
      /\ pc[c] = "sweep_remove" => look[c] \in Paths
  BY DEF WellTyped, DiskTypes, CallTypes
<1> USE DEF Framed, Goto, Forget, Raised, Recover
<1>1. CASE NextMarker(c)
  BY <1>0, <1>1 DEF NextMarker
<1>2. CASE ListPaths(c)
  BY <1>0, <1>2 DEF ListPaths
<1>3. CASE Sweep(c)
  BY <1>0, <1>3 DEF Sweep
<1>4. CASE Recovered(c)
  BY <1>0, <1>4 DEF Recovered
<1>5. CASE RestoreRename(c)
  <2>1. Touching(c) = PathsOf(look[c])
    BY <1>5 DEF RestoreRename, Touching, PathsOf, Publishing, Cleaning, RollingBack
  <2> QED
    BY <1>0, <1>5, <2>1 DEF RestoreRename, Rename, PathsOf
<1>6. CASE Unmark(c)
  <2>1. Touching(c) = PathsOf(look[c])
    BY <1>6 DEF Unmark, Touching, PathsOf, Publishing, Cleaning, RollingBack
  <2> QED
    BY <1>0, <1>6, <2>1 DEF Unmark
<1>7. CASE RestoreRemove(c)
  <2>1. Plan(target[look[c]]) \in Touching(c) /\ Plan(target[look[c]]) \in Paths /\ "restore_rename" \in Steps
    BY <1>0, <1>7, PathFacts DEF RestoreRemove, Touching, PathsOf, Publishing, Cleaning, RollingBack, Steps
  <2>2. fs' = [fs EXCEPT ![Plan(target[look[c]])] = fs'[Plan(target[look[c]])]]
        /\ (pc' = pc \/ pc' = [pc EXCEPT ![c] = "restore_rename"])
    BY <1>7, <2>1, RmTreeEffect DEF RestoreRemove
  <2> QED
    BY <1>0, <1>7, <2>1, <2>2 DEF RestoreRemove
<1>8. CASE Wipe(c)
  <2>1. Plan(target[look[c]]) \in Touching(c) /\ Plan(target[look[c]]) \in Paths /\ "clean_staging" \in Steps
    BY <1>0, <1>8, PathFacts DEF Wipe, Touching, PathsOf, Publishing, Cleaning, RollingBack, Steps
  <2>2. fs' = [fs EXCEPT ![Plan(target[look[c]])] = fs'[Plan(target[look[c]])]]
        /\ (pc' = pc \/ pc' = [pc EXCEPT ![c] = "clean_staging"])
    BY <1>8, <2>1, RmTreeEffect DEF Wipe
  <2> QED
    BY <1>0, <1>8, <2>1, <2>2 DEF Wipe
<1>9. CASE CleanStaging(c)
  <2>1. Staging(look[c]) \in Touching(c) /\ Staging(look[c]) \in Paths /\ "clean_backup" \in Steps
    BY <1>0, <1>9, PathFacts DEF CleanStaging, Touching, PathsOf, Publishing, Cleaning, RollingBack, Steps
  <2>2. fs' = [fs EXCEPT ![Staging(look[c])] = fs'[Staging(look[c])]]
        /\ (pc' = pc \/ pc' = [pc EXCEPT ![c] = "clean_backup"])
    BY <1>9, <2>1, RmTreeEffect DEF CleanStaging
  <2> QED
    BY <1>0, <1>9, <2>1, <2>2 DEF CleanStaging
<1>10. CASE CleanBackup(c)
  <2>1. Backup(look[c]) \in Touching(c) /\ Backup(look[c]) \in Paths /\ "unmark" \in Steps
    BY <1>0, <1>10, PathFacts DEF CleanBackup, Touching, PathsOf, Publishing, Cleaning, RollingBack, Steps
  <2>2. fs' = [fs EXCEPT ![Backup(look[c])] = fs'[Backup(look[c])]]
        /\ (pc' = pc \/ pc' = [pc EXCEPT ![c] = "unmark"])
    BY <1>10, <2>1, RmTreeEffect DEF CleanBackup
  <2> QED
    BY <1>0, <1>10, <2>1, <2>2 DEF CleanBackup
<1>11. CASE SweepRemove(c)
  <2>1. look[c] \in Touching(c) /\ look[c] \in Paths /\ "sweep" \in Steps
    BY <1>0, <1>11, PathFacts DEF SweepRemove, Touching, PathsOf, Publishing, Cleaning, RollingBack, Steps
  <2>2. fs' = [fs EXCEPT ![look[c]] = fs'[look[c]]]
        /\ (pc' = pc \/ pc' = [pc EXCEPT ![c] = "sweep"])
    BY <1>11, <2>1, RmTreeEffect DEF SweepRemove
  <2> QED
    BY <1>0, <1>11, <2>1, <2>2 DEF SweepRemove
<1>12. CASE c \in Readers /\ (Get(c) \/ Read(c))
  BY <1>0, <1>12 DEF Get, Read
<1>13. CASE c \in Saves /\ Save(c)
  BY <1>0, <1>13 DEF Save
<1>14. CASE c \in Saves /\ Check(c)
  BY <1>0, <1>14 DEF Check
<1>15. CASE c \in Saves /\ Lineage(c)
  BY <1>0, <1>15 DEF Lineage
<1>16. CASE c \in Saves /\ Copy(c)
  <2>1. Touching(c) = PathsOf(c)
    BY <1>16 DEF Copy, Touching, PathsOf, Publishing, Cleaning, RollingBack
  <2> QED
    BY <1>0, <1>16, <2>1 DEF Copy, PathsOf
<1>17. CASE c \in Saves /\ WritePending(c)
  <2>1. Touching(c) = PathsOf(c)
    BY <1>17 DEF WritePending, Write, Touching, PathsOf, Publishing, Cleaning, RollingBack
  <2> QED
    BY <1>0, <1>17, <2>1 DEF WritePending, Write, PathsOf
<1>18. CASE c \in Saves /\ WriteVersion(c)
  <2>1. Touching(c) = PathsOf(c)
    BY <1>18 DEF WriteVersion, Write, Touching, PathsOf, Publishing, Cleaning, RollingBack
  <2> QED
    BY <1>0, <1>18, <2>1 DEF WriteVersion, Write, PathsOf
<1>19. CASE c \in Saves /\ WriteLatest(c)
  <2>1. Touching(c) = PathsOf(c)
    BY <1>19 DEF WriteLatest, Write, Touching, PathsOf, Publishing, Cleaning, RollingBack
  <2> QED
    BY <1>0, <1>19, <2>1 DEF WriteLatest, Write, PathsOf
<1>20. CASE c \in Saves /\ WriteExtras(c)
  <2>1. Touching(c) = PathsOf(c)
    BY <1>20 DEF WriteExtras, Write, Touching, PathsOf, Publishing, Cleaning, RollingBack
  <2> QED
    BY <1>0, <1>20, <2>1 DEF WriteExtras, Write, PathsOf
<1>21. CASE c \in Saves /\ (Draft(c) \/ Mark(c))
  <2>1. Touching(c) = PathsOf(c)
    BY <1>21 DEF Draft, Mark, Touching, PathsOf, Publishing, Cleaning, RollingBack
  <2> QED
    BY <1>0, <1>21, <2>1 DEF Draft, Mark, PathsOf
<1>22. CASE c \in Saves /\ MoveToBackup(c)
  <2>1. Touching(c) = PathsOf(c)
    BY <1>22 DEF MoveToBackup, Touching, PathsOf, Publishing, Cleaning, RollingBack
  <2> QED
    BY <1>0, <1>22, <2>1 DEF MoveToBackup, Rename, PathsOf
<1>23. CASE c \in Saves /\ Replace(c)
  <2>1. Touching(c) = PathsOf(c)
    BY <1>23 DEF Replace, Touching, PathsOf, Publishing, Cleaning, RollingBack
  <2> QED
    BY <1>0, <1>23, <2>1 DEF Replace, Rename, PathsOf
<1>24. CASE c \in Saves /\ Commit(c)
  <2>1. Touching(c) = PathsOf(c)
    BY <1>24 DEF Commit, Touching, PathsOf, Publishing, Cleaning, RollingBack
  <2> QED
    BY <1>0, <1>24, <2>1 DEF Commit, PathsOf
<1>25. CASE c \in Saves /\ Unpend(c)
  <2>1. Touching(c) = PathsOf(c)
    BY <1>25 DEF Unpend, Touching, PathsOf, Publishing, Cleaning, RollingBack
  <2> QED
    BY <1>0, <1>25, <2>1 DEF Unpend, PathsOf
<1>26. CASE c \in Saves /\ Abort(c)
  <2>1. Staging(c) \in Touching(c) /\ Staging(c) \in Paths /\ "failed" \in Steps
    BY <1>26, PathFacts DEF Abort, Touching, PathsOf, Publishing, Cleaning, RollingBack, Steps
  <2>2. fs' = [fs EXCEPT ![Staging(c)] = fs'[Staging(c)]]
        /\ (pc' = pc \/ pc' = [pc EXCEPT ![c] = "failed"])
    BY <1>26, <2>1, RmTreeEffect DEF Abort
  <2> QED
    BY <1>0, <1>26, <2>1, <2>2 DEF Abort
<1>27. CASE c \in Saves /\ IOError(c)
  BY <1>0, <1>27 DEF IOError
<1> QED
  BY <1>1, <1>2, <1>3, <1>4, <1>5, <1>6, <1>7, <1>8, <1>9, <1>10, <1>11, <1>12, <1>13, <1>14, <1>15, <1>16, <1>17, <1>18, <1>19, <1>20, <1>21, <1>22, <1>23, <1>24, <1>25, <1>26, <1>27
     DEF CallerStep, RecoveryStep, SaveStep

(* Which steps of a caller change a plan, a backup, a staging area or a    *)
(* marker.                                                                 *)
PlanChange(c, p) ==
    \/ (RestoreRemove(c) \/ RestoreRename(c) \/ Wipe(c)) /\ p = target[look[c]]
    \/ SweepRemove(c) /\ look[c] = Plan(p)
    \/ /\ c \in Saves /\ p = target[c]
       /\ MoveToBackup(c) \/ Replace(c) \/ Commit(c) \/ Unpend(c)

BackupChange(c, t) ==
    \/ (RestoreRename(c) \/ CleanBackup(c)) /\ t = look[c]
    \/ SweepRemove(c) /\ look[c] = Backup(t)
    \/ c \in Saves /\ t = c /\ MoveToBackup(c)

StagingChange(c, s) ==
    \/ CleanStaging(c) /\ s = look[c]
    \/ SweepRemove(c) /\ look[c] = Staging(s)
    \/ /\ c \in Saves /\ s = c
       /\ \/ Copy(c) \/ Replace(c) \/ Abort(c)
          \/ WritePending(c) \/ WriteVersion(c) \/ WriteLatest(c) \/ WriteExtras(c)

MarkerChange(c, t) ==
    \/ Unmark(c) /\ t = look[c]
    \/ c \in Saves /\ t = c /\ Mark(c)

DiskFramed(c) ==
    /\ \A p \in Plans : fs'[Plan(p)] = fs[Plan(p)] \/ PlanChange(c, p)
    /\ \A t \in Saves : fs'[Backup(t)] = fs[Backup(t)] \/ BackupChange(c, t)
    /\ \A s \in Saves : fs'[Staging(s)] = fs[Staging(s)] \/ StagingChange(c, s)
    /\ \A t \in Saves : marker'[t] = marker[t] \/ MarkerChange(c, t)

(* A step changes a plan, a backup, a staging area or a marker in one of   *)
(* the ways that belong to the caller's position.                          *)
LEMMA DiskFrame ==
    ASSUME WellTyped, NEW c \in Callers, CallerStep(c) PROVE DiskFramed(c)
<1>0. /\ fs = [x \in Paths |-> fs[x]] /\ marker = [t \in Saves |-> marker[t]]
      /\ target \in [Saves -> Plans]
      /\ pc[c] \in RollingBack \cup Cleaning => look[c] \in Saves
      /\ pc[c] = "sweep_remove" => look[c] \in Paths
  BY DEF WellTyped, DiskTypes, CallTypes
<1> USE PathFacts DEF DiskFramed, PlanChange, BackupChange, StagingChange, MarkerChange
<1>1. CASE UNCHANGED <<fs, marker>>
  BY <1>1
<1>2. CASE NextMarker(c) \/ ListPaths(c) \/ Sweep(c) \/ Recovered(c)
  BY <1>1, <1>2 DEF NextMarker, ListPaths, Sweep, Recovered
<1>3. CASE Get(c) \/ Read(c)
  BY <1>1, <1>3 DEF Get, Read
<1>4. CASE RestoreRename(c)
  BY <1>0, <1>4 DEF RestoreRename, Rename, Cleaning, RollingBack
<1>5. CASE Unmark(c)
  <2>1. UNCHANGED fs /\ \A t \in Saves : t # look[c] => marker'[t] = marker[t]
    BY <1>0, <1>5 DEF Unmark
  <2> QED
    BY <1>5, <2>1
<1>6. CASE RestoreRemove(c)
  <2>1. Plan(target[look[c]]) \in Paths /\ "restore_rename" \in Steps
    BY <1>0, <1>6 DEF RestoreRemove, Cleaning, RollingBack, Steps
  <2>2. fs' = [fs EXCEPT ![Plan(target[look[c]])] = fs'[Plan(target[look[c]])]] /\ UNCHANGED marker
    BY <1>6, <2>1, RmTreeEffect DEF RestoreRemove
  <2> QED
    BY <1>0, <1>6, <2>1, <2>2
<1>7. CASE Wipe(c)
  <2>1. Plan(target[look[c]]) \in Paths /\ "clean_staging" \in Steps
    BY <1>0, <1>7 DEF Wipe, Cleaning, RollingBack, Steps
  <2>2. fs' = [fs EXCEPT ![Plan(target[look[c]])] = fs'[Plan(target[look[c]])]] /\ UNCHANGED marker
    BY <1>7, <2>1, RmTreeEffect DEF Wipe
  <2> QED
    BY <1>0, <1>7, <2>1, <2>2
<1>8. CASE CleanStaging(c)
  <2>1. Staging(look[c]) \in Paths /\ "clean_backup" \in Steps
    BY <1>0, <1>8 DEF CleanStaging, Cleaning, RollingBack, Steps
  <2>2. fs' = [fs EXCEPT ![Staging(look[c])] = fs'[Staging(look[c])]] /\ UNCHANGED marker
    BY <1>8, <2>1, RmTreeEffect DEF CleanStaging
  <2> QED
    BY <1>0, <1>8, <2>1, <2>2
<1>9. CASE CleanBackup(c)
  <2>1. Backup(look[c]) \in Paths /\ "unmark" \in Steps
    BY <1>0, <1>9 DEF CleanBackup, Cleaning, RollingBack, Steps
  <2>2. fs' = [fs EXCEPT ![Backup(look[c])] = fs'[Backup(look[c])]] /\ UNCHANGED marker
    BY <1>9, <2>1, RmTreeEffect DEF CleanBackup
  <2> QED
    BY <1>0, <1>9, <2>1, <2>2
<1>10. CASE SweepRemove(c)
  <2>1. look[c] \in Paths /\ "sweep" \in Steps
    BY <1>0, <1>10 DEF SweepRemove, Cleaning, RollingBack, Steps
  <2>2. fs' = [fs EXCEPT ![look[c]] = fs'[look[c]]] /\ UNCHANGED marker
    BY <1>10, <2>1, RmTreeEffect DEF SweepRemove
  <2> QED
    BY <1>0, <1>10, <2>1, <2>2
<1>11. CASE c \in Saves /\ Save(c)
  BY <1>1, <1>11 DEF Save
<1>12. CASE c \in Saves /\ Check(c)
  BY <1>1, <1>12 DEF Check
<1>13. CASE c \in Saves /\ Lineage(c)
  BY <1>1, <1>13 DEF Lineage
<1>14. CASE c \in Saves /\ Copy(c)
  BY <1>0, <1>14 DEF Copy
<1>15. CASE c \in Saves /\ WritePending(c)
  BY <1>0, <1>15 DEF WritePending, Write
<1>16. CASE c \in Saves /\ WriteVersion(c)
  BY <1>0, <1>16 DEF WriteVersion, Write
<1>17. CASE c \in Saves /\ WriteLatest(c)
  BY <1>0, <1>17 DEF WriteLatest, Write
<1>18. CASE c \in Saves /\ WriteExtras(c)
  BY <1>0, <1>18 DEF WriteExtras, Write
<1>19. CASE c \in Saves /\ (Draft(c) \/ Mark(c))
  BY <1>0, <1>19 DEF Draft, Mark
<1>20. CASE c \in Saves /\ MoveToBackup(c)
  BY <1>0, <1>20 DEF MoveToBackup, Rename
<1>21. CASE c \in Saves /\ Replace(c)
  BY <1>0, <1>21 DEF Replace, Rename
<1>22. CASE c \in Saves /\ Commit(c)
  BY <1>0, <1>22 DEF Commit
<1>23. CASE c \in Saves /\ Unpend(c)
  BY <1>0, <1>23 DEF Unpend
<1>24. CASE c \in Saves /\ Abort(c)
  <2>1. Staging(c) \in Paths /\ "failed" \in Steps
    BY <1>24 DEF Steps
  <2>2. fs' = [fs EXCEPT ![Staging(c)] = fs'[Staging(c)]] /\ UNCHANGED marker
    BY <1>24, <2>1, RmTreeEffect DEF Abort
  <2> QED
    BY <1>0, <1>24, <2>1, <2>2
<1>25. CASE c \in Saves /\ IOError(c)
  BY <1>1, <1>25 DEF IOError
<1> QED
  BY <1>1, <1>2, <1>3, <1>4, <1>5, <1>6, <1>7, <1>8, <1>9, <1>10, <1>11, <1>12, <1>13, <1>14, <1>15, <1>16, <1>17, <1>18, <1>19, <1>20, <1>21, <1>22, <1>23, <1>24, <1>25
     DEF CallerStep, RecoveryStep, SaveStep

(* Everything that a proof about a step of a caller starts from.           *)
StepOf(c) ==
    /\ WellTyped /\ Facts /\ ~clash /\ ~Overlap
    /\ CallerStep(c) /\ Framed(c) /\ DiskFramed(c)
    /\ DiskTypes' /\ CallTypes'

(* A committed plan stays as it is but for its pending marker.             *)
LEMMA CommittedStays ==
    ASSUME NEW c \in Callers, StepOf(c), NEW p \in Plans, Committed(p)
    PROVE  /\ \/ fs'[Plan(p)] = fs[Plan(p)]
              \/ fs'[Plan(p)] = Without(fs[Plan(p)], {"pending"})
           /\ Committed(p)'
<1>0. /\ fs = [x \in Paths |-> fs[x]] /\ Directory(fs[Plan(p)]) /\ Plan(p) \in Paths
      /\ \A s \in Saves : Publishes(s)
      /\ Recovers(c)
  BY PathFacts DEF StepOf, WellTyped, DiskTypes, Facts, CallerFacts
<1>1. \/ fs'[Plan(p)] = fs[Plan(p)]
      \/ fs'[Plan(p)] = Without(fs[Plan(p)], {"pending"})
  <2>1. CASE (RestoreRemove(c) \/ RestoreRename(c) \/ Wipe(c)) /\ p = target[look[c]]
    BY <1>0, <2>1 DEF RestoreRemove, RestoreRename, Wipe, Recovers, RollingBack
  <2>2. CASE SweepRemove(c) /\ look[c] = Plan(p)
    BY <1>0, <2>2, PathFacts DEF SweepRemove, Recovers, Disposable
  <2>3. CASE c \in Saves /\ p = target[c] /\ (MoveToBackup(c) \/ Replace(c) \/ Commit(c))
    BY <1>0, <2>3 DEF MoveToBackup, Replace, Commit, Publishes, Uncommitted
  <2>4. CASE c \in Saves /\ p = target[c] /\ Unpend(c)
    BY <1>0, <2>4 DEF Unpend
  <2> QED
    BY <2>1, <2>2, <2>3, <2>4 DEF StepOf, DiskFramed, PlanChange
<1>2. Committed(p)'
  <2>1. fs[Plan(p)] # NoDir /\ "commit" \in DOMAIN fs[Plan(p)]
    BY DEF Committed, Has, Exists
  <2>2. /\ Without(fs[Plan(p)], {"pending"}) # NoDir
        /\ DOMAIN Without(fs[Plan(p)], {"pending"}) = DOMAIN fs[Plan(p)] \ {"pending"}
    BY <1>0, <2>1, WithoutFacts
  <2> QED
    BY <1>1, <2>1, <2>2 DEF Committed, Has, Exists
<1> QED
  BY <1>1, <1>2

(* A plan becomes visible only when its save writes the commit marker.     *)
LEMMA NewlyCommitted ==
    ASSUME NEW c \in Callers, StepOf(c), NEW p \in Plans, ~Committed(p), Committed(p)'
    PROVE  /\ c \in Saves /\ p = target[c] /\ pc[c] = "commit"
           /\ Exists(Plan(p)) /\ fs'[Plan(p)] = With(fs[Plan(p)], "commit", c)
<1>0. /\ fs = [x \in Paths |-> fs[x]] /\ \A x \in Paths : Directory(fs[x])
      /\ Plan(p) \in Paths
      /\ MarkerFacts /\ CommitFacts
      /\ pc[c] \in RollingBack \cup Cleaning => look[c] \in Saves
  BY PathFacts DEF StepOf, WellTyped, DiskTypes, CallTypes, Facts
<1>1. fs'[Plan(p)] # fs[Plan(p)]
  BY DEF Committed, Has, Exists
<1>2. ASSUME NEW next \in Steps, RmTree(c, Plan(p), next) PROVE FALSE
  BY <1>0, <1>2, RmTreeEffect DEF StepOf, Committed, Has, Exists
<1>3. ~(p = target[look[c]] /\ (RestoreRemove(c) \/ Wipe(c)))
  BY <1>2 DEF RestoreRemove, Wipe, Steps, RollingBack, Cleaning
<1>4. ~(SweepRemove(c) /\ look[c] = Plan(p))
  BY <1>2 DEF SweepRemove, Steps
<1>5. ~(p = target[look[c]] /\ RestoreRename(c))
  <2> SUFFICES ASSUME p = target[look[c]], RestoreRename(c) PROVE FALSE
    OBVIOUS
  <2>1. look[c] \in Saves
    BY <1>0 DEF RestoreRename, RollingBack
  <2>2. fs'[Plan(p)] = fs[Backup(look[c])] /\ Exists(Backup(look[c]))
    BY <1>0, <1>1, <2>1, PathFacts DEF RestoreRename, Rename, CanRename
  <2>3. "commit" \notin DOMAIN fs[Backup(look[c])]
    BY <1>0, <2>1, <2>2 DEF MarkerFacts
  <2> QED
    BY <2>2, <2>3 DEF Committed, Has
<1>6. c \in Saves /\ p = target[c] /\ (MoveToBackup(c) \/ Replace(c) \/ Commit(c) \/ Unpend(c))
  BY <1>1, <1>3, <1>4, <1>5 DEF StepOf, DiskFramed, PlanChange
<1>7. ~MoveToBackup(c)
  BY <1>0, <1>1, <1>6, PathFacts DEF MoveToBackup, Rename, Committed, Has, Exists
<1>8. ~Replace(c)
  BY <1>0, <1>1, <1>6, PathFacts DEF Replace, Rename, Committed, Has, Exists, CommitFacts
<1>9. ~Unpend(c)
  <2> SUFFICES ASSUME Unpend(c) PROVE FALSE
    OBVIOUS
  <2>1. fs[Plan(p)] # NoDir /\ fs'[Plan(p)] = Without(fs[Plan(p)], {"pending"})
    BY <1>0, <1>1, <1>6 DEF Unpend, Exists
  <2>2. DOMAIN Without(fs[Plan(p)], {"pending"}) = DOMAIN fs[Plan(p)] \ {"pending"}
    BY <1>0, <2>1, WithoutFacts
  <2> QED
    BY <2>1, <2>2 DEF Committed, Has, Exists
<1>10. Commit(c)
  BY <1>6, <1>7, <1>8, <1>9
<1> QED
  BY <1>0, <1>1, <1>6, <1>10 DEF Commit

(* A visible plan stays whole, and only the commit writes a commit marker. *)
LEMMA CommitFactsStep ==
    ASSUME NEW c \in Callers, StepOf(c) PROVE CommitFacts'
<1>0. /\ fs = [x \in Paths |-> fs[x]] /\ \A x \in Paths : Directory(fs[x])
      /\ target \in [Saves -> Plans] /\ UNCHANGED target
      /\ CommitFacts /\ \A s \in Saves : Publishes(s)
      /\ pc[c] \in RollingBack \cup Cleaning => look[c] \in Saves
  BY DEF StepOf, WellTyped, DiskTypes, CallTypes, Facts, CallerFacts, Framed
<1>1. ASSUME NEW p \in Plans, Committed(p)'
      PROVE  Whole(p)' /\ (p \in LegacyPlans => Has(Plan(p), "old")')
  <2>0. Plan(p) \in Paths /\ Directory(fs[Plan(p)])
    BY <1>0, PathFacts
  <2>1. CASE Committed(p)
    <3> DEFINE d == fs[Plan(p)]  e == Without(d, {"pending"})
    <3>1. d # NoDir /\ Whole(p) /\ (p \in LegacyPlans => "old" \in DOMAIN d)
      BY <1>0, <2>1 DEF Committed, CommitFacts, Has, Exists
    <3>2. /\ e # NoDir /\ DOMAIN e = DOMAIN d \ {"pending"}
          /\ \A f \in DOMAIN d \ {"pending"} : e[f] = d[f]
      BY <2>0, <3>1, WithoutFacts
    <3>3. fs'[Plan(p)] = d \/ fs'[Plan(p)] = e
      BY <2>1, CommittedStays
    <3> QED
      BY <3>1, <3>2, <3>3 DEF Whole, Has, Exists
  <2>2. CASE ~Committed(p)
    <3> DEFINE d == fs[Plan(p)]  e == With(d, "commit", c)
    <3>1. c \in Saves /\ p = target[c] /\ pc[c] = "commit" /\ d # NoDir /\ fs'[Plan(p)] = e
      BY <1>1, <2>2, NewlyCommitted DEF Exists
    <3>2. /\ e # NoDir /\ DOMAIN e = {"commit"} \cup DOMAIN d
          /\ \A f \in DOMAIN d \ {"commit"} : e[f] = d[f]
      <4>1. "commit" \in Files /\ c \in Saves /\ Directory(d) /\ d # NoDir
        BY <2>0, <3>1 DEF Files
      <4>2. e # NoDir
        BY <4>1, WithDirectory
      <4>3. DOMAIN e = {"commit"} \cup DOMAIN d
        BY <4>1, WithDomain
      <4>4. \A f \in DOMAIN d \ {"commit"} : e[f] = d[f]
        BY <4>1, WithContents
      <4> QED
        BY <4>2, <4>3, <4>4
    <3>3. WrittenBy(Plan(p), c, Content) /\ (p \in LegacyPlans => Has(Plan(p), "old"))
      BY <1>0, <3>1 DEF Publishes
    <3> QED
      BY <3>1, <3>2, <3>3 DEF Whole, WrittenBy, Content, Has, Exists
  <2> QED
    BY <2>1, <2>2
<1>2. ASSUME NEW s \in Saves PROVE ~Has(Staging(s), "commit")'
  <2>0. Staging(s) \in Paths /\ Directory(fs[Staging(s)]) /\ ~Has(Staging(s), "commit")
    BY <1>0, PathFacts DEF CommitFacts
  <2>1. ASSUME NEW next \in Steps, RmTree(c, Staging(s), next)
        PROVE  ~Has(Staging(s), "commit")'
    BY <2>0, <2>1, RmTreeEffect DEF StepOf, Has, Exists
  <2>2. CASE \/ CleanStaging(c) /\ s = look[c]
             \/ SweepRemove(c) /\ look[c] = Staging(s)
    BY <2>1, <2>2 DEF CleanStaging, SweepRemove, Steps, Cleaning, RollingBack
  <2>3. CASE c = s /\ Abort(c)
    BY <2>1, <2>3 DEF Abort, Steps
  <2>4. CASE c = s /\ Copy(c)
    <3> DEFINE d == fs[Plan(target[s])]  e == Without(d, {"latest", "commit", "pending"})
    <3>1. d # NoDir => DOMAIN e = DOMAIN d \ {"latest", "commit", "pending"}
      BY <1>0, PathFacts, WithoutFacts
    <3> QED
      BY <1>0, <2>0, <2>4, <3>1 DEF Copy, Has, Exists
  <2>5. CASE c = s /\ Replace(c)
    BY <1>0, <2>0, <2>5, PathFacts DEF Replace, Rename, Has, Exists
  <2>6. ASSUME NEW f \in Files \ {"commit"}, NEW next, c = s, Write(c, f, next)
        PROVE  ~Has(Staging(s), "commit")'
    <3> DEFINE d == fs[Staging(s)]
    <3>1. /\ d = NoDir => DOMAIN With(d, f, s) = {f}
          /\ d # NoDir => DOMAIN With(d, f, s) = {f} \cup DOMAIN d
      <4>1. f \in Files /\ s \in Saves /\ Directory(d)
        BY <2>0
      <4> QED
        BY <4>1, WithDomain
    <3>2. fs'[Staging(s)] = With(d, f, s)
      BY <1>0, <2>0, <2>6 DEF Write
    <3> QED
      BY <2>0, <3>1, <3>2 DEF Has, Exists
  <2>7. CASE c = s /\ (WritePending(c) \/ WriteVersion(c) \/ WriteLatest(c) \/ WriteExtras(c))
    BY <2>6, <2>7 DEF WritePending, WriteVersion, WriteLatest, WriteExtras, Files
  <2>8. CASE fs'[Staging(s)] = fs[Staging(s)]
    BY <2>0, <2>8 DEF Has, Exists
  <2> QED
    BY <2>2, <2>3, <2>4, <2>5, <2>7, <2>8 DEF StepOf, DiskFramed, StagingChange
<1> QED
  BY <1>1, <1>2 DEF CommitFacts

(* What a caller relies on is not disturbed by the step of another one.    *)
LEMMA OthersUndisturbed ==
    ASSUME NEW c \in Callers, StepOf(c), NEW d \in Callers, d # c
    PROVE  Recovers(d)' /\ (d \in Saves => Publishes(d)' /\ Saved(d)')
<1>0. /\ target \in [Saves -> Plans] /\ UNCHANGED target
      /\ pc[d] \in RollingBack \cup Cleaning => look[d] \in Saves
      /\ pc'[d] = pc[d] /\ look'[d] = look[d]
      /\ Recovers(d) /\ Recovers(c)
      /\ d \in Saves => Publishes(d) /\ Saved(d)
  BY DEF StepOf, WellTyped, DiskTypes, CallTypes, Facts, CallerFacts, Framed
<1>1. \A x \in Paths : x \in Touching(d) => x \notin Touching(c) /\ fs'[x] = fs[x]
  BY DEF StepOf, Overlap, Framed
<1>2. ASSUME NEW t \in Saves, PathsOf(t) \cap Touching(d) # {}
      PROVE  marker'[t] = marker[t]
  BY <1>2 DEF StepOf, Overlap, Framed
<1>3. ASSUME NEW t \in Saves, PathsOf(t) \subseteq Touching(d)
      PROVE  /\ marker'[t] = marker[t]
             /\ fs'[Staging(t)] = fs[Staging(t)] /\ fs'[Backup(t)] = fs[Backup(t)]
             /\ fs'[Plan(target[t])] = fs[Plan(target[t])]
  <2>1. PathsOf(t) \subseteq Paths
    BY <1>0, PathFacts DEF PathsOf
  <2>2. Staging(t) \in PathsOf(t) /\ Backup(t) \in PathsOf(t) /\ Plan(target[t]) \in PathsOf(t)
    BY DEF PathsOf
  <2> QED
    BY <1>1, <1>2, <1>3, <2>1, <2>2
<1>4. ASSUME d \in Saves PROVE Publishes(d)' /\ Saved(d)'
  <2>1. CASE pc[d] \in Publishing
    <3>1. Touching(d) = PathsOf(d)
      BY <2>1 DEF Touching
    <3>2. temporary'[d] = temporary[d]
      BY <1>4 DEF StepOf, Framed
    <3> QED
      BY <1>0, <1>3, <1>4, <2>1, <3>1, <3>2
         DEF Publishes, Saved, Publishing, Committed, Has, Exists, WrittenBy
  <2>2. CASE pc[d] \notin Publishing
    <3>1. Publishes(d)'
      BY <1>0, <2>2 DEF Publishes, Publishing, Uncommitted, Staged
    <3>2. Saved(d)'
      BY <1>0, <1>4, CommittedStays DEF Saved
    <3> QED
      BY <3>1, <3>2
  <2> QED
    BY <2>1, <2>2
<1>5. Recovers(d)'
  <2>1. CASE pc[d] \in RollingBack \cup Cleaning
    <3>1. Touching(d) = PathsOf(look[d])
      BY <2>1 DEF Touching, RollingBack, Cleaning, Publishing
    <3> DEFINE t == look[d]
    <3>2. /\ t \in Saves /\ marker'[t] = marker[t]
          /\ fs'[Staging(t)] = fs[Staging(t)] /\ fs'[Backup(t)] = fs[Backup(t)]
          /\ fs'[Plan(target[t])] = fs[Plan(target[t])]
      BY <1>0, <1>3, <2>1, <3>1
    <3> QED
      BY <1>0, <2>1, <3>2
         DEF Recovers, RollingBack, Cleaning, RolledBack, Committed, Has, Exists
  <2>2. CASE pc[d] = "sweep_remove"
    <3>1. Touching(d) = {look[d]}
      BY <2>2 DEF Touching, RollingBack, Cleaning, Publishing
    <3>2. ASSUME NEW p \in Plans, look[d] = Plan(p), Disposable(p) PROVE Disposable(p)'
      <4>1. PICK t \in Saves : /\ target[t] = p /\ marker[t] # "none"
                               /\ marker[t] = "had" => Exists(Backup(t))
        BY <3>2 DEF Disposable
      <4>2. fs'[Plan(p)] = fs[Plan(p)] /\ Plan(p) \notin Touching(c)
        BY <1>1, <3>1, <3>2, PathFacts
      <4>3. marker'[t] = marker[t]
        BY <1>2, <3>1, <3>2, <4>1 DEF PathsOf
      <4>4. fs'[Backup(t)] = fs[Backup(t)]
        <5>1. ~(SweepRemove(c) /\ look[c] = Backup(t))
          BY <1>0, PathFacts DEF SweepRemove, Recovers
        <5>2. ~((RestoreRename(c) \/ CleanBackup(c)) /\ t = look[c])
          BY <4>1, <4>2 DEF RestoreRename, CleanBackup, Touching, PathsOf, RollingBack,
                            Cleaning, Publishing
        <5>3. ~(c \in Saves /\ t = c /\ MoveToBackup(c))
          BY <4>1, <4>2 DEF MoveToBackup, Touching, PathsOf, Publishing
        <5> QED
          BY <5>1, <5>2, <5>3 DEF StepOf, DiskFramed, BackupChange
      <4> QED
        BY <1>0, <3>2, <4>1, <4>2, <4>3, <4>4 DEF Disposable, Committed, Has, Exists
    <3> QED
      BY <1>0, <2>2, <3>2 DEF Recovers, RollingBack, Cleaning
  <2>3. CASE pc[d] \notin RollingBack \cup Cleaning \cup {"sweep_remove"}
    BY <1>0, <2>3 DEF Recovers, RollingBack, Cleaning
  <2> QED
    BY <2>1, <2>2, <2>3
<1> QED
  BY <1>4, <1>5

(* Where a step leads: a call starts with Save or Get, and goes on from    *)
(* where it is.                                                            *)
LEMMA Flow ==
    ASSUME NEW c \in Callers, StepOf(c)
    PROVE  /\ pc[c] \notin {"saved", "failed"}
           /\ pc[c] = "idle" => (c \in Readers /\ Get(c)) \/ (c \in Saves /\ Save(c))
<1> USE DEF RollingBack, Cleaning, Publishing
<1>1. CASE NextMarker(c)
  BY <1>1 DEF NextMarker
<1>2. CASE ListPaths(c)
  BY <1>2 DEF ListPaths
<1>3. CASE RestoreRemove(c)
  BY <1>3 DEF RestoreRemove
<1>4. CASE RestoreRename(c)
  BY <1>4 DEF RestoreRename
<1>5. CASE Wipe(c)
  BY <1>5 DEF Wipe
<1>6. CASE CleanStaging(c)
  BY <1>6 DEF CleanStaging
<1>7. CASE CleanBackup(c)
  BY <1>7 DEF CleanBackup
<1>8. CASE Unmark(c)
  BY <1>8 DEF Unmark
<1>9. CASE Sweep(c)
  BY <1>9 DEF Sweep
<1>10. CASE SweepRemove(c)
  BY <1>10 DEF SweepRemove
<1>11. CASE Recovered(c)
  BY <1>11 DEF Recovered
<1>12. CASE c \in Saves /\ Save(c)
  BY <1>12 DEF Save
<1>13. CASE Check(c)
  BY <1>13 DEF Check
<1>14. CASE Lineage(c)
  BY <1>14 DEF Lineage
<1>15. CASE Copy(c)
  BY <1>15 DEF Copy
<1>16. CASE WritePending(c)
  BY <1>16 DEF WritePending, Write
<1>17. CASE WriteVersion(c)
  BY <1>17 DEF WriteVersion, Write
<1>18. CASE WriteLatest(c)
  BY <1>18 DEF WriteLatest, Write
<1>19. CASE WriteExtras(c)
  BY <1>19 DEF WriteExtras, Write
<1>20. CASE (Draft(c) \/ Mark(c))
  BY <1>20 DEF Draft, Mark
<1>21. CASE MoveToBackup(c)
  BY <1>21 DEF MoveToBackup
<1>22. CASE Replace(c)
  BY <1>22 DEF Replace
<1>23. CASE Commit(c)
  BY <1>23 DEF Commit
<1>24. CASE Unpend(c)
  BY <1>24 DEF Unpend
<1>25. CASE Abort(c)
  BY <1>25 DEF Abort
<1>26. CASE IOError(c)
  BY <1>26 DEF IOError
<1>27. CASE Read(c)
  BY <1>27 DEF Read
<1>28. CASE c \in Readers /\ Get(c)
  BY <1>28 DEF Get
<1> QED
  BY <1>1, <1>2, <1>3, <1>4, <1>5, <1>6, <1>7, <1>8, <1>9, <1>10, <1>11, <1>12, <1>13, <1>14, <1>15, <1>16, <1>17, <1>18, <1>19, <1>20, <1>21, <1>22, <1>23, <1>24, <1>25, <1>26, <1>27, <1>28
     DEF StepOf, CallerStep, RecoveryStep, SaveStep

(* At most one call works on a plan.                                       *)
LEMMA OneCallStep ==
    ASSUME NEW c \in Callers, StepOf(c) PROVE OneCallPerPlan'
<1>0. /\ OneCallPerPlan /\ UNCHANGED target
      /\ \A d \in Callers : d = c \/ pc'[d] = pc[d]
      /\ Saves \subseteq Callers
  BY DEF StepOf, Facts, Framed, Callers
<1>1. CASE c \in Saves /\ Save(c)
  BY <1>0, <1>1 DEF Save, OneCallPerPlan, Running
<1>2. CASE c \notin Saves
  BY <1>0, <1>2 DEF OneCallPerPlan, Running
<1>3. CASE Running(c)
  BY <1>0, <1>3 DEF OneCallPerPlan, Running
<1> QED
  BY <1>1, <1>2, <1>3, Flow, StoreAssumption DEF Running, StoreAssumption

(* A transaction is marked by its own save, after its publication started. *)
LEMMA MarkedLateStep ==
    ASSUME NEW c \in Callers, StepOf(c) PROVE MarkedLate'
<1>0. /\ MarkedLate
      /\ \A d \in Callers : d # c => pc'[d] = pc[d] /\ look'[d] = look[d]
      /\ Saves \subseteq Callers
      /\ pc \in [Callers -> Steps] /\ look = [d \in Callers |-> look[d]]
      /\ marker = [t \in Saves |-> marker[t]]
  <2>1. MarkedLate /\ WellTyped /\ Framed(c)
    BY DEF StepOf, Facts
  <2> QED
    BY <2>1 DEF WellTyped, CallTypes, DiskTypes, Framed, Callers
<1> USE DEF MarkedLate
<1>1. ASSUME NEW s \in Saves, s # c, marker'[s] # "none"
      PROVE  \/ pc'[s] \in {"backup", "replace", "commit", "unpend", "failed"}
             \/ pc'[s] \in Cleaning /\ look'[s] = s
  <2>1. marker[s] # "none"
    <3>1. CASE Unmark(c) /\ s = look[c]
      BY <1>0, <1>1, <3>1 DEF Unmark
    <3> QED
      BY <1>0, <1>1, <3>1 DEF StepOf, DiskFramed, MarkerChange
  <2> QED
    BY <1>0, <1>1, <2>1
<1>2. ASSUME c \in Saves, marker'[c] # "none"
      PROVE  \/ pc'[c] \in {"backup", "replace", "commit", "unpend", "failed"}
             \/ pc'[c] \in Cleaning /\ look'[c] = c
  <2> USE DEF Goto, Forget, Raised, Cleaning
  <2>1. CASE Mark(c)
    BY <1>0, <2>1 DEF Mark
  <2>2. CASE marker[c] # "none"
    <3>0. \/ pc[c] \in {"backup", "replace", "commit", "unpend", "failed"}
          \/ pc[c] \in Cleaning /\ look[c] = c
      BY <1>0, <1>2, <2>2
    <3>1. CASE c \in Saves /\ (MoveToBackup(c) \/ Replace(c) \/ Commit(c) \/ Unpend(c) \/ IOError(c))
      BY <1>0, <1>2, <3>0, <3>1, StoreAssumption
         DEF MoveToBackup, Replace, Commit, Unpend, IOError, StoreAssumption
    <3>2. CASE CleanStaging(c)
      <4>1. pc' = pc \/ pc' = [pc EXCEPT ![c] = "clean_backup"]
        BY <3>2 DEF CleanStaging, RmTree
      <4> QED
        BY <1>0, <3>0, <3>2, <4>1 DEF CleanStaging
    <3>3. CASE CleanBackup(c)
      <4>1. pc' = pc \/ pc' = [pc EXCEPT ![c] = "unmark"]
        BY <3>3 DEF CleanBackup, RmTree
      <4> QED
        BY <1>0, <3>0, <3>3, <4>1 DEF CleanBackup
    <3>4. CASE Unmark(c)
      BY <1>0, <1>2, <3>0, <3>4 DEF Unmark
    <3> QED
      BY <3>0, <3>1, <3>2, <3>3, <3>4
         DEF StepOf, CallerStep, RecoveryStep, SaveStep, NextMarker, ListPaths, RestoreRemove,
             RestoreRename, Wipe, Sweep, SweepRemove, Recovered, Get, Read, Save, Check,
             Lineage, Copy, Write, WritePending, WriteVersion, WriteLatest, WriteExtras,
             Draft, Mark, Abort, RollingBack
  <2>3. CASE marker'[c] = marker[c]
    BY <1>2, <2>2, <2>3
  <2>4. CASE Unmark(c) /\ c = look[c]
    BY <1>0, <1>2, <2>4 DEF Unmark
  <2> QED
    BY <1>2, <2>1, <2>3, <2>4 DEF StepOf, DiskFramed, MarkerChange
<1> QED
  BY <1>1, <1>2

(* A transaction gets its marker from its own save and loses it to a       *)
(* caller that cleaned up.                                                 *)
LEMMA MarkerMoves ==
    ASSUME NEW c \in Callers, StepOf(c), NEW t \in Saves, marker'[t] # marker[t]
    PROVE  \/ c \in Saves /\ t = c /\ Mark(c) /\ marker'[t] # "none"
           \/ Unmark(c) /\ t = look[c] /\ marker'[t] = "none"
<1>1. marker = [u \in Saves |-> marker[u]]
  BY DEF StepOf, WellTyped, DiskTypes
<1>2. CASE c \in Saves /\ t = c /\ Mark(c)
  <2>1. marker'[t] = temporary[t] /\ temporary[t] # "none"
    BY <1>1, <1>2 DEF Mark, StepOf, Facts, CallerFacts, Publishes
  <2> QED
    BY <1>2, <2>1
<1>3. CASE Unmark(c) /\ t = look[c]
  <2>1. marker'[t] = "none"
    BY <1>1, <1>3 DEF Unmark
  <2> QED
    BY <1>3, <2>1
<1> QED
  BY <1>2, <1>3 DEF StepOf, DiskFramed, MarkerChange

(* A save gets past its recovery only without another marker of its plan.  *)
LEMMA OwnPlanStep ==
    ASSUME NEW c \in Callers, StepOf(c) PROVE OwnPlanRecovered'
<1>0. /\ OwnPlanRecovered /\ OneCallPerPlan
      /\ UNCHANGED target
      /\ \A d \in Callers : d # c => pc'[d] = pc[d] /\ look'[d] = look[d] /\ todo'[d] = todo[d]
      /\ Saves \subseteq Callers /\ Saves \cap Readers = {}
      /\ pc = [d \in Callers |-> pc[d]] /\ look = [d \in Callers |-> look[d]]
      /\ todo = [d \in Callers |-> todo[d]]
      /\ marker = [t \in Saves |-> marker[t]]
  <2>1. OwnPlanRecovered /\ OneCallPerPlan /\ WellTyped /\ Framed(c)
    BY DEF StepOf, Facts
  <2> QED
    BY <2>1, StoreAssumption
       DEF WellTyped, CallTypes, DiskTypes, Framed, Callers, StoreAssumption
<1> SUFFICES ASSUME NEW s \in Saves, NEW t \in Saves, Running(s)', t # s,
                    target[t] = target[s], marker'[t] # "none"
             PROVE  \/ pc'[s] = "markers" /\ t \in todo'[s]
                    \/ pc'[s] \in RollingBack \cup Cleaning /\ t \in todo'[s] \cup {look'[s]}
  BY <1>0 DEF OwnPlanRecovered
<1>1. CASE marker[t] = "none"
  <2>1. c \in Saves /\ t = c /\ Mark(c)
    BY <1>1, MarkerMoves
  <2>2. Running(t) /\ Running(s)
    BY <1>0, <2>1 DEF Draft, Mark, Running
  <2> QED
    BY <1>0, <2>2 DEF OneCallPerPlan
<1>2. CASE marker[t] # "none" /\ s # c
  <2>1. Running(s)
    BY <1>0, <1>2 DEF Running
  <2> QED
    BY <1>0, <1>2, <2>1 DEF OwnPlanRecovered
<1>3. CASE marker[t] # "none" /\ s = c
  <2> USE DEF Goto, Forget, Raised, Recover
  <2>1. CASE Save(c)
    BY <1>0, <1>3, <2>1 DEF Save
  <2>2. CASE ~Save(c)
    <3>0. \/ pc[c] = "markers" /\ t \in todo[c]
          \/ pc[c] \in RollingBack \cup Cleaning /\ t \in todo[c] \cup {look[c]}
      BY <1>0, <1>3, <2>2, Flow DEF OwnPlanRecovered, Running
    <3>1. CASE NextMarker(c)
      BY <1>0, <1>3, <3>0, <3>1
         DEF NextMarker, Verdict, Running, RollingBack, Cleaning, Publishing
    <3>2. CASE ListPaths(c)
      BY <3>0, <3>2 DEF ListPaths, RollingBack, Cleaning
    <3>3. CASE RestoreRemove(c) \/ RestoreRename(c) \/ Wipe(c)
      BY <1>0, <1>3, <3>0, <3>3
         DEF RestoreRemove, RestoreRename, Wipe, RmTree, Running, RollingBack, Cleaning
    <3>4. CASE CleanStaging(c) \/ CleanBackup(c)
      BY <1>0, <1>3, <3>0, <3>4 DEF CleanStaging, CleanBackup, RmTree, RollingBack, Cleaning
    <3>5. CASE Unmark(c)
      BY <1>0, <1>3, <3>0, <3>5 DEF Unmark, Running, RollingBack, Cleaning
    <3> QED
      BY <1>0, <1>3, <2>2, <3>0, <3>1, <3>2, <3>3, <3>4, <3>5
         DEF StepOf, CallerStep, RecoveryStep, SaveStep, Sweep, SweepRemove, Recovered,
             Check, Lineage, Copy, Write, WritePending, WriteVersion, WriteLatest,
             WriteExtras, Draft, Mark, MoveToBackup, Replace, Commit, Unpend, Abort, IOError,
             RollingBack, Cleaning, Publishing
  <2> QED
    BY <2>1, <2>2
<1> QED
  BY <1>1, <1>2, <1>3

(* A plan has at most one marked transaction.                              *)
LEMMA OneMarkerStep ==
    ASSUME NEW c \in Callers, StepOf(c) PROVE OneMarkerPerPlan'
<1>0. OneMarkerPerPlan /\ OwnPlanRecovered /\ UNCHANGED target
  BY DEF StepOf, Facts, Framed
<1>1. \A t \in Saves : marker'[t] # "none" /\ marker[t] = "none" => Mark(c) /\ t = c
  BY MarkerMoves
<1>2. ASSUME Mark(c), c \in Saves, NEW u \in Saves, u # c, target[u] = target[c]
      PROVE  marker[u] = "none"
  BY <1>0, <1>2 DEF OwnPlanRecovered, Draft, Mark, Running, RollingBack, Cleaning
<1> QED
  BY <1>0, <1>1, <1>2 DEF OneMarkerPerPlan

(* A backup is moved back, removed once it is not needed, or made of the   *)
(* plan's directory.                                                       *)
LEMMA BackupMoves ==
    ASSUME NEW c \in Callers, StepOf(c), NEW t \in Saves, fs'[Backup(t)] # fs[Backup(t)]
    PROVE  \/ /\ RestoreRename(c) /\ t = look[c] /\ marker[t] = "had" /\ Exists(Backup(t))
              /\ fs'[Plan(target[t])] = fs[Backup(t)] /\ fs'[Backup(t)] = NoDir
           \/ /\ CleanBackup(c) /\ t = look[c] /\ marker[t] # "none" /\ RolledBack(t)
              /\ Exists(Backup(t))
              /\ fs'[Backup(t)] # NoDir => DOMAIN fs'[Backup(t)] \subseteq DOMAIN fs[Backup(t)]
           \/ /\ c \in Saves /\ MoveToBackup(c) /\ t = c /\ Exists(Plan(target[t]))
              /\ fs'[Backup(t)] = fs[Plan(target[t])]
<1>0. /\ fs = [x \in Paths |-> fs[x]] /\ Backup(t) \in Paths /\ Plan(target[t]) \in Paths
      /\ Backup(t) # Plan(target[t])
      /\ Recovers(c) /\ WellTyped
  BY PathFacts DEF StepOf, WellTyped, DiskTypes, Facts, CallerFacts
<1>1. CASE RestoreRename(c) /\ t = look[c]
  BY <1>0, <1>1 DEF RestoreRename, Rename, Recovers
<1>2. CASE CleanBackup(c) /\ t = look[c]
  <2>1. RmTree(c, Backup(t), "unmark") /\ "unmark" \in Steps
    BY <1>2 DEF CleanBackup, Steps, Cleaning
  <2>2. marker[t] # "none" /\ RolledBack(t)
    BY <1>0, <1>2 DEF CleanBackup, Recovers, Cleaning
  <2>3. /\ Exists(Backup(t))
        /\ fs'[Backup(t)] # NoDir => DOMAIN fs'[Backup(t)] \subseteq DOMAIN fs[Backup(t)]
    <3>1. fs'[Backup(t)] # NoDir =>
              Exists(Backup(t)) /\ DOMAIN fs'[Backup(t)] \subseteq DOMAIN fs[Backup(t)]
      BY <1>0, <2>1, RmTreeEffect
    <3> QED
      BY <3>1 DEF Exists
  <2> QED
    BY <1>2, <2>2, <2>3 DEF Exists
<1>3. ~(SweepRemove(c) /\ look[c] = Backup(t))
  BY <1>0, PathFacts DEF SweepRemove, Recovers
<1>4. CASE c \in Saves /\ t = c /\ MoveToBackup(c)
  BY <1>0, <1>4 DEF MoveToBackup, Rename
<1> QED
  BY <1>1, <1>2, <1>3, <1>4 DEF StepOf, DiskFramed, BackupChange

(* The plan of a marked transaction without a backup is the directory that *)
(* was there: nobody takes it away but into the backup.                    *)
LEMMA OriginalStays ==
    ASSUME NEW c \in Callers, StepOf(c), NEW t \in Saves, marker[t] = "had",
           ~Committed(target[t]), ~Exists(Backup(t))
    PROVE  \/ fs'[Plan(target[t])] = fs[Plan(target[t])]
           \/ c = t /\ MoveToBackup(c)
<1> DEFINE p == target[t]
<1>0. /\ fs[Plan(p)] = LegacyDir /\ Exists(Plan(p)) /\ ~Has(Plan(p), "version")
      /\ p \in Plans /\ Recovers(c)
      /\ c \in Saves => Publishes(c)
      /\ OneMarkerPerPlan
      /\ pc[c] \in RollingBack \cup Cleaning => look[c] \in Saves
  <2>1. fs[Plan(p)] = LegacyDir /\ p \in Plans
    BY DEF StepOf, Facts, MarkerFacts, WellTyped, DiskTypes
  <2>2. Exists(Plan(p)) /\ ~Has(Plan(p), "version")
    BY <2>1, DirectoryFacts DEF Has, Exists
  <2> QED
    BY <2>1, <2>2 DEF StepOf, Facts, CallerFacts, WellTyped, CallTypes
<1>1. \A u \in Saves : marker[u] # "none" /\ target[u] = p => u = t
  BY <1>0 DEF OneMarkerPerPlan
<1>2. ~((RestoreRemove(c) \/ RestoreRename(c) \/ Wipe(c)) /\ p = target[look[c]])
  BY <1>0, <1>1 DEF RestoreRemove, RestoreRename, Wipe, Recovers, RollingBack
<1>3. ~(SweepRemove(c) /\ look[c] = Plan(p))
  BY <1>0, <1>1, PathFacts DEF SweepRemove, Recovers, Disposable
<1>4. c \in Saves /\ p = target[c] => ~Replace(c) /\ ~Commit(c) /\ ~Unpend(c)
  BY <1>0, <1>1 DEF Replace, Commit, Unpend, Publishes, WrittenBy, Content
<1>5. c \in Saves /\ p = target[c] /\ MoveToBackup(c) => c = t
  BY <1>0, <1>1 DEF MoveToBackup, Publishes
<1> QED
  BY <1>0, <1>2, <1>3, <1>4, <1>5 DEF StepOf, DiskFramed, PlanChange

(* Every step keeps the previous directory in one of its two places.       *)
LEMMA MarkerFactsStep ==
    ASSUME NEW c \in Callers, StepOf(c) PROVE MarkerFacts'
<1> SUFFICES ASSUME NEW t \in Saves
             PROVE  /\ marker'[t] = "none" => ~Exists(Backup(t))'
                    /\ marker'[t] = "fresh" => ~Exists(Backup(t))' /\ target[t] \notin LegacyPlans
                    /\ marker'[t] = "had" => target[t] \in LegacyPlans
                    /\ Exists(Backup(t))' => DOMAIN fs'[Backup(t)] \subseteq {"old"}
                    /\ marker'[t] = "had" /\ ~Committed(target[t])' =>
                           IF Exists(Backup(t))' THEN fs'[Backup(t)] = LegacyDir
                           ELSE fs'[Plan(target[t])] = LegacyDir
  BY DEF StepOf, Framed, MarkerFacts, Exists, Committed, Has
<1> DEFINE p == target[t]
<1>0. /\ fs = [x \in Paths |-> fs[x]] /\ p \in Plans
      /\ Backup(t) \in Paths /\ Plan(p) \in Paths /\ Backup(t) # Plan(p)
      /\ marker \in [Saves -> {"none", "fresh", "had"}]
      /\ Committed(p) => Committed(p)'
      /\ DOMAIN LegacyDir = {"old"} /\ LegacyDir # NoDir
  <2>1. /\ fs = [x \in Paths |-> fs[x]] /\ p \in Plans
        /\ marker \in [Saves -> {"none", "fresh", "had"}]
    BY DEF StepOf, WellTyped, DiskTypes
  <2>2. Committed(p) => Committed(p)'
    <3>1. \A q \in Plans : Committed(q) => Committed(q)'
      BY CommittedStays
    <3>2. target' = target
      BY DEF StepOf, Framed
    <3> QED
      BY <2>1, <3>1, <3>2 DEF Committed, Has, Exists
  <2>3. Backup(t) \in Paths /\ Plan(p) \in Paths /\ Backup(t) # Plan(p)
    BY <2>1, PathFacts
  <2> QED
    BY <2>1, <2>2, <2>3, DirectoryFacts
<1>m. /\ marker[t] = "none" => ~Exists(Backup(t))
      /\ marker[t] = "fresh" => ~Exists(Backup(t)) /\ p \notin LegacyPlans
      /\ marker[t] = "had" => p \in LegacyPlans
      /\ Exists(Backup(t)) => DOMAIN fs[Backup(t)] \subseteq {"old"}
      /\ marker[t] = "had" /\ ~Committed(p) =>
             IF Exists(Backup(t)) THEN fs[Backup(t)] = LegacyDir ELSE fs[Plan(p)] = LegacyDir
  BY DEF StepOf, Facts, MarkerFacts
<1>1. CASE marker'[t] # marker[t]
  <2>1. CASE c \in Saves /\ t = c /\ Mark(c)
    <3>1. UNCHANGED fs /\ marker'[t] = IF Exists(Plan(p)) THEN "had" ELSE "fresh"
      BY <1>0, <2>1 DEF Mark, StepOf, Facts, CallerFacts, Publishes
    <3>2. pc[c] = "mark" /\ ~Committed(p)
      BY <2>1 DEF Draft, Mark, StepOf, Facts, CallerFacts, Publishes, Uncommitted
    <3>3. marker[t] = "none"
      BY <2>1, <3>2 DEF StepOf, Facts, MarkedLate, Cleaning
    <3>4. ASSUME NEW u \in Saves, target[u] = p PROVE marker[u] = "none"
      BY <2>1, <3>2, <3>3, <3>4
         DEF StepOf, Facts, OwnPlanRecovered, Running, RollingBack, Cleaning
    <3>5. fs[Plan(p)] = Base(p)
      BY <1>0, <3>2, <3>4 DEF StepOf, Facts, SettledFacts, Settled
    <3> QED
      BY <1>0, <1>m, <3>1, <3>3, <3>5 DEF Base, Exists
  <2>2. CASE Unmark(c) /\ t = look[c] /\ marker'[t] = "none"
    <3>1. UNCHANGED fs /\ ~Exists(Backup(t))
      BY <2>2 DEF Unmark, StepOf, Facts, CallerFacts, Recovers
    <3> QED
      BY <2>2, <3>1 DEF Exists
  <2> QED
    BY <1>1, <2>1, <2>2, MarkerMoves
<1>2. CASE marker'[t] = marker[t] /\ fs'[Backup(t)] # fs[Backup(t)]
  <2>1. CASE /\ RestoreRename(c) /\ t = look[c] /\ marker[t] = "had" /\ Exists(Backup(t))
             /\ fs'[Plan(p)] = fs[Backup(t)] /\ fs'[Backup(t)] = NoDir
    BY <1>0, <1>2, <1>m, <2>1 DEF Exists
  <2>2. CASE /\ CleanBackup(c) /\ t = look[c] /\ marker[t] # "none" /\ RolledBack(t)
             /\ Exists(Backup(t))
             /\ fs'[Backup(t)] # NoDir => DOMAIN fs'[Backup(t)] \subseteq DOMAIN fs[Backup(t)]
    BY <1>0, <1>2, <1>m, <2>2 DEF RolledBack, Exists
  <2>3. CASE /\ c \in Saves /\ MoveToBackup(c) /\ t = c /\ Exists(Plan(p))
             /\ fs'[Backup(t)] = fs[Plan(p)]
    <3>1. ~Committed(p) /\ marker[t] = "had" /\ ~Exists(Backup(t))
      BY <1>0, <2>3
         DEF MoveToBackup, StepOf, Facts, CallerFacts, Publishes, Uncommitted
    <3> QED
      BY <1>0, <1>2, <1>m, <2>3, <3>1 DEF Exists
  <2> QED
    BY <1>2, <2>1, <2>2, <2>3, BackupMoves
<1>3. CASE marker'[t] = marker[t] /\ fs'[Backup(t)] = fs[Backup(t)]
  <2>1. CASE marker[t] = "had" /\ ~Committed(p) /\ ~Exists(Backup(t))
    <3>1. fs'[Plan(p)] = fs[Plan(p)] \/ (c = t /\ MoveToBackup(c))
      BY <2>1, OriginalStays
    <3>2. ASSUME c = t, MoveToBackup(c) PROVE fs'[Backup(t)] = fs[Plan(p)]
      BY <1>0, <1>m, <2>1, <3>2 DEF MoveToBackup, Rename, Exists
    <3> QED
      BY <1>0, <1>3, <1>m, <2>1, <3>1, <3>2 DEF Exists
  <2> QED
    BY <1>0, <1>3, <1>m, <2>1 DEF Exists
<1> QED
  BY <1>1, <1>2, <1>3

(* A plan without a marked transaction is settled after every step.        *)
LEMMA SettledStep ==
    ASSUME NEW c \in Callers, StepOf(c) PROVE SettledFacts'
<1> SUFFICES ASSUME NEW p \in Plans, \A t \in Saves : target[t] = p => marker'[t] = "none"
             PROVE  Settled(p)'
  BY DEF StepOf, Framed, SettledFacts
<1>0. /\ fs = [x \in Paths |-> fs[x]] /\ SettledFacts /\ Recovers(c)
      /\ c \in Saves => Publishes(c)
      /\ pc[c] \in RollingBack \cup Cleaning => look[c] \in Saves
  BY DEF StepOf, Facts, CallerFacts, WellTyped, DiskTypes, CallTypes
<1>1. CASE Committed(p)
  BY <1>1, CommittedStays DEF Settled
<1>2. CASE \E t \in Saves : target[t] = p /\ marker[t] # "none"
  <2>1. PICK t \in Saves : target[t] = p /\ marker[t] # "none"
    BY <1>2
  <2>2. Unmark(c) /\ t = look[c]
    BY <2>1, MarkerMoves
  <2>3. RolledBack(t) /\ ~Exists(Backup(t)) /\ UNCHANGED fs
    BY <1>0, <2>2 DEF Unmark, Recovers, Cleaning
  <2> QED
    BY <2>1, <2>3 DEF RolledBack, Settled, Committed, Has, Exists
<1>3. CASE ~Committed(p) /\ \A t \in Saves : target[t] = p => marker[t] = "none"
  <2>1. fs[Plan(p)] = Base(p)
    BY <1>0, <1>3 DEF SettledFacts, Settled
  <2>2. ~((RestoreRemove(c) \/ RestoreRename(c) \/ Wipe(c)) /\ p = target[look[c]])
    BY <1>0, <1>3 DEF RestoreRemove, RestoreRename, Wipe, Recovers, RollingBack
  <2>3. ~(SweepRemove(c) /\ look[c] = Plan(p))
    BY <1>0, <1>3, PathFacts DEF SweepRemove, Recovers, Disposable
  <2>4. ~(/\ c \in Saves /\ p = target[c]
          /\ MoveToBackup(c) \/ Replace(c) \/ Commit(c) \/ Unpend(c))
    BY <1>0, <1>3 DEF MoveToBackup, Replace, Commit, Unpend, Publishes
  <2>5. fs'[Plan(p)] = fs[Plan(p)]
    BY <2>2, <2>3, <2>4 DEF StepOf, DiskFramed, PlanChange
  <2> QED
    BY <2>1, <2>5 DEF Settled
<1> QED
  BY <1>1, <1>2, <1>3

(* A caller that is not publishing relies on nothing of a publication.     *)
LEMMA NothingPublished ==
    ASSUME NEW s \in Saves,
           pc'[s] \notin {"copy", "pending", "version", "latest", "extras", "draft", "mark", "backup",
                          "replace", "commit", "unpend"}
    PROVE  Publishes(s)'
  BY DEF Publishes, Uncommitted, Staged

(* What a save relies on when it goes on with its publication.             *)
LEMMA PublishesStep ==
    ASSUME NEW c \in Callers, StepOf(c), c \in Saves PROVE Publishes(c)' /\ Saved(c)'
<1> DEFINE S == Staging(c)  B == Backup(c)  P == Plan(target[c])
<1>0. /\ fs = [x \in Paths |-> fs[x]] /\ \A x \in Paths : Directory(fs[x])
      /\ marker \in [Saves -> {"none", "fresh", "had"}]
      /\ temporary \in [Saves -> {"none", "fresh", "had"}]
      /\ target[c] \in Plans /\ UNCHANGED target
      /\ pc = [d \in Callers |-> pc[d]]
      /\ S \in Paths /\ B \in Paths /\ P \in Paths /\ S # B /\ S # P /\ B # P
      /\ c \notin Readers
      /\ Publishes(c) /\ Recovers(c) /\ MarkedLate /\ OwnPlanRecovered
      /\ pc[c] # "read" /\ back[c] \in {"idle", "check", "lineage"}
  <2>1. WellTyped /\ Facts /\ Framed(c)
    BY DEF StepOf
  <2>2. S # B /\ S # P /\ B # P /\ \A s \in Saves : Staging(s) \in Paths /\ Backup(s) \in Paths
    BY PathFacts
  <2>3. target[c] \in Plans => P \in Paths
    BY PathFacts
  <2> QED
    BY <2>1, <2>2, <2>3, StoreAssumption
       DEF WellTyped, DiskTypes, CallTypes, Facts, CallerFacts, Framed, StoreAssumption
<1>a. \A p \in Plans : Committed(p) => Committed(p)'
  BY CommittedStays
<1>b. pc[c] # "commit" /\ ~Committed(target[c]) => ~Committed(target[c])'
  <2>1. \A p \in Plans : ~Committed(p) /\ Committed(p)' => pc[c] = "commit"
    BY NewlyCommitted
  <2> QED
    BY <1>0, <2>1 DEF Committed, Has, Exists
<1>c. Committed(target[c]) => Committed(target[c])'
  BY <1>0, <1>a DEF Committed, Has, Exists
<1> USE DEF Goto, Forget, Raised, Recover
<1>1. CASE RecoveryStep(c)
  <2>1. CASE Unmark(c)
    <3>1. look[c] = c => Committed(target[c])
      BY <1>0, <2>1 DEF Unmark, Recovers, Cleaning
    <3>2. pc'[c] \in {"saved", "markers"} /\ (pc'[c] = "saved" => look[c] = c)
      BY <1>0, <2>1 DEF Unmark
    <3>3. Publishes(c)'
      BY <3>2, NothingPublished
    <3> QED
      BY <1>c, <3>1, <3>2, <3>3 DEF Saved
  <2>2. CASE ~Unmark(c)
    <3>1. pc'[c] \in Recovering \cup {"idle", "check", "lineage", "failed", "abort"}
      <4>1. CASE NextMarker(c)
        BY <1>0, <4>1 DEF NextMarker, Verdict, Recovering, RollingBack, Cleaning
      <4>2. CASE ListPaths(c) \/ RestoreRename(c) \/ Sweep(c) \/ Recovered(c)
        BY <1>0, <4>2 DEF ListPaths, RestoreRename, Sweep, Recovered, Recovering,
                          RollingBack, Cleaning
      <4>3. CASE RestoreRemove(c) \/ Wipe(c) \/ CleanStaging(c) \/ CleanBackup(c) \/ SweepRemove(c)
        BY <1>0, <4>3 DEF RestoreRemove, Wipe, CleanStaging, CleanBackup, SweepRemove, RmTree,
                          Recovering, RollingBack, Cleaning
      <4> QED
        BY <1>1, <2>2, <4>1, <4>2, <4>3 DEF RecoveryStep
    <3>2. Publishes(c)'
      BY <3>1, NothingPublished DEF Recovering, RollingBack, Cleaning
    <3> QED
      BY <3>1, <3>2 DEF Saved, Recovering, RollingBack, Cleaning
  <2> QED
    BY <2>1, <2>2
<1>2. CASE Save(c)
  BY <1>0, <1>2, NothingPublished DEF Save, Saved
<1>3. CASE Check(c)
  <2>1. Committed(target[c]) => Has(P, "version")
    BY <1>0 DEF StepOf, Facts, CommitFacts, Whole
  <2>2. /\ pc'[c] \in {"saved", "failed", "copy", "markers"}
        /\ pc'[c] = "saved" => Committed(target[c])
        /\ pc'[c] = "copy" => ~Committed(target[c]) /\ pc[c] # "commit"
    BY <1>0, <1>3, <2>1 DEF Check
  <2> QED
    <3>1. CASE pc'[c] = "saved"
      BY <1>c, <2>2, <3>1, NothingPublished DEF Saved
    <3>2. CASE pc'[c] \in {"failed", "markers"}
      BY <3>2, NothingPublished DEF Saved
    <3>3. CASE pc'[c] = "copy"
      BY <1>b, <2>2, <3>3 DEF Publishes, Saved, Staged
    <3> QED
      BY <2>2, <3>1, <3>2, <3>3
<1>4. CASE Lineage(c)
  <2>1. ~Committed(target[c])
    BY <1>4 DEF Lineage, StepOf, Facts, ParentFacts, ChecksLineage
  <2> QED
    BY <1>0, <1>4, <1>b, <2>1 DEF Lineage, Publishes, Saved, Staged
<1>5. CASE Copy(c)
  <2>1. pc[c] = "copy" /\ pc'[c] = "pending" /\ ~Committed(target[c])
    BY <1>0, <1>5 DEF Copy, Publishes, Uncommitted
  <2>2. \A t \in Saves : target[t] = target[c] => marker[t] = "none"
    BY <1>0, <2>1 DEF MarkedLate, OwnPlanRecovered, Running, RollingBack, Cleaning
  <2>3. fs[P] = Base(target[c])
    BY <1>0, <2>1, <2>2 DEF StepOf, Facts, SettledFacts, Settled
  <2>4. ASSUME target[c] \in LegacyPlans PROVE Has(S, "old")'
    <3> DEFINE d == Without(fs[P], {"latest", "commit", "pending"})
    <3>1. fs[P] # NoDir /\ DOMAIN fs[P] = {"old"}
      BY <2>3, <2>4, DirectoryFacts DEF Base
    <3>2. d # NoDir /\ DOMAIN d = DOMAIN fs[P] \ {"latest", "commit", "pending"}
      BY <1>0, <3>1, WithoutFacts
    <3>3. fs'[S] = d
      BY <1>0, <1>5, <3>1 DEF Copy
    <3> QED
      BY <3>1, <3>2, <3>3 DEF Has, Exists
  <2> QED
    BY <1>0, <1>b, <2>1, <2>4 DEF Publishes, Saved, Written, WrittenBy
<1>6. ASSUME NEW f \in Files, NEW next \in Steps,
             <<f, next>> \in {<<"pending", "version">>, <<"version", "latest">>,
                              <<"latest", "extras">>, <<"extras", "draft">>},
             Write(c, f, next)
      PROVE  Publishes(c)' /\ Saved(c)'
  <2> DEFINE d == fs[S]  e == With(d, f, c)
  <2>1. pc[c] = f /\ pc'[c] = next /\ fs'[S] = e
    BY <1>0, <1>6 DEF Write
  <2>2. e # NoDir
    BY <1>0, WithDirectory
  <2>3. DOMAIN e = {f} \cup (IF d = NoDir THEN {} ELSE DOMAIN d)
    BY WithDomain
  <2>4. e[f] = c /\ (d # NoDir => \A g \in DOMAIN d \ {f} : e[g] = d[g])
    BY WithContents
  <2>5. /\ WrittenBy(S, c, Written(f)) /\ (target[c] \in LegacyPlans => Has(S, "old"))
        /\ ~Committed(target[c]) /\ pc[c] # "commit"
    BY <1>0, <1>6, <2>1 DEF Publishes, Staged, Uncommitted
  <2>6. target[c] \in LegacyPlans => Has(S, "old")'
    BY <2>1, <2>2, <2>3, <2>5 DEF Has, Exists
  <2>7. WrittenBy(S, c, Written(f))' /\ Has(S, f)' /\ fs'[S][f] = c
    <3>1. ASSUME NEW g \in Written(f) PROVE Has(S, g)' /\ fs'[S][g] = c
      <4>1. d # NoDir /\ g \in DOMAIN d /\ d[g] = c
        BY <2>5 DEF WrittenBy, Has, Exists
      <4> QED
        BY <2>1, <2>2, <2>3, <2>4, <4>1 DEF Has, Exists
    <3> QED
      BY <2>1, <2>2, <2>3, <2>4, <3>1 DEF WrittenBy, Has, Exists
  <2>8. Written(next) \subseteq Written(f) \cup {f}
    BY <1>6 DEF Written, Content
  <2>9. WrittenBy(S, c, Written(next))'
    BY <2>7, <2>8 DEF WrittenBy
  <2> QED
    BY <1>0, <1>6, <1>b, <2>1, <2>5, <2>6, <2>9 DEF Publishes, Saved
<1>7. CASE WritePending(c) \/ WriteVersion(c) \/ WriteLatest(c) \/ WriteExtras(c)
  BY <1>6, <1>7 DEF WritePending, WriteVersion, WriteLatest, WriteExtras, Files, Steps,
                    Publishing
<1>d. CASE Draft(c)
  <2>1. /\ pc[c] = "draft" /\ pc'[c] = "mark" /\ UNCHANGED fs
        /\ temporary'[c] = IF Exists(P) THEN "had" ELSE "fresh"
    BY <1>0, <1>d DEF Draft
  <2>2. /\ WrittenBy(S, c, Content) /\ ~Committed(target[c])
        /\ target[c] \in LegacyPlans => Has(S, "old")
    BY <1>0, <2>1 DEF Publishes, Staged, Uncommitted, Written
  <2> QED
    BY <1>0, <2>1, <2>2
       DEF Publishes, Saved, Written, WrittenBy, Committed, Has, Exists
<1>8. CASE Mark(c)
  <2>1. /\ pc[c] = "mark" /\ pc'[c] = "backup" /\ UNCHANGED fs
        /\ marker'[c] = IF Exists(P) THEN "had" ELSE "fresh"
    BY <1>0, <1>8 DEF Mark, Publishes
  <2>2. marker[c] = "none" /\ ~Exists(B)
    BY <1>0, <2>1 DEF MarkedLate, Cleaning, StepOf, Facts, MarkerFacts
  <2>3. /\ WrittenBy(S, c, Content) /\ ~Committed(target[c])
        /\ target[c] \in LegacyPlans => Has(S, "old")
    BY <1>0, <2>1 DEF Publishes, Staged, Uncommitted, Written
  <2> QED
    BY <1>0, <2>1, <2>2, <2>3
       DEF Publishes, Saved, Written, WrittenBy, Committed, Has, Exists
<1>9. CASE MoveToBackup(c)
  <2>1. pc[c] = "backup" /\ pc'[c] = "replace" /\ UNCHANGED marker
        /\ fs'[S] = fs[S] /\ fs'[P] = NoDir
    BY <1>0, <1>9 DEF MoveToBackup, Rename, Exists
  <2>2. /\ WrittenBy(S, c, Content) /\ ~Committed(target[c]) /\ marker[c] # "none"
        /\ target[c] \in LegacyPlans => Has(S, "old")
    BY <1>0, <2>1 DEF Publishes, Staged, Uncommitted, Written
  <2> QED
    BY <1>0, <2>1, <2>2
       DEF Publishes, Saved, Written, WrittenBy, Committed, Has, Exists
<1>10. CASE Replace(c)
  <2>1. pc[c] = "replace" /\ UNCHANGED marker
    BY <1>10 DEF Replace
  <2>2. /\ WrittenBy(S, c, Content) /\ ~Committed(target[c]) /\ marker[c] # "none"
        /\ target[c] \in LegacyPlans => Has(S, "old")
    BY <1>0, <2>1 DEF Publishes, Staged, Uncommitted, Written
  <2>3. CASE pc'[c] = "commit" /\ fs'[P] = fs[S]
    BY <1>0, <1>b, <2>1, <2>2, <2>3
       DEF Publishes, Saved, Staged, WrittenBy, Has, Exists
  <2>4. CASE pc'[c] = "failed"
    BY <2>4, NothingPublished DEF Saved
  <2> QED
    BY <1>0, <1>10, <2>3, <2>4 DEF Replace, Rename
<1>11. CASE Commit(c)
  <2>1. CASE pc'[c] = "failed"
    BY <2>1, NothingPublished DEF Saved
  <2>2. CASE pc'[c] = "unpend" /\ fs'[P] = With(fs[P], "commit", c)
    <3>1. With(fs[P], "commit", c) # NoDir
      BY <1>0, WithDirectory DEF Files
    <3>2. "commit" \in DOMAIN With(fs[P], "commit", c)
      <4>1. DOMAIN With(fs[P], "commit", c)
                = {"commit"} \cup (IF fs[P] = NoDir THEN {} ELSE DOMAIN fs[P])
        BY WithDomain
      <4> QED
        BY <4>1
    <3>3. Committed(target[c])' /\ marker'[c] # "none"
      BY <1>0, <1>11, <2>2, <3>1, <3>2 DEF Committed, Has, Exists, Commit, Publishes
    <3> QED
      BY <2>2, <3>3 DEF Publishes, Saved, Uncommitted, Staged
  <2> QED
    BY <1>0, <1>11, <2>1, <2>2 DEF Commit
<1>12. CASE Unpend(c) \/ Abort(c) \/ IOError(c)
  <2>1. pc'[c] \in {"clean_staging", "abort", "failed"}
    BY <1>0, <1>12 DEF Unpend, Abort, RmTree, IOError
  <2> QED
    BY <2>1, NothingPublished DEF Saved
<1> QED
  BY <1>0, <1>1, <1>2, <1>3, <1>4, <1>5, <1>7, <1>d, <1>8, <1>9, <1>10, <1>11, <1>12
     DEF StepOf, CallerStep, SaveStep

(* A caller that removes and renames nothing needs to know nothing.        *)
LEMMA NothingRecovered ==
    ASSUME NEW c \in Callers,
           pc'[c] \notin RollingBack \cup Cleaning \cup {"sweep_remove"}
    PROVE  Recovers(c)'
  BY DEF Recovers, RollingBack, Cleaning

(* A marked transaction is rolled back by removing what is in the way.     *)
LEMMA NotCommittedStays ==
    ASSUME NEW c \in Callers, StepOf(c), NEW t \in Saves, pc[c] # "commit",
           ~Committed(target[t])
    PROVE  ~Committed(target[t])'
<1>1. \A p \in Plans : ~Committed(p) /\ Committed(p)' => pc[c] = "commit"
  BY NewlyCommitted
<1>2. target[t] \in Plans /\ target'[t] = target[t]
  BY DEF StepOf, WellTyped, DiskTypes, Framed
<1> QED
  BY <1>1, <1>2 DEF Committed, Has, Exists

(* What a recovery relies on when it goes on.                              *)
LEMMA RecoversStep ==
    ASSUME NEW c \in Callers, StepOf(c) PROVE Recovers(c)'
<1>0. /\ fs = [x \in Paths |-> fs[x]] /\ \A x \in Paths : Directory(fs[x])
      /\ marker \in [Saves -> {"none", "fresh", "had"}]
      /\ target \in [Saves -> Plans] /\ UNCHANGED target
      /\ pc = [d \in Callers |-> pc[d]] /\ look = [d \in Callers |-> look[d]]
      /\ pc[c] \in RollingBack \cup Cleaning => look[c] \in Saves
      /\ pc[c] = "sweep_remove" => look[c] \in Paths
      /\ todo[c] \subseteq IF pc[c] \in {"sweep", "sweep_remove"} THEN Paths ELSE Saves
      /\ back[c] \in {"idle", "read", "check", "lineage"}
      /\ Recovers(c) /\ MarkedLate /\ MarkerFacts
  <2>1. WellTyped /\ Facts /\ Framed(c)
    BY DEF StepOf
  <2> QED
    BY <2>1 DEF WellTyped, DiskTypes, CallTypes, Facts, CallerFacts, Framed
<1> USE DEF Goto, Forget, Raised, Recover
<1>1. CASE NextMarker(c)
  <2>1. CASE pc'[c] \in {"idle", "failed"}
    BY <2>1, NothingRecovered DEF RollingBack, Cleaning
  <2>2. ASSUME NEW t \in Saves, marker[t] # "none", pc[c] = "markers",
               pc'[c] = Verdict(t), look'[c] = t, UNCHANGED <<fs, marker>>
        PROVE  Recovers(c)'
    <3>1. t # c
      BY <1>0, <2>2 DEF MarkedLate, Cleaning
    <3>2. /\ marker[t] = "fresh" => ~Exists(Backup(t)) /\ target[t] \notin LegacyPlans
          /\ marker[t] = "had" => target[t] \in LegacyPlans
          /\ marker[t] = "had" /\ ~Committed(target[t]) /\ ~Exists(Backup(t)) =>
                 fs[Plan(target[t])] = LegacyDir
      BY <1>0 DEF MarkerFacts
    <3>3. CASE Verdict(t) = "clean_staging"
      <4>1. RolledBack(t)
        BY <1>0, <2>2, <3>2, <3>3 DEF Verdict, RolledBack, Base, Exists
      <4> QED
        BY <1>0, <2>2, <3>1, <3>3, <4>1
           DEF Recovers, RolledBack, RollingBack, Cleaning, Committed, Has, Exists
    <3>4. CASE Verdict(t) # "clean_staging"
      BY <1>0, <2>2, <3>4
         DEF Verdict, Recovers, RollingBack, Cleaning, Committed, Has, Exists
    <3> QED
      BY <3>3, <3>4
  <2> QED
    BY <1>0, <1>1, <2>1, <2>2, StoreAssumption DEF NextMarker, Publishing
<1>2. CASE ListPaths(c)
  BY <1>0, <1>2, NothingRecovered DEF ListPaths, RollingBack, Cleaning
<1>3. CASE RestoreRemove(c)
  <2> DEFINE t == look[c]  x == Plan(target[t])
  <2>1. /\ t \in Saves /\ pc[c] = "restore_remove" /\ x \in Paths
        /\ ~Committed(target[t]) /\ marker[t] = "had" /\ Exists(Backup(t))
        /\ Backup(t) \in Paths /\ Backup(t) # x
    BY <1>0, <1>3, PathFacts DEF RestoreRemove, Recovers, RollingBack
  <2>2. RmTree(c, x, "restore_rename") /\ "restore_rename" \in Steps
        /\ UNCHANGED <<look, marker>>
    BY <1>3 DEF RestoreRemove, Steps, RollingBack
  <2>3. /\ fs' = [fs EXCEPT ![x] = fs'[x]]
        /\ pc' = pc \/ (pc' = [pc EXCEPT ![c] = "restore_rename"] /\ fs'[x] = NoDir)
    BY <2>1, <2>2, RmTreeEffect DEF StepOf
  <2>4. \A u \in Saves : u = t => ~Committed(target[u])'
    BY <2>1, NotCommittedStays
  <2> QED
    BY <1>0, <2>1, <2>2, <2>3, <2>4 DEF Recovers, RollingBack, Cleaning, Exists
<1>4. CASE RestoreRename(c)
  <2> DEFINE t == look[c]  x == Plan(target[t])
  <2>1. /\ t \in Saves /\ pc[c] = "restore_rename" /\ x \in Paths
        /\ ~Committed(target[t]) /\ marker[t] = "had" /\ Exists(Backup(t))
        /\ Backup(t) \in Paths /\ Backup(t) # x
    BY <1>0, <1>4, PathFacts DEF RestoreRename, Recovers, RollingBack
  <2>2. CASE pc'[c] \notin Cleaning
    <3>1. pc'[c] \in {"idle", "failed"}
      BY <1>0, <1>4, <2>2 DEF RestoreRename, Cleaning, Publishing
    <3> QED
      BY <3>1, NothingRecovered DEF RollingBack, Cleaning
  <2>3. CASE pc'[c] \in Cleaning
    <3>1. /\ pc'[c] = "clean_staging" /\ UNCHANGED <<look, marker>>
          /\ fs'[x] = fs[Backup(t)] /\ fs'[Backup(t)] = NoDir
      BY <1>0, <1>4, <2>1, <2>3 DEF RestoreRename, Rename, Cleaning, Publishing
    <3>2. fs[Backup(t)] = LegacyDir /\ target[t] \in LegacyPlans /\ t # c
      BY <1>0, <2>1 DEF MarkerFacts, MarkedLate, Cleaning
    <3>3. RolledBack(t)'
      BY <1>0, <3>1, <3>2 DEF RolledBack, Base, Exists
    <3> QED
      BY <2>1, <3>1, <3>2, <3>3 DEF Recovers, RollingBack, Cleaning
  <2> QED
    BY <2>2, <2>3
<1>5. CASE Wipe(c)
  <2> DEFINE t == look[c]  x == Plan(target[t])
  <2>1. /\ t \in Saves /\ pc[c] = "wipe" /\ x \in Paths
        /\ ~Committed(target[t]) /\ marker[t] = "fresh"
        /\ Backup(t) \in Paths /\ Backup(t) # x
    BY <1>0, <1>5, PathFacts DEF Wipe, Recovers, RollingBack
  <2>2. RmTree(c, x, "clean_staging") /\ "clean_staging" \in Steps /\ UNCHANGED <<look, marker>>
    BY <1>5 DEF Wipe, Steps, Cleaning
  <2>3. /\ fs' = [fs EXCEPT ![x] = fs'[x]]
        /\ pc' = pc \/ (pc' = [pc EXCEPT ![c] = "clean_staging"] /\ fs'[x] = NoDir)
    BY <2>1, <2>2, RmTreeEffect DEF StepOf
  <2>4. \A u \in Saves : u = t => ~Committed(target[u])'
    BY <2>1, NotCommittedStays
  <2>5. ~Exists(Backup(t)) /\ target[t] \notin LegacyPlans /\ t # c
    BY <1>0, <2>1 DEF MarkerFacts, MarkedLate, Cleaning
  <2>6. fs'[x] = NoDir => RolledBack(t)'
    BY <1>0, <2>1, <2>2, <2>3, <2>5 DEF RolledBack, Base, Exists
  <2> QED
    BY <1>0, <2>1, <2>2, <2>3, <2>4, <2>5, <2>6 DEF Recovers, RollingBack, Cleaning, Exists
<1>6. CASE CleanStaging(c) \/ CleanBackup(c)
  <2> DEFINE t == look[c]
  <2>1. /\ t \in Saves /\ marker[t] # "none" /\ RolledBack(t)
        /\ t = c => Committed(target[t])
    BY <1>0, <1>6 DEF CleanStaging, CleanBackup, Recovers, Cleaning
  <2>2. UNCHANGED <<look, marker>> /\ fs'[Plan(target[t])] = fs[Plan(target[t])]
    <3>1. t \in Saves /\ Plan(target[t]) \in Paths /\ Staging(t) \in Paths /\ Backup(t) \in Paths
          /\ Plan(target[t]) # Staging(t) /\ Plan(target[t]) # Backup(t)
      BY <1>0, <2>1, PathFacts
    <3>2. "clean_backup" \in Steps /\ "unmark" \in Steps
      BY DEF Steps, Cleaning
    <3>3. CASE CleanStaging(c)
      BY <1>0, <3>1, <3>2, <3>3, RmTreeEffect DEF CleanStaging, StepOf
    <3>4. CASE CleanBackup(c)
      BY <1>0, <3>1, <3>2, <3>4, RmTreeEffect DEF CleanBackup, StepOf
    <3> QED
      BY <1>6, <3>3, <3>4
  <2>3. RolledBack(t)'
    <3>1. Exists(Backup(t))' => Exists(Backup(t))
      <4>1. \A u \in Saves : u = t /\ fs'[Backup(u)] # fs[Backup(u)] => Exists(Backup(u))
        <5>1. ~RestoreRename(c) /\ ~MoveToBackup(c)
          BY <1>6 DEF CleanStaging, CleanBackup, RestoreRename, MoveToBackup
        <5> QED
          BY <5>1, BackupMoves
      <4> QED
        BY <2>1, <2>2, <4>1 DEF Exists
    <3> QED
      BY <1>0, <2>1, <2>2, <3>1 DEF RolledBack, Committed, Has, Exists
  <2>4. t = c => Committed(target[t])'
    BY <1>0, <2>1, <2>2 DEF Committed, Has, Exists
  <2>5. pc'[c] \in Cleaning /\ (pc'[c] = "unmark" => ~Exists(Backup(t))')
    <3>1. CASE CleanStaging(c)
      BY <1>0, <3>1 DEF CleanStaging, RmTree, Cleaning
    <3>2. CASE CleanBackup(c)
      <4>1. RmTree(c, Backup(t), "unmark") /\ Backup(t) \in Paths /\ "unmark" \in Steps
            /\ pc[c] = "clean_backup"
        BY <2>1, <3>2, PathFacts DEF CleanBackup, Steps, Cleaning
      <4>2. pc' = pc \/ (pc' = [pc EXCEPT ![c] = "unmark"] /\ fs'[Backup(t)] = NoDir)
        BY <4>1, RmTreeEffect DEF StepOf
      <4> QED
        BY <1>0, <2>2, <4>1, <4>2 DEF Cleaning, Exists
    <3> QED
      BY <1>6, <3>1, <3>2
  <2> QED
    BY <1>0, <2>1, <2>2, <2>3, <2>4, <2>5 DEF Recovers, RollingBack, Cleaning, Exists
<1>7. CASE Unmark(c)
  BY <1>0, <1>7, NothingRecovered DEF Unmark, RollingBack, Cleaning
<1>8. CASE Sweep(c)
  <2>1. CASE pc'[c] = "sweep"
    BY <2>1, NothingRecovered DEF RollingBack, Cleaning
  <2>2. ASSUME NEW x \in Paths, Abandoned(x), pc'[c] = "sweep_remove", look'[c] = x,
               UNCHANGED <<fs, marker>>
        PROVE  Recovers(c)'
    <3>1. CASE \E s \in Saves : x = Staging(s)
      BY <2>2, <3>1 DEF Recovers, Staging, RollingBack, Cleaning
    <3>2. ~ \E s \in Saves : x = Backup(s)
      BY <1>0, <2>2 DEF Abandoned, Backup, MarkerFacts, Has
    <3>3. ASSUME NEW p \in Plans, x = Plan(p) PROVE Disposable(p)
      <4>1. Has(x, "pending") /\ ~Committed(p)
        BY <2>2, <3>3 DEF Abandoned, Plan, Committed
      <4>2. fs[Plan(p)] # Base(p) /\ fs[Plan(p)] # LegacyDir
        BY <3>3, <4>1, DirectoryFacts DEF Base, Has, Exists
      <4>3. PICK t \in Saves : target[t] = p /\ marker[t] # "none"
        BY <4>1, <4>2 DEF StepOf, Facts, SettledFacts, Settled
      <4> QED
        BY <1>0, <4>1, <4>2, <4>3 DEF Disposable, MarkerFacts
    <3>4. \A p \in Plans : Disposable(p) => Disposable(p)'
      BY <1>0, <2>2 DEF Disposable, Committed, Has, Exists
    <3>5. CASE \E p \in Plans : x = Plan(p)
      BY <2>2, <3>3, <3>4, <3>5 DEF Recovers, Plan, RollingBack, Cleaning
    <3> QED
      BY <3>1, <3>2, <3>5, PathFacts
  <2> QED
    BY <1>0, <1>8, <2>1, <2>2 DEF Sweep
<1>9. CASE SweepRemove(c)
  <2>1. pc[c] = "sweep_remove" /\ look[c] \in Paths /\ UNCHANGED marker
        /\ "sweep" \in Steps /\ RmTree(c, look[c], "sweep")
    BY <1>0, <1>9 DEF SweepRemove, Steps
  <2>2. CASE pc'[c] = "sweep"
    BY <2>2, NothingRecovered DEF RollingBack, Cleaning
  <2>3. CASE pc'[c] # "sweep"
    <3>1. pc' = pc /\ UNCHANGED look /\ fs' = [fs EXCEPT ![look[c]] = fs'[look[c]]]
      <4>1. pc' = pc /\ fs' = [fs EXCEPT ![look[c]] = fs'[look[c]]]
        BY <1>0, <2>1, <2>3, RmTreeEffect DEF StepOf
      <4> QED
        BY <1>0, <1>9, <2>1, <2>3, <4>1 DEF SweepRemove
    <3>2. ASSUME NEW p \in Plans, look[c] = Plan(p), Disposable(p) PROVE Disposable(p)'
      <4>1. ~Committed(p)'
        BY <2>1, <3>2, NewlyCommitted DEF Disposable
      <4>2. \A t \in Saves : fs'[Backup(t)] = fs[Backup(t)]
        BY <1>0, <3>1, <3>2, PathFacts
      <4> QED
        BY <1>0, <2>1, <3>2, <4>1, <4>2 DEF Disposable, Exists
    <3> QED
      BY <1>0, <2>1, <3>1, <3>2 DEF Recovers, RollingBack, Cleaning
  <2> QED
    BY <2>2, <2>3
<1>10. CASE Recovered(c)
  BY <1>0, <1>10, NothingRecovered DEF Recovered, RollingBack, Cleaning
<1>11. CASE c \in Readers /\ (Get(c) \/ Read(c))
  BY <1>0, <1>11, NothingRecovered DEF Get, Read, RollingBack, Cleaning
<1>12. CASE c \in Saves /\ Unpend(c)
  <2>1. pc[c] = "unpend" /\ pc'[c] = "clean_staging" /\ look'[c] = c /\ UNCHANGED marker
    BY <1>0, <1>12 DEF Unpend
  <2>2. Committed(target[c]) /\ marker[c] # "none"
    BY <1>12, <2>1 DEF StepOf, Facts, CallerFacts, Publishes
  <2>3. \A p \in Plans : Committed(p) => Committed(p)'
    BY CommittedStays
  <2>4. Committed(target[c])'
    BY <1>0, <1>12, <2>2, <2>3 DEF Committed, Has, Exists
  <2> QED
    BY <1>0, <1>12, <2>1, <2>2, <2>4 DEF Recovers, RolledBack, RollingBack, Cleaning
<1>13. CASE c \in Saves /\ SaveStep(c) /\ ~Unpend(c)
  <2>1. pc'[c] \notin RollingBack \cup Cleaning \cup {"sweep_remove"}
    <3> USE DEF RollingBack, Cleaning, Publishing
    <3>1. CASE Save(c) \/ Check(c) \/ Lineage(c) \/ IOError(c)
      BY <1>0, <3>1 DEF Save, Check, Lineage, IOError
    <3>2. CASE Copy(c) \/ WritePending(c) \/ WriteVersion(c) \/ WriteLatest(c) \/ WriteExtras(c)
      BY <1>0, <3>2 DEF Copy, Write, WritePending, WriteVersion, WriteLatest, WriteExtras
    <3>3. CASE Draft(c) \/ Mark(c) \/ MoveToBackup(c) \/ Replace(c) \/ Commit(c)
      BY <1>0, <1>13, <3>3 DEF Draft, Mark, MoveToBackup, Replace, Commit
    <3>4. CASE Abort(c)
      BY <1>0, <3>4 DEF Abort, RmTree
    <3> QED
      BY <1>13, <3>1, <3>2, <3>3, <3>4 DEF SaveStep
  <2> QED
    BY <2>1, NothingRecovered
<1> QED
  BY <1>1, <1>2, <1>3, <1>4, <1>5, <1>6, <1>7, <1>8, <1>9, <1>10, <1>11, <1>12, <1>13
     DEF StepOf, CallerStep, RecoveryStep

(* A publication starts after a check or after the lineage was found good. *)
LEMMA PublicationStarts ==
    ASSUME NEW c \in Callers, StepOf(c), c \in Saves,
           pc'[c] \in Publishing, pc[c] \notin Publishing
    PROVE  \/ Version[target[c]] = 1 /\ Parent[target[c]] = NoPlan
           \/ pc[c] = "lineage" /\ LineageOk(target[c])
<1>0. /\ pc = [d \in Callers |-> pc[d]] /\ back[c] \in {"idle", "check", "lineage"}
      /\ c \notin Readers
  BY StoreAssumption DEF StepOf, WellTyped, CallTypes, StoreAssumption
<1> USE DEF Goto, Forget, Raised, Recover, Publishing
<1>1. CASE Check(c)
  BY <1>0, <1>1 DEF Check
<1>2. CASE Lineage(c)
  BY <1>0, <1>2 DEF Lineage
<1>3. CASE Save(c)
  BY <1>0, <1>3 DEF Save
<1>4. CASE NextMarker(c)
  BY <1>0, <1>4 DEF NextMarker, Verdict
<1>5. CASE ListPaths(c) \/ RestoreRename(c) \/ Unmark(c) \/ Sweep(c) \/ Recovered(c)
  BY <1>0, <1>5 DEF ListPaths, RestoreRename, Unmark, Sweep, Recovered
<1>6. CASE RestoreRemove(c) \/ Wipe(c) \/ CleanStaging(c) \/ CleanBackup(c) \/ SweepRemove(c)
  BY <1>0, <1>6 DEF RestoreRemove, Wipe, CleanStaging, CleanBackup, SweepRemove, RmTree
<1> QED
  BY <1>0, <1>1, <1>2, <1>3, <1>4, <1>5, <1>6
     DEF StepOf, CallerStep, RecoveryStep, SaveStep, Copy, Write, WritePending, WriteVersion,
         WriteLatest, WriteExtras, Draft, Mark, MoveToBackup, Replace, Commit, Unpend, Abort, IOError

(* A save waits for the recovery that its lineage check starts with.       *)
LEMMA LineageStarts ==
    ASSUME NEW c \in Callers, StepOf(c), c \in Saves,
           back'[c] = "lineage" \/ pc'[c] = "lineage"
    PROVE  /\ back'[c] = "lineage" => pc'[c] \in Recovering
           /\ pc[c] # "commit"
           /\ \/ back[c] = "lineage" \/ pc[c] = "lineage"
              \/ /\ pc[c] = "check" /\ Parent[target[c]] # NoPlan
                 /\ ~(Committed(target[c]) /\ Has(Plan(target[c]), "version"))
<1>0. /\ pc = [d \in Callers |-> pc[d]] /\ back = [d \in Callers |-> back[d]]
      /\ back[c] \in {"idle", "check", "lineage"} /\ c \notin Readers
      /\ ChecksLineage(c) /\ Recovers(c)
  <2>1. WellTyped /\ Facts
    BY DEF StepOf
  <2> QED
    BY <2>1, StoreAssumption
       DEF WellTyped, CallTypes, Facts, ParentFacts, CallerFacts, StoreAssumption
<1>1. CASE back[c] # "lineage" /\ pc[c] # "lineage"
  <2>1. CASE Check(c)
    <3>1. CASE UNCHANGED back /\ pc'[c] \in {"saved", "failed", "copy"}
      BY <1>1, <3>1
    <3>2. CASE /\ Recover(c, "lineage") /\ Parent[target[c]] # NoPlan
               /\ ~(Committed(target[c]) /\ Has(Plan(target[c]), "version"))
      BY <1>0, <2>1, <3>2 DEF Check, Goto, Recover, Recovering
    <3> QED
      BY <1>0, <2>1, <3>1, <3>2 DEF Check, Goto
  <2>2. CASE ~Check(c)
    <3>1. back'[c] # "lineage" /\ pc'[c] # "lineage"
      <4> USE DEF Goto, Forget, Raised, Recover
      <4>1. CASE NextMarker(c)
        BY <1>0, <1>1, <4>1 DEF NextMarker, Verdict
      <4>2. CASE ListPaths(c) \/ RestoreRename(c) \/ Unmark(c) \/ Sweep(c) \/ Recovered(c)
        BY <1>0, <1>1, <4>2 DEF ListPaths, RestoreRename, Unmark, Sweep, Recovered
      <4>3. CASE RestoreRemove(c) \/ Wipe(c) \/ CleanStaging(c) \/ CleanBackup(c)
                 \/ SweepRemove(c) \/ Abort(c)
        BY <1>0, <1>1, <4>3
           DEF RestoreRemove, Wipe, CleanStaging, CleanBackup, SweepRemove, Abort, RmTree
      <4>4. CASE Save(c) \/ Lineage(c) \/ Copy(c) \/ Draft(c) \/ Mark(c) \/ MoveToBackup(c)
                 \/ WritePending(c) \/ WriteVersion(c) \/ WriteLatest(c) \/ WriteExtras(c)
        BY <1>0, <1>1, <4>4 DEF Save, Lineage, Copy, Draft, Mark, MoveToBackup, Write, WritePending,
                                WriteVersion, WriteLatest, WriteExtras
      <4>5. CASE Replace(c) \/ Commit(c) \/ Unpend(c) \/ IOError(c)
        BY <1>0, <1>1, <4>5 DEF Replace, Commit, Unpend, IOError
      <4> QED
        BY <1>0, <2>2, <4>1, <4>2, <4>3, <4>4, <4>5
           DEF StepOf, CallerStep, RecoveryStep, SaveStep
    <3> QED
      BY <3>1
  <2> QED
    BY <2>1, <2>2
<1>2. CASE back[c] = "lineage"
  <2>1. pc[c] \in Recovering /\ ~Committed(target[c])
    BY <1>0, <1>2 DEF ChecksLineage
  <2>2. back'[c] = "lineage" => pc'[c] \in Recovering
    <3> USE DEF Goto, Forget, Raised, Recover, Recovering, RollingBack, Cleaning
    <3>1. CASE NextMarker(c)
      BY <1>0, <2>1, <3>1 DEF NextMarker, Verdict
    <3>2. CASE ListPaths(c) \/ RestoreRename(c) \/ Unmark(c) \/ Sweep(c) \/ Recovered(c)
      BY <1>0, <2>1, <3>2 DEF ListPaths, RestoreRename, Unmark, Sweep, Recovered
    <3>3. CASE RestoreRemove(c) \/ Wipe(c) \/ CleanStaging(c) \/ CleanBackup(c) \/ SweepRemove(c)
      BY <1>0, <2>1, <3>3
         DEF RestoreRemove, Wipe, CleanStaging, CleanBackup, SweepRemove, RmTree
    <3> QED
      BY <1>0, <2>1, <3>1, <3>2, <3>3
         DEF StepOf, CallerStep, RecoveryStep, SaveStep, Save, Check, Lineage, Copy, Write, Draft, Mark,
             WritePending, WriteVersion, WriteLatest, WriteExtras, MoveToBackup, Replace,
             Commit, Unpend, Abort, IOError, Publishing
  <2> QED
    BY <1>2, <2>1, <2>2 DEF Recovering, RollingBack, Cleaning
<1>3. CASE pc[c] = "lineage" /\ back[c] # "lineage"
  <2>1. Lineage(c)
    BY <1>0, <1>3
       DEF StepOf, CallerStep, RecoveryStep, SaveStep, Save, Check, Copy, Write, Draft, Mark,
           WritePending, WriteVersion, WriteLatest, WriteExtras, MoveToBackup, Replace,
           Commit, Unpend, Abort, IOError, Publishing, NextMarker, ListPaths, RestoreRemove,
           RestoreRename, Wipe, CleanStaging, CleanBackup, Unmark, Sweep, SweepRemove,
           Recovered
  <2> QED
    BY <1>0, <1>3, <2>1 DEF Lineage, Goto
<1> QED
  BY <1>1, <1>2, <1>3

(* Lineage: the parent of a later version is committed before its child    *)
(* starts to be published, and no step takes it away again.                *)
LEMMA ParentStep ==
    ASSUME NEW c \in Callers, StepOf(c)
    PROVE  /\ ParentFacts'
           /\ \A p \in Plans \ Roots :
                  Committed(p)' /\ Version[p] > 1 => Committed(Parent[p])'
<1>0. /\ target' = target /\ target \in [Saves -> Plans]
      /\ Parent \in [Plans -> Plans \cup {NoPlan}]
      /\ \A s \in Saves : s = c \/ (pc'[s] = pc[s] /\ back'[s] = back[s])
  BY StoreAssumption DEF StepOf, Framed, WellTyped, DiskTypes, StoreAssumption, Callers
<1>1. /\ ParentFacts /\ OneCallPerPlan /\ CommitFacts
      /\ \A p \in Plans \ Roots : Committed(p) /\ Version[p] > 1 => Committed(Parent[p])
  BY DEF StepOf, Facts, LineageClosed
<1>2. \A p \in Plans : Committed(p) => Committed(p)'
  BY CommittedStays
<1>3. ASSUME NEW s \in Saves PROVE ChecksLineage(s)'
  <2>1. CASE s = c
    <3>1. CASE back'[s] = "lineage" \/ pc'[s] = "lineage"
      <4>1. /\ back'[c] = "lineage" => pc'[c] \in Recovering
            /\ pc[c] # "commit"
            /\ \/ back[c] = "lineage" \/ pc[c] = "lineage"
               \/ /\ pc[c] = "check" /\ Parent[target[c]] # NoPlan
                  /\ ~(Committed(target[c]) /\ Has(Plan(target[c]), "version"))
        BY <2>1, <3>1, LineageStarts
      <4>2. ~Committed(target[c]) /\ Parent[target[c]] \in Plans
        BY <1>0, <1>1, <2>1, <4>1 DEF ParentFacts, ChecksLineage, CommitFacts, Whole
      <4>3. ~Committed(target[c])'
        BY <2>1, <4>1, <4>2, NotCommittedStays
      <4> QED
        BY <1>0, <2>1, <4>1, <4>2, <4>3 DEF ChecksLineage
    <3>2. CASE back'[s] # "lineage" /\ pc'[s] # "lineage"
      BY <3>2 DEF ChecksLineage
    <3> QED
      BY <3>1, <3>2
  <2>2. CASE s # c
    <3>1. pc'[s] = pc[s] /\ back'[s] = back[s] /\ ChecksLineage(s)
      BY <1>0, <1>1, <2>2 DEF ParentFacts
    <3>2. CASE back[s] = "lineage" \/ pc[s] = "lineage"
      <4>1. ~Committed(target[s]) /\ Running(s)
        BY <3>1, <3>2 DEF ChecksLineage, Recovering, RollingBack, Cleaning, Running
      <4>2. \A p \in Plans : ~Committed(p) /\ Committed(p)' =>
                c \in Saves /\ p = target[c] /\ pc[c] = "commit"
        BY NewlyCommitted
      <4>3. pc[c] = "commit" => Running(c)
        BY DEF Running
      <4>4. target[s] \in Plans /\ (c \in Saves /\ target[s] = target[c] => ~Running(c))
        BY <1>0, <1>1, <2>2, <4>1 DEF OneCallPerPlan
      <4>5. \A p \in Plans : p = target[s] => ~Committed(p)'
        BY <4>1, <4>2, <4>3, <4>4
      <4>6. ~Committed(target[s])'
        BY <1>0, <4>4, <4>5 DEF Committed, Has, Exists
      <4> QED
        BY <1>0, <3>1, <3>2, <4>6 DEF ChecksLineage
    <3>3. CASE back[s] # "lineage" /\ pc[s] # "lineage"
      BY <3>1, <3>3 DEF ChecksLineage
    <3> QED
      BY <3>2, <3>3
  <2> QED
    BY <2>1, <2>2
<1>4. ASSUME NEW s \in Saves, pc'[s] \in Publishing, Version[target[s]] > 1
      PROVE  Parent[target[s]] \in Plans /\ Committed(Parent[target[s]])
  <2>1. CASE pc[s] \in Publishing
    BY <1>1, <1>4, <2>1 DEF ParentFacts
  <2>2. CASE pc[s] \notin Publishing
    <3>1. s = c
      BY <1>0, <1>4, <2>2
    <3>2. Version[target[s]] = 1 \/ (pc[s] = "lineage" /\ LineageOk(target[s]))
      BY <1>4, <2>2, <3>1, PublicationStarts
    <3>3. pc[s] = "lineage" /\ LineageOk(target[s])
      BY <1>4, <3>2
    <3> QED
      BY <1>1, <3>3 DEF LineageOk, ParentFacts, ChecksLineage
  <2> QED
    BY <2>1, <2>2
<1>5. ASSUME NEW p \in Plans \ Roots, Committed(p)', Version[p] > 1
      PROVE  Parent[p] \in Plans /\ Committed(Parent[p])
  <2>1. CASE Committed(p)
    BY <1>1, <1>5, <2>1 DEF ParentFacts
  <2>2. CASE ~Committed(p)
    <3>1. c \in Saves /\ p = target[c] /\ pc[c] = "commit"
      BY <1>5, <2>2, NewlyCommitted
    <3> QED
      BY <1>1, <1>5, <3>1 DEF ParentFacts, Publishing
  <2> QED
    BY <2>1, <2>2
<1>6. \A s \in Saves : pc'[s] \in Publishing /\ Version[target[s]] > 1 =>
          Parent[target[s]] \in Plans /\ Committed(Parent[target[s]])'
  <2>1. SUFFICES ASSUME NEW s \in Saves, pc'[s] \in Publishing, Version[target[s]] > 1
                 PROVE  Parent[target[s]] \in Plans /\ Committed(Parent[target[s]])'
    OBVIOUS
  <2>2. Parent[target[s]] \in Plans /\ Committed(Parent[target[s]])
    BY <1>4, <2>1
  <2>3. \A p \in Plans : p = Parent[target[s]] => Committed(p)'
    BY <1>2, <2>2
  <2> QED
    BY <1>0, <2>2, <2>3 DEF Committed, Has, Exists
<1>7. ParentFacts'
  <2>1. \A p \in Plans \ Roots : Committed(p)' /\ Version[p] > 1 => Parent[p] \in Plans
    BY <1>5
  <2>2. ASSUME NEW s \in Saves, pc'[s] \in Publishing PROVE Succeeds(target[s])
    <3>1. CASE pc[s] \in Publishing
      BY <1>1, <3>1 DEF ParentFacts
    <3>2. CASE pc[s] \notin Publishing
      <4>1. s = c
        BY <1>0, <2>2, <3>2
      <4>2. CASE Version[target[c]] = 1 /\ Parent[target[c]] = NoPlan
        BY <4>1, <4>2 DEF Succeeds
      <4>3. CASE pc[c] = "lineage" /\ LineageOk(target[c])
        BY <1>1, <4>1, <4>3 DEF LineageOk, ParentFacts, ChecksLineage, Succeeds
      <4> QED
        BY <2>2, <3>2, <4>1, <4>2, <4>3, PublicationStarts
    <3> QED
      BY <3>1, <3>2
  <2>3. \A s \in Saves : pc'[s] \in Publishing => Succeeds(target'[s])
    BY <1>0, <2>2
  <2> QED
    BY <1>0, <1>3, <1>6, <2>1, <2>3 DEF ParentFacts, Succeeds
<1> QED
  BY <1>2, <1>5, <1>7

(* Of two children of one plan only one is published, unless both were     *)
(* being published at once.                                                *)
LEMMA SiblingStep ==
    ASSUME NEW c \in Callers, StepOf(c), ~raced, ~Race
    PROVE  /\ \A s \in Saves, q \in Plans :
                  pc'[s] \in Publishing /\ Committed(q)' => ~Siblings(target[s], q)
           /\ \A p, q \in Plans : Committed(p)' /\ Committed(q)' => ~Siblings(p, q)
<1>0. /\ target \in [Saves -> Plans]
      /\ \A s \in Saves : s = c \/ pc'[s] = pc[s]
      /\ \A s \in Saves, q \in Plans :
             pc[s] \in Publishing /\ Committed(q) => ~Siblings(target[s], q)
      /\ \A p, q \in Plans : Committed(p) /\ Committed(q) => ~Siblings(p, q)
      /\ CommitFacts
  BY DEF StepOf, Framed, WellTyped, DiskTypes, Callers, Facts, SiblingFacts, OneChild
<1>1. \A p \in Plans : ~Committed(p) /\ Committed(p)' =>
          c \in Saves /\ p = target[c] /\ pc[c] = "commit"
  BY NewlyCommitted
<1>2. ASSUME NEW s \in Saves, NEW q \in Plans, pc'[s] \in Publishing, Committed(q)'
      PROVE  ~Siblings(target[s], q)
  <2>1. CASE pc[s] \in Publishing
    <3>1. CASE Committed(q)
      BY <1>0, <2>1, <3>1
    <3>2. CASE ~Committed(q)
      <4>1. c \in Saves /\ q = target[c] /\ pc[c] = "commit"
        BY <1>1, <1>2, <3>2
      <4> QED
        BY <2>1, <4>1 DEF Race, Publishing
    <3> QED
      BY <3>1, <3>2
  <2>2. CASE pc[s] \notin Publishing
    <3>1. s = c
      BY <1>0, <1>2, <2>2
    <3>2. CASE Parent[target[c]] = NoPlan
      BY <3>1, <3>2 DEF Siblings
    <3>3. CASE pc[c] = "lineage" /\ LineageOk(target[c])
      <4>1. Committed(q)
        BY <1>1, <1>2, <3>3
      <4>2. Has(Plan(q), "latest")
        BY <1>0, <4>1 DEF CommitFacts, Whole
      <4> QED
        BY <3>1, <3>3, <4>1, <4>2 DEF LineageOk, Siblings
    <3> QED
      BY <1>2, <2>2, <3>1, <3>2, <3>3, PublicationStarts
  <2> QED
    BY <2>1, <2>2
<1>3. ASSUME NEW p \in Plans, NEW q \in Plans, Committed(p)', Committed(q)'
      PROVE  ~Siblings(p, q)
  <2>1. CASE Committed(p) /\ Committed(q)
    BY <1>0, <2>1
  <2>2. CASE ~Committed(p) /\ Committed(q)
    BY <1>0, <1>1, <1>3, <2>2 DEF Publishing
  <2>3. CASE Committed(p) /\ ~Committed(q)
    <3>1. ~Siblings(q, p)
      BY <1>0, <1>1, <1>3, <2>3 DEF Publishing
    <3> QED
      BY <3>1 DEF Siblings
  <2>4. CASE ~Committed(p) /\ ~Committed(q)
    BY <1>1, <1>3, <2>4 DEF Siblings
  <2> QED
    BY <2>1, <2>2, <2>3, <2>4
<1> QED
  BY <1>2, <1>3

(* A recovery that runs alone has listed every marker and, later, every    *)
(* staging area that it has not dealt with.                                *)
LEMMA ListedStep ==
    ASSUME NEW c \in Callers, StepOf(c), AloneFact(c), Running(c), Running(c)'
    PROVE  AloneFact(c)'
<1>0. /\ fs = [x \in Paths |-> fs[x]] /\ marker = [t \in Saves |-> marker[t]]
      /\ pc = [d \in Callers |-> pc[d]] /\ look = [d \in Callers |-> look[d]]
      /\ todo = [d \in Callers |-> todo[d]] /\ back = [d \in Callers |-> back[d]]
      /\ back[c] \in {"idle", "read", "check", "lineage"}
      /\ pc[c] = "sweep_remove" => look[c] \in Paths
  BY DEF StepOf, WellTyped, DiskTypes, CallTypes
<1>00. pc'[c] \notin {"idle", "saved", "failed"}
  BY DEF Running
<1> USE DEF Goto, Forget, RollingBack, Cleaning
<1>1. CASE NextMarker(c)
  <2>1. PICK t \in todo[c] :
            /\ pc[c] = "markers" /\ UNCHANGED marker
            /\ pc'[c] = Verdict(t) /\ look'[c] = t /\ todo'[c] = todo[c] \ {t}
    BY <1>0, <1>00, <1>1 DEF NextMarker, Raised
  <2>2. pc'[c] \in {"clean_staging", "restore_remove", "wipe"}
    BY <2>1 DEF Verdict
  <2>3. Marked' \subseteq todo'[c] \cup {look'[c]}
    BY <2>1 DEF AloneFact, Marked
  <2> QED
    BY <2>2, <2>3 DEF AloneFact
<1>2. CASE ListPaths(c)
  BY <1>0, <1>2 DEF ListPaths, AloneFact, Marked, StagingAreas, Exists
<1>3. CASE RestoreRemove(c) \/ Wipe(c) \/ CleanStaging(c) \/ CleanBackup(c)
  <2>1. /\ UNCHANGED <<marker, look, todo>>
        /\ pc[c] \in RollingBack \cup Cleaning /\ pc'[c] \in RollingBack \cup Cleaning
    BY <1>0, <1>3 DEF RestoreRemove, Wipe, CleanStaging, CleanBackup, RmTree
  <2> QED
    BY <2>1 DEF AloneFact, Marked
<1>4. CASE RestoreRename(c)
  <2>1. /\ UNCHANGED <<marker, look, todo>>
        /\ pc[c] \in RollingBack \cup Cleaning /\ pc'[c] \in RollingBack \cup Cleaning
    BY <1>0, <1>00, <1>4 DEF RestoreRename, Raised
  <2> QED
    BY <2>1 DEF AloneFact, Marked
<1>5. CASE Unmark(c)
  <2>1. /\ look[c] # c /\ pc[c] = "unmark" /\ pc'[c] = "markers" /\ todo' = todo
        /\ marker' = [marker EXCEPT ![look[c]] = "none"]
    BY <1>0, <1>00, <1>5 DEF Unmark
  <2>2. Marked' \subseteq Marked \ {look[c]}
    BY <1>0, <2>1 DEF Marked
  <2> QED
    BY <2>1, <2>2 DEF AloneFact
<1>6. CASE Sweep(c)
  <2>1. PICK x \in todo[c] :
            /\ pc[c] = "sweep" /\ UNCHANGED <<fs, marker>> /\ todo'[c] = todo[c] \ {x}
            /\ \/ pc'[c] = "sweep_remove" /\ look'[c] = x
               \/ pc'[c] = "sweep" /\ x[1] # "staging"
    BY <1>0, <1>6 DEF Sweep, Abandoned
  <2>2. Marked' = {} /\ StagingAreas' \subseteq todo[c] /\ (x[1] # "staging" => x \notin StagingAreas')
    BY <2>1 DEF AloneFact, Marked, StagingAreas, Exists
  <2> QED
    BY <2>1, <2>2 DEF AloneFact
<1>7. CASE SweepRemove(c)
  <2>1. pc[c] = "sweep_remove" /\ look[c] \in Paths /\ UNCHANGED <<marker, todo>>
        /\ "sweep" \in Steps /\ RmTree(c, look[c], "sweep")
    BY <1>0, <1>7 DEF SweepRemove, Steps
  <2>2. /\ fs' = [fs EXCEPT ![look[c]] = fs'[look[c]]]
        /\ fs'[look[c]] # NoDir => Exists(look[c])
        /\ \/ pc' = pc \/ (pc'[c] = "sweep" /\ fs'[look[c]] = NoDir)
    BY <1>0, <2>1, RmTreeEffect DEF StepOf
  <2>3. pc' = pc => look'[c] = look[c]
    BY <1>0, <1>7, <2>1 DEF SweepRemove
  <2>4. Marked' = {} /\ StagingAreas' \subseteq StagingAreas
    BY <1>0, <2>1, <2>2 DEF AloneFact, Marked, StagingAreas, Exists
  <2>5. fs'[look[c]] = NoDir => look[c] \notin StagingAreas'
    BY DEF StagingAreas, Exists
  <2> QED
    BY <2>1, <2>2, <2>3, <2>4, <2>5 DEF AloneFact
<1>8. CASE Recovered(c)
  <2>1. /\ pc[c] = "sweep" /\ todo[c] = {} /\ UNCHANGED <<fs, marker>>
        /\ pc'[c] \in {"read", "check", "lineage"}
    BY <1>0, <1>00, <1>8 DEF Recovered
  <2>2. Marked' = {} /\ StagingAreas' = {}
    BY <2>1 DEF AloneFact, Marked, StagingAreas, Exists
  <2> QED
    BY <2>1, <2>2 DEF AloneFact
<1>9. CASE Get(c) \/ Read(c) \/ Save(c)
  BY <1>00, <1>0, <1>9 DEF Get, Read, Save, Running
<1>10. CASE Check(c)
  <2>1. CASE pc'[c] = "copy"
    BY <2>1 DEF AloneFact
  <2>2. CASE Recover(c, "lineage") /\ UNCHANGED marker
    BY <1>0, <2>2 DEF Recover, AloneFact, Marked
  <2> QED
    BY <1>0, <1>00, <1>10, <2>1, <2>2 DEF Check
<1>11. CASE Unpend(c)
  <2>1. pc'[c] = "clean_staging" /\ look'[c] = c
    BY <1>0, <1>11 DEF Unpend
  <2> QED
    BY <2>1 DEF AloneFact
<1>12. CASE pc'[c] \in Publishing
  BY <1>12 DEF AloneFact, Publishing
<1>13. CASE c \in Saves /\ SaveStep(c) /\ ~Save(c) /\ ~Check(c) /\ ~Unpend(c)
  <2> USE DEF Publishing, Raised
  <2>1. CASE Lineage(c) \/ IOError(c)
    BY <1>0, <1>00, <2>1, <1>12 DEF Lineage, IOError
  <2>2. CASE Copy(c) \/ WritePending(c) \/ WriteVersion(c) \/ WriteLatest(c) \/ WriteExtras(c)
    BY <1>0, <2>2, <1>12 DEF Copy, Write, WritePending, WriteVersion, WriteLatest, WriteExtras
  <2>3. CASE Draft(c) \/ Mark(c) \/ MoveToBackup(c) \/ Replace(c) \/ Commit(c)
    BY <1>0, <1>00, <2>3, <1>12 DEF Draft, Mark, MoveToBackup, Replace, Commit
  <2>4. CASE Abort(c)
    BY <1>0, <1>00, <2>4, <1>12 DEF Abort, RmTree
  <2> QED
    BY <1>13, <2>1, <2>2, <2>3, <2>4 DEF SaveStep
<1> QED
  BY <1>1, <1>2, <1>3, <1>4, <1>5, <1>6, <1>7, <1>8, <1>9, <1>10, <1>11, <1>13
     DEF StepOf, CallerStep, RecoveryStep

(* Only the caller that takes the step can have been alone, or starts      *)
(* alone.                                                                  *)
LEMMA AloneStep ==
    ASSUME NEW c \in Callers, StepOf(c),
           alone' = {d \in Callers : OnlyRunning(d)' /\ (d \in alone \/ ~Running(d))}
    PROVE  AloneFacts'
<1>0. /\ alone \subseteq Callers /\ AloneFacts
      /\ \A d \in Callers : d = c \/ pc'[d] = pc[d]
      /\ pc = [d \in Callers |-> pc[d]] /\ todo = [d \in Callers |-> todo[d]]
  BY DEF StepOf, Framed, WellTyped, CallTypes, Facts
<1>1. ~Running(c) => /\ pc'[c] = "markers" /\ UNCHANGED marker
                     /\ todo'[c] = Marked
  <2>1. ~Running(c) => pc[c] = "idle"
    BY Flow DEF Running
  <2> QED
    BY <1>0, <2>1, Flow DEF Get, Save, Recover, Goto, Marked
<1>2. SUFFICES ASSUME NEW d \in Callers, OnlyRunning(d)', d \in alone \/ ~Running(d)
               PROVE  AloneFact(d)'
  BY <1>2 DEF AloneFacts, AloneFact, OnlyRunning
<1>3. Running(d)' /\ \A e \in Callers \ {d} : ~Running(e)'
  BY <1>2 DEF OnlyRunning
<1>4. d = c
  <2>1. SUFFICES ASSUME d # c PROVE FALSE
    OBVIOUS
  <2>2. Running(d) /\ ~Running(c)'
    BY <1>0, <1>3, <2>1 DEF Running
  <2>3. ~Running(c)
    BY <1>0, <1>2, <2>1, <2>2 DEF AloneFacts
  <2> QED
    BY <1>1, <2>2, <2>3 DEF Running
<1>5. CASE Running(c)
  BY <1>0, <1>2, <1>3, <1>4, <1>5, ListedStep DEF AloneFacts, AloneFact
<1>6. CASE ~Running(c)
  BY <1>1, <1>4, <1>6 DEF AloneFact, Marked, RollingBack, Cleaning
<1> QED
  BY <1>5, <1>6

(* What holds of the disk alone survives the callers.                      *)
LEMMA DiskStays ==
    ASSUME UNCHANGED <<fs, marker, temporary, target>>
    PROVE  /\ DiskTypes => DiskTypes'
           /\ MarkerFacts => MarkerFacts'
           /\ SettledFacts => SettledFacts'
           /\ CommitFacts => CommitFacts'
           /\ OneMarkerPerPlan => OneMarkerPerPlan'
           /\ \A p : Committed(p)' <=> Committed(p)
<1> USE DEF Committed, Has, Exists
<1>1. DiskTypes => DiskTypes'
  BY DEF DiskTypes
<1>2. MarkerFacts => MarkerFacts'
  BY DEF MarkerFacts
<1>3. SettledFacts => SettledFacts'
  BY DEF SettledFacts, Settled
<1>4. CommitFacts => CommitFacts'
  BY DEF CommitFacts, Whole
<1>5. OneMarkerPerPlan => OneMarkerPerPlan'
  BY DEF OneMarkerPerPlan
<1> QED
  BY <1>1, <1>2, <1>3, <1>4, <1>5

(* After a crash no call is under way, and a save that was is a failed one. *)
LEMMA CrashTypes ==
    ASSUME WellTyped, Crash
    PROVE  /\ DiskTypes' /\ CallTypes'
           /\ UNCHANGED <<fs, marker, temporary, target>> /\ Saves \subseteq Callers
           /\ \A c \in Callers :
                 /\ pc'[c] \in {"idle", "saved", "failed"} /\ back'[c] = "idle"
                 /\ pc'[c] = "saved" => pc[c] = "saved"
                 /\ Running(c) /\ c \in Saves => pc'[c] = "failed"
                 /\ ~Running(c) => pc'[c] = pc[c]
<1>0. /\ UNCHANGED <<fs, marker, temporary, target>> /\ target \in [Saves -> Plans]
      /\ pc \in [Callers -> Steps] /\ Saves \subseteq Callers
      /\ look' = [c \in Callers |-> Nothing] /\ back' = [c \in Callers |-> "idle"]
      /\ todo' = [c \in Callers |-> {}]
      /\ pc' = [c \in Callers |-> IF ~Running(c) THEN pc[c]
                                  ELSE IF c \in Saves THEN "failed" ELSE "idle"]
  BY DEF WellTyped, DiskTypes, CallTypes, Crash, Callers
<1>1. \A c \in Callers :
          /\ pc'[c] \in {"idle", "saved", "failed"}
          /\ pc'[c] \in {"saved", "failed"} => c \in Saves
          /\ pc'[c] = "saved" => pc[c] = "saved"
          /\ Running(c) /\ c \in Saves => pc'[c] = "failed"
          /\ ~Running(c) => pc'[c] = pc[c]
  BY <1>0 DEF WellTyped, CallTypes, Running
<1>3. DiskTypes'
  BY <1>0, DiskStays DEF WellTyped
<1>4. CallTypes'
  <2>1. pc' \in [Callers -> Steps]
    BY <1>0 DEF Steps
  <2> QED
    BY <1>0, <1>1, <2>1 DEF CallTypes, RollingBack, Cleaning, Publishing
<1> QED
  BY <1>0, <1>1, <1>3, <1>4

(* A crash leaves every transaction under way to the next recovery.        *)
LEMMA CrashStep ==
    ASSUME WellTyped, Facts, Crash,
           alone' = {d \in Callers : OnlyRunning(d)' /\ (d \in alone \/ ~Running(d))}
    PROVE  /\ (MarkerFacts /\ SettledFacts /\ CommitFacts)'
           /\ (OneCallPerPlan /\ MarkedLate /\ OwnPlanRecovered /\ OneMarkerPerPlan)'
           /\ CallerFacts' /\ ParentFacts' /\ AloneFacts'
           /\ \A s \in Saves : pc'[s] \notin Publishing
<1>0. /\ UNCHANGED <<fs, marker, temporary, target>> /\ Saves \subseteq Callers
      /\ \A c \in Callers :
            /\ pc'[c] \in {"idle", "saved", "failed"} /\ back'[c] = "idle"
            /\ pc'[c] = "saved" => pc[c] = "saved"
            /\ Running(c) /\ c \in Saves => pc'[c] = "failed"
            /\ ~Running(c) => pc'[c] = pc[c]
  BY CrashTypes
<1>1. \A c \in Callers : ~Running(c)'
  BY <1>0 DEF Running
<1>2. \A p : Committed(p)' <=> Committed(p)
  BY <1>0, DiskStays
<1>3. MarkerFacts' /\ SettledFacts' /\ CommitFacts' /\ OneMarkerPerPlan'
  BY <1>0, DiskStays DEF Facts
<1>4. OneCallPerPlan' /\ OwnPlanRecovered' /\ AloneFacts'
  <2>1. alone' = {}
    BY <1>1 DEF OnlyRunning
  <2> QED
    BY <1>0, <1>1, <2>1 DEF OneCallPerPlan, OwnPlanRecovered, AloneFacts
<1>5. MarkedLate'
  BY <1>0 DEF Facts, MarkedLate, Running, Cleaning
<1>6. ASSUME NEW s \in Saves PROVE Publishes(s)' /\ Saved(s)'
  <2>1. Publishes(s)'
    BY <1>0, NothingPublished
  <2>2. Saved(s)'
    BY <1>0 DEF Facts, CallerFacts, Saved, Committed, Has, Exists
  <2> QED
    BY <2>1, <2>2
<1>7. \A c \in Callers : Recovers(c)'
  BY <1>0, NothingRecovered DEF RollingBack, Cleaning
<1>8. \A s \in Saves : pc'[s] \notin Publishing /\ pc'[s] # "lineage" /\ back'[s] # "lineage"
  BY <1>0 DEF Publishing
<1>9. ParentFacts'
  <2>1. \A s \in Saves : ChecksLineage(s)'
    BY <1>8 DEF ChecksLineage
  <2>2. \A p \in Plans \ Roots : Committed(p)' /\ Version[p] > 1 => Parent[p] \in Plans
    BY <1>2 DEF Facts, ParentFacts
  <2> QED
    BY <1>8, <2>1, <2>2 DEF ParentFacts
<1> QED
  BY <1>3, <1>4, <1>5, <1>6, <1>7, <1>8, <1>9 DEF CallerFacts

(* A step of nobody.                                                       *)
LEMMA StutterStep ==
    ASSUME StoreInv, UNCHANGED vars PROVE StoreInv'
<1> USE DEF vars
<1>1. WellTyped' /\ HistoryIsTrue'
  BY DEF StoreInv, WellTyped, DiskTypes, CallTypes, HistoryIsTrue, Overlap, Race, Touching,
         PathsOf
<1>2. ASSUME ~clash PROVE Facts'
  <2>0. Facts
    BY <1>2 DEF StoreInv
  <2>1. MarkerFacts' /\ SettledFacts' /\ CommitFacts' /\ OneMarkerPerPlan'
    BY <2>0, DiskStays DEF Facts
  <2>2. OneCallPerPlan' /\ MarkedLate' /\ OwnPlanRecovered'
    BY <2>0 DEF Facts, OneCallPerPlan, MarkedLate, OwnPlanRecovered, Running
  <2>3. \A s \in Saves : Publishes(s)' /\ Saved(s)'
    BY <2>0 DEF Facts, CallerFacts, Publishes, Saved, WrittenBy, Committed, Has, Exists
  <2>4. \A c \in Callers : Recovers(c)'
    BY <2>0 DEF Facts, CallerFacts, Recovers, RolledBack, Disposable, Committed, Has, Exists
  <2>5. ParentFacts' /\ SiblingFacts' /\ LineageClosed' /\ OneChild'
    BY <2>0 DEF Facts, ParentFacts, ChecksLineage, Succeeds, SiblingFacts, LineageClosed, OneChild,
                Committed, Has, Exists
  <2>6. AloneFacts'
    BY <2>0 DEF Facts, AloneFacts, AloneFact, Running, Marked, StagingAreas, Exists
  <2> QED
    BY <2>1, <2>2, <2>3, <2>4, <2>5, <2>6 DEF Facts, CallerFacts
<1> QED
  BY <1>1, <1>2 DEF StoreInv

(* A step of a caller, on an undisturbed store.                            *)
LEMMA CallerKeeps ==
    ASSUME NEW c \in Callers, StepOf(c), ~clash', HistoryIsTrue,
           raced' = (raced \/ Race'),
           alone' = {d \in Callers : OnlyRunning(d)' /\ (d \in alone \/ ~Running(d))}
    PROVE  Facts'
<1>1. MarkerFacts' /\ SettledFacts' /\ CommitFacts'
  BY MarkerFactsStep, SettledStep, CommitFactsStep
<1>2. OneCallPerPlan' /\ MarkedLate' /\ OwnPlanRecovered' /\ OneMarkerPerPlan'
  BY OneCallStep, MarkedLateStep, OwnPlanStep, OneMarkerStep
<1>3. CallerFacts'
  <2>1. ASSUME NEW s \in Saves PROVE Publishes(s)' /\ Saved(s)'
    BY PublishesStep, OthersUndisturbed DEF Callers
  <2>2. ASSUME NEW d \in Callers PROVE Recovers(d)'
    BY RecoversStep, OthersUndisturbed
  <2> QED
    BY <2>1, <2>2 DEF CallerFacts
<1>4. ParentFacts' /\ LineageClosed'
  <2>1. /\ ParentFacts'
        /\ \A p \in Plans \ Roots :
               Committed(p)' /\ Version[p] > 1 => Committed(Parent[p])'
    BY ParentStep
  <2> QED
    BY <2>1 DEF LineageClosed
<1>5. SiblingFacts' /\ OneChild'
  <2>1. CASE raced'
    BY <2>1 DEF SiblingFacts, OneChild
  <2>2. CASE ~raced'
    <3>1. ~raced /\ ~Race /\ UNCHANGED target
      BY <2>2 DEF HistoryIsTrue, StepOf, Framed
    <3>2. /\ \A s \in Saves, q \in Plans :
                 pc'[s] \in Publishing /\ Committed(q)' => ~Siblings(target[s], q)
          /\ \A p, q \in Plans : Committed(p)' /\ Committed(q)' => ~Siblings(p, q)
      BY <3>1, SiblingStep
    <3> QED
      BY <3>1, <3>2 DEF SiblingFacts, OneChild, Siblings
  <2> QED
    BY <2>1, <2>2
<1>6. AloneFacts'
  BY AloneStep
<1> QED
  BY <1>1, <1>2, <1>3, <1>4, <1>5, <1>6 DEF Facts

(* A crash hides no plan and publishes none.                               *)
LEMMA CrashKeeps ==
    ASSUME WellTyped, Facts, ~clash, Crash, raced' = (raced \/ Race'),
           alone' = {d \in Callers : OnlyRunning(d)' /\ (d \in alone \/ ~Running(d))}
    PROVE  Facts'
<1>1. /\ (MarkerFacts /\ SettledFacts /\ CommitFacts)'
      /\ (OneCallPerPlan /\ MarkedLate /\ OwnPlanRecovered /\ OneMarkerPerPlan)'
      /\ CallerFacts' /\ ParentFacts' /\ AloneFacts'
      /\ \A s \in Saves : pc'[s] \notin Publishing
  BY CrashStep
<1>2. \A p : Committed(p)' <=> Committed(p)
  BY DiskStays DEF Crash
<1>3. LineageClosed'
  BY <1>2 DEF Facts, LineageClosed
<1>4. SiblingFacts' /\ OneChild'
  BY <1>1, <1>2 DEF Facts, SiblingFacts, OneChild, Siblings
<1> QED
  BY <1>1, <1>3, <1>4 DEF Facts

(* A store with plans that were published before, and no call under way.   *)
LEMMA StoreInit == Init => StoreInv
<1> SUFFICES ASSUME Init PROVE StoreInv
  OBVIOUS
<1>0. PICK published \in SUBSET Roots :
          fs = [x \in Paths |->
                  IF x[1] # "plan" THEN NoDir
                  ELSE IF x[2] \in published THEN PublishedDir(x[2])
                  ELSE IF x[2] \in LegacyPlans THEN LegacyDir ELSE NoDir]
  BY DEF Init
<1>1. /\ marker = [s \in Saves |-> "none"] /\ temporary = marker /\ target \in [Saves -> Plans]
      /\ pc = [c \in Callers |-> "idle"] /\ look = [c \in Callers |-> Nothing]
      /\ todo = [c \in Callers |-> {}] /\ back = [c \in Callers |-> "idle"]
      /\ clash = FALSE /\ raced = FALSE /\ alone = {}
      /\ Saves \subseteq Callers /\ published \subseteq Plans
  BY StoreAssumption DEF Init, StoreAssumption, Callers
<1>2. /\ \A s \in Saves : fs[Staging(s)] = NoDir /\ fs[Backup(s)] = NoDir
      /\ \A p \in Plans : fs[Plan(p)] = IF p \in published THEN PublishedDir(p) ELSE Base(p)
  <2>1. \A p : Plan(p)[1] = "plan" /\ Plan(p)[2] = p
    BY DEF Plan
  <2> QED
    BY <1>0, <2>1, PathFacts DEF Base
<1>3. \A p \in Plans :
          /\ ~Has(Plan(p), "commit") => p \notin published
          /\ Committed(p) => /\ p \in published /\ Whole(p)
                             /\ p \in LegacyPlans => Has(Plan(p), "old")
  <2> SUFFICES ASSUME NEW p \in Plans
               PROVE  /\ ~Has(Plan(p), "commit") => p \notin published
                      /\ Committed(p) => /\ p \in published /\ Whole(p)
                                         /\ p \in LegacyPlans => Has(Plan(p), "old")
    OBVIOUS
  <2>1. CASE p \in published
    <3>1. fs[Plan(p)] = PublishedDir(p) /\ PublishedDir(p) # NoDir
      BY <1>2, <2>1, DirectoryFacts
    <3>2. \A f \in {"version", "latest", "extras", "commit"} :
              Has(Plan(p), f) /\ fs[Plan(p)][f] = NoSave
      BY <3>1 DEF PublishedDir, Has, Exists
    <3>3. p \in LegacyPlans => Has(Plan(p), "old")
      BY <3>1 DEF PublishedDir, Has, Exists
    <3>4. Whole(p)
      BY <3>2 DEF Whole
    <3> QED
      BY <2>1, <3>2, <3>3, <3>4
  <2>2. CASE p \notin published
    <3>1. fs[Plan(p)] = Base(p)
      BY <1>2, <2>2
    <3>2. ~Committed(p)
      BY <3>1, DirectoryFacts DEF Base, Committed, Has, Exists
    <3> QED
      BY <2>2, <3>2
  <2> QED
    BY <2>1, <2>2
<1>4. WellTyped
  <2>1. \A x \in Paths : Directory(fs[x])
    BY <1>0, DirectoryFacts
  <2>2. DiskTypes
    BY <1>0, <1>1, <2>1 DEF DiskTypes
  <2>3. CallTypes
    BY <1>1 DEF CallTypes, Steps, RollingBack, Cleaning, Publishing
  <2> QED
    BY <1>1, <2>2, <2>3 DEF WellTyped
<1>5. HistoryIsTrue
  BY <1>1 DEF HistoryIsTrue, Overlap, Race, Touching, Publishing, Cleaning, RollingBack
<1>6. MarkerFacts /\ SettledFacts /\ CommitFacts
  BY <1>1, <1>2, <1>3 DEF MarkerFacts, SettledFacts, Settled, CommitFacts, Committed, Has, Exists
<1>7. \A c \in Callers : ~Running(c)
  BY <1>1 DEF Running
<1>8. OneCallPerPlan /\ MarkedLate /\ OwnPlanRecovered /\ OneMarkerPerPlan
  BY <1>1, <1>7 DEF OneCallPerPlan, MarkedLate, OwnPlanRecovered, OneMarkerPerPlan
<1>9. CallerFacts
  BY <1>1 DEF CallerFacts, Publishes, Saved, Recovers, Uncommitted, Staged, RollingBack, Cleaning
<1>10. ParentFacts /\ LineageClosed /\ SiblingFacts
  <2>1. \A p \in Plans \ Roots : ~Committed(p)
    BY <1>3
  <2> QED
    BY <1>1, <2>1 DEF ParentFacts, ChecksLineage, LineageClosed, SiblingFacts, Publishing
<1>11. OneChild
  <2>1. \A p \in Plans : Committed(p) => p \in Roots
    BY <1>3
  <2> QED
    BY <2>1, StoreAssumption DEF OneChild, Siblings, StoreAssumption
<1>12. AloneFacts
  BY <1>1 DEF AloneFacts
<1> QED
  BY <1>4, <1>5, <1>6, <1>8, <1>9, <1>10, <1>11, <1>12 DEF StoreInv, Facts

(* No step breaks the invariant, whoever takes it.                         *)
LEMMA StoreStep == StoreInv /\ [Next]_vars => StoreInv'
<1> SUFFICES ASSUME StoreInv, [Next]_vars PROVE StoreInv'
  OBVIOUS
<1>1. CASE UNCHANGED vars
  BY <1>1, StutterStep
<1>2. CASE Next
  <2>0. /\ WellTyped /\ HistoryIsTrue /\ (clash \/ Facts)
        /\ clash' = (clash \/ Overlap') /\ raced' = (raced \/ Race')
        /\ alone' = {d \in Callers : OnlyRunning(d)' /\ (d \in alone \/ ~Running(d))}
    BY <1>2 DEF StoreInv, Next
  <2>1. HistoryIsTrue'
    BY <2>0 DEF HistoryIsTrue
  <2>2. ASSUME DiskTypes', CallTypes' PROVE WellTyped'
    BY <2>0, <2>2 DEF WellTyped
  <2>3. ASSUME NEW c \in Callers, CallerStep(c) PROVE StoreInv'
    <3>1. DiskTypes' /\ CallTypes' /\ Framed(c) /\ DiskFramed(c)
      BY <2>0, <2>3, DiskTypesStep, CallTypesStep, Frame, DiskFrame
    <3>2. ASSUME ~clash' PROVE Facts'
      <4>1. StepOf(c)
        BY <2>0, <2>3, <3>1, <3>2 DEF StepOf, HistoryIsTrue
      <4> QED
        BY <2>0, <3>2, <4>1, CallerKeeps
    <3> QED
      BY <2>1, <2>2, <3>1, <3>2 DEF StoreInv
  <2>4. ASSUME Crash PROVE StoreInv'
    <3>1. DiskTypes' /\ CallTypes'
      BY <2>0, <2>4, CrashTypes
    <3>2. ASSUME ~clash' PROVE Facts'
      BY <2>0, <2>4, <3>2, CrashKeeps
    <3> QED
      BY <2>1, <2>2, <3>1, <3>2 DEF StoreInv
  <2>5. (\E c \in Callers : CallerStep(c)) \/ Crash
    BY <1>2 DEF Next, CallerStep, Callers
  <2> QED
    BY <2>3, <2>4, <2>5
<1> QED
  BY <1>1, <1>2

----------------------------------------------------------------------------
(* In every state that saves, gets, failing file operations and crashes    *)
(* reach, the disk and the callers satisfy the invariant.                  *)
THEOREM StoreInvariant == Spec => []StoreInv
<1>1. StoreInv /\ [Next]_vars => StoreInv'
  BY StoreStep
<1> QED
  BY <1>1, StoreInit, PTL DEF Spec

(* Directories, markers and the positions of the callers have their types: *)
(* in particular every step that removes or renames names a path.          *)
THEOREM TypesTheorem == Spec => []TypeOK
<1>1. StoreInv => TypeOK
  BY DEF StoreInv, WellTyped, DiskTypes, CallTypes, Directory, Exists, TypeOK
<1> QED
  BY <1>1, StoreInvariant, PTL

(* A plan that get() shows has its version, latest.json and the rest, all  *)
(* of one save: _publish_plan_directory writes all of it before the commit *)
(* marker, and _recover_transaction never touches a committed directory.   *)
THEOREM VisibleTheorem == Spec => []VisibleIsWhole
<1>1. StoreInv => VisibleIsWhole
  BY DEF StoreInv, Facts, CommitFacts, VisibleIsWhole
<1> QED
  BY <1>1, StoreInvariant, PTL

(* What save() returned stays visible: no recovery rolls it back.          *)
THEOREM SavedTheorem == Spec => []SavedStaysVisible
<1>1. StoreInv => SavedStaysVisible
  BY DEF StoreInv, Facts, CallerFacts, Saved, SavedStaysVisible
<1> QED
  BY <1>1, StoreInvariant, PTL

(* A later version that is visible has a visible parent, which             *)
(* _validate_lineage read long before the child was committed.             *)
THEOREM LineageTheorem == Spec => []LineageClosed
<1>1. StoreInv => LineageClosed
  BY DEF StoreInv, Facts, LineageClosed
<1> QED
  BY <1>1, StoreInvariant, PTL

(* A plan has one visible child, unless two were being published at once:  *)
(* then _validate_lineage of each has not seen the other.                  *)
THEOREM ChildTheorem == Spec => []OneChild
<1>1. StoreInv => OneChild
  BY DEF StoreInv, Facts, OneChild
<1> QED
  BY <1>1, StoreInvariant, PTL

(* _recover_incomplete_transactions, run alone, leaves no marker, staging  *)
(* area or backup, and every plan is committed or what it was before.      *)
THEOREM RecoveryTheorem == Spec => []RecoveryIsComplete
<1>1. ASSUME StoreInv, NEW c \in alone, pc[c] \in {"read", "check"}, ~clash
      PROVE  /\ \A s \in Saves : marker[s] = "none" /\ ~Exists(Staging(s)) /\ ~Exists(Backup(s))
             /\ \A p \in Plans :
                   /\ Committed(p) \/ fs[Plan(p)] \in {NoDir, LegacyDir}
                   /\ p \in LegacyPlans => Has(Plan(p), "old")
  <2>1. MarkerFacts /\ SettledFacts /\ CommitFacts /\ AloneFacts
    BY <1>1 DEF StoreInv, Facts
  <2>2. Marked = {} /\ StagingAreas = {}
    BY <1>1, <2>1 DEF AloneFacts, AloneFact
  <2>3. \A s \in Saves : marker[s] = "none" /\ ~Exists(Backup(s))
    BY <2>1, <2>2 DEF Marked, MarkerFacts
  <2>4. \A s \in Saves : ~Exists(Staging(s))
    BY <2>2, PathFacts DEF StagingAreas
  <2>5. ASSUME NEW p \in Plans
        PROVE  /\ Committed(p) \/ fs[Plan(p)] \in {NoDir, LegacyDir}
               /\ p \in LegacyPlans => Has(Plan(p), "old")
    <3>1. CASE Committed(p)
      BY <2>1, <3>1 DEF CommitFacts
    <3>2. CASE ~Committed(p)
      <4>1. fs[Plan(p)] = Base(p)
        BY <2>1, <2>3, <3>2 DEF SettledFacts, Settled
      <4> QED
        BY <4>1, DirectoryFacts DEF Base, Has, Exists
    <3> QED
      BY <3>1, <3>2
  <2> QED
    BY <2>3, <2>4, <2>5
<1>2. StoreInv => RecoveryIsComplete
  BY <1>1 DEF RecoveryIsComplete
<1> QED
  BY <1>2, StoreInvariant, PTL

(* No step hides a plan that get() would have shown: not the recovery of   *)
(* another save, not the save of the same plan again, not a crash.         *)
THEOREM GrowsTheorem == Spec => VisibleOnlyGrows
<1>1. ASSUME StoreInv, [Next]_vars, ~clash', NEW p \in Plans, Committed(p)
      PROVE  Committed(p)'
  <2>1. CASE UNCHANGED vars
    BY <1>1, <2>1 DEF vars, Committed, Has, Exists
  <2>2. CASE Next
    <3>0. /\ WellTyped /\ HistoryIsTrue /\ (clash \/ Facts) /\ clash' = (clash \/ Overlap')
      BY <1>1, <2>2 DEF StoreInv, Next
    <3>1. ASSUME NEW c \in Callers, CallerStep(c) PROVE Committed(p)'
      <4>1. StepOf(c)
        BY <1>1, <3>0, <3>1, DiskTypesStep, CallTypesStep, Frame, DiskFrame
           DEF StepOf, HistoryIsTrue
      <4> QED
        BY <1>1, <4>1, CommittedStays
    <3>2. CASE Crash
      BY <1>1, <3>2, DiskStays DEF Crash
    <3>3. (\E c \in Callers : CallerStep(c)) \/ Crash
      BY <2>2 DEF Next, CallerStep, Callers
    <3> QED
      BY <3>1, <3>2, <3>3
  <2> QED
    BY <1>1, <2>1, <2>2
<1>2. StoreInv /\ [Next]_vars => [~clash' => \A p \in Plans : Committed(p) => Committed(p)']_vars
  BY <1>1
<1> QED
  BY <1>2, StoreInvariant, PTL DEF Spec, VisibleOnlyGrows

----------------------------------------------------------------------------
(* What get() shows of a plan is that it is committed.                     *)
LEMMA ShownMeans ==
    ASSUME NEW p \in Plans
    PROVE  LET v == [id |-> p, version |-> Version[p], parent |-> Parent[p]]
           IN  /\ v \in Shown <=> Committed(p)
               /\ v \in Shown' <=> Committed(p)'
  BY DEF Shown, Committed, Has, Exists

(* A step that makes a plan visible makes no other one visible, after the  *)
(* parent and, unless there was a race, before any other child of it.      *)
LEMMA OnePublished ==
    ASSUME NEW c \in Callers, StepOf(c), NEW p \in Plans, ~Committed(p), Committed(p)'
    PROVE  /\ \A q \in Plans : Committed(q)' <=> Committed(q) \/ q = p
           /\ \/ Version[p] = 1 /\ Parent[p] = NoPlan
              \/ /\ Parent[p] \in Plans /\ Committed(Parent[p])
                 /\ Version[p] = Version[Parent[p]] + 1
           /\ raced \/ \A q \in Plans : Committed(q) => ~Siblings(p, q)
<1>0. ParentFacts /\ SiblingFacts
  BY DEF StepOf, Facts
<1>1. c \in Saves /\ p = target[c] /\ pc[c] \in Publishing
  BY NewlyCommitted DEF Publishing
<1>2. \A q \in Plans : ~Committed(q) /\ Committed(q)' => q = target[c]
  BY NewlyCommitted
<1>3. \A q \in Plans : Committed(q) => Committed(q)'
  BY CommittedStays
<1>4. Version \in [Plans -> Nat \ {0}]
  BY StoreAssumption DEF StoreAssumption
<1> QED
  BY <1>0, <1>1, <1>2, <1>3, <1>4 DEF ParentFacts, Succeeds, SiblingFacts

(* A store that starts does so as the abstract one does: the plans that    *)
(* were published before have one child each.                              *)
LEMMA ShownAtFirst == StoreInv /\ ~clash /\ ~raced => Store!StoreInit
<1> SUFFICES ASSUME StoreInv, ~clash, ~raced PROVE Store!StoreInit
  OBVIOUS
<1>1. \A p, q \in Plans : Committed(p) /\ Committed(q) => ~Siblings(p, q)
  BY DEF StoreInv, Facts, OneChild
<1>2. clash = FALSE /\ raced = FALSE
  BY DEF StoreInv, WellTyped
<1>3. ASSUME NEW v \in Shown, NEW w \in Shown,
             v.id = w.id \/ (v.parent = w.parent /\ v.parent # NoPlan)
      PROVE  v = w
  <2>1. PICK p \in Plans : /\ Committed(p)
                           /\ v = [id |-> p, version |-> Version[p], parent |-> Parent[p]]
    BY DEF Shown
  <2>2. PICK q \in Plans : /\ Committed(q)
                           /\ w = [id |-> q, version |-> Version[q], parent |-> Parent[q]]
    BY DEF Shown
  <2>3. p = q
    BY <1>1, <1>3, <2>1, <2>2 DEF Siblings
  <2> QED
    BY <2>1, <2>2, <2>3
<1> QED
  BY <1>2, <1>3 DEF Store!StoreInit

(* Every step, of a save, a get or a recovery, is a publication or hidden. *)
LEMMA ShownStep ==
    ASSUME StoreInv, [Next]_vars PROVE [Store!StoreNext]_(Store!storeVars)
<1>1. CASE UNCHANGED vars
  <2>1. UNCHANGED <<Shown, clash, raced>>
    BY <1>1 DEF vars, Shown, Committed, Has, Exists
  <2> QED
    BY <2>1 DEF Store!storeVars
<1>2. CASE Next /\ clash'
  BY <1>2 DEF Next, Store!StoreNext
<1>3. CASE Next /\ ~clash'
  <2>0. /\ WellTyped /\ HistoryIsTrue /\ Facts /\ ~clash
        /\ clash' = (clash \/ Overlap') /\ raced' = (raced \/ Race')
    BY <1>3 DEF StoreInv, Next
  <2>1. ASSUME \A p \in Plans : Committed(p)' <=> Committed(p) PROVE Store!StoreNext
    <3>1. UNCHANGED Shown
      BY <2>1 DEF Shown, Committed, Has, Exists
    <3> QED
      BY <2>0, <3>1 DEF Store!StoreNext
  <2>2. ASSUME NEW c \in Callers, StepOf(c), NEW p \in Plans, ~Committed(p), Committed(p)'
        PROVE  Store!StoreNext
    <3> DEFINE v == [id |-> p, version |-> Version[p], parent |-> Parent[p]]
    <3>1. /\ \A q \in Plans : Committed(q)' <=> Committed(q) \/ q = p
          /\ \/ Version[p] = 1 /\ Parent[p] = NoPlan
             \/ /\ Parent[p] \in Plans /\ Committed(Parent[p])
                /\ Version[p] = Version[Parent[p]] + 1
          /\ raced \/ \A q \in Plans : Committed(q) => ~Siblings(p, q)
      BY <2>2, OnePublished
    <3>2. \A w \in Shown : \E q \in Plans :
              /\ Committed(q)
              /\ w = [id |-> q, version |-> Version[q], parent |-> Parent[q]]
      BY DEF Shown
    <3>3. v.id \notin Store!Ids(Shown)
      BY <2>2, <3>2 DEF Store!Ids
    <3>4. Store!Succeeds(v)
      <4>1. CASE Version[p] = 1 /\ Parent[p] = NoPlan
        BY <4>1 DEF Store!Succeeds
      <4>2. CASE /\ Parent[p] \in Plans /\ Committed(Parent[p])
                 /\ Version[p] = Version[Parent[p]] + 1
        <5> DEFINE w == [id |-> Parent[p], version |-> Version[Parent[p]],
                         parent |-> Parent[Parent[p]]]
        <5>1. w \in Shown
          BY <4>2, ShownMeans
        <5>2. v.parent = w.id /\ v.version = w.version + 1
          BY <4>2
        <5> QED
          BY <5>1, <5>2 DEF Store!Succeeds
      <4> QED
        BY <3>1, <4>1, <4>2
    <3>5. raced \/ \A w \in Shown : v.parent # w.parent \/ v.parent = NoPlan
      <4>1. \A q \in Plans : Committed(q) => q # p
        BY <2>2
      <4> QED
        BY <3>1, <3>2, <4>1 DEF Siblings
    <3>6. Shown' = Shown \cup {v}
      BY <3>1 DEF Shown
    <3>7. v \in Shown' /\ v \notin Shown
      BY <2>2, ShownMeans
    <3>8. Store!Publish(v)
      <4> HIDE DEF v
      <4> QED
        BY <3>3, <3>4, <3>5, <3>6 DEF Store!Publish
    <3> QED
      BY <2>0, <3>7, <3>8 DEF Store!StoreNext
  <2>3. ASSUME NEW c \in Callers, CallerStep(c) PROVE StepOf(c)
    BY <2>0, <2>3, <1>3, DiskTypesStep, CallTypesStep, Frame, DiskFrame
       DEF StepOf, HistoryIsTrue
  <2>4. CASE Crash
    <3>1. \A p \in Plans : Committed(p)' <=> Committed(p)
      BY <2>4, DiskStays DEF Crash
    <3> QED
      BY <2>1, <3>1
  <2>5. ASSUME NEW c \in Callers, CallerStep(c) PROVE Store!StoreNext
    <3>1. StepOf(c)
      BY <2>3, <2>5
    <3>2. \A p \in Plans : Committed(p) => Committed(p)'
      BY <3>1, CommittedStays
    <3>3. ASSUME NEW p \in Plans, ~Committed(p), Committed(p)' PROVE Store!StoreNext
      BY <2>2, <3>1, <3>3
    <3> QED
      BY <2>1, <3>2, <3>3
  <2>6. (\E c \in Callers : CallerStep(c)) \/ Crash
    BY <1>3 DEF Next, CallerStep, Callers
  <2> QED
    BY <2>4, <2>5, <2>6
<1> QED
  BY <1>1, <1>2, <1>3

(* The store implements the abstract one: whatever its callers do file by  *)
(* file, fail at or leave behind, a get() sees plans appear one at a time, *)
(* after the plan they replace, and none disappear.                        *)
THEOREM StoreTheorem == Spec => RefinesStore
<1>1. Init => ~clash /\ ~raced
  BY DEF Init
<1>2. Init => Store!StoreInit
  BY <1>1, StoreInit, ShownAtFirst
<1>3. StoreInv /\ [Next]_vars => [Store!StoreNext]_(Store!storeVars)
  BY ShownStep
<1> QED
  BY <1>2, <1>3, StoreInvariant, PTL DEF Spec, RefinesStore, Store!StoreSpec
=============================================================================
