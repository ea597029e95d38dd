------------------------- MODULE PartitionRepository -------------------------
(***************************************************************************)
(* The versioned store of partition plans (partition_repository.py): a     *)
(* plan is staged, published by renaming directories between a transaction *)
(* marker and a commit marker, and cleaned up; every save and every get    *)
(* first rolls back what unfinished transactions left behind.              *)
(*                                                                         *)
(* Request threads of the control plane and CLI processes call the store   *)
(* without a common lock, so every file-system change is a step of its     *)
(* own.  Any call may fail with an I/O error, and all may die together.    *)
(* A plan id is a fresh uuid4, so two saves of one plan never run at once; *)
(* a later one may repeat it.                                              *)
(***************************************************************************)
EXTENDS Naturals, Functions

CONSTANTS
    Plans,
    Version, Parent,    \* plan_version and parent_plan_id of each plan
    LegacyPlans,        \* plans whose directory predates the store
    Roots,              \* plans that may have been published before
    Requests,           \* the plans that the saves may be about
    Saves,              \* calls of save(), each with its own transaction id
    Readers,            \* callers of get() and of the constructor
    NoPlan, NoDir, NoSave, Nothing

ASSUME StoreAssumption ==
    /\ Version \in [Plans -> Nat \ {0}]
    /\ Parent \in [Plans -> Plans \cup {NoPlan}] /\ NoPlan \notin Plans
    /\ LegacyPlans \subseteq Plans /\ Roots \subseteq Plans
    /\ Requests \subseteq [Saves -> Plans]
    /\ NoSave \notin Saves /\ Saves \cap Readers = {}
    /\ \A p, q \in Roots : Parent[p] = Parent[q] => p = q \/ Parent[p] = NoPlan

VARIABLES
    fs,         \* the directories: plans, staging areas and backups
    marker,     \* transaction markers: "none", or had_previous_directory
    temporary,  \* their temporary files, before they get the marker's name
    target,     \* the plan that each save is about
    pc,         \* the next step of each caller
    look,       \* the transaction or the path a recovery is working on
    todo,       \* markers or paths the recovery has listed and not visited
    back,       \* where the caller continues after the recovery
    clash,      \* history: two callers have worked on one path at once
    raced,      \* history: two children of one plan were published at once
    alone       \* history: the caller that nobody has run beside, if any

vars == <<fs, marker, temporary, target, pc, look, todo, back, clash, raced, alone>>

----------------------------------------------------------------------------
(* A directory is a partial function from its files to the save that wrote *)
(* them.  "version" stands for versions/<n>/report.json, "extras" for what *)
(* is next to it (hand-over, sidecars, manifest), "latest" for latest.json *)
(* and history.json, "old" for the files of a legacy directory.  A staging *)
(* area is the plan directory in it; the empty directory that stays around *)
(* it until the clean-up is left out.                                      *)

Files == {"old", "pending", "version", "latest", "extras", "commit"}

Staging(s) == <<"staging", s>>
Backup(s) == <<"backup", s>>
Plan(p) == <<"plan", p>>
Paths == ({"staging", "backup"} \X Saves) \cup ({"plan"} \X Plans)

Callers == Saves \cup Readers

Exists(x) == fs[x] # NoDir
Has(x, f) == Exists(x) /\ f \in DOMAIN fs[x]
Committed(p) == Has(Plan(p), "commit")

Without(d, S) == Restrict(d, DOMAIN d \ S)
\* _write_json: makes the parent directories it needs
With(d, f, s) ==
    [g \in {f} \cup (IF d = NoDir THEN {} ELSE DOMAIN d) |-> IF g = f THEN s ELSE d[g]]

ASSUME NoDirAssumption ==
    \A D \in SUBSET Files : NoDir \notin [D -> Saves \cup {NoSave}]

Empty == [f \in {} |-> NoSave]
LegacyDir == [f \in {"old"} |-> NoSave]
PublishedDir(p) ==
    [f \in {"version", "latest", "extras", "commit"}
            \cup (IF p \in LegacyPlans THEN {"old"} ELSE {}) |-> NoSave]

Publishing == {"copy", "pending", "version", "latest", "extras", "draft", "mark",
               "backup", "replace", "commit", "unpend", "abort"}
Cleaning == {"clean_staging", "clean_backup", "unmark"}
RollingBack == {"restore_remove", "restore_rename", "wipe"}
Steps == {"idle", "markers", "sweep", "sweep_remove", "check", "lineage", "read",
          "saved", "failed"} \cup Publishing \cup Cleaning \cup RollingBack

Running(c) == pc[c] \notin {"idle", "saved", "failed"}

Init ==
    /\ \E published \in SUBSET Roots :
          fs = [x \in Paths |->
                  IF x[1] # "plan" THEN NoDir
                  ELSE IF x[2] \in published THEN PublishedDir(x[2])
                  ELSE IF x[2] \in LegacyPlans THEN LegacyDir ELSE NoDir]
    /\ marker = [s \in Saves |-> "none"]
    /\ temporary = [s \in Saves |-> "none"]
    /\ target \in Requests
    /\ pc = [c \in Callers |-> "idle"]
    /\ look = [c \in Callers |-> Nothing]
    /\ todo = [c \in Callers |-> {}]
    /\ back = [c \in Callers |-> "idle"]
    /\ clash = FALSE /\ raced = FALSE
    /\ alone = {}

----------------------------------------------------------------------------
Goto(c, step) == pc' = [pc EXCEPT ![c] = step]
Forget(c) ==
    /\ look' = [look EXCEPT ![c] = Nothing]
    /\ todo' = [todo EXCEPT ![c] = {}]
    /\ back' = [back EXCEPT ![c] = "idle"]

\* An exception ends the call.  Before the marker is written the finally
\* block removes the staging area; afterwards everything is left in place.
Raised(c) ==
    /\ Goto(c, IF c \in Readers THEN "idle"
               ELSE IF pc[c] \in {"copy", "pending", "version", "latest", "extras", "draft",
                                "mark"}
               THEN "abort" ELSE "failed")
    /\ Forget(c)

\* shutil.rmtree, one entry at a time.  ignore_errors is set: an entry it could
\* not remove would stay, unnoticed, which the model leaves out.
RmTree(c, x, next) ==
    /\ \/ ~Exists(x) /\ Goto(c, next) /\ UNCHANGED fs
       \/ /\ Exists(x) /\ fs[x] = Empty
          /\ fs' = [fs EXCEPT ![x] = NoDir] /\ Goto(c, next)
       \/ /\ Exists(x) /\ UNCHANGED pc
          /\ \E f \in DOMAIN fs[x] : fs' = [fs EXCEPT ![x] = Without(@, {f})]

\* Path.replace of a directory: needs the source, and a target that is not
\* there or empty
CanRename(x, y) == Exists(x) /\ fs[y] \in {NoDir, Empty}
Rename(x, y) == fs' = [fs EXCEPT ![x] = NoDir, ![y] = fs[x]]

----------------------------------------------------------------------------
(* _recover_incomplete_transactions                                        *)

\* lists the transaction markers
Recover(c, next) ==
    /\ Goto(c, "markers")
    /\ todo' = [todo EXCEPT ![c] = {t \in Saves : marker[t] # "none"}]
    /\ back' = [back EXCEPT ![c] = next]

\* Mutant: the commit marker is not consulted
VerdictIgnoresCommit(t) ==
    IF marker[t] = "had" /\ Exists(Backup(t)) THEN "restore_remove"
    ELSE IF marker[t] = "fresh" /\ Exists(Plan(target[t])) THEN "wipe"
    ELSE "clean_staging"

\* _recover_transaction: what to do with the transaction of marker t
Verdict(t) ==
    IF Committed(target[t]) THEN "clean_staging"
    ELSE IF marker[t] = "had" /\ Exists(Backup(t)) THEN "restore_remove"
    ELSE IF marker[t] = "fresh" /\ Exists(Plan(target[t])) THEN "wipe"
    ELSE "clean_staging"

\* the next marker; one that is gone by now raises FileNotFoundError
NextMarker(c) ==
    /\ pc[c] = "markers"
    /\ \E t \in todo[c] :
          IF marker[t] = "none"
          THEN Raised(c)
          ELSE /\ Goto(c, Verdict(t))
               /\ look' = [look EXCEPT ![c] = t]
               /\ todo' = [todo EXCEPT ![c] = @ \ {t}]
               /\ UNCHANGED back
    /\ UNCHANGED <<fs, marker, temporary, target>>

\* all markers visited: lists the directories
ListPaths(c) ==
    /\ pc[c] = "markers" /\ todo[c] = {}
    /\ Goto(c, "sweep")
    /\ todo' = [todo EXCEPT ![c] = {x \in Paths : Exists(x)}]
    /\ UNCHANGED <<fs, marker, temporary, target, look, back>>

RestoreRemove(c) ==
    /\ pc[c] = "restore_remove"
    /\ RmTree(c, Plan(target[look[c]]), "restore_rename")
    /\ UNCHANGED <<marker, temporary, target, look, todo, back>>

RestoreRename(c) ==
    /\ pc[c] = "restore_rename"
    /\ LET x == Backup(look[c])  y == Plan(target[look[c]])
       IN  IF CanRename(x, y)
           THEN Rename(x, y) /\ Goto(c, "clean_staging") /\ UNCHANGED <<look, todo, back>>
           ELSE Raised(c) /\ UNCHANGED fs
    /\ UNCHANGED <<marker, temporary, target>>

Wipe(c) ==
    /\ pc[c] = "wipe"
    /\ RmTree(c, Plan(target[look[c]]), "clean_staging")
    /\ UNCHANGED <<marker, temporary, target, look, todo, back>>

\* _remove_transaction_artifacts, for a recovery or at the end of a save
CleanStaging(c) ==
    /\ pc[c] = "clean_staging"
    /\ RmTree(c, Staging(look[c]), "clean_backup")
    /\ UNCHANGED <<marker, temporary, target, look, todo, back>>

\* Mutant: the marker goes before the backup
CleanBackupUnmarked(c) ==
    /\ pc[c] = "clean_backup"
    /\ marker' = [marker EXCEPT ![look[c]] = "none"]
    /\ RmTree(c, Backup(look[c]), "unmark")
    /\ UNCHANGED <<temporary, target, look, todo, back>>

CleanBackup(c) ==
    /\ pc[c] = "clean_backup"
    /\ RmTree(c, Backup(look[c]), "unmark")
    /\ UNCHANGED <<marker, temporary, target, look, todo, back>>

Unmark(c) ==
    /\ pc[c] = "unmark"
    /\ marker' = [marker EXCEPT ![look[c]] = "none"]
    /\ IF look[c] = c
       THEN Goto(c, "saved") /\ Forget(c)
       ELSE /\ Goto(c, "markers") /\ look' = [look EXCEPT ![c] = Nothing]
            /\ UNCHANGED <<todo, back>>
    /\ UNCHANGED <<fs, temporary, target>>

\* every staging area, and every directory that is pending and not committed
Abandoned(x) == x[1] = "staging" \/ (Has(x, "pending") /\ ~Has(x, "commit"))

Sweep(c) ==
    /\ pc[c] = "sweep"
    /\ \E x \in todo[c] :
          /\ todo' = [todo EXCEPT ![c] = @ \ {x}]
          /\ IF Abandoned(x)
             THEN Goto(c, "sweep_remove") /\ look' = [look EXCEPT ![c] = x]
             ELSE UNCHANGED <<pc, look>>
    /\ UNCHANGED <<fs, marker, temporary, target, back>>

SweepRemove(c) ==
    /\ pc[c] = "sweep_remove"
    /\ RmTree(c, look[c], "sweep")
    /\ look' = [look EXCEPT ![c] = IF pc'[c] = "sweep" THEN Nothing ELSE @]
    /\ UNCHANGED <<marker, temporary, target, todo, back>>

Recovered(c) ==
    /\ pc[c] = "sweep" /\ todo[c] = {}
    /\ Goto(c, back[c]) /\ Forget(c)
    /\ UNCHANGED <<fs, marker, temporary, target>>

RecoveryStep(c) ==
    \/ NextMarker(c) \/ ListPaths(c) \/ RestoreRemove(c) \/ RestoreRename(c) \/ Wipe(c)
    \/ CleanStaging(c) \/ CleanBackup(c) \/ Unmark(c) \/ Sweep(c) \/ SweepRemove(c)
    \/ Recovered(c)

----------------------------------------------------------------------------
(* get, and the constructor                                                *)

Get(c) ==
    /\ pc[c] = "idle"
    /\ Recover(c, "read")
    /\ UNCHANGED <<fs, marker, temporary, target, look>>

\* returns latest.json or a version, or raises plan_not_found
Read(c) ==
    /\ pc[c] = "read"
    /\ Goto(c, "idle")
    /\ UNCHANGED <<fs, marker, temporary, target, look, todo, back>>

----------------------------------------------------------------------------
(* save                                                                    *)

Save(s) ==
    /\ pc[s] = "idle"
    /\ \A r \in Saves : target[r] = target[s] => ~Running(r)
    /\ Recover(s, "check")
    /\ UNCHANGED <<fs, marker, temporary, target, look>>

\* A version that is there is returned if its signature is the same and
\* refused otherwise.  An invalid report is refused, and so is an initial plan
\* with a parent or a later one without; an initial plan has no lineage to
\* check, any other reads its parent with get().
Check(s) ==
    /\ pc[s] = "check"
    /\ LET p == target[s] IN
       IF Committed(p) /\ Has(Plan(p), "version")
       THEN /\ \E end \in {"saved", "failed"} : Goto(s, end)
            /\ UNCHANGED <<todo, back>>
       ELSE \/ Goto(s, "failed") /\ UNCHANGED <<todo, back>>
            \/ /\ Version[p] = 1 /\ Parent[p] = NoPlan
               /\ Goto(s, "copy") /\ UNCHANGED <<todo, back>>
            \/ /\ Version[p] # 1 /\ Parent[p] # NoPlan
               /\ Recover(s, "lineage")
    /\ UNCHANGED <<fs, marker, temporary, target, look>>

\* Mutant: the parent may have a child
LineageOkAnyParent(p) ==
    /\ Committed(Parent[p]) /\ Has(Plan(Parent[p]), "latest")
    /\ Version[Parent[p]] + 1 = Version[p]

\* _validate_lineage: a committed parent of the version before, without a child
LineageOk(p) ==
    /\ Committed(Parent[p]) /\ Has(Plan(Parent[p]), "latest")
    /\ Version[Parent[p]] + 1 = Version[p]
    /\ \A q \in Plans :
          Committed(q) /\ Has(Plan(q), "latest") => Parent[q] # Parent[p]

Lineage(s) ==
    /\ pc[s] = "lineage"
    /\ Goto(s, IF LineageOk(target[s]) THEN "copy" ELSE "failed")
    /\ UNCHANGED <<fs, marker, temporary, target, look, todo, back>>

\* _publish_plan_directory: copytree without the store's own files
Copy(s) ==
    /\ pc[s] = "copy"
    /\ LET d == fs[Plan(target[s])] IN
       fs' = IF d = NoDir THEN fs
             ELSE [fs EXCEPT ![Staging(s)] = Without(d, {"latest", "commit", "pending"})]
    /\ Goto(s, "pending")
    /\ UNCHANGED <<marker, temporary, target, look, todo, back>>

Write(s, f, next) ==
    /\ pc[s] = f
    /\ fs' = [fs EXCEPT ![Staging(s)] = With(@, f, s)]
    /\ Goto(s, next)
    /\ UNCHANGED <<marker, temporary, target, look, todo, back>>

WritePending(s) == Write(s, "pending", "version")

WriteVersion(s) == Write(s, "version", "latest")

\* Mutant: latest.json is not written
WriteLatestForgotten(s) ==
    /\ pc[s] = "latest"
    /\ Goto(s, "extras")
    /\ UNCHANGED <<fs, marker, temporary, target, look, todo, back>>

WriteLatest(s) == Write(s, "latest", "extras")

WriteExtras(s) == Write(s, "extras", "draft")

\* _write_transaction_marker: had_previous_directory goes to a temporary file,
\* of a name that neither a recovery nor a clean-up knows
Draft(s) ==
    /\ pc[s] = "draft"
    /\ temporary' =
          [temporary EXCEPT ![s] = IF Exists(Plan(target[s])) THEN "had" ELSE "fresh"]
    /\ Goto(s, "mark")
    /\ UNCHANGED <<fs, marker, target, look, todo, back>>

\* which becomes the marker
Mark(s) ==
    /\ pc[s] = "mark"
    /\ marker' = [marker EXCEPT ![s] = temporary[s]]
    /\ temporary' = [temporary EXCEPT ![s] = "none"]
    /\ Goto(s, "backup")
    /\ UNCHANGED <<fs, target, look, todo, back>>

MoveToBackup(s) ==
    /\ pc[s] = "backup"
    /\ IF Exists(Plan(target[s]))
       THEN Rename(Plan(target[s]), Backup(s)) ELSE UNCHANGED fs
    /\ Goto(s, "replace")
    /\ UNCHANGED <<marker, temporary, target, look, todo, back>>

Replace(s) ==
    /\ pc[s] = "replace"
    /\ LET x == Staging(s)  y == Plan(target[s])
       IN  IF CanRename(x, y)
           THEN Rename(x, y) /\ Goto(s, "commit") /\ UNCHANGED <<look, todo, back>>
           ELSE Raised(s) /\ UNCHANGED fs
    /\ UNCHANGED <<marker, temporary, target>>

\* _write_commit_marker fails if the directory is gone
Commit(s) ==
    /\ pc[s] = "commit"
    /\ LET x == Plan(target[s])
       IN  IF Exists(x)
           THEN /\ fs' = [fs EXCEPT ![x] = With(@, "commit", s)]
                /\ Goto(s, "unpend") /\ UNCHANGED <<look, todo, back>>
           ELSE Raised(s) /\ UNCHANGED fs
    /\ UNCHANGED <<marker, temporary, target>>

Unpend(s) ==
    /\ pc[s] = "unpend"
    /\ LET x == Plan(target[s]) IN
       fs' = IF Exists(x) THEN [fs EXCEPT ![x] = Without(@, {"pending"})] ELSE fs
    /\ Goto(s, "clean_staging")
    /\ look' = [look EXCEPT ![s] = s]
    /\ UNCHANGED <<marker, temporary, target, todo, back>>

\* the finally block of a save that did not get to its marker
Abort(s) ==
    /\ pc[s] = "abort"
    /\ RmTree(s, Staging(s), "failed")
    /\ UNCHANGED <<marker, temporary, target, look, todo, back>>

\* an I/O error in any step of the publication
IOError(s) ==
    /\ pc[s] \in Publishing \ {"abort"}
    /\ Raised(s)
    /\ UNCHANGED <<fs, marker, temporary, target>>

SaveStep(s) ==
    \/ Save(s) \/ Check(s) \/ Lineage(s) \/ Copy(s) \/ WritePending(s) \/ WriteVersion(s)
    \/ WriteLatest(s) \/ WriteExtras(s) \/ Draft(s) \/ Mark(s) \/ MoveToBackup(s)
    \/ Replace(s) \/ Commit(s) \/ Unpend(s) \/ Abort(s) \/ IOError(s)

----------------------------------------------------------------------------
\* The machine stops: all calls in progress are gone, the disk is not.
Crash ==
    /\ \E c \in Callers : Running(c)
    /\ pc' = [c \in Callers |-> IF ~Running(c) THEN pc[c]
                                ELSE IF c \in Saves THEN "failed" ELSE "idle"]
    /\ look' = [c \in Callers |-> Nothing]
    /\ todo' = [c \in Callers |-> {}]
    /\ back' = [c \in Callers |-> "idle"]
    /\ UNCHANGED <<fs, marker, temporary, target>>

\* The paths of a transaction, and those a caller is changing
PathsOf(t) == {Staging(t), Backup(t), Plan(target[t])}
Touching(c) ==
    IF pc[c] \in Publishing THEN PathsOf(c)
    ELSE IF pc[c] \in Cleaning \cup RollingBack THEN PathsOf(look[c])
    ELSE IF pc[c] = "sweep_remove" THEN {look[c]} ELSE {}
OnlyRunning(c) == Running(c) /\ \A d \in Callers \ {c} : ~Running(d)
Siblings(p, q) == p # q /\ Parent[p] = Parent[q] /\ Parent[p] # NoPlan
Race == \E s, t \in Saves :
    {pc[s], pc[t]} \subseteq Publishing /\ Siblings(target[s], target[t])
Overlap == \E c, d \in Callers : c # d /\ Touching(c) \cap Touching(d) # {}

Next ==
    /\ \/ \E c \in Callers : RecoveryStep(c)
       \/ \E c \in Readers : Get(c) \/ Read(c)
       \/ \E s \in Saves : SaveStep(s)
       \/ Crash
    /\ clash' = (clash \/ Overlap')
    /\ raced' = (raced \/ Race')
    /\ alone' = {c \in Callers : OnlyRunning(c)' /\ (c \in alone \/ ~Running(c))}

Spec == Init /\ [][Next]_vars

----------------------------------------------------------------------------
TypeOK ==
    /\ \A x \in Paths :
          Exists(x) => DOMAIN fs[x] \subseteq Files
                       /\ \A f \in DOMAIN fs[x] : fs[x][f] \in Saves \cup {NoSave}
    /\ {marker, temporary} \subseteq [Saves -> {"none", "fresh", "had"}]
    /\ target \in [Saves -> Plans]
    /\ pc \in [Callers -> Steps]
    /\ \A c \in Callers : look[c] \in Saves \cup Paths \cup {Nothing}
    /\ \A c \in Callers : todo[c] \subseteq Saves \cup Paths
    /\ back \in [Callers -> {"idle", "read", "check", "lineage"}]
    /\ clash \in BOOLEAN /\ raced \in BOOLEAN /\ alone \subseteq Callers

Whole(p) ==
    /\ \A f \in {"version", "latest", "extras"} : Has(Plan(p), f)
    /\ \E s \in Saves \cup {NoSave} :
          \A f \in {"version", "latest", "extras"} : fs[Plan(p)][f] = s

(* A plan that get() would show is whole: its version, latest.json and all *)
(* the rest are there and come from one save, through crashes at any step  *)
(* of a save and of a recovery, as long as no two callers worked on one    *)
(* path at once.                                                           *)
VisibleIsWhole == clash \/ \A p \in Plans : Committed(p) => Whole(p)

(* A save that returned its path has made its plan visible, and no later   *)
(* recovery, its own retry or its crash included, rolls it back.           *)
SavedStaysVisible ==
    clash \/ \A s \in Saves : pc[s] = "saved" => Committed(target[s])

(* No step, least of all one of the rollback of another transaction, hides *)
(* a plan that get() would have shown.                                     *)
VisibleOnlyGrows ==
    [][~clash' => \A p \in Plans : Committed(p) => Committed(p)']_vars

(* A visible plan of a later version has a visible parent, so history()    *)
(* never meets a missing plan.                                             *)
LineageClosed ==
    clash \/ \A p \in Plans \ Roots : Committed(p) /\ Version[p] > 1 => Committed(Parent[p])

(* A plan has at most one visible child, unless two saves of children of   *)
(* it were between the lineage check and the commit at once.               *)
OneChild ==
    clash \/ raced \/ \A p, q \in Plans :
        Committed(p) /\ Committed(q) => ~Siblings(p, q)

(* After a recovery that ran alone an unfinished save weighs on no plan:   *)
(* no marker, no staging area and no backup is left, and every plan        *)
(* directory is either published or the legacy directory it was, with its  *)
(* files.  What may stay for good is the temporary file of a marker: a     *)
(* crash or an error before its rename leaves it where no recovery looks.  *)
RecoveryIsComplete ==
    \A c \in alone :
        pc[c] \in {"read", "check"} /\ ~clash =>
            /\ \A s \in Saves : marker[s] = "none" /\ ~Exists(Staging(s)) /\ ~Exists(Backup(s))
            /\ \A p \in Plans :
                  /\ Committed(p) \/ fs[Plan(p)] \in {NoDir, LegacyDir}
                  /\ p \in LegacyPlans => Has(Plan(p), "old")

\* the plans that get() would show, as PlanStore knows them
Shown ==
    {[id |-> p, version |-> Version[p], parent |-> Parent[p]] : p \in {q \in Plans : Committed(q)}}

Store == INSTANCE PlanStore WITH visible <- Shown

(* Seen through get(), all the steps of a save are one: its plan appears   *)
(* at once, after the plan it replaces, and stays, through I/O errors,       *)
(* rollbacks and crashes.  The histories are those of the abstract store.  *)
RefinesStore == Store!StoreSpec

(* "Atomic versioned plan persistence": a visible plan is whole, whoever   *)
(* else uses the store.  It does not hold: a recovery run by a concurrent  *)
(* get or save removes the staging area of a save that is still writing.   *)
AtomicPersistence == \A p \in Plans : Committed(p) => Whole(p)
=============================================================================
