---------------------------- MODULE OperationLock ----------------------------
(***************************************************************************)
(* The lock file that serialises real recoveries of one Kubernetes target  *)
(* (src/aiops_k8s_agents/operation_lock.py).                               *)
(*                                                                         *)
(* A contender is one TargetOperationLock object: the code builds a new    *)
(* one for each `with` block, so its uuid4 token identifies the contender. *)
(* Contenders run in processes, processes on hosts that share the lock     *)
(* directory.  Every file-system call is a step of its own, because no     *)
(* lock protects the sequence of calls; a process may die between two of   *)
(* them, and a read or an unlink may raise an OSError.  Process            *)
(* identifiers are not reused.                                             *)
(***************************************************************************)
EXTENDS Naturals, FiniteSets

CONSTANTS
    Contenders,     \* lock objects for the same namespace/deployment
    Procs,          \* operating system processes (pid)
    ProcOf,         \* the process each contender runs in
    HostOf,         \* the host each process runs on
    NoOne           \* no owner: the file is missing, empty or unparseable

ASSUME LockAssumption ==
    /\ ProcOf \in [Contenders -> Procs]
    /\ NoOne \notin Contenders

VARIABLES
    file,           \* what the lock path names
    pc,             \* the next file-system call of each contender
    seen,           \* owner_token that _clear_stale_lock read first
    live,           \* processes that are running
    overlapped,     \* history: two contenders were clearing at the same time
    unremoved       \* history: contenders whose file an I/O error let stay

lockVars == <<file, pc, seen, live, overlapped, unremoved>>

----------------------------------------------------------------------------
(* The inode behind the path is identified by the contender that created   *)
(* it; `written` is the payload having reached it, `old` is an age of at   *)
(* least stale_after_seconds.                                              *)

Files == [creator: Contenders \cup {NoOne}, written: BOOLEAN, old: BOOLEAN]

NoFile == [creator |-> NoOne, written |-> FALSE, old |-> FALSE]

Steps == {"idle", "read", "judge", "recheck", "unlink", "reopen", "write",
          "held", "exitunlink", "failed", "done"}

\* owner.get("token") of whatever the path names now
OwnerToken == IF file.written THEN file.creator ELSE NoOne

Alive(c) == ProcOf[c] \in live

\* The with-body runs: __enter__ returned, __exit__ has not been called.
Holding(c) == Alive(c) /\ pc[c] = "held"

\* c created a lock file and has not yet taken its last step on it.
Using(c) == Alive(c) /\ pc[c] \in {"write", "held", "exitunlink"}

\* c has judged the lock stale and has not yet removed it.
Clearing(c) == Alive(c) /\ pc[c] \in {"recheck", "unlink"}

LockTypeOK ==
    /\ file \in Files
    /\ pc \in [Contenders -> Steps]
    /\ seen \in [Contenders -> Contenders \cup {NoOne}]
    /\ live \subseteq Procs
    /\ overlapped \in BOOLEAN
    /\ unremoved \subseteq Contenders

LockInit ==
    /\ file = NoFile
    /\ pc = [c \in Contenders |-> "idle"]
    /\ seen = [c \in Contenders |-> NoOne]
    /\ live = Procs
    /\ overlapped = FALSE
    /\ unremoved = {}

----------------------------------------------------------------------------
\* What reading the owner yields: nothing when the read or the parser raises.
OwnerRead == {OwnerToken, NoOne}

\* A step of a contender moves its program counter; the history variable
\* notes when it starts clearing while another contender is at it.
Goto(c, step) ==
    /\ pc' = [pc EXCEPT ![c] = step]
    /\ overlapped' = (\/ overlapped
                      \/ /\ step \in {"recheck", "unlink"}
                         /\ \E d \in Contenders \ {c} : Clearing(d))

\* The history variable notes that an I/O error kept c from removing its file.
FileStays(c) == unremoved' = unremoved \cup ({c} \cap {file.creator})

\* os.open(path, O_CREAT | O_EXCL): atomic in the file system
CreateOr(c, otherwise) ==
    /\ file' = IF file = NoFile
               THEN [creator |-> c, written |-> FALSE, old |-> FALSE]
               ELSE file
    /\ Goto(c, IF file = NoFile THEN "write" ELSE otherwise)

Open(c) ==
    /\ Alive(c) /\ pc[c] = "idle"
    /\ CreateOr(c, "read")
    /\ UNCHANGED <<seen, live, unremoved>>

\* The payload goes through the descriptor: to c's inode, named or not.
Write(c) ==
    /\ Alive(c) /\ pc[c] = "write"
    /\ file' = IF file.creator = c THEN [file EXCEPT !.written = TRUE] ELSE file
    /\ Goto(c, "held")
    /\ UNCHANGED <<seen, live, unremoved>>

\* Mutant: a failed write leaves the empty file behind
WriteFailsKeepsFile(c) ==
    /\ Alive(c) /\ pc[c] = "write"
    /\ Goto(c, "failed")
    /\ UNCHANGED <<file, seen, live, unremoved>>

\* except BaseException: the path is unlinked, whatever it names.
WriteFails(c) ==
    /\ Alive(c) /\ pc[c] = "write"
    /\ file' = NoFile
    /\ Goto(c, "failed")
    /\ UNCHANGED <<seen, live, unremoved>>

\* ... and that unlink fails too; the payload may have got through.
WriteAndUnlinkFail(c) ==
    /\ Alive(c) /\ pc[c] = "write"
    /\ \E written \in BOOLEAN :
          file' = IF file.creator = c THEN [file EXCEPT !.written = written]
                                      ELSE file
    /\ Goto(c, "failed")
    /\ FileStays(c)
    /\ UNCHANGED <<seen, live>>

\* mkdir, os.open, the second stat or the clearer's unlink raises an OSError.
EnterFails(c) ==
    /\ Alive(c) /\ pc[c] \in {"idle", "judge", "unlink", "reopen"}
    /\ Goto(c, "failed")
    /\ UNCHANGED <<file, seen, live, unremoved>>

\* _clear_stale_lock, first read of the owner
ReadOwner(c) ==
    /\ Alive(c) /\ pc[c] = "read"
    /\ \E owner \in OwnerRead : seen' = [seen EXCEPT ![c] = owner]
    /\ Goto(c, "judge")
    /\ UNCHANGED <<file, live, unremoved>>

SameHost(c, owner) ==
    owner # NoOne /\ HostOf[ProcOf[owner]] = HostOf[ProcOf[c]]

\* Mutant: the process is not probed
LocalProcess(c) == SameHost(c, seen[c])

DeadLocalProcess(c) == SameHost(c, seen[c]) /\ ~Alive(seen[c])

\* The age is that of the file the path names when stat is called.
ExpiredUnknownOwner(c) == ~SameHost(c, seen[c]) /\ file.old

JudgedStale(c) ==
    /\ file # NoFile
    /\ DeadLocalProcess(c) \/ ExpiredUnknownOwner(c)

\* stat and the staleness test; a path that is gone is not stale
Judge(c) ==
    /\ Alive(c) /\ pc[c] = "judge"
    /\ Goto(c, IF JudgedStale(c) THEN "recheck" ELSE "failed")
    /\ UNCHANGED <<file, seen, live, unremoved>>

\* Mutant: the owner is not read again
NoRecheck(c) ==
    /\ Alive(c) /\ pc[c] = "recheck"
    /\ Goto(c, "unlink")
    /\ UNCHANGED <<file, seen, live, unremoved>>

\* second read: the owner must still be the one judged
Recheck(c) ==
    /\ Alive(c) /\ pc[c] = "recheck"
    /\ \E owner \in OwnerRead :
          Goto(c, IF owner = seen[c] THEN "unlink" ELSE "failed")
    /\ UNCHANGED <<file, seen, live, unremoved>>

\* path.unlink(); FileNotFoundError also counts as cleared
Unlink(c) ==
    /\ Alive(c) /\ pc[c] = "unlink"
    /\ file' = NoFile
    /\ Goto(c, "reopen")
    /\ UNCHANGED <<seen, live, unremoved>>

\* second and last attempt of the for loop
Reopen(c) ==
    /\ Alive(c) /\ pc[c] = "reopen"
    /\ CreateOr(c, "failed")
    /\ UNCHANGED <<seen, live, unremoved>>

\* __exit__: read the owner, unlink only one's own token.  An owner that
\* cannot be read counts as {}: the file stays.
ExitRead(c) ==
    /\ Alive(c) /\ pc[c] = "held"
    /\ \E owner \in OwnerRead :
          /\ Goto(c, IF owner = c THEN "exitunlink" ELSE "done")
          /\ IF owner = OwnerToken THEN UNCHANGED unremoved ELSE FileStays(c)
    /\ UNCHANGED <<file, seen, live>>

ExitUnlink(c) ==
    /\ Alive(c) /\ pc[c] = "exitunlink"
    /\ file' = NoFile
    /\ Goto(c, "done")
    /\ UNCHANGED <<seen, live, unremoved>>

\* The unlink raises out of the with statement.
ExitUnlinkFails(c) ==
    /\ Alive(c) /\ pc[c] = "exitunlink"
    /\ Goto(c, "failed")
    /\ FileStays(c)
    /\ UNCHANGED <<file, seen, live>>

----------------------------------------------------------------------------
(* The environment.                                                        *)

Crash(p) ==
    /\ p \in live
    /\ live' = live \ {p}
    /\ UNCHANGED <<file, pc, seen, overlapped, unremoved>>

(* The file reaches stale_after_seconds (one hour).  No lock is held that  *)
(* long: config/experiment_runtime.json gives a run 300 seconds, so only   *)
(* the file of a contender that no longer uses it grows old.               *)
GrowOld ==
    /\ file # NoFile
    /\ ~file.old
    /\ ~Using(file.creator)
    /\ file' = [file EXCEPT !.old = TRUE]
    /\ UNCHANGED <<pc, seen, live, overlapped, unremoved>>

LockNext ==
    \/ \E c \in Contenders :
          \/ Open(c) \/ Write(c) \/ WriteFails(c)
          \/ ReadOwner(c) \/ Judge(c) \/ Recheck(c) \/ Unlink(c) \/ Reopen(c)
          \/ ExitRead(c) \/ ExitUnlink(c)
          \/ WriteAndUnlinkFail(c) \/ EnterFails(c) \/ ExitUnlinkFails(c)
    \/ \E p \in Procs : Crash(p)
    \/ GrowOld

LockSpec == LockInit /\ [][LockNext]_lockVars

----------------------------------------------------------------------------
(* What the lock is for: at most one real recovery per target.  It does    *)
(* not hold: two contenders that both judge a dead owner's file stale can  *)
(* remove each other's new file.                                           *)
MutualExclusion ==
    \A c, d \in Contenders : Holding(c) /\ Holding(d) => c = d

(* The part of mutual exclusion the code does provide, in every run with   *)
(* or without crashes: only a history in which two contenders were between *)
(* the staleness verdict and the unlink at once can end with two holders.  *)
MutexUnlessClearersOverlap == overlapped \/ MutualExclusion

(* As long as no process has died and no release met an I/O error, mutual  *)
(* exclusion holds unconditionally: no contender judges another's lock     *)
(* stale.                                                                  *)
MutexWithoutCrash == live = Procs /\ unremoved = {} => MutualExclusion

(* A running process leaves its lock file behind only when reading or      *)
(* removing its own file failed, whichever way its operation and every     *)
(* other one interleave: otherwise a file whose creator's process is       *)
(* running is one the creator is still going to remove.                    *)
NoLeakedLock ==
    file # NoFile =>
        \/ ~Alive(file.creator)
        \/ Using(file.creator)
        \/ file.creator \in unremoved

(* No step takes the lock file of a running holder away, unless clearers   *)
(* overlapped: a stale verdict on an earlier owner must not hit the file   *)
(* of the next one.                                                        *)
HolderKeepsFile ==
    [][\A c \in Contenders :
          Holding(c) /\ Holding(c)' /\ ~overlapped' /\ file.creator = c
             => file'.creator = c]_lockVars
=============================================================================
