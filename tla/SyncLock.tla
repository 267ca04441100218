------------------------------- MODULE SyncLock -------------------------------
(***************************************************************************)
(* The writer lock of src/src/sync/lock.rs.                                *)
(*                                                                         *)
(* Every operation that writes the index (sync, cold add/remove, the v7    *)
(* migration) first takes <db>.sync.lock.  A writer persists a private     *)
(* claim file and hard-links it to that path: link(2) fails when the path  *)
(* exists, so the path is a test-and-set register.  A writer that finds    *)
(* the path taken observes it, and may REMOVE it when the process named in *)
(* it is dead; it then tries to link again.                                *)
(*                                                                         *)
(* The same path is used by an older TypeScript writer (external to this   *)
(* repository) which takes the lock with mkdir and then writes its owner   *)
(* as a file inside the directory.  The Rust writer only ever creates a    *)
(* regular file, but it observes and reclaims both forms.                  *)
(*                                                                         *)
(* Each file-system call is one atomic step; what the code computes        *)
(* between two calls is part of the step.  A process id is used by one     *)
(* process only, and a process takes the lock at most once.  Processes of  *)
(* earlier generations are among the processes too: killed before the run  *)
(* starts, they may have left their lock file or directory at the path.    *)
(***************************************************************************)
EXTENDS Naturals

CONSTANTS
  Writers,        \* processes running the Rust writer
  LegacyWriters,  \* processes running the TypeScript writer
  Departed,       \* those of them that were killed before the run starts
  CanCrash,       \* the processes that may be killed
  InitialLock,    \* what an earlier generation may have left at the lock path
  MaxPolls        \* bound: sleeps of one acquire before its deadline must pass

Procs == Writers \cup LegacyWriters

(* What the lock path names.  A regular file carries its owner, or nobody  *)
(* when its JSON does not parse; a directory holds the owner files written *)
(* into it.                                                                *)
Absent    == [kind |-> "absent", owners |-> {}]
Malformed == [kind |-> "file",   owners |-> {}]
FileOf(p) == [kind |-> "file",   owners |-> {p}]
Dir(S)    == [kind |-> "dir",    owners |-> S]
Locks     == {Absent, Malformed}
               \cup {FileOf(p) : p \in Writers}
               \cup {Dir(S) : S \in SUBSET LegacyWriters}

ASSUME SyncLockAssumption ==
  /\ Writers \cap LegacyWriters = {}
  /\ Departed \subseteq Procs
  /\ \A s, t \in LegacyWriters \ Departed : s = t   \* one live old writer
  /\ CanCrash \subseteq Procs
  /\ InitialLock \subseteq {Absent, Malformed, Dir({})}
                    \cup {FileOf(p) : p \in Writers \cap Departed}
                    \cup {Dir({p}) : p \in LegacyWriters \cap Departed}
  /\ MaxPolls \in Nat

VARIABLES
  lock,    \* the object at the lock path
  pc,      \* where each process stands
  seen,    \* the ObservedLock of each writer's last observe()
  polls,   \* how often each writer has slept in its acquire loop
  raced    \* history, which no step reads: two writers have stood before the
           \* unlink of a dead owner's file at the same time

vars == <<lock, pc, seen, polls, raced>>

(* Control points.  "link" .. "wait" are inside acquire_with, "held" is    *)
(* the protected region, "drop" .. "dropUnlink" are the guard's Drop,      *)
(* "lg..." are the old writer's.                                           *)
Acquiring == {"link", "stat", "read", "probe", "recheck", "unlink",
              "rmInfo", "rmOwned", "rmEmpty", "wait"}
Dropping  == {"drop", "dropRecheck", "dropUnlink"}
Ended     == {"released", "timedOut", "ioError", "crashed"}
PCs       == {"idle", "held"} \cup Acquiring \cup Dropping \cup Ended
                \cup {"lgInfo", "lgHeld", "lgUnlink", "lgRmdir"}

(* A process exists from its start to its exit: process_alive.             *)
ProcessAlive(p) == pc[p] \notin Ended

(* The processes that believe they are the only writer.                    *)
Holds(p) == pc[p] \in {"held", "lgHeld"}

Init ==
  /\ lock \in InitialLock
  /\ pc = [p \in Procs |-> IF p \in Departed THEN "crashed" ELSE "idle"]
  /\ seen = [p \in Procs |-> Absent]
  /\ polls = [p \in Procs |-> 0]
  /\ raced = FALSE

Goto(p, from, to) ==
  /\ pc[p] = from
  /\ pc' = [pc EXCEPT ![p] = to]
  /\ raced' = (raced \/ (to = "unlink" /\ \E q \in Procs \ {p} : pc[q] = "unlink"))

-----------------------------------------------------------------------------
(* acquire_with                                                            *)

(* The private claim is written and synced under a name nobody else uses.  *)
CreateClaim(p) ==
  /\ Goto(p, "idle", "link")
  /\ UNCHANGED <<lock, seen, polls>>

(* Mutant: rename(2) in place of link(2) replaces what is there.           *)
RenameClaim(p) ==
  /\ \/ lock.kind # "dir" /\ Goto(p, "link", "held") /\ lock' = FileOf(p)
     \/ lock.kind = "dir" /\ Goto(p, "link", "stat") /\ UNCHANGED lock
  /\ UNCHANGED <<seen, polls>>

HardLink(p) ==
  /\ \/ /\ lock.kind = "absent"
        /\ Goto(p, "link", "held")
        /\ lock' = FileOf(p)
     \/ /\ lock.kind # "absent"
        /\ Goto(p, "link", "stat")
        /\ UNCHANGED lock
  /\ UNCHANGED <<seen, polls>>

(* observe(), first call: symlink_metadata.  NotFound is `None`, which     *)
(* counts as reclaimed: link again at once.                                *)
ObserveStat(p) ==
  /\ \/ /\ lock.kind = "absent"
        /\ Goto(p, "stat", "link")
     \/ /\ lock.kind # "absent"
        /\ Goto(p, "stat", "read")
  /\ seen' = [seen EXCEPT ![p] = lock]
  /\ UNCHANGED <<lock, polls>>

(* observe(), second call: read the file, or list the directory.  An error *)
(* of this call is returned by acquire itself (`observe(&path)?`).         *)
ObserveRead(p) ==
  /\ \/ /\ lock.kind # seen[p].kind
        /\ Goto(p, "read", "ioError")
     \/ /\ lock.kind = seen[p].kind
        /\ \/ lock = Malformed /\ Goto(p, "read", "wait")
           \/ lock = Dir({})   /\ Goto(p, "read", "rmEmpty")
           \/ lock.owners # {} /\ Goto(p, "read", "probe")
  /\ seen' = [seen EXCEPT ![p] = lock]
  /\ UNCHANGED <<lock, polls>>

(* Mutant: the owner is not probed.                                        *)
ProbeNobody(p) ==
  /\ Goto(p, "probe", IF seen[p].kind = "file" THEN "recheck" ELSE "rmInfo")
  /\ UNCHANGED <<lock, seen, polls>>

ProbeOwner(p) ==
  /\ \/ /\ \E q \in seen[p].owners : ProcessAlive(q)
        /\ Goto(p, "probe", "wait")
     \/ /\ \A q \in seen[p].owners : ~ProcessAlive(q)
        /\ Goto(p, "probe", IF seen[p].kind = "file" THEN "recheck" ELSE "rmInfo")
  /\ UNCHANGED <<lock, seen, polls>>

(* Mutant: the second observation is not compared with the first.          *)
RecheckNothing(p) ==
  /\ Goto(p, "recheck", IF lock = Absent THEN "link" ELSE "unlink")
  /\ UNCHANGED <<lock, seen, polls>>

(* remove_legacy_lock_if_same: observe again and compare, then unlink.     *)
(* The two calls are not atomic.  A path that vanishes inside the second   *)
(* observe is an error there, and not reclaimed.                           *)
RecheckFile(p) ==
  /\ \/ lock = Absent  /\ Goto(p, "recheck", "link")
     \/ lock = seen[p] /\ Goto(p, "recheck", "unlink")
     \/ lock # seen[p] /\ Goto(p, "recheck", "wait")
  /\ UNCHANGED <<lock, seen, polls>>

(* Mutant: a reclaimed lock is not tried again at once.                    *)
UnlinkAndWait(p) ==
  /\ Goto(p, "unlink", "wait")
  /\ lock' = IF lock.kind = "dir" THEN lock ELSE Absent
  /\ UNCHANGED <<seen, polls>>

UnlinkFile(p) ==
  /\ \/ /\ lock.kind \in {"absent", "file"}
        /\ Goto(p, "unlink", "link")
        /\ lock' = Absent
     \/ /\ lock.kind = "dir"
        /\ Goto(p, "unlink", "wait")
        /\ UNCHANGED lock
  /\ UNCHANGED <<seen, polls>>

(* remove_directory_lock_if_same: unlink the dead owner's file, then rmdir *)
RemoveOwnerInfo(p) ==
  /\ \/ /\ lock.kind = "file"
        /\ Goto(p, "rmInfo", "wait")
        /\ UNCHANGED lock
     \/ /\ lock.kind # "file"
        /\ Goto(p, "rmInfo", "rmOwned")
        /\ lock' = IF lock = Absent THEN Absent ELSE Dir(lock.owners \ seen[p].owners)
  /\ UNCHANGED <<seen, polls>>

RemoveOwnedDir(p) ==
  /\ \/ /\ lock \in {Absent, Dir({})}
        /\ Goto(p, "rmOwned", "link")
        /\ lock' = Absent
     \/ /\ lock \notin {Absent, Dir({})}
        /\ Goto(p, "rmOwned", "wait")
        /\ UNCHANGED lock
  /\ UNCHANGED <<seen, polls>>

(* EmptyDirectory: remove_dir(path).is_ok()                                *)
RemoveEmptyDir(p) ==
  /\ \/ /\ lock = Dir({})
        /\ Goto(p, "rmEmpty", "link")
        /\ lock' = Absent
     \/ /\ lock # Dir({})
        /\ Goto(p, "rmEmpty", "wait")
        /\ UNCHANGED lock
  /\ UNCHANGED <<seen, polls>>

(* Mutants: one sleep too many, and sleeping without a deadline.           *)
SleepOnceMore(p) ==
  /\ polls[p] <= MaxPolls
  /\ Goto(p, "wait", "link")
  /\ polls' = [polls EXCEPT ![p] = @ + 1]
  /\ UNCHANGED <<lock, seen>>

SleepForEver(p) ==
  /\ Goto(p, "wait", "link")
  /\ UNCHANGED <<lock, seen, polls>>

(* Not reclaimed: give up once the deadline has passed, or sleep and retry *)
Sleep(p) ==
  /\ polls[p] < MaxPolls
  /\ Goto(p, "wait", "link")
  /\ polls' = [polls EXCEPT ![p] = @ + 1]
  /\ UNCHANGED <<lock, seen>>

Timeout(p) ==
  /\ Goto(p, "wait", "timedOut")
  /\ UNCHANGED <<lock, seen, polls>>

-----------------------------------------------------------------------------
(* Drop of the guard: observe; when the owner is this process,             *)
(* remove_legacy_lock_if_same.  Errors of these calls are ignored.         *)

LeaveRegion(p) ==
  /\ Goto(p, "held", "drop")
  /\ UNCHANGED <<lock, seen, polls>>

(* Mutant: the guard forgets to remove its file.                           *)
DropNothing(p) ==
  /\ Goto(p, "drop", "released")
  /\ UNCHANGED <<lock, seen, polls>>

DropObserve(p) ==
  /\ Goto(p, "drop", IF lock = FileOf(p) THEN "dropRecheck" ELSE "released")
  /\ UNCHANGED <<lock, seen, polls>>

DropRecheck(p) ==
  /\ Goto(p, "dropRecheck", IF lock = FileOf(p) THEN "dropUnlink" ELSE "released")
  /\ UNCHANGED <<lock, seen, polls>>

DropUnlink(p) ==
  /\ Goto(p, "dropUnlink", "released")
  /\ lock' = IF lock.kind = "file" THEN Absent ELSE lock
  /\ UNCHANGED <<seen, polls>>

-----------------------------------------------------------------------------
(* The old TypeScript writer, as far as lock.rs describes it (external).   *)

LegacyMkdir(p) ==
  /\ lock.kind = "absent"
  /\ Goto(p, "idle", "lgInfo")
  /\ lock' = Dir({})
  /\ UNCHANGED <<seen, polls>>

LegacyWriteInfo(p) ==
  /\ \/ /\ lock.kind = "dir"
        /\ Goto(p, "lgInfo", "lgHeld")
        /\ lock' = Dir(lock.owners \cup {p})
     \/ /\ lock.kind # "dir"
        /\ Goto(p, "lgInfo", "ioError")
        /\ UNCHANGED lock
  /\ UNCHANGED <<seen, polls>>

LegacyLeave(p) ==
  /\ Goto(p, "lgHeld", "lgUnlink")
  /\ UNCHANGED <<lock, seen, polls>>

LegacyUnlinkInfo(p) ==
  /\ Goto(p, "lgUnlink", "lgRmdir")
  /\ lock' = IF lock.kind = "dir" THEN Dir(lock.owners \ {p}) ELSE lock
  /\ UNCHANGED <<seen, polls>>

LegacyRmdir(p) ==
  /\ Goto(p, "lgRmdir", "released")
  /\ lock' = IF lock = Dir({}) THEN Absent ELSE lock
  /\ UNCHANGED <<seen, polls>>

-----------------------------------------------------------------------------
(* The process is killed: nothing of its clean-up runs.                    *)
Crash(p) ==
  /\ p \in CanCrash
  /\ ProcessAlive(p)
  /\ pc[p] # "idle"
  /\ pc' = [pc EXCEPT ![p] = "crashed"]
  /\ UNCHANGED <<lock, seen, polls, raced>>

AcquireStep(p) ==
  \/ HardLink(p) \/ ObserveStat(p) \/ ObserveRead(p) \/ ProbeOwner(p)
  \/ RecheckFile(p) \/ UnlinkFile(p) \/ RemoveOwnerInfo(p)
  \/ RemoveOwnedDir(p) \/ RemoveEmptyDir(p) \/ Sleep(p) \/ Timeout(p)

DropStep(p) ==
  LeaveRegion(p) \/ DropObserve(p) \/ DropRecheck(p) \/ DropUnlink(p)

LegacyStep(p) ==
  LegacyWriteInfo(p) \/ LegacyLeave(p) \/ LegacyUnlinkInfo(p) \/ LegacyRmdir(p)

Next ==
  \/ \E p \in Writers : CreateClaim(p) \/ AcquireStep(p) \/ DropStep(p)
  \/ \E p \in LegacyWriters : LegacyMkdir(p) \/ LegacyStep(p)
  \/ \E p \in Procs : Crash(p)

Spec == Init /\ [][Next]_vars

(* The operating system runs every live process: a started acquire or drop *)
(* takes its next step.  Starting is the user's choice and a crash is      *)
(* never owed.                                                             *)
Fairness ==
  /\ \A p \in Writers : WF_vars(AcquireStep(p) \/ DropStep(p))
  /\ \A p \in LegacyWriters : WF_vars(LegacyStep(p))

FairSpec == Spec /\ Fairness

-----------------------------------------------------------------------------
(* Every variable has its type, and no acquire polls past its deadline.    *)
TypeOK ==
  /\ lock \in Locks
  /\ pc \in [Procs -> PCs]
  /\ seen \in [Procs -> Locks]
  /\ polls \in [Procs -> 0 .. MaxPolls]
  /\ raced \in BOOLEAN

(* Two writers are never in the protected region together: the promise the *)
(* index relies on when it splits its read of the cursors from the commit  *)
(* (docs/ARCHITECTURE.md: writes are serialised by the single-writer lock).*)
MutualExclusion ==
  \A p, q \in Procs : Holds(p) /\ Holds(q) => p = q

(* One race, and nothing else, can break it.  remove_legacy_lock_if_same    *)
(* re-reads the lock file and then unlinks it, in two calls: a writer that  *)
(* stands between them while another does the same removes the lock the    *)
(* other has meanwhile taken (MutualExclusion alone is violated that way).  *)
(* Until two writers have stood there together the lock is exclusive,      *)
(* whoever was killed, before the run or in it, whatever he left at the    *)
(* path, and however the writers, the old one and the guards interleave.   *)
ExclusiveUntilRaced == ~raced => MutualExclusion

(* However the processes interleave, and whoever crashed, a writer that    *)
(* finished (by release, time-out or error) has not left its own lock file *)
(* behind: only a killed writer leaves debris.                             *)
OnlyTheKilledLeaveDebris ==
  \A p \in Writers :
    pc[p] \in {"idle", "released", "timedOut", "ioError"} => lock # FileOf(p)

(* A process whose owner file is being reclaimed is dead: at the points    *)
(* where the code is about to remove somebody's lock file, the process     *)
(* named in the observation has ended (and, for a regular file, was killed *)
(* in the region, since every other exit removes the file first).          *)
ReclaimsOnlyTheDead ==
  \A p \in Writers :
    pc[p] = "unlink" =>
      /\ seen[p].kind = "file"
      /\ \A q \in seen[p].owners : pc[q] = "crashed"

(* The strengthening that makes these two and ExclusiveUntilRaced          *)
(* inductive.  A file at the path names a process that is inside the       *)
(* region, on its way out of it, or killed; until two reclaimers met, a    *)
(* process inside or on its way out is named by the path, a directory held *)
(* by the old writer has exactly its owner file, and the one process that  *)
(* is about to unlink a file still has before it the file that it read; a  *)
(* process about to remove something has observed an owner that has ended. *)
FileNamesOwner ==
  \A p \in Procs : lock = FileOf(p) => pc[p] \in {"held", "crashed"} \cup Dropping

HolderOwnsPath ==
  ~raced =>
    /\ \A p \in Procs : pc[p] \in {"held"} \cup Dropping => lock = FileOf(p)
    /\ \A p \in Procs : pc[p] \in {"lgHeld", "lgUnlink"} => lock = Dir({p})

SoleReclaimer ==
  ~raced =>
    \A p \in Procs :
      pc[p] = "unlink" => lock = seen[p] /\ \A q \in Procs : pc[q] = "unlink" => q = p

(* Such a race takes the file of somebody killed: while nobody ever was,   *)
(* the lock is exclusive.                                                  *)
RaceNeedsDebris == raced => \E p \in Procs : pc[p] = "crashed"

(* The directory of the old writer is empty until he writes his owner file *)
(* into it.                                                                *)
FreshDir ==
  \A p \in LegacyWriters : pc[p] = "lgInfo" /\ lock.kind = "dir" => lock = Dir({})

ReclaimTargets ==
  \A p \in Procs :
    /\ pc[p] = "probe" => seen[p].owners # {}
    /\ pc[p] \in {"recheck", "unlink"} =>
         seen[p].kind = "file" /\ seen[p].owners # {}
    /\ pc[p] \in {"recheck", "unlink", "rmInfo"} =>
         \A q \in seen[p].owners : pc[q] \in Ended
    /\ pc[p] = "unlink" => \A q \in seen[p].owners : pc[q] = "crashed"

KindOfProcess ==
  /\ \A p \in Writers : pc[p] \notin {"lgInfo", "lgHeld", "lgUnlink", "lgRmdir"}
  /\ \A p \in LegacyWriters : pc[p] \notin {"held"} \cup Acquiring \cup Dropping
  /\ \A p \in Departed : pc[p] = "crashed"

(* All of these together, which no step of anybody disturbs.               *)
LockInv ==
  /\ TypeOK /\ KindOfProcess /\ FileNamesOwner /\ HolderOwnsPath
  /\ SoleReclaimer /\ RaceNeedsDebris /\ FreshDir /\ ReclaimTargets

(* A started acquire comes to an end: nobody polls for ever, even behind a *)
(* malformed file or a directory that is never released.                   *)
AcquireEnds ==
  \A p \in Writers : pc[p] \in Acquiring ~> pc[p] \notin Acquiring

(* Debris of a killed writer does not block the next generation: a writer  *)
(* that tries to link when every other process has ended gets the lock     *)
(* without timing out, whatever well-formed debris it finds.               *)
LoneWriterGetsLock ==
  \A p \in Writers :
    (/\ pc[p] = "link"
     /\ lock # Malformed
     /\ \A q \in Procs \ {p} : pc[q] \in Ended)
      ~> pc[p] \in {"held", "crashed"}

=============================================================================
