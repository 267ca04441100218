--------------------------- MODULE CutoverProofs ---------------------------
(***************************************************************************)
(* For any number of commands and of recovery directories: the v8 index    *)
(* never exists without the fence, and the fence, once durable, stays.     *)
(***************************************************************************)
EXTENDS Cutover, TLAPS

(* Where a command holds the writer lock, and where in addition it has seen
   the fence at the legacy pathname.                                       *)
Locked == {"backup", "vacuum", "copy", "begin", "preflight", "stage", "recheck",
           "publish", "confirm", "switch", "synced", "complete", "restore"}
Behind == {"confirm", "switch", "synced", "complete", "restore"}

LockInv == /\ lock \in Cmds \cup {Free}
           /\ pc \in [Cmds -> Labels]
           /\ \A p \in Cmds : pc[p] \in Locked => lock = p

DurableInv == /\ durable = [config |-> durable.config, active |-> durable.active,
                            due |-> durable.due]
              /\ durable.config \in Paths
              /\ durable.config.kind = "fence" => config = durable.config

(* A command about to publish still sees the legacy pathname open, and what
   it staged is complete; behind the fence it sees the fence.              *)
Publishable(p) == /\ config.kind # "fence"
                  /\ fence[p].phase = "staged" => dirs[fence[p].dir].ready
StagedInv == \A p \in Cmds : /\ fence[p].phase = "staged" => fence[p].dir # 0
                             /\ pc[p] = "publish" => Publishable(p)
BehindInv == \A p \in Cmds : pc[p] \in Behind => Fenced(config)

OldInv == old \subseteq [open : Inodes, list : SUBSET Roots]

CutoverInv == /\ FenceTypeOK /\ OldInv /\ LockInv /\ DurableInv
              /\ StagedInv /\ BehindInv /\ FenceBeforeV8

(* What a command reads of the fence is a value of its type. *)
LEMMA InspectedType ==
  ASSUME FenceTypeOK
  PROVE  Inspected \in Fences
<1>1. Recorded \in Inodes \cup {NoInode}
  BY DEF FenceTypeOK, Recorded, Paths, MissingPath, FileAt, FenceTo, Dirs, NoInode, Inodes
<1>2. ContentOf(Recorded) \in Content
  BY <1>1 DEF FenceTypeOK, ContentOf, Content, Whole
<1>3. config.kind = "fence" => config.at \in 0..MaxDirs
  BY MaxDirsAssumption DEF FenceTypeOK, Paths, MissingPath, FileAt, FenceTo
<1> QED BY <1>1, <1>2, <1>3, MaxDirsAssumption DEF Inspected, Fences

LEMMA NoFenceType == NoFence \in Fences
BY MaxDirsAssumption DEF NoFence, Fences, Content, Empty, NoInode

(* A fence at the pathname is not a file there, and where it leads. *)
LEMMA PathKinds ==
  ASSUME config \in Paths
  PROVE  /\ config.kind = "fence" => config.at \in 1..MaxDirs /\ config = FenceTo(config.at)
         /\ \A d : FenceTo(d).kind = "fence" /\ FenceTo(d).at = d
         /\ \A i : FileAt(i).kind = "file"
         /\ MissingPath.kind = "missing"
BY DEF Paths, MissingPath, FileAt, FenceTo

LEMMA InitInv == Init => CutoverInv
<1> SUFFICES ASSUME Init PROVE CutoverInv OBVIOUS
<1>1. active.kind # "v8"
  BY DEF Init, NoIndex, V7Index
<1>2. config \in Paths /\ config.kind # "fence"
  BY DEF Init, Paths, MissingPath, FileAt, Inodes
<1>3. FenceTypeOK
  <2>1. inode \in [Inodes -> Content]
    BY DEF Init, Content, Whole, Empty
  <2>2. dirs \in [1..MaxDirs -> Dirs]
    BY DEF Init, Dirs
  <2>3. fence \in [Cmds -> Fences]
    BY NoFenceType DEF Init
  <2> QED BY <1>2, <2>1, <2>2, <2>3 DEF FenceTypeOK
<1>4. LockInv
  BY DEF Init, LockInv, Labels, Locked
<1>5. DurableInv
  BY <1>2 DEF Init, DurableInv
<1>6. StagedInv /\ BehindInv
  BY DEF Init, StagedInv, BehindInv, Behind, NoFence
<1>7. FenceBeforeV8
  BY <1>1 DEF Init, FenceBeforeV8
<1>8. OldInv
  BY DEF Init, OldInv
<1> QED BY <1>3, <1>4, <1>5, <1>6, <1>7, <1>8 DEF CutoverInv

(* The steps that leave pathname, directories and databases alone: they move
   one command to another step, whose needs they have checked.             *)
LEMMA QuietStep ==
  ASSUME CutoverInv, NEW p \in Cmds, NEW label \in Labels,
         UNCHANGED <<config, inode, dirs, active, durable, old>>,
         pc' = [pc EXCEPT ![p] = label],
         fence' \in [Cmds -> Fences],
         \A q \in Cmds \ {p} : fence'[q] = fence[q],
         lock' \in Cmds \cup {Free},
         label \in Locked => lock' = p,
         \A q \in Cmds \ {p} : lock = q => lock' = q,
         fence'[p].phase = "staged" => fence'[p].dir # 0,
         label = "publish" => Publishable(p)',
         label \in Behind => Fenced(config)
  PROVE  CutoverInv'
<1>1. FenceTypeOK'
  BY DEF CutoverInv, FenceTypeOK
<1>2. LockInv'
  BY DEF CutoverInv, LockInv
<1>3. DurableInv'
  BY DEF CutoverInv, DurableInv
<1>4. StagedInv'
  BY DEF CutoverInv, StagedInv, LockInv, Publishable
<1>5. BehindInv'
  BY DEF CutoverInv, BehindInv, LockInv, Fenced
<1>6. FenceBeforeV8'
  BY DEF CutoverInv, FenceBeforeV8, Fenced
<1> QED BY <1>1, <1>2, <1>3, <1>4, <1>5, <1>6 DEF CutoverInv, OldInv

(* However a command ends. *)
LEMMA EndStep ==
  ASSUME CutoverInv, NEW p \in Cmds, Ends(p),
         UNCHANGED <<config, inode, dirs, active, durable, old>>
  PROVE  CutoverInv'
<1>1. fence' \in [Cmds -> Fences] /\ \A q \in Cmds \ {p} : fence'[q] = fence[q]
  BY NoFenceType DEF Ends, CutoverInv, FenceTypeOK
<1>2. lock' \in Cmds \cup {Free} /\ \A q \in Cmds \ {p} : lock = q => lock' = q
  BY DEF Ends, CutoverInv, LockInv
<1>3. fence'[p].phase # "staged"
  BY DEF Ends, NoFence, CutoverInv, FenceTypeOK
<1> QED BY <1>1, <1>2, <1>3, QuietStep DEF Ends, Goto, Labels, Locked, Behind

(* A fence that verifies as published is at the pathname, complete. *)
LEMMA VerifiedPublished ==
  ASSUME CutoverInv, NEW p \in Cmds, Verified(fence[p])
  PROVE  /\ fence[p].phase = "published" => Fenced(config)
         /\ fence[p].phase # "published" => config.kind # "fence"
<1>1. fence[p] \in Fences
  BY DEF CutoverInv, FenceTypeOK
<1>2. CASE fence[p].phase = "published"
  BY <1>2 DEF Verified, Fenced, FenceTo
<1>3. CASE fence[p].phase # "published"
  <2>1. SourceUnchanged(fence[p])
    BY <1>3 DEF Verified
  <2> QED BY <1>3, <2>1 DEF SourceUnchanged, MissingPath, FileAt
<1> QED BY <1>2, <1>3

(* A staged fence that verifies has a complete directory of its own. *)
LEMMA VerifiedStaged ==
  ASSUME CutoverInv, NEW p \in Cmds, Verified(fence[p]), fence[p].phase = "staged"
  PROVE  dirs[fence[p].dir].ready
BY DEF Verified

(* A command that keeps its fence and its lock and takes a step on the way. *)
LEMMA MoveStep ==
  ASSUME CutoverInv, NEW p \in Cmds, NEW label \in Labels, Goto(p, label),
         UNCHANGED <<fenceVars, active, durable, lock, old>>,
         label \in Locked => lock = p,
         label = "publish" => Publishable(p),
         label \in Behind => Fenced(config)
  PROVE  CutoverInv'
<1>1. fence' \in [Cmds -> Fences] /\ fence' = fence /\ dirs' = dirs /\ config' = config
  BY DEF CutoverInv, FenceTypeOK, fenceVars
<1>2. fence'[p].phase = "staged" => fence'[p].dir # 0
  BY <1>1 DEF CutoverInv, StagedInv
<1>3. label = "publish" => Publishable(p)'
  BY <1>1 DEF Publishable
<1>4. lock' \in Cmds \cup {Free}
  BY DEF CutoverInv, LockInv
<1>5. pc' = [pc EXCEPT ![p] = label]
  BY DEF Goto
<1> QED BY <1>1, <1>2, <1>3, <1>4, <1>5, QuietStep DEF fenceVars

\* The lock is held by whoever is at a locked step.
LEMMA Holder ==
  ASSUME CutoverInv, NEW p \in Cmds, pc[p] \in Locked
  PROVE  lock = p
BY DEF CutoverInv, LockInv

(* The index is switched behind the fence. *)
LEMMA SwitchStep ==
  ASSUME CutoverInv, NEW p \in Cmds, Fenced(config), lock = p, Goto(p, "synced"),
         UNCHANGED <<fenceVars, durable, lock, old>>
  PROVE  CutoverInv'
<1>1. config' = config /\ dirs' = dirs /\ fence' = fence /\ inode' = inode
  BY DEF fenceVars
<1>2. FenceTypeOK'
  BY <1>1 DEF CutoverInv, FenceTypeOK
<1>3. LockInv'
  BY DEF CutoverInv, LockInv, Goto, Labels
<1>4. DurableInv'
  BY <1>1 DEF CutoverInv, DurableInv
<1>5. StagedInv' /\ BehindInv'
  BY <1>1 DEF CutoverInv, StagedInv, BehindInv, Behind, Goto, LockInv, Publishable, Fenced
<1>6. FenceBeforeV8'
  BY <1>1 DEF CutoverInv, FenceBeforeV8, Fenced
<1> QED BY <1>2, <1>3, <1>4, <1>5, <1>6 DEF CutoverInv, OldInv

(* Behind the fence, what is there becomes durable, whatever the index is. *)
LEMMA DurableStep ==
  ASSUME CutoverInv, NEW p \in Cmds, Fenced(config), NEW label \in {"idle", "complete"},
         Goto(p, label), label \in Locked => lock' = p,
         UNCHANGED <<config, inode, dirs, old>>,
         fence' \in [Cmds -> Fences],
         \A q \in Cmds \ {p} : fence'[q] = fence[q],
         fence'[p].phase # "staged" \/ fence'[p] = fence[p],
         lock' \in Cmds \cup {Free},
         \A q \in Cmds \ {p} : lock = q => lock' = q,
         durable' = [config |-> config, active |-> active', due |-> due']
  PROVE  CutoverInv'
<1>1. FenceTypeOK'
  BY DEF CutoverInv, FenceTypeOK
<1>2. LockInv'
  BY DEF CutoverInv, LockInv, Goto, Labels
<1>3. DurableInv'
  BY DEF CutoverInv, DurableInv, FenceTypeOK
<1>4. StagedInv'
  BY DEF CutoverInv, StagedInv, Goto, LockInv, Publishable, Locked
<1>5. BehindInv'
  BY DEF CutoverInv, BehindInv, Goto, LockInv, Fenced
<1>6. FenceBeforeV8'
  BY DEF FenceBeforeV8, Fenced
<1> QED BY <1>1, <1>2, <1>3, <1>4, <1>5, <1>6 DEF CutoverInv, OldInv

LEMMA RestoreStep ==
  ASSUME CutoverInv, NEW p \in Cmds, Restore(p), Fenced(config)
  PROVE  CutoverInv'
<1>1. fence' \in [Cmds -> Fences] /\ \A q \in Cmds \ {p} : fence'[q] = fence[q]
  BY NoFenceType DEF Restore, Ends, CutoverInv, FenceTypeOK
<1>2. fence'[p].phase # "staged"
  BY DEF Restore, Ends, NoFence, CutoverInv, FenceTypeOK
<1>3. lock' \in Cmds \cup {Free} /\ \A q \in Cmds \ {p} : lock = q => lock' = q
  BY DEF Restore, Ends, CutoverInv, LockInv
<1> QED BY <1>1, <1>2, <1>3, DurableStep DEF Restore, Ends, Locked

LEMMA MigrateStep ==
  ASSUME CutoverInv, NEW p \in Cmds, Migrate(p)
  PROVE  CutoverInv'
<1>1. CASE MigrateBegin(p)
  <2>1. fence' \in [Cmds -> Fences] /\ fence'[p] = Inspected
        /\ \A q \in Cmds \ {p} : fence'[q] = fence[q]
    BY <1>1, InspectedType DEF MigrateBegin, CutoverInv, FenceTypeOK
  <2>2. Inspected.phase # "staged"
    BY DEF Inspected
  <2>3. lock' = p /\ \A q \in Cmds \ {p} : lock # q
    BY <1>1, FreeAssumption DEF MigrateBegin
  <2>4. UNCHANGED <<config, inode, dirs, active, durable, old>> /\ pc' = [pc EXCEPT ![p] = "backup"]
    BY <1>1 DEF MigrateBegin, Goto
  <2> QED BY <2>1, <2>2, <2>3, <2>4, QuietStep DEF Labels, Locked, Behind
<1>2. CASE BackupReserve(p)
  BY <1>2, Holder, MoveStep DEF BackupReserve, Labels, Locked, Behind
<1>3. CASE BackupDone(p)
  BY <1>3, Holder, MoveStep DEF BackupDone, Labels, Locked, Behind
<1>4. CASE Copy(p)
  BY <1>4, Holder, MoveStep DEF Copy, Labels, Locked, Behind
<1>5. CASE Recheck(p)
  <2>1. fence[p].phase # "published" => Publishable(p)
    BY <1>5, VerifiedPublished, VerifiedStaged DEF Recheck, Publishable
  <2>2. fence[p].phase = "published" => Fenced(config)
    BY <1>5, VerifiedPublished DEF Recheck
  <2>3. lock = p
    BY <1>5, Holder DEF Recheck, Locked
  <2> QED BY <1>5, <2>1, <2>2, <2>3, MoveStep DEF Recheck, Labels, Behind
<1>6. CASE PublishNext(p)
  <2>1. Fenced(config) /\ lock = p
    BY <1>6, Holder DEF PublishNext, CutoverInv, BehindInv, Behind, Locked
  <2> QED BY <1>6, <2>1, SwitchStep DEF PublishNext
<1>7. CASE CannotConfirm(p)
  <2>1. Fenced(config) /\ lock = p
    BY <1>7, Holder DEF CannotConfirm, CutoverInv, BehindInv, Behind, Locked
  <2> QED BY <1>7, <2>1, MoveStep DEF CannotConfirm, Labels
<1>8. CASE Restore(p)
  <2>1. Fenced(config)
    BY <1>8 DEF Restore, CutoverInv, BehindInv, Behind
  <2> QED BY <1>8, <2>1, RestoreStep
<1> QED BY <1>1, <1>2, <1>3, <1>4, <1>5, <1>6, <1>7, <1>8 DEF Migrate

LEMMA WriteStep ==
  ASSUME CutoverInv, NEW p \in Cmds, Write(p)
  PROVE  CutoverInv'
<1>1. CASE Inspect(p)
  <2>1. fence' \in [Cmds -> Fences] /\ fence'[p] = Inspected
        /\ \A q \in Cmds \ {p} : fence'[q] = fence[q]
    BY <1>1, InspectedType DEF Inspect, CutoverInv, FenceTypeOK
  <2>2. Inspected.phase # "staged"
    BY DEF Inspected
  <2>3. lock' = lock /\ lock \in Cmds \cup {Free}
    BY <1>1 DEF Inspect, CutoverInv, LockInv
  <2>4. UNCHANGED <<config, inode, dirs, active, durable, old>> /\ pc' = [pc EXCEPT ![p] = "lock"]
    BY <1>1 DEF Inspect, Goto
  <2> QED BY <2>1, <2>2, <2>3, <2>4, QuietStep DEF Labels, Locked, Behind
<1>2. CASE TakeLock(p)
  <2>1. fence' \in [Cmds -> Fences] /\ fence' = fence
    BY <1>2 DEF TakeLock, fenceVars, CutoverInv, FenceTypeOK
  <2>2. fence'[p].phase = "staged" => fence'[p].dir # 0
    BY <2>1 DEF CutoverInv, StagedInv
  <2>3. lock' = p /\ \A q \in Cmds \ {p} : lock # q
    BY <1>2, FreeAssumption DEF TakeLock
  <2>4. UNCHANGED <<config, inode, dirs, active, durable, old>> /\ pc' = [pc EXCEPT ![p] = "preflight"]
    BY <1>2 DEF TakeLock, Goto, fenceVars
  <2> QED BY <2>1, <2>2, <2>3, <2>4, QuietStep DEF Labels, Locked, Behind
<1>3. CASE NothingToRemove(p)
  BY <1>3, EndStep DEF NothingToRemove
<1>4. CASE Begin(p)
  <2>1. fence[p].phase # "published" => Publishable(p)
    BY <1>4, VerifiedPublished, VerifiedStaged DEF Begin, Publishable
  <2>2. fence[p].phase = "published" => Fenced(config)
    BY <1>4, VerifiedPublished DEF Begin
  <2>3. lock = p
    BY <1>4, Holder DEF Begin, Locked
  <2> QED BY <1>4, <2>1, <2>2, <2>3, MoveStep DEF Begin, Labels, Behind
<1>5. CASE PublishScratch(p)
  <2>1. Fenced(config) /\ lock = p
    BY <1>5, Holder DEF PublishScratch, CutoverInv, BehindInv, Behind, Locked
  <2> QED BY <1>5, <2>1, SwitchStep DEF PublishScratch
<1>6. CASE CommitInPlace(p)
  <2>1. Fenced(config) /\ lock = p
    BY <1>6, Holder DEF CommitInPlace, CutoverInv, BehindInv, Behind, Locked
  <2>2. fence' = fence /\ fence \in [Cmds -> Fences] /\ lock' = lock
    BY <1>6 DEF CommitInPlace, fenceVars, CutoverInv, FenceTypeOK
  <2> QED BY <1>6, <2>1, <2>2, DurableStep DEF CommitInPlace, fenceVars
<1> QED BY <1>1, <1>2, <1>3, <1>4, <1>5, <1>6 DEF Write

(* A directory that nothing refers to is filled: no fence is touched. *)
LEMMA LinkStep ==
  ASSUME CutoverInv, NEW p \in Cmds, Link(p)
  PROVE  CutoverInv'
<1> PICK d \in FreshDirs : PreflightLink(p, d)
  BY DEF Link
<1>1. d \in 1..MaxDirs /\ config # FenceTo(d) /\ durable.config # FenceTo(d)
      /\ \A q \in Cmds : fence[q].dir # d
  BY DEF FreshDirs
<1>2. config' = config /\ inode' = inode /\ active' = active /\ durable' = durable /\ lock' = lock
  BY DEF Link, PreflightLink
<1>3. fence' = [fence EXCEPT ![p].dir = d] /\ fence[p].phase = "initial"
  BY DEF PreflightLink
<1>4. fence' \in [Cmds -> Fences] /\ \A q \in Cmds \ {p} : fence'[q] = fence[q]
  <2>1. fence[p] \in Fences /\ d \in 0..MaxDirs
    BY <1>1, MaxDirsAssumption DEF CutoverInv, FenceTypeOK
  <2>2. [fence[p] EXCEPT !.dir = d] \in Fences
    BY <2>1 DEF Fences
  <2> QED BY <1>3, <2>2 DEF CutoverInv, FenceTypeOK
<1>5. \A e \in 1..MaxDirs : e # d => dirs'[e] = dirs[e]
  BY DEF PreflightLink, CutoverInv, FenceTypeOK
<1>6. FenceTypeOK'
  <2>1. (IF config.kind = "file" THEN config.at ELSE NoInode) \in Inodes \cup {NoInode}
    BY DEF CutoverInv, FenceTypeOK, Paths, MissingPath, FileAt, FenceTo
  <2>2. dirs' \in [1..MaxDirs -> Dirs]
    BY <2>1 DEF PreflightLink, CutoverInv, FenceTypeOK, Dirs
  <2> QED BY <1>2, <1>4, <2>2 DEF CutoverInv, FenceTypeOK
<1>7. Fenced(config) => Fenced(config)'
  BY <1>1, <1>2, <1>5, PathKinds DEF Fenced, CutoverInv, FenceTypeOK
<1>8. Fenced(durable.config) => Fenced(durable.config)'
  <2>1. durable.config.kind = "fence"
          => durable.config.at \in 1..MaxDirs /\ durable.config = FenceTo(durable.config.at)
    BY DEF CutoverInv, DurableInv, Paths, MissingPath, FileAt, FenceTo
  <2> QED BY <1>1, <1>2, <1>5, <2>1 DEF Fenced
<1>9. LockInv'
  BY <1>2, Holder DEF CutoverInv, LockInv, Link, Goto, Labels, Locked
<1>10. DurableInv'
  BY <1>2 DEF CutoverInv, DurableInv
<1>11. StagedInv'
  <2>1. \A q \in Cmds : fence'[q].phase = "staged" => q # p /\ fence'[q].dir # 0
    BY <1>3, <1>4 DEF CutoverInv, StagedInv, FenceTypeOK
  <2>2. ASSUME NEW q \in Cmds, pc'[q] = "publish" PROVE Publishable(q)'
    <3>1. q # p /\ pc[q] = "publish"
      BY <2>2 DEF Link, Goto, CutoverInv, LockInv
    <3>2. Publishable(q) /\ (fence[q].phase = "staged" => fence[q].dir # 0)
      BY <3>1 DEF CutoverInv, StagedInv
    <3>3. fence[q].dir \in 0..MaxDirs /\ fence[q].dir # d
      BY <1>1 DEF CutoverInv, FenceTypeOK, Fences
    <3> QED BY <1>2, <1>4, <1>5, <3>1, <3>2, <3>3, MaxDirsAssumption DEF Publishable
  <2> QED BY <2>1, <2>2 DEF StagedInv
<1>12. BehindInv'
  BY <1>7 DEF CutoverInv, BehindInv, Link, Goto, LockInv, Behind
<1>13. FenceBeforeV8'
  BY <1>2, <1>7, <1>8 DEF CutoverInv, FenceBeforeV8
<1>14. OldInv'
  BY DEF Link, CutoverInv, OldInv
<1> QED BY <1>6, <1>9, <1>10, <1>11, <1>12, <1>13, <1>14 DEF CutoverInv

(* The directory is complete: nothing that was complete becomes less so. *)
LEMMA StageStep ==
  ASSUME CutoverInv, NEW p \in Cmds, Stage(p)
  PROVE  CutoverInv'
<1> DEFINE d == fence[p].dir
<1>1. /\ dirs' = [dirs EXCEPT ![d].ready = TRUE] /\ SourceUnchanged(fence[p]) /\ d # 0
      /\ fence' = [fence EXCEPT ![p] = [fence[p] EXCEPT !.phase = "staged"]]
      /\ config' = config /\ inode' = inode
  BY DEF Stage, PreflightStage
<1>2. active' = active /\ durable' = durable /\ lock' = lock /\ lock = p
  BY Holder DEF Stage, Locked
<1>3. d \in 1..MaxDirs /\ fence[p] \in Fences
  BY <1>1, MaxDirsAssumption DEF CutoverInv, FenceTypeOK, Fences
<1>4. fence' \in [Cmds -> Fences] /\ \A q \in Cmds \ {p} : fence'[q] = fence[q]
  BY <1>1, <1>3 DEF CutoverInv, FenceTypeOK, Fences
<1>5. dirs' \in [1..MaxDirs -> Dirs] /\ \A e \in 1..MaxDirs : dirs[e].ready => dirs'[e].ready
  BY <1>1, <1>3 DEF CutoverInv, FenceTypeOK, Dirs
<1>6. dirs'[d].ready /\ fence'[p].dir = d
  BY <1>1, <1>3 DEF CutoverInv, FenceTypeOK, Dirs, Fences
<1>7. config.kind # "fence"
  BY <1>1 DEF SourceUnchanged, MissingPath, FileAt
<1>8. FenceTypeOK'
  BY <1>1, <1>4, <1>5 DEF CutoverInv, FenceTypeOK
<1>9. LockInv'
  BY <1>2 DEF CutoverInv, LockInv, Stage, Goto, AfterPreflight, Labels
<1>10. DurableInv'
  BY <1>1, <1>2 DEF CutoverInv, DurableInv
<1>11. StagedInv'
  <2>1. \A q \in Cmds : pc'[q] # "publish"
    <3>1. \A q \in Cmds : pc[q] = "publish" => q = p
      BY <1>2, Holder DEF Locked
    <3> QED BY <3>1 DEF Stage, Goto, AfterPreflight, CutoverInv, LockInv
  <2>2. \A q \in Cmds : fence'[q].phase = "staged" => fence'[q].dir # 0
    BY <1>1, <1>4, <1>6 DEF CutoverInv, StagedInv
  <2> QED BY <2>1, <2>2 DEF StagedInv
<1>12. BehindInv' /\ FenceBeforeV8'
  <2>1. \A q \in Cmds : pc[q] \notin Behind
    BY <1>7 DEF CutoverInv, BehindInv, Fenced
  <2>2. active.kind # "v8" /\ durable.active.kind # "v8"
    BY <1>7 DEF CutoverInv, FenceBeforeV8, DurableInv, Fenced
  <2>3. \A q \in Cmds : pc'[q] \notin Behind
    BY <2>1 DEF Stage, Goto, AfterPreflight, CutoverInv, LockInv, Behind
  <2> QED BY <1>2, <2>2, <2>3 DEF BehindInv, FenceBeforeV8
<1>13. OldInv'
  BY DEF Stage, CutoverInv, OldInv
<1> QED BY <1>8, <1>9, <1>10, <1>11, <1>12, <1>13 DEF CutoverInv

(* The pathname turns into the fence that was staged. *)
LEMMA PublishStep ==
  ASSUME CutoverInv, NEW p \in Cmds, Publish(p)
  PROVE  CutoverInv'
<1> DEFINE d == fence[p].dir
<1>1. /\ fence[p].phase = "staged" /\ config' = FenceTo(d)
      /\ fence' = [fence EXCEPT ![p].phase = "published"]
      /\ inode' = inode /\ dirs' = dirs
  BY DEF Publish, PublishSwitch
<1>2. active' = active /\ durable' = durable /\ lock' = lock /\ lock = p
  BY Holder DEF Publish, Locked
<1>3. d \in 1..MaxDirs /\ dirs[d].ready /\ config.kind # "fence" /\ fence[p] \in Fences
  <2>1. fence[p] \in Fences /\ d # 0
    BY <1>1 DEF CutoverInv, FenceTypeOK, StagedInv
  <2>2. d \in 0..MaxDirs
    BY <2>1 DEF Fences
  <2> QED BY <1>1, <2>1, <2>2, MaxDirsAssumption DEF CutoverInv, StagedInv, Publish, Publishable
<1>4. fence' \in [Cmds -> Fences] /\ fence'[p].phase = "published"
      /\ \A q \in Cmds \ {p} : fence'[q] = fence[q]
  <2>1. [fence[p] EXCEPT !.phase = "published"] \in Fences
    BY <1>3 DEF Fences
  <2>2. [fence[p] EXCEPT !.phase = "published"].phase = "published"
    BY <1>3 DEF Fences
  <2> QED BY <1>1, <2>1, <2>2 DEF CutoverInv, FenceTypeOK
<1>5. config' \in Paths /\ Fenced(config)'
  BY <1>1, <1>3 DEF Paths, Fenced, FenceTo
<1>6. FenceTypeOK'
  BY <1>1, <1>4, <1>5 DEF CutoverInv, FenceTypeOK
<1>7. LockInv'
  BY <1>2 DEF CutoverInv, LockInv, Publish, Goto, Labels
<1>8. DurableInv'
  BY <1>2, <1>3 DEF CutoverInv, DurableInv
<1>9. StagedInv'
  <2>1. \A q \in Cmds : pc'[q] # "publish"
    <3>1. \A q \in Cmds : pc[q] = "publish" => q = p
      BY <1>2, Holder DEF Locked
    <3> QED BY <3>1 DEF Publish, Goto, CutoverInv, LockInv
  <2> QED BY <1>4, <2>1 DEF CutoverInv, StagedInv
<1>10. BehindInv' /\ FenceBeforeV8'
  <2>1. durable.active.kind # "v8"
    BY <1>3 DEF CutoverInv, FenceBeforeV8, DurableInv, Fenced
  <2> QED BY <1>2, <1>5, <2>1 DEF BehindInv, FenceBeforeV8
<1>11. OldInv'
  BY DEF Publish, CutoverInv, OldInv
<1> QED BY <1>6, <1>7, <1>8, <1>9, <1>10, <1>11 DEF CutoverInv

LEMMA FencingStep ==
  ASSUME CutoverInv, NEW p \in Cmds, Fencing(p)
  PROVE  CutoverInv'
<1>1. CASE Link(p)
  BY <1>1, LinkStep
<1>2. CASE PreflightAgain(p)
  <2>1. lock = p
    BY <1>2, Holder DEF PreflightAgain, Locked
  <2> QED BY <1>2, <2>1, MoveStep DEF PreflightAgain, AfterPreflight, Labels, Behind
<1>3. CASE Stage(p)
  BY <1>3, StageStep
<1>4. CASE Publish(p)
  BY <1>4, PublishStep
<1>5. CASE Confirm(p)
  <2>1. Fenced(config) /\ lock = p
    BY <1>5, Holder DEF Confirm, CutoverInv, BehindInv, Behind, Locked
  <2>2. config' = config /\ inode' = inode /\ dirs' = dirs /\ fence' = fence
        /\ active' = active /\ lock' = lock /\ durable' = [durable EXCEPT !.config = config]
    BY <1>5 DEF Confirm, fenceVars
  <2>3. FenceTypeOK'
    BY <2>2 DEF CutoverInv, FenceTypeOK
  <2>4. LockInv'
    BY <1>5, <2>1, <2>2 DEF Confirm, CutoverInv, LockInv, Goto, Labels
  <2>5. DurableInv' /\ durable'.config = config /\ durable'.active = durable.active
    BY <2>2 DEF CutoverInv, DurableInv, FenceTypeOK
  <2>6. StagedInv'
    BY <1>5, <2>2 DEF Confirm, CutoverInv, StagedInv, Goto, LockInv, Publishable
  <2>7. BehindInv' /\ FenceBeforeV8'
    BY <2>1, <2>2, <2>5 DEF BehindInv, FenceBeforeV8, Fenced
  <2>8. OldInv'
    BY <1>5 DEF Confirm, CutoverInv, OldInv
  <2> QED BY <2>3, <2>4, <2>5, <2>6, <2>7, <2>8 DEF CutoverInv
<1>6. CASE Synced(p)
  <2>1. Fenced(config) /\ lock = p
    BY <1>6, Holder DEF Synced, CutoverInv, BehindInv, Behind, Locked
  <2>2. fence' = fence /\ fence \in [Cmds -> Fences] /\ lock' = lock
        /\ UNCHANGED <<config, inode, dirs, old>> /\ active' = active /\ due' = due
    BY <1>6 DEF Synced, fenceVars, CutoverInv, FenceTypeOK
  <2> QED BY <1>6, <2>1, <2>2, DurableStep DEF Synced
<1>7. CASE Complete(p)
  <2>1. CASE cmd[p].mode = "migrate"
    <3>1. fence' \in [Cmds -> Fences] /\ fence'[p] = NoFence
          /\ \A q \in Cmds \ {p} : fence'[q] = fence[q]
      BY <1>7, <2>1, NoFenceType DEF Complete, CutoverInv, FenceTypeOK
    <3>2. lock = p /\ lock' = Free
      BY <1>7, <2>1, Holder DEF Complete, Locked
    <3>3. pc' = [pc EXCEPT ![p] = "inspect"] /\ UNCHANGED <<config, inode, dirs, active, durable, old>>
      BY <1>7, <2>1 DEF Complete, Goto
    <3>4. fence'[p].phase # "staged"
      BY <3>1 DEF NoFence
    <3>5. "inspect" \in Labels /\ "inspect" \notin Locked /\ "inspect" \notin Behind
      BY DEF Labels, Locked, Behind
    <3>6. lock' \in Cmds \cup {Free} /\ \A q \in Cmds \ {p} : lock = q => lock' = q
      BY <3>2
    <3> QED BY <3>1, <3>3, <3>4, <3>5, <3>6, QuietStep
  <2>2. CASE cmd[p].mode # "migrate"
    BY <1>7, <2>2, EndStep DEF Complete
  <2> QED BY <2>1, <2>2
<1> QED BY <1>1, <1>2, <1>3, <1>4, <1>5, <1>6, <1>7 DEF Fencing

LEMMA PowerLossStep ==
  ASSUME CutoverInv, PowerLoss
  PROVE  CutoverInv'
<1>1. inode' = inode /\ dirs' = dirs /\ fence' = [p \in Cmds |-> NoFence]
      /\ lock' = Free /\ pc' = [p \in Cmds |-> "idle"]
      /\ durable' = [config |-> config', active |-> active', due |-> due']
  BY DEF PowerLoss
<1>2. /\ config' \in {config, durable.config}
      /\ active' = durable.active \/ (config' = config /\ active' = active)
  BY DEF PowerLoss
<1>3. config' \in Paths
  BY <1>2 DEF CutoverInv, FenceTypeOK, DurableInv
<1>4. active'.kind = "v8" => Fenced(config')
  BY <1>2 DEF CutoverInv, FenceBeforeV8, DurableInv, Fenced
<1>5. FenceTypeOK'
  BY <1>1, <1>3, NoFenceType DEF CutoverInv, FenceTypeOK
<1>6. LockInv' /\ BehindInv'
  BY <1>1 DEF LockInv, BehindInv, Locked, Behind, Labels
<1>7. DurableInv'
  BY <1>1, <1>3 DEF DurableInv
<1>8. StagedInv'
  BY <1>1 DEF StagedInv, NoFence
<1>9. FenceBeforeV8'
  BY <1>1, <1>4 DEF FenceBeforeV8, Fenced
<1>10. OldInv'
  BY DEF PowerLoss, OldInv
<1> QED BY <1>5, <1>6, <1>7, <1>8, <1>9, <1>10 DEF CutoverInv

(* An old writer gets at the pathname only while there is no fence. *)
LEMMA OldOpenStep ==
  ASSUME CutoverInv, NEW op \in Edits, NEW r \in Roots, OldOpen(op, r)
  PROVE  CutoverInv'
<1> DEFINE list == ContentOf(Recorded).roots
           edited == IF op = "add" THEN list \cup {r} ELSE list \ {r}
<1>1. PICK i \in Inodes : OldOpens(i) /\ old' = old \cup {[open |-> i, list |-> edited]}
  BY DEF OldOpen
<1>2. config.kind # "fence" /\ config' = FileAt(i) /\ inode' = [inode EXCEPT ![i] = Empty]
      /\ dirs' = dirs /\ fence' = fence
  BY <1>1 DEF OldOpens
<1>3. active' = active /\ lock' = lock /\ pc' = pc
      /\ durable' = [durable EXCEPT !.config = config']
  BY DEF OldOpen
<1>4. active.kind # "v8" /\ durable.active.kind # "v8" /\ \A p \in Cmds : pc[p] \notin Behind
  BY <1>2 DEF CutoverInv, FenceBeforeV8, DurableInv, BehindInv, Fenced
<1>5. config' \in Paths /\ config'.kind = "file"
  BY <1>2 DEF Paths, FileAt
<1>6. FenceTypeOK'
  BY <1>2, <1>5 DEF CutoverInv, FenceTypeOK, Content, Empty
<1>7. LockInv' /\ BehindInv'
  BY <1>3, <1>4 DEF CutoverInv, LockInv, BehindInv
<1>8. DurableInv' /\ durable'.active = durable.active
  BY <1>3, <1>5 DEF CutoverInv, DurableInv
<1>9. StagedInv'
  BY <1>2, <1>3, <1>5 DEF CutoverInv, StagedInv, Publishable
<1>10. FenceBeforeV8'
  BY <1>3, <1>4, <1>8 DEF FenceBeforeV8
<1>11. OldInv'
  <2>1. Inspected.snapshot \in Content
    BY InspectedType DEF CutoverInv, Fences
  <2>2. edited \subseteq Roots
    BY <2>1 DEF Inspected, Content
  <2>3. [open |-> i, list |-> edited] \in [open : Inodes, list : SUBSET Roots]
    BY <2>2
  <2> QED BY <1>1, <2>3 DEF CutoverInv, OldInv
<1> QED BY <1>6, <1>7, <1>8, <1>9, <1>10, <1>11 DEF CutoverInv

(* What changes neither pathname nor directories nor what a command knows. *)
LEMMA AsideStep ==
  ASSUME CutoverInv,
         UNCHANGED <<config, dirs, fence, lock, pc>>, inode' \in [Inodes -> Content], OldInv',
         active' = active \/ (active.kind # "v8" /\ active'.kind # "v8"),
         \/ durable' = durable
         \/ \E a : a.kind # "v8" /\ durable' = [durable EXCEPT !.active = a]
         \/ \E b : durable' = [durable EXCEPT !.due = b]
  PROVE  CutoverInv'
<1>1. DurableInv' /\ durable'.config = durable.config
      /\ (durable'.active.kind = "v8" => durable.active.kind = "v8")
  BY DEF CutoverInv, DurableInv
<1>2. FenceTypeOK' /\ LockInv'
  BY DEF CutoverInv, FenceTypeOK, LockInv
<1>3. StagedInv' /\ BehindInv'
  BY DEF CutoverInv, StagedInv, BehindInv, Publishable, Fenced
<1>4. FenceBeforeV8'
  BY <1>1 DEF CutoverInv, FenceBeforeV8, Fenced
<1> QED BY <1>1, <1>2, <1>3, <1>4 DEF CutoverInv

LEMMA NextInv == CutoverInv /\ [Next]_vars => CutoverInv'
<1> SUFFICES ASSUME CutoverInv, [Next]_vars PROVE CutoverInv' OBVIOUS
<1>1. ASSUME NEW p \in Cmds, Step(p) PROVE CutoverInv'
  <2>1. CASE Migrate(p)  BY <2>1, MigrateStep
  <2>2. CASE Write(p)    BY <2>2, WriteStep
  <2>3. CASE Fencing(p)  BY <2>3, FencingStep
  <2>4. CASE Refuse(p)   BY <2>4, EndStep DEF Refuse
  <2> QED BY <1>1, <2>1, <2>2, <2>3, <2>4 DEF Step
<1>2. ASSUME NEW p \in Cmds, Stop(p) PROVE CutoverInv'
  BY <1>2, EndStep DEF Stop
<1>3. ASSUME NEW p \in Cmds, NEW op, NEW r, Start(p, op, r) PROVE CutoverInv'
  <2>1. CASE active.kind = "v7"
    BY <1>3, <2>1, MoveStep DEF Start, Labels, Locked, Behind
  <2>2. CASE active.kind # "v7"
    BY <1>3, <2>2, MoveStep DEF Start, Labels, Locked, Behind
  <2> QED BY <2>1, <2>2
<1>4. ASSUME NEW db \in Legacy, OldSync(db) PROVE CutoverInv'
  BY <1>4, AsideStep DEF OldSync, V7Index, fenceVars, CutoverInv, FenceTypeOK, OldInv
<1>5. ASSUME NEW op \in Edits, NEW r \in Roots, OldOpen(op, r) PROVE CutoverInv'
  BY <1>5, OldOpenStep
<1>6. CASE OldFinish
  <2>1. PICK call \in old : /\ inode' = [inode EXCEPT ![call.open] = Whole(call.list)]
                            /\ old' = old \ {call}
                            /\ \E b : durable' = [durable EXCEPT !.due = b]
    BY <1>6 DEF OldFinish, OldWrites
  <2>2. UNCHANGED <<config, dirs, fence, lock, pc, active>>
    BY <1>6 DEF OldFinish, OldWrites
  <2>3. OldInv' /\ call \in [open : Inodes, list : SUBSET Roots]
    BY <2>1 DEF CutoverInv, OldInv
  <2>4. inode' \in [Inodes -> Content]
    BY <2>1, <2>3 DEF CutoverInv, FenceTypeOK, Content, Whole
  <2> QED BY <2>1, <2>2, <2>3, <2>4, AsideStep
<1>7. CASE PowerLoss
  BY <1>7, PowerLossStep
<1>8. CASE Day
  BY <1>8, AsideStep DEF Day, fenceVars, CutoverInv, FenceTypeOK, OldInv
<1>9. CASE UNCHANGED vars
  BY <1>9, AsideStep DEF vars, CutoverInv, FenceTypeOK, OldInv
<1> QED BY <1>1, <1>2, <1>3, <1>4, <1>5, <1>6, <1>7, <1>8, <1>9 DEF Next

(* The v8 index never exists, in memory or after a power loss, without the
   fence that shuts the old writers out.                                   *)
THEOREM SpecFenceBeforeV8 == Spec => []FenceBeforeV8
<1>1. Spec => []CutoverInv
  BY InitInv, NextInv, PTL DEF Spec
<1>2. CutoverInv => FenceBeforeV8
  BY DEF CutoverInv
<1> QED BY <1>1, <1>2, PTL

(* The pathname changes only where no fence is durable; what becomes durable
   is the pathname.                                                        *)
LEMMA PathStep ==
  ASSUME CutoverInv, [Next]_vars, durable.config.kind = "fence"
  PROVE  config' = config /\ durable'.config = durable.config
<1>1. config = durable.config
  BY DEF CutoverInv, DurableInv
<1>2. DOMAIN durable = {"config", "active", "due"}
  BY DEF CutoverInv, DurableInv
<1>3. ASSUME NEW p \in Cmds, Migrate(p) PROVE config' = config /\ durable'.config = durable.config
  BY <1>1, <1>3 DEF Migrate, MigrateBegin, BackupReserve, BackupDone, Copy, Recheck,
                    PublishNext, CannotConfirm, Restore, fenceVars
<1>4. ASSUME NEW p \in Cmds, Write(p) PROVE config' = config /\ durable'.config = durable.config
  BY <1>1, <1>4 DEF Write, Inspect, TakeLock, NothingToRemove, Begin, PublishScratch,
                    CommitInPlace, fenceVars
<1>5. ASSUME NEW p \in Cmds, Fencing(p) PROVE config' = config /\ durable'.config = durable.config
  <2>1. ~Publish(p)
    BY <1>1 DEF Publish, CutoverInv, StagedInv, Publishable
  <2>2. CASE Confirm(p)
    BY <1>1, <1>2, <2>2 DEF Confirm, fenceVars
  <2>3. CASE Link(p) \/ PreflightAgain(p) \/ Stage(p) \/ Synced(p) \/ Complete(p)
    BY <1>1, <2>3 DEF Link, PreflightLink, PreflightAgain, Stage, PreflightStage, Synced,
                      Complete, fenceVars
  <2> QED BY <1>5, <2>1, <2>2, <2>3 DEF Fencing
<1>6. ASSUME NEW p \in Cmds, Refuse(p) \/ Stop(p) PROVE config' = config /\ durable'.config = durable.config
  BY <1>6 DEF Refuse, Stop
<1>7. ASSUME NEW p \in Cmds, NEW op, NEW r, Start(p, op, r)
      PROVE  config' = config /\ durable'.config = durable.config
  BY <1>7 DEF Start, fenceVars
<1>8. CASE \E db \in Legacy : OldSync(db)
  BY <1>2, <1>8 DEF OldSync, fenceVars
<1>9. ASSUME NEW op, NEW r \in Roots PROVE ~OldOpen(op, r)
  BY <1>1 DEF OldOpen, OldOpens
<1>10. CASE OldFinish
  BY <1>2, <1>10 DEF OldFinish, OldWrites
<1>11. CASE PowerLoss
  BY <1>1, <1>11 DEF PowerLoss
<1>12. CASE Day \/ UNCHANGED vars
  BY <1>12 DEF Day, fenceVars, vars
<1> QED BY <1>3, <1>4, <1>5, <1>6, <1>7, <1>8, <1>9, <1>10, <1>11, <1>12 DEF Next, Step

(* Whatever fails or is restored, a durable fence stays where it is. *)
THEOREM SpecFenceIsPermanent == Spec => FenceIsPermanent
<1> DEFINE A == durable.config.kind = "fence"
                  => config' = durable.config /\ durable'.config = durable.config
<1>1. CutoverInv /\ [Next]_vars => [A]_vars
  BY PathStep DEF CutoverInv, DurableInv
<1>2. Spec => []CutoverInv
  BY InitInv, NextInv, PTL DEF Spec
<1> QED BY <1>1, <1>2, PTL DEF Spec, FenceIsPermanent
=============================================================================
