---------------------------- MODULE SyncLockProofs ----------------------------
(***************************************************************************)
(* What holds of SyncLock for every set of writers, of processes killed    *)
(* before the run and of processes that may be killed in it, and for every *)
(* start that the former may have left (SyncLockAssumption).               *)
(***************************************************************************)
EXTENDS SyncLock, TLAPS

(* The objects at the lock path, told apart by their fields.               *)
LEMMA LockShapes ==
  ASSUME NEW l \in Locks
  PROVE  \/ l = Absent \/ l = Malformed
         \/ \E p \in Writers : l = FileOf(p)
         \/ \E S \in SUBSET LegacyWriters : l = Dir(S)
  BY DEF Locks

(* An absent path has no owner.                                            *)
LEMMA AbsentFields == Absent.kind = "absent" /\ Absent.owners = {} /\ Absent \in Locks
  BY DEF Absent, Locks

(* A file whose JSON does not parse names nobody.                          *)
LEMMA MalformedFields ==
  Malformed.kind = "file" /\ Malformed.owners = {} /\ Malformed \in Locks
  BY DEF Malformed, Locks

(* A lock file names its writer.                                           *)
LEMMA FileFields ==
  \A p : /\ FileOf(p).kind = "file" /\ FileOf(p).owners = {p}
         /\ p \in Writers => FileOf(p) \in Locks
  BY DEF FileOf, Locks

(* Two writers' lock files differ.                                         *)
LEMMA FileInjective == \A p, q : FileOf(p) = FileOf(q) => p = q
  <1> SUFFICES ASSUME NEW p, NEW q, FileOf(p) = FileOf(q) PROVE p = q
    OBVIOUS
  <1>1. {p} = FileOf(p).owners /\ {q} = FileOf(q).owners
    BY FileFields
  <1>2. {p} = {q}
    BY <1>1
  <1> QED
    BY <1>2

(* A lock directory holds its owner files.                                 *)
LEMMA DirFields ==
  \A S : /\ Dir(S).kind = "dir" /\ Dir(S).owners = S
         /\ S \subseteq LegacyWriters => Dir(S) \in Locks
  BY DEF Dir, Locks


(* What is not a regular file and not absent is a directory of old owners. *)
LEMMA DirLock ==
  ASSUME NEW l \in Locks
  PROVE  /\ l.kind = "dir" => l.owners \subseteq LegacyWriters /\ l = Dir(l.owners)
         /\ l.kind = "absent" <=> l = Absent
         /\ l.kind = "file" => l = Malformed \/ \E p \in Writers : l = FileOf(p)
         /\ l.kind \in {"absent", "file", "dir"}
         /\ l.owners \subseteq Procs
  <1>1. CASE l = Absent
    BY <1>1, AbsentFields
  <1>2. CASE l = Malformed
    BY <1>2, MalformedFields, AbsentFields
  <1>3. ASSUME NEW p \in Writers, l = FileOf(p) PROVE l.kind = "file" /\ l.owners = {p} /\ l # Absent
    BY <1>3, FileFields, AbsentFields
  <1>4. ASSUME NEW S \in SUBSET LegacyWriters, l = Dir(S)
        PROVE  l.kind = "dir" /\ l.owners = S /\ l # Absent
    BY <1>4, DirFields, AbsentFields
  <1> QED
    BY <1>1, <1>2, <1>3, <1>4, LockShapes DEF Procs

(* The initial debris is one of the lock objects.                          *)
THEOREM TypeInit == Init => TypeOK
  <1> SUFFICES ASSUME Init PROVE TypeOK
    OBVIOUS
  <1>1. lock \in Locks
    <2>1. ASSUME NEW p \in Writers, lock = FileOf(p) PROVE lock \in Locks
      BY <2>1, FileFields
    <2>2. ASSUME NEW p \in LegacyWriters, lock = Dir({p}) PROVE lock \in Locks
      BY <2>2, DirFields
    <2>3. Dir({}) \in Locks
      BY DirFields
    <2> QED
      BY <2>1, <2>2, <2>3, SyncLockAssumption, AbsentFields, MalformedFields DEF Init
  <1>2. pc \in [Procs -> PCs]
    BY DEF Init, PCs, Ended
  <1>3. seen \in [Procs -> Locks] /\ polls \in [Procs -> 0 .. MaxPolls]
    BY SyncLockAssumption, AbsentFields DEF Init
  <1> QED
    BY <1>1, <1>2, <1>3 DEF Init, TypeOK

(* Every operation, of the Rust writer and of the old one, keeps the types. *)
THEOREM TypeStep == TypeOK /\ [Next]_vars => TypeOK'
  <1> SUFFICES ASSUME TypeOK, [Next]_vars PROVE TypeOK'
    OBVIOUS
  <1> USE DEF TypeOK, Goto, PCs, Acquiring, Dropping, Ended
  <1>1. CASE UNCHANGED vars
    BY <1>1 DEF vars
  <1>2. ASSUME NEW p \in Writers, CreateClaim(p) PROVE TypeOK'
    BY <1>2 DEF CreateClaim, Procs
  <1>3. ASSUME NEW p \in Writers, HardLink(p) PROVE TypeOK'
    BY <1>3, FileFields DEF HardLink, Procs
  <1>4. ASSUME NEW p \in Writers, ObserveStat(p) PROVE TypeOK'
    BY <1>4 DEF ObserveStat, Procs
  <1>5. ASSUME NEW p \in Writers, ObserveRead(p) PROVE TypeOK'
    BY <1>5 DEF ObserveRead, Procs
  <1>6. ASSUME NEW p \in Writers, ProbeOwner(p) PROVE TypeOK'
    BY <1>6 DEF ProbeOwner, Procs
  <1>7. ASSUME NEW p \in Writers, RecheckFile(p) PROVE TypeOK'
    BY <1>7 DEF RecheckFile, Procs
  <1>8. ASSUME NEW p \in Writers, UnlinkFile(p) PROVE TypeOK'
    BY <1>8, AbsentFields DEF UnlinkFile, Procs
  <1>9. ASSUME NEW p \in Writers, RemoveOwnerInfo(p) PROVE TypeOK'
    BY <1>9, AbsentFields, DirFields, DirLock DEF RemoveOwnerInfo, Procs
  <1>10. ASSUME NEW p \in Writers, RemoveOwnedDir(p) PROVE TypeOK'
    BY <1>10, AbsentFields DEF RemoveOwnedDir, Procs
  <1>11. ASSUME NEW p \in Writers, RemoveEmptyDir(p) PROVE TypeOK'
    BY <1>11, AbsentFields DEF RemoveEmptyDir, Procs
  <1>12. ASSUME NEW p \in Writers, Sleep(p) PROVE TypeOK'
    BY <1>12, SyncLockAssumption DEF Sleep, Procs
  <1>13. ASSUME NEW p \in Writers, Timeout(p) PROVE TypeOK'
    BY <1>13 DEF Timeout, Procs
  <1>14. ASSUME NEW p \in Writers, LeaveRegion(p) PROVE TypeOK'
    BY <1>14 DEF LeaveRegion, Procs
  <1>15. ASSUME NEW p \in Writers, DropObserve(p) PROVE TypeOK'
    BY <1>15 DEF DropObserve, Procs
  <1>16. ASSUME NEW p \in Writers, DropRecheck(p) PROVE TypeOK'
    BY <1>16 DEF DropRecheck, Procs
  <1>17. ASSUME NEW p \in Writers, DropUnlink(p) PROVE TypeOK'
    BY <1>17, AbsentFields DEF DropUnlink, Procs
  <1>18. ASSUME NEW p \in LegacyWriters, LegacyMkdir(p) PROVE TypeOK'
    BY <1>18, DirFields DEF LegacyMkdir, Procs
  <1>19. ASSUME NEW p \in LegacyWriters, LegacyWriteInfo(p) PROVE TypeOK'
    BY <1>19, DirFields, DirLock DEF LegacyWriteInfo, Procs
  <1>20. ASSUME NEW p \in LegacyWriters, LegacyLeave(p) PROVE TypeOK'
    BY <1>20 DEF LegacyLeave, Procs
  <1>21. ASSUME NEW p \in LegacyWriters, LegacyUnlinkInfo(p) PROVE TypeOK'
    BY <1>21, DirFields, DirLock, LockShapes DEF LegacyUnlinkInfo, Procs
  <1>22. ASSUME NEW p \in LegacyWriters, LegacyRmdir(p) PROVE TypeOK'
    BY <1>22, AbsentFields DEF LegacyRmdir, Procs
  <1>23. ASSUME NEW p \in Procs, Crash(p) PROVE TypeOK'
    BY <1>23 DEF Crash, Procs
  <1> QED
    BY <1>1, <1>2, <1>3, <1>4, <1>5, <1>6, <1>7, <1>8, <1>9, <1>10, <1>11,
       <1>12, <1>13, <1>14, <1>15, <1>16, <1>17, <1>18, <1>19, <1>20,
       <1>21, <1>22, <1>23 DEF Next, AcquireStep, DropStep, LegacyStep

(* The inductive invariant is kept by every step.                          *)
LEMMA InvStep == LockInv /\ [Next]_vars => LockInv'
  <1> SUFFICES ASSUME LockInv, [Next]_vars PROVE LockInv'
    OBVIOUS
  <1> DEFINE Rest == /\ KindOfProcess /\ FileNamesOwner /\ HolderOwnsPath
                     /\ SoleReclaimer /\ RaceNeedsDebris /\ FreshDir /\ ReclaimTargets
  <1> USE SyncLockAssumption DEF Goto, PCs, Acquiring, Dropping, Ended, LockInv, TypeOK, Procs
  <1> USE DEF KindOfProcess, FileNamesOwner, HolderOwnsPath, ReclaimTargets,
         SoleReclaimer, RaceNeedsDebris, FreshDir
  <1>1. CASE UNCHANGED vars
    BY <1>1 DEF vars
  <1>2. ASSUME NEW p \in Writers, CreateClaim(p) PROVE Rest'
    BY <1>2, AbsentFields, MalformedFields, FileFields, DirFields, DirLock DEF
       CreateClaim, ProcessAlive
  <1>3. ASSUME NEW p \in Writers, HardLink(p) PROVE Rest'
    <2>1. KindOfProcess'
      BY <1>3, AbsentFields, MalformedFields, FileFields, DirFields, DirLock
         DEF HardLink
    <2>2. FileNamesOwner'
      <3> SUFFICES ASSUME NEW q \in Procs, lock' = FileOf(q)
                   PROVE  pc'[q] \in {"held", "crashed"} \cup Dropping
        BY DEF FileNamesOwner
      <3>1. CASE lock.kind = "absent"
        <4>1. lock' = FileOf(p) /\ pc'[p] = "held"
          BY <1>3, <3>1 DEF HardLink
        <4>2. FileOf(q) = FileOf(p)
          BY <4>1
        <4>3. q = p
          BY ONLY <4>2, FileInjective
        <4> QED
          BY <4>1, <4>3
      <3>2. CASE lock.kind # "absent"
        <4>1. lock' = lock /\ pc' = [pc EXCEPT ![p] = "stat"] /\ pc[p] = "link"
          BY <1>3, <3>2 DEF HardLink
        <4>2. pc[q] \in {"held", "crashed"} \cup Dropping
          BY <4>1
        <4> QED
          BY <4>1, <4>2
      <3> QED
        BY <3>1, <3>2
    <2>3. HolderOwnsPath'
      BY <1>3, AbsentFields, MalformedFields, FileFields, DirFields, DirLock
         DEF HardLink
    <2>4. ReclaimTargets'
      BY <1>3, AbsentFields, MalformedFields, FileFields, DirFields, DirLock
         DEF HardLink
    <2>5. SoleReclaimer'
      BY <1>3, AbsentFields, MalformedFields, FileFields, DirFields, DirLock
         DEF HardLink
    <2>6. RaceNeedsDebris'
      <3>1. raced' => raced
        BY <1>3 DEF HardLink
      <3>2. \A q \in Procs : pc[q] = "crashed" => pc'[q] = "crashed"
        BY <1>3 DEF HardLink
      <3> QED
        BY <3>1, <3>2 DEF RaceNeedsDebris
    <2>7. FreshDir'
      BY <1>3, AbsentFields, MalformedFields, FileFields, DirFields, DirLock
         DEF HardLink
    <2> QED
      BY <2>1, <2>2, <2>3, <2>4, <2>5, <2>6, <2>7
  <1>4. ASSUME NEW p \in Writers, ObserveStat(p) PROVE Rest'
    BY <1>4, AbsentFields, MalformedFields, FileFields, DirFields, DirLock DEF
       ObserveStat, ProcessAlive
  <1>5. ASSUME NEW p \in Writers, ObserveRead(p) PROVE Rest'
    BY <1>5, AbsentFields, MalformedFields, FileFields, DirFields, DirLock DEF
       ObserveRead, ProcessAlive
  <1>6. ASSUME NEW p \in Writers, ProbeOwner(p) PROVE Rest'
    BY <1>6, AbsentFields, MalformedFields, FileFields, DirFields, DirLock DEF
       ProbeOwner, ProcessAlive
  <1>7. ASSUME NEW p \in Writers, RecheckFile(p) PROVE Rest'
    <2>1. KindOfProcess'
      BY <1>7, AbsentFields, MalformedFields, FileFields, DirFields, DirLock
         DEF RecheckFile
    <2>2. FileNamesOwner'
      BY <1>7, AbsentFields, MalformedFields, FileFields, DirFields, DirLock
         DEF RecheckFile
    <2>3. HolderOwnsPath'
      BY <1>7, AbsentFields, MalformedFields, FileFields, DirFields, DirLock
         DEF RecheckFile
    <2>4. SoleReclaimer'
      <3> SUFFICES ASSUME ~raced', NEW q \in Procs, pc'[q] = "unlink"
                   PROVE  /\ lock' = seen'[q]
                          /\ \A r \in Procs : pc'[r] = "unlink" => r = q
        BY DEF SoleReclaimer
      <3>1. ~raced /\ UNCHANGED <<lock, seen>>
        BY <1>7 DEF RecheckFile
      <3>2. CASE lock = seen[p] /\ Goto(p, "recheck", "unlink")
        <4>1. \A r \in Procs \ {p} : pc'[r] = pc[r] /\ pc[r] # "unlink"
          BY <3>2
        <4> QED
          BY <3>1, <3>2, <4>1
      <3>3. CASE pc'[p] # "unlink"
        BY <1>7, <3>1, <3>3 DEF RecheckFile
      <3> QED
        BY <1>7, <3>2, <3>3 DEF RecheckFile
    <2>5. RaceNeedsDebris'
      <3> SUFFICES ASSUME raced' PROVE \E q \in Procs : pc'[q] = "crashed"
        BY DEF RaceNeedsDebris
      <3>1. \A q \in Procs : pc[q] = "crashed" => pc'[q] = "crashed"
        BY <1>7 DEF RecheckFile
      <3>2. CASE raced
        BY <3>1, <3>2
      <3>3. CASE \E q \in Procs : pc[q] = "unlink"
        <4>1. PICK q \in Procs : pc[q] = "unlink"
          BY <3>3
        <4>2. PICK r \in seen[q].owners : pc[r] = "crashed"
          BY <4>1
        <4>3. r \in Procs
          BY <4>1, <4>2, DirLock
        <4> QED
          BY <3>1, <4>2, <4>3
      <3> QED
        BY <1>7, <3>2, <3>3 DEF RecheckFile
    <2>6. FreshDir'
      BY <1>7, AbsentFields, MalformedFields, FileFields, DirFields, DirLock
         DEF RecheckFile
    <2>7. ReclaimTargets'
      BY <1>7, AbsentFields, MalformedFields, FileFields, DirFields, DirLock
         DEF RecheckFile
    <2> QED
      BY <2>1, <2>2, <2>3, <2>4, <2>5, <2>6, <2>7
  <1>8. ASSUME NEW p \in Writers, UnlinkFile(p) PROVE Rest'
    BY <1>8, AbsentFields, MalformedFields, FileFields, DirFields, DirLock DEF
       UnlinkFile, ProcessAlive
  <1>9. ASSUME NEW p \in Writers, RemoveOwnerInfo(p) PROVE Rest'
    <2>1. KindOfProcess'
      BY <1>9, AbsentFields, MalformedFields, FileFields, DirFields, DirLock
         DEF RemoveOwnerInfo
    <2>2. FileNamesOwner'
      BY <1>9, AbsentFields, MalformedFields, FileFields, DirFields, DirLock
         DEF RemoveOwnerInfo
    <2>3. HolderOwnsPath'
      <3> SUFFICES ASSUME ~raced' PROVE HolderOwnsPath'
        BY DEF HolderOwnsPath
      <3>1. ~raced
        BY <1>9 DEF RemoveOwnerInfo
      <3>2. \A q \in Procs : pc'[q] \in {"held", "lgHeld", "lgUnlink"} \cup Dropping
                              => pc'[q] = pc[q]
        BY <1>9 DEF RemoveOwnerInfo
      <3>3. CASE lock.kind = "file"
        BY <1>9, <3>1, <3>2, <3>3 DEF RemoveOwnerInfo
      <3>4. CASE lock.kind # "file"
        <4>1. \A q \in Procs : lock # FileOf(q)
          BY <3>4, FileFields
        <4>2. ASSUME NEW q \in Procs, pc[q] \in {"lgHeld", "lgUnlink"}
              PROVE  lock' = Dir({q})
          <5>1. lock = Dir({q}) /\ lock.owners = {q} /\ lock # Absent
            BY <3>1, <4>2, DirFields, AbsentFields
          <5>2. q \notin seen[p].owners
            BY <1>9, <4>2 DEF RemoveOwnerInfo
          <5>3. lock' = Dir({q} \ seen[p].owners)
            BY <1>9, <3>4, <5>1 DEF RemoveOwnerInfo
          <5>4. {q} \ seen[p].owners = {q}
            BY <5>2
          <5> QED
            BY <5>3, <5>4
        <4> QED
          BY <3>1, <3>2, <4>1, <4>2
      <3> QED
        BY <3>3, <3>4
    <2>4. SoleReclaimer'
      BY <1>9, AbsentFields, MalformedFields, FileFields, DirFields, DirLock
         DEF RemoveOwnerInfo
    <2>5. RaceNeedsDebris'
      <3>1. raced' => raced
        BY <1>9 DEF RemoveOwnerInfo
      <3>2. \A q \in Procs : pc[q] = "crashed" => pc'[q] = "crashed"
        BY <1>9 DEF RemoveOwnerInfo
      <3> QED
        BY <3>1, <3>2 DEF RaceNeedsDebris
    <2>6. FreshDir'
      <3> SUFFICES ASSUME NEW q \in LegacyWriters, pc'[q] = "lgInfo", lock'.kind = "dir"
                   PROVE  lock' = Dir({})
        BY DEF FreshDir
      <3>1. pc[q] = "lgInfo"
        BY <1>9 DEF RemoveOwnerInfo
      <3>2. CASE lock' = lock
        BY <3>1, <3>2
      <3>3. CASE lock' # lock
        <4>1. lock # Absent /\ lock.kind # "file" /\ lock' = Dir(lock.owners \ seen[p].owners)
          BY <1>9, <3>3 DEF RemoveOwnerInfo
        <4>2. lock = Dir({})
          BY <3>1, <4>1, DirLock
        <4>3. lock.owners \ seen[p].owners = {}
          BY <4>2, DirFields
        <4> QED
          BY <4>1, <4>3
      <3> QED
        BY <3>2, <3>3
    <2>7. ReclaimTargets'
      <3>1. seen' = seen /\ \A q \in Procs : pc[q] \in Ended => pc'[q] = pc[q]
        BY <1>9 DEF RemoveOwnerInfo
      <3>2. \A q \in Procs : pc'[q] \in {"probe", "recheck", "unlink", "rmInfo"}
                              => pc'[q] = pc[q]
        BY <1>9 DEF RemoveOwnerInfo
      <3>3. \A q \in Procs : seen[q].owners \subseteq Procs
        BY DirLock
      <3> QED
        BY <3>1, <3>2, <3>3
    <2> QED
      BY <2>1, <2>2, <2>3, <2>4, <2>5, <2>6, <2>7
  <1>10. ASSUME NEW p \in Writers, RemoveOwnedDir(p) PROVE Rest'
    <2>1. KindOfProcess'
      BY <1>10, AbsentFields, MalformedFields, FileFields, DirFields, DirLock
         DEF RemoveOwnedDir
    <2>2. FileNamesOwner'
      BY <1>10, AbsentFields, MalformedFields, FileFields, DirFields, DirLock
         DEF RemoveOwnedDir
    <2>3. HolderOwnsPath'
      <3> SUFFICES ASSUME ~raced' PROVE HolderOwnsPath'
        BY DEF HolderOwnsPath
      <3>1. ~raced
        BY <1>10 DEF RemoveOwnedDir
      <3>2. \A q \in Procs : pc'[q] \in {"held", "lgHeld", "lgUnlink"} \cup Dropping
                              => pc'[q] = pc[q]
        BY <1>10 DEF RemoveOwnedDir
      <3>3. CASE lock' = lock
        BY <3>1, <3>2, <3>3
      <3>4. CASE lock' # lock
        <4>1. lock = Dir({})
          BY <1>10, <3>4 DEF RemoveOwnedDir
        <4>2. \A q \in Procs : lock # FileOf(q) /\ lock # Dir({q})
          BY <4>1, FileFields, DirFields
        <4> QED
          BY <3>1, <3>2, <4>2
      <3> QED
        BY <3>3, <3>4
    <2>4. ReclaimTargets'
      BY <1>10, AbsentFields, MalformedFields, FileFields, DirFields, DirLock
         DEF RemoveOwnedDir
    <2>5. SoleReclaimer'
      BY <1>10, AbsentFields, MalformedFields, FileFields, DirFields, DirLock
         DEF RemoveOwnedDir
    <2>6. RaceNeedsDebris'
      <3>1. raced' => raced
        BY <1>10 DEF RemoveOwnedDir
      <3>2. \A q \in Procs : pc[q] = "crashed" => pc'[q] = "crashed"
        BY <1>10 DEF RemoveOwnedDir
      <3> QED
        BY <3>1, <3>2 DEF RaceNeedsDebris
    <2>7. FreshDir'
      BY <1>10, AbsentFields, MalformedFields, FileFields, DirFields, DirLock
         DEF RemoveOwnedDir
    <2> QED
      BY <2>1, <2>2, <2>3, <2>4, <2>5, <2>6, <2>7
  <1>11. ASSUME NEW p \in Writers, RemoveEmptyDir(p) PROVE Rest'
    <2>1. KindOfProcess'
      BY <1>11, AbsentFields, MalformedFields, FileFields, DirFields, DirLock
         DEF RemoveEmptyDir
    <2>2. FileNamesOwner'
      BY <1>11, AbsentFields, MalformedFields, FileFields, DirFields, DirLock
         DEF RemoveEmptyDir
    <2>3. HolderOwnsPath'
      <3> SUFFICES ASSUME ~raced' PROVE HolderOwnsPath'
        BY DEF HolderOwnsPath
      <3>1. ~raced
        BY <1>11 DEF RemoveEmptyDir
      <3>2. \A q \in Procs : pc'[q] \in {"held", "lgHeld", "lgUnlink"} \cup Dropping
                              => pc'[q] = pc[q]
        BY <1>11 DEF RemoveEmptyDir
      <3>3. CASE lock' = lock
        BY <3>1, <3>2, <3>3
      <3>4. CASE lock' # lock
        <4>1. lock = Dir({})
          BY <1>11, <3>4 DEF RemoveEmptyDir
        <4>2. \A q \in Procs : lock # FileOf(q) /\ lock # Dir({q})
          BY <4>1, FileFields, DirFields
        <4> QED
          BY <3>1, <3>2, <4>2
      <3> QED
        BY <3>3, <3>4
    <2>4. ReclaimTargets'
      BY <1>11, AbsentFields, MalformedFields, FileFields, DirFields, DirLock
         DEF RemoveEmptyDir
    <2>5. SoleReclaimer'
      BY <1>11, AbsentFields, MalformedFields, FileFields, DirFields, DirLock
         DEF RemoveEmptyDir
    <2>6. RaceNeedsDebris'
      <3>1. raced' => raced
        BY <1>11 DEF RemoveEmptyDir
      <3>2. \A q \in Procs : pc[q] = "crashed" => pc'[q] = "crashed"
        BY <1>11 DEF RemoveEmptyDir
      <3> QED
        BY <3>1, <3>2 DEF RaceNeedsDebris
    <2>7. FreshDir'
      BY <1>11, AbsentFields, MalformedFields, FileFields, DirFields, DirLock
         DEF RemoveEmptyDir
    <2> QED
      BY <2>1, <2>2, <2>3, <2>4, <2>5, <2>6, <2>7
  <1>12. ASSUME NEW p \in Writers, Sleep(p) PROVE Rest'
    BY <1>12, AbsentFields, MalformedFields, FileFields, DirFields, DirLock
       DEF Sleep, ProcessAlive
  <1>13. ASSUME NEW p \in Writers, Timeout(p) PROVE Rest'
    BY <1>13, AbsentFields, MalformedFields, FileFields, DirFields, DirLock
       DEF Timeout, ProcessAlive
  <1>14. ASSUME NEW p \in Writers, LeaveRegion(p) PROVE Rest'
    BY <1>14, AbsentFields, MalformedFields, FileFields, DirFields, DirLock
       DEF LeaveRegion, ProcessAlive
  <1>15. ASSUME NEW p \in Writers, DropObserve(p) PROVE Rest'
    BY <1>15, AbsentFields, MalformedFields, FileFields, DirFields, DirLock
       DEF DropObserve, ProcessAlive
  <1>16. ASSUME NEW p \in Writers, DropRecheck(p) PROVE Rest'
    BY <1>16, AbsentFields, MalformedFields, FileFields, DirFields, DirLock
       DEF DropRecheck, ProcessAlive
  <1>17. ASSUME NEW p \in Writers, DropUnlink(p) PROVE Rest'
    <2>1. KindOfProcess'
      BY <1>17, AbsentFields, MalformedFields, FileFields, DirFields, DirLock
         DEF DropUnlink
    <2>2. FileNamesOwner'
      BY <1>17, AbsentFields, MalformedFields, FileFields, DirFields, DirLock
         DEF DropUnlink
    <2>3. HolderOwnsPath'
      <3> SUFFICES ASSUME ~raced' PROVE HolderOwnsPath'
        BY DEF HolderOwnsPath
      <3>1. ~raced /\ lock = FileOf(p)
        BY <1>17 DEF DropUnlink
      <3>2. \A q \in Procs : q # p => pc'[q] = pc[q] /\ lock # FileOf(q)
        BY <1>17, <3>1, FileInjective DEF DropUnlink
      <3>3. \A q \in Procs : lock # Dir({q})
        BY <3>1, FileFields, DirFields
      <3>4. pc'[p] = "released"
        BY <1>17 DEF DropUnlink
      <3> QED
        BY <3>1, <3>2, <3>3, <3>4
    <2>4. ReclaimTargets'
      BY <1>17, AbsentFields, MalformedFields, FileFields, DirFields, DirLock
         DEF DropUnlink
    <2>5. SoleReclaimer'
      BY <1>17, AbsentFields, MalformedFields, FileFields, DirFields, DirLock
         DEF DropUnlink
    <2>6. RaceNeedsDebris'
      <3>1. raced' => raced
        BY <1>17 DEF DropUnlink
      <3>2. \A q \in Procs : pc[q] = "crashed" => pc'[q] = "crashed"
        BY <1>17 DEF DropUnlink
      <3> QED
        BY <3>1, <3>2 DEF RaceNeedsDebris
    <2>7. FreshDir'
      BY <1>17, AbsentFields, MalformedFields, FileFields, DirFields, DirLock
         DEF DropUnlink
    <2> QED
      BY <2>1, <2>2, <2>3, <2>4, <2>5, <2>6, <2>7
  <1>18. ASSUME NEW p \in LegacyWriters, LegacyMkdir(p) PROVE Rest'
    BY <1>18, AbsentFields, MalformedFields, FileFields, DirFields, DirLock
       DEF LegacyMkdir, ProcessAlive
  <1>19. ASSUME NEW p \in LegacyWriters, LegacyWriteInfo(p) PROVE Rest'
    <2>1. KindOfProcess'
      BY <1>19, AbsentFields, MalformedFields, FileFields, DirFields, DirLock
         DEF LegacyWriteInfo
    <2>2. FileNamesOwner'
      BY <1>19, AbsentFields, MalformedFields, FileFields, DirFields, DirLock
         DEF LegacyWriteInfo
    <2>3. HolderOwnsPath'
      <3> SUFFICES ASSUME ~raced' PROVE HolderOwnsPath'
        BY DEF HolderOwnsPath
      <3>1. ~raced
        BY <1>19 DEF LegacyWriteInfo
      <3>2. CASE lock.kind = "dir"
        <4>1. lock = Dir({}) /\ lock' = Dir(lock.owners \cup {p})
          BY <1>19, <3>2 DEF LegacyWriteInfo
        <4>2. lock' = Dir({p})
          <5>1. lock.owners \cup {p} = {p}
            BY <4>1, DirFields
          <5> QED
            BY <4>1, <5>1
        <4>3. \A q \in Procs : lock # FileOf(q)
          BY <3>2, FileFields
        <4>4. pc' = [pc EXCEPT ![p] = "lgHeld"]
          BY <1>19, <3>2 DEF LegacyWriteInfo
        <4>5. \A q \in Procs : pc'[q] \in {"held"} \cup Dropping => lock' = FileOf(q)
          BY <3>1, <4>3, <4>4
        <4>6. \A q \in Procs : pc'[q] \in {"lgHeld", "lgUnlink"} => lock' = Dir({q})
          <5> SUFFICES ASSUME NEW q \in Procs, pc'[q] \in {"lgHeld", "lgUnlink"}
                       PROVE  q = p
            BY <4>2
          <5>1. q \in LegacyWriters \ Departed /\ p \in LegacyWriters \ Departed
            BY <1>19, <4>4 DEF LegacyWriteInfo
          <5> QED
            BY <5>1
        <4> QED
          BY <4>5, <4>6
      <3>3. CASE lock.kind # "dir"
        BY <1>19, <3>1, <3>3 DEF LegacyWriteInfo
      <3> QED
        BY <3>2, <3>3
    <2>4. ReclaimTargets'
      BY <1>19, AbsentFields, MalformedFields, FileFields, DirFields, DirLock
         DEF LegacyWriteInfo
    <2>5. SoleReclaimer'
      BY <1>19, AbsentFields, MalformedFields, FileFields, DirFields, DirLock
         DEF LegacyWriteInfo
    <2>6. RaceNeedsDebris'
      <3>1. raced' => raced
        BY <1>19 DEF LegacyWriteInfo
      <3>2. \A q \in Procs : pc[q] = "crashed" => pc'[q] = "crashed"
        BY <1>19 DEF LegacyWriteInfo
      <3> QED
        BY <3>1, <3>2 DEF RaceNeedsDebris
    <2>7. FreshDir'
      BY <1>19, AbsentFields, MalformedFields, FileFields, DirFields, DirLock
         DEF LegacyWriteInfo
    <2> QED
      BY <2>1, <2>2, <2>3, <2>4, <2>5, <2>6, <2>7
  <1>20. ASSUME NEW p \in LegacyWriters, LegacyLeave(p) PROVE Rest'
    BY <1>20, AbsentFields, MalformedFields, FileFields, DirFields, DirLock
       DEF LegacyLeave, ProcessAlive
  <1>21. ASSUME NEW p \in LegacyWriters, LegacyUnlinkInfo(p) PROVE Rest'
    BY <1>21, AbsentFields, MalformedFields, FileFields, DirFields, DirLock
       DEF LegacyUnlinkInfo, ProcessAlive
  <1>22. ASSUME NEW p \in LegacyWriters, LegacyRmdir(p) PROVE Rest'
    BY <1>22, AbsentFields, MalformedFields, FileFields, DirFields, DirLock
       DEF LegacyRmdir, ProcessAlive
  <1>23. ASSUME NEW p \in Procs, Crash(p) PROVE Rest'
    BY <1>23, AbsentFields, MalformedFields, FileFields, DirFields, DirLock
       DEF Crash, ProcessAlive
  <1> QED
    BY TypeStep, <1>1, <1>2, <1>3, <1>4, <1>5, <1>6, <1>7, <1>8, <1>9,
       <1>10, <1>11, <1>12, <1>13, <1>14, <1>15, <1>16, <1>17, <1>18,
       <1>19, <1>20, <1>21, <1>22, <1>23 DEF Next, AcquireStep, DropStep,
       LegacyStep

(* The initial debris names nobody alive, and nobody is inside.            *)
LEMMA InvInit == Init => LockInv
  <1> SUFFICES ASSUME Init PROVE LockInv
    OBVIOUS
  <1>1. TypeOK
    BY TypeInit
  <1>2. \A p \in Procs : pc[p] = IF p \in Departed THEN "crashed" ELSE "idle"
    BY DEF Init
  <1>3. KindOfProcess /\ HolderOwnsPath /\ ReclaimTargets
    BY <1>2, SyncLockAssumption
    DEF KindOfProcess, HolderOwnsPath, ReclaimTargets, Procs, Acquiring, Dropping
  <1>4. SoleReclaimer /\ RaceNeedsDebris /\ FreshDir
    BY <1>2 DEF Init, SoleReclaimer, RaceNeedsDebris, FreshDir, Procs
  <1>5. FileNamesOwner
    <2> SUFFICES ASSUME NEW p \in Procs, lock = FileOf(p)
                 PROVE  p \in Departed
      BY <1>2 DEF FileNamesOwner
    <2>1. lock.kind = "file" /\ lock.owners = {p}
      BY FileFields
    <2>2. lock # Absent /\ lock # Malformed /\ \A S : lock # Dir(S)
      BY <2>1, AbsentFields, MalformedFields, DirFields
    <2>3. PICK q \in Writers \cap Departed : lock = FileOf(q)
      BY <2>2, SyncLockAssumption DEF Init
    <2>4. q = p
      BY <2>3, FileInjective
    <2> QED
      BY <2>4
  <1> QED
    BY <1>1, <1>3, <1>4, <1>5 DEF LockInv

(* The inductive invariant of the lock holds in every reachable state.     *)
THEOREM LockInvariant == Spec => []LockInv
  BY InvInit, InvStep, PTL DEF Spec

(* The variables of the lock keep their types.                             *)
THEOREM TypeCorrect == Spec => []TypeOK
  BY TypeInit, TypeStep, PTL DEF Spec

(* Until two writers have stood together before the unlink of a dead       *)
(* owner's file, at most one process is in the protected region: for any   *)
(* number of writers and one live old writer, whoever is killed before or  *)
(* during the run and whatever he left at the path.                        *)
THEOREM ExclusionUntilRaced == Spec => []ExclusiveUntilRaced
  <1>1. LockInv => ExclusiveUntilRaced
    <2> SUFFICES ASSUME LockInv, ~raced, NEW p \in Procs, NEW q \in Procs,
                        Holds(p), Holds(q)
                 PROVE  p = q
      BY DEF ExclusiveUntilRaced, MutualExclusion
    <2>1. /\ pc[p] = "held" => lock = FileOf(p)
          /\ pc[q] = "held" => lock = FileOf(q)
          /\ pc[p] = "lgHeld" => lock = Dir({p})
          /\ pc[q] = "lgHeld" => lock = Dir({q})
      BY DEF LockInv, HolderOwnsPath
    <2>2. pc[p] = "lgHeld" /\ pc[q] = "lgHeld" => p = q
      BY SyncLockAssumption DEF LockInv, KindOfProcess, Procs, Acquiring,
         Dropping
    <2> QED
      BY <2>1, <2>2, FileInjective, FileFields, DirFields DEF Holds
  <1> QED
    BY <1>1, LockInvariant, PTL

(* Only a killed writer leaves its lock file behind, whatever happened to  *)
(* the others.                                                             *)
THEOREM DebrisIsOfTheKilled == Spec => []OnlyTheKilledLeaveDebris
  <1>1. LockInv => OnlyTheKilledLeaveDebris
    BY DEF LockInv, FileNamesOwner, OnlyTheKilledLeaveDebris, Procs, Dropping
  <1> QED
    BY <1>1, LockInvariant, PTL

(* When the code is about to unlink somebody's lock file, the process it   *)
(* observed in it was killed.                                              *)
THEOREM ReclaimIsOfTheDead == Spec => []ReclaimsOnlyTheDead
  <1>1. LockInv => ReclaimsOnlyTheDead
    BY DEF LockInv, ReclaimTargets, ReclaimsOnlyTheDead, Procs
  <1> QED
    BY <1>1, LockInvariant, PTL

=============================================================================
