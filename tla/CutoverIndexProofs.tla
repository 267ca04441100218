------------------------- MODULE CutoverIndexProofs -------------------------
(***************************************************************************)
(* For any number of commands, recovery directories, old calls, faults and *)
(* days, and any v7 databases: the index at the active path is whole, a    *)
(* backup of what was migrated is kept, and the registrations in force are *)
(* those the users are owed.                                               *)
(***************************************************************************)
EXTENDS CutoverProofs, SequenceTheorems

(* The databases.  What is durable is v8 only if it is the index.          *)
Backup == [db : Legacy, whole : BOOLEAN, stale : BOOLEAN]
WholeAt(a) ==
  CASE a.kind = "v8" /\ truth.kind = "v7" -> Body(a.v8) = Body(CopyOf(truth.v7, {}))
    [] a.kind = "v8" /\ truth.kind # "v7" -> Body(a.v8) = Body(NewIndex({}))
    [] OTHER                              -> a = truth

IndexInv ==
  /\ truth = NoIndex \/ \E db \in Legacy : truth = V7Index(db)
  /\ active.kind \in {"none", "v7", "v8"} /\ durable.active.kind \in {"none", "v7", "v8"}
  /\ WholeAt(active) /\ WholeAt(durable.active)
  /\ durable.active.kind = "v8" => active = durable.active
  /\ active.kind = "v8" => active.v8.roots \subseteq Roots /\ "roots" \in DOMAIN active.v8

BackupInv ==
  /\ backups \in Seq(Backup)
  /\ BackupRemains

(* What a command remembers, at the steps where it acts on it. *)
Snapshot(p) == fence[p].snapshot
BeforeSwitch == {"recheck", "preflight", "stage", "publish", "confirm", "switch"}
AfterSwitch == {"synced", "complete", "restore"}

CmdFields == {"op", "root", "layout", "mode", "bootstrap", "roots", "next"}
CmdInv(p) ==
  /\ DOMAIN cmd[p] = CmdFields
  /\ cmd[p].mode \in {"none", "migrate", "write"}
  /\ cmd[p].bootstrap \in BOOLEAN
  /\ cmd[p].roots \subseteq Roots
  /\ cmd[p].op = "add" => cmd[p].root \in Roots
  /\ pc[p] \in {"backup", "vacuum", "copy", "recheck", "restore"} => cmd[p].mode = "migrate"
  /\ pc[p] \in {"lock", "begin"} => cmd[p].mode = "write"
  /\ pc[p] \in Locked => cmd[p].mode \in {"migrate", "write"}

(* A migration: the file was parsed, the last backup is its own, and until
   the switch the v7 index is the one that was backed up and copied.       *)
OwnLast == /\ backups # <<>> /\ truth.kind = "v7"
           /\ OwnBackup = truth.v7
MigrateInv(p) ==
  pc[p] \in Locked /\ cmd[p].mode = "migrate" =>
    /\ cmd[p].roots = Snapshot(p).roots
    /\ pc[p] \in {"backup", "vacuum", "copy"} \cup BeforeSwitch => active.kind = "v7"
    /\ pc[p] \in AfterSwitch => active.kind = "v8" /\ cmd[p].roots = active.v8.roots
    /\ pc[p] # "backup" => Snapshot(p).whole /\ OwnLast
    /\ pc[p] \notin {"backup", "vacuum"} => backups[Len(backups)].whole
    /\ pc[p] \in BeforeSwitch => cmd[p].next = V8Index(CopyOf(truth.v7, cmd[p].roots))

(* A sync or an edit: what it imports was parsed, it imports only if there
   is no index, and it edits the registrations of the index there is.      *)
WriteInv(p) ==
  /\ pc[p] = "inspect" /\ active.kind = "none" => cmd[p].layout = "none"
  /\ (pc[p] \in Locked \/ pc[p] = "lock") /\ cmd[p].mode = "write" =>
       /\ cmd[p].bootstrap => Snapshot(p).whole /\ cmd[p].roots = Snapshot(p).roots
       /\ pc[p] = "lock" /\ active.kind = "none" /\ cmd[p].op # "remove" => cmd[p].bootstrap
       /\ pc[p] \in {"preflight", "stage", "begin", "publish", "confirm", "switch"}
            /\ active.kind = "none" => cmd[p].bootstrap
       /\ pc[p] \in {"publish", "confirm", "switch"} =>
            /\ active.kind \in {"none", "v8"}
            /\ active.kind = "none" =>
                 cmd[p].next = V8Index(NewIndex(Edited(p, cmd[p].roots)))
            /\ active.kind = "v8" =>
                 /\ ~cmd[p].bootstrap
                 /\ cmd[p].next = V8Index([active.v8 EXCEPT !.roots = Edited(p, @)])
       /\ pc[p] \in AfterSwitch => active.kind = "v8"
       /\ pc[p] \in AfterSwitch /\ cmd[p].bootstrap =>
            active.v8.roots = Edited(p, cmd[p].roots)

(* The file of the registrations is one and the same, whatever way leads to
   it, and old writers have that one open.                                 *)
RecordedBy(path) == CASE path.kind = "file"  -> path.at
                      [] path.kind = "fence" -> dirs[path.at].backup
                      [] OTHER               -> NoInode
FileInv ==
  /\ RecordedBy(durable.config) = Recorded
  /\ \A call \in old : call.open = Recorded
FileFor(p) ==
  /\ fence[p].phase = "published" => config = FenceTo(fence[p].dir)
  /\ pc[p] = "publish" /\ fence[p].phase = "staged" =>
       /\ dirs[fence[p].dir].backup = fence[p].source
       /\ fence[p].source # NoInode => config = FileAt(fence[p].source)
  /\ pc[p] \in {"confirm", "switch"} \cup AfterSwitch => fence[p].phase = "published"
  /\ pc[p] \in {"switch"} \cup AfterSwitch /\ Imports(p) => ContentOf(Recorded).whole

(* While the file is the registry it is what is owed; so is the index, once
   nobody is left who imported the file and has yet to look at it again.   *)
DueInv ==
  /\ due \subseteq Roots /\ durable.due \subseteq Roots
  /\ ContentOf(Recorded).whole =>
       /\ active.kind # "v8" => ContentOf(Recorded).roots = due
       /\ durable.active.kind # "v8" => ContentOf(Recorded).roots = durable.due
  /\ active.kind = "v8" /\ (\A p \in Cmds : ~Unconfirmed(p)) => active.v8.roots = due
DueFor(p) ==
  Unconfirmed(p) =>
    due = IF cmd[p].mode = "migrate" THEN ContentOf(Recorded).roots
          ELSE Edited(p, ContentOf(Recorded).roots)

CmdsInv(p) == CmdInv(p) /\ MigrateInv(p) /\ WriteInv(p) /\ FileFor(p) /\ DueFor(p)
FullInv == /\ DOMAIN cmd = Cmds
           /\ CutoverInv /\ IndexInv /\ BackupInv /\ FileInv /\ DueInv
           /\ \A p \in Cmds : CmdsInv(p)

----------------------------------------------------------------------------
(* What the registrations of an index are does not show in its body. *)
Index(a, b, c, d, R, source, n) ==
  [sessions |-> a, documents |-> b, files |-> c, proofs |-> d, roots |-> R,
   receipt |-> [source |-> source, roots |-> n]]

LEMMA BodyOfIndex ==
  ASSUME NEW a, NEW b, NEW c, NEW d, NEW R, NEW source, NEW n
  PROVE  Body(Index(a, b, c, d, R, source, n)) = Index(a, b, c, d, {}, source, 0)
<1>1. [Index(a, b, c, d, R, source, n) EXCEPT !.roots = {}] = Index(a, b, c, d, {}, source, n)
  BY DEF Index
<1>2. [Index(a, b, c, d, {}, source, n) EXCEPT !.receipt.roots = 0]
        = Index(a, b, c, d, {}, source, 0)
  BY DEF Index
<1>3. Body(Index(a, b, c, d, R, source, n))
        = [[Index(a, b, c, d, R, source, n) EXCEPT !.roots = {}] EXCEPT !.receipt.roots = 0]
  BY DEF Body, Index
<1> QED BY <1>1, <1>2, <1>3

LEMMA BodyOfCopy ==
  ASSUME NEW db, NEW R
  PROVE  Body(CopyOf(db, R)) = Body(CopyOf(db, {})) /\ CopyOf(db, R).roots = R
         /\ "roots" \in DOMAIN CopyOf(db, R)
<1> DEFINE c(r) == CopyOf(db, r)
<1>1. \A r : c(r) = Index(c({}).sessions, c({}).documents, c({}).files, 0, r,
                          Fingerprint(db), Cardinality(r))
  BY DEF CopyOf, Receipt, Index
<1>2. \A r : c(r).roots = r /\ "roots" \in DOMAIN c(r)
  BY DEF CopyOf
<1> HIDE DEF c
<1>3. Body(c(R)) = Body(c({}))
  BY <1>1, BodyOfIndex
<1> QED BY <1>2, <1>3 DEF c

LEMMA BodyOfNew ==
  ASSUME NEW R
  PROVE  Body(NewIndex(R)) = Body(NewIndex({})) /\ NewIndex(R).roots = R
         /\ "roots" \in DOMAIN NewIndex(R)
<1> DEFINE none == [rows |-> {}, messages |-> {}, cache |-> {}, proofs |-> 0]
<1>1. \A r : NewIndex(r) = Index({}, {}, {}, 0, r, Fingerprint(none), Cardinality({}))
  BY DEF NewIndex, Receipt, Index
<1>2. Body(NewIndex(R)) = Body(NewIndex({}))
  BY <1>1, BodyOfIndex
<1> QED BY <1>2 DEF NewIndex

LEMMA BodyOfEdit ==
  ASSUME NEW v, NEW R, "roots" \in DOMAIN v
  PROVE  Body([v EXCEPT !.roots = R]) = Body(v) /\ [v EXCEPT !.roots = R].roots = R
         /\ "roots" \in DOMAIN [v EXCEPT !.roots = R]
BY DEF Body

----------------------------------------------------------------------------
(* What a step of somebody else leaves as it is for the command q: all it
   remembers, and, while q holds the lock, the index and its own backup.   *)
Still(q) == pc'[q] = pc[q] /\ cmd'[q] = cmd[q] /\ fence'[q] = fence[q]
OwnKept == backups # <<>> =>
             /\ backups' # <<>> /\ OwnBackup' = OwnBackup
             /\ backups'[Len(backups')].whole = backups[Len(backups)].whole

LEMMA CmdKept ==
  ASSUME NEW q \in Cmds, CmdInv(q), MigrateInv(q), WriteInv(q), Still(q), truth' = truth,
         active'.kind = "none" => active.kind = "none",
         pc[q] \in Locked => active' = active /\ OwnKept
  PROVE  CmdInv(q)' /\ MigrateInv(q)' /\ WriteInv(q)'
<1>1. CmdInv(q)'
  BY DEF CmdInv, Still
<1>2. MigrateInv(q)'
  <2>1. CASE pc[q] \in Locked /\ cmd[q].mode = "migrate"
    <3>1. active' = active /\ OwnKept
      BY <2>1
    <3>2. pc[q] # "backup" => backups # <<>> /\ truth.kind = "v7" /\ OwnBackup = truth.v7
      BY <2>1 DEF MigrateInv, OwnLast
    <3>3. pc[q] # "backup" => OwnLast'
      BY <3>1, <3>2 DEF OwnKept, OwnLast
    <3>4. pc[q] \notin {"backup", "vacuum"} => backups'[Len(backups')].whole
      BY <2>1, <3>1, <3>2 DEF OwnKept, MigrateInv
    <3> QED BY <2>1, <3>1, <3>3, <3>4 DEF MigrateInv, Still, Snapshot
  <2>2. CASE ~(pc[q] \in Locked /\ cmd[q].mode = "migrate")
    BY <2>2 DEF MigrateInv, Still
  <2> QED BY <2>1, <2>2
<1>3. WriteInv(q)'
  <2>1. CASE pc[q] \in Locked
    BY <2>1 DEF WriteInv, Still, Snapshot, Edited, Locked
  <2>2. CASE pc[q] \notin Locked
    BY <2>2 DEF WriteInv, Still, Snapshot, Edited, Locked, AfterSwitch
  <2> QED BY <2>1, <2>2
<1> QED BY <1>1, <1>2, <1>3

LEMMA FileKept ==
  ASSUME NEW q \in Cmds, FileFor(q), Still(q), config' = config, Recorded' = Recorded,
         pc[q] \in {"switch"} \cup AfterSwitch => inode' = inode,
         pc[q] = "publish" => dirs'[fence[q].dir].backup = dirs[fence[q].dir].backup
  PROVE  FileFor(q)'
BY DEF FileFor, Still, Imports, ContentOf, AfterSwitch

LEMMA DueKept ==
  ASSUME NEW q \in Cmds, DueFor(q), Still(q),
         Unconfirmed(q) => due' = due /\ ContentOf(Recorded)' = ContentOf(Recorded)
  PROVE  DueFor(q)' /\ Unconfirmed(q)' = Unconfirmed(q)
BY DEF DueFor, Still, Unconfirmed, Imports, Edited

\* At most one command is at a step that needs the lock.
LEMMA Alone ==
  ASSUME CutoverInv, NEW p \in Cmds, NEW q \in Cmds \ {p}, pc[p] \in Locked \/ lock \in {p, Free}
  PROVE  pc[q] \notin Locked
BY FreeAssumption DEF CutoverInv, LockInv

LEMMA Unlocked ==
  ASSUME NEW q \in Cmds, pc[q] \notin Locked
  PROVE  ~Unconfirmed(q)
BY DEF Locked, Unconfirmed

LEMMA RecordedType ==
  ASSUME FenceTypeOK
  PROVE  Recorded \in Inodes \cup {NoInode} /\ ContentOf(Recorded) \in Content
<1>1. Recorded \in Inodes \cup {NoInode}
  BY DEF FenceTypeOK, Recorded, Paths, MissingPath, FileAt, FenceTo, Dirs, NoInode, Inodes
<1> QED BY <1>1 DEF FenceTypeOK, ContentOf, Content, Whole

(* A step of one command by which nothing that all share changes. *)
Shared == <<config, inode, dirs, active, durable, old, truth, due>>
LEMMA Quiet ==
  ASSUME FullInv, NEW p \in Cmds, UNCHANGED Shared,
         \A q \in Cmds \ {p} : Still(q) /\ (pc[q] \in Locked => OwnKept),
         BackupInv',
         CmdInv(p)', MigrateInv(p)', WriteInv(p)', FileFor(p)',
         Unconfirmed(p)' => Unconfirmed(p) /\ cmd'[p] = cmd[p],
         Unconfirmed(p) /\ ~Unconfirmed(p)' => active.v8.roots = due
  PROVE  IndexInv' /\ BackupInv' /\ FileInv' /\ DueInv' /\ \A q \in Cmds : CmdsInv(q)'
<1>1. IndexInv'
  BY DEF FullInv, IndexInv, WholeAt, Shared
<1>2. FileInv'
  BY DEF FullInv, FileInv, Shared, RecordedBy, Recorded
<1>3. Recorded' = Recorded /\ ContentOf(Recorded)' = ContentOf(Recorded)
  BY DEF Shared, Recorded, ContentOf
<1>4. \A q \in Cmds \ {p} : CmdsInv(q)' /\ Unconfirmed(q)' = Unconfirmed(q)
  <2> SUFFICES ASSUME NEW q \in Cmds \ {p} PROVE CmdsInv(q)' /\ Unconfirmed(q)' = Unconfirmed(q)
    OBVIOUS
  <2>1. CmdInv(q) /\ MigrateInv(q) /\ WriteInv(q) /\ FileFor(q) /\ DueFor(q)
    BY DEF FullInv, CmdsInv
  <2>2. CmdInv(q)' /\ MigrateInv(q)' /\ WriteInv(q)'
    BY <2>1, CmdKept DEF Shared
  <2>3. FileFor(q)'
    BY <1>3, <2>1, FileKept DEF Shared
  <2>4. DueFor(q)' /\ Unconfirmed(q)' = Unconfirmed(q)
    BY <1>3, <2>1, DueKept DEF Shared
  <2> QED BY <2>2, <2>3, <2>4 DEF CmdsInv
<1>5. DueFor(p)'
  <2>1. Unconfirmed(p) => due = IF cmd[p].mode = "migrate" THEN ContentOf(Recorded).roots
                                ELSE Edited(p, ContentOf(Recorded).roots)
    BY DEF FullInv, CmdsInv, DueFor
  <2> QED BY <1>3, <2>1 DEF DueFor, Edited, Shared
<1>6. DueInv'
  <2>1. due' = due /\ durable' = durable /\ active' = active
    BY DEF Shared
  <2>2. active.kind = "v8" /\ (\A q \in Cmds : ~Unconfirmed(q)') => active.v8.roots = due
    BY <1>4 DEF FullInv, DueInv
  <2> QED BY <1>3, <2>1, <2>2 DEF FullInv, DueInv
<1> QED BY <1>1, <1>2, <1>4, <1>5, <1>6 DEF CmdsInv

----------------------------------------------------------------------------
LEMMA InitFull ==
  ASSUME Init
  PROVE  FullInv
<1>1. truth = NoIndex \/ \E db \in Legacy : truth = V7Index(db)
  BY DEF Init
<1>2. active = truth /\ durable.active = truth /\ active.kind \in {"none", "v7"}
  BY DEF Init, NoIndex, V7Index
<1>3. IndexInv
  BY <1>1, <1>2 DEF IndexInv, WholeAt
<1>4. BackupInv
  BY <1>2 DEF Init, BackupInv, BackupRemains
<1>5. config \in {MissingPath, FileAt(1)} /\ durable.config = config
  BY DEF Init
<1>6. FileInv
  BY <1>5 DEF Init, FileInv, RecordedBy, Recorded
<1>7. FenceTypeOK
  BY InitInv DEF CutoverInv
<1>8. due = ContentOf(Recorded).roots /\ durable.due = due
  BY <1>2 DEF Init, Registry
<1>9. DueInv
  <2>1. due \subseteq Roots
    BY <1>7, <1>8, RecordedType DEF Content
  <2> QED BY <1>2, <1>8, <2>1 DEF DueInv
<1>10. ASSUME NEW p \in Cmds PROVE CmdsInv(p)
  <2>1. pc[p] = "idle" /\ cmd[p] = NoCmd /\ fence[p] = NoFence
    BY DEF Init
  <2>2. CmdInv(p)
    BY <2>1 DEF CmdInv, NoCmd, CmdFields, Locked
  <2>3. MigrateInv(p) /\ WriteInv(p)
    BY <2>1 DEF MigrateInv, WriteInv, Locked
  <2>4. FileFor(p) /\ DueFor(p)
    BY <2>1 DEF FileFor, DueFor, NoFence, Unconfirmed, AfterSwitch
  <2> QED BY <2>2, <2>3, <2>4 DEF CmdsInv
<1>11. DOMAIN cmd = Cmds
  BY DEF Init
<1> QED BY <1>3, <1>4, <1>6, <1>9, <1>10, <1>11, InitInv DEF FullInv

----------------------------------------------------------------------------
(* The backups stay a sequence of backups, whatever is taken off its front
   or counted once at its end.                                             *)
LEMMA StaleRemoved ==
  ASSUME backups \in Seq(Backup), RemoveStaleBackups
  PROVE  backups' \in Seq(Backup)
<1>1. ASSUME NEW k \in DOMAIN backups PROVE SubSeq(backups, k, Len(backups)) \in Seq(Backup)
  BY <1>1, SubSeqProperties
<1> QED BY <1>1 DEF RemoveStaleBackups

LEMMA MergedLast ==
  ASSUME NEW S, NEW s \in Seq(S), s # <<>>
  PROVE  /\ Merged(s) \in Seq(S) /\ Merged(s) # <<>>
         /\ Merged(s)[Len(Merged(s))] = s[Len(s)]
<1>1. CASE Len(s) > 1 /\ s[Len(s)] = s[Len(s) - 1]
  <2>1. Front(s) \in Seq(S) /\ Len(Front(s)) = Len(s) - 1
        /\ \A i \in 1..(Len(s) - 1) : Front(s)[i] = s[i]
    BY <1>1, SubSeqProperties DEF Front
  <2>2. Merged(s) = Front(s)
    BY <1>1 DEF Merged
  <2> QED BY <1>1, <2>1, <2>2
<1>2. CASE ~(Len(s) > 1 /\ s[Len(s)] = s[Len(s) - 1])
  BY <1>2 DEF Merged
<1> QED BY <1>1, <1>2

----------------------------------------------------------------------------
(* What a step has to establish: the invariant but for the part that
   CutoverProofs has established.                                          *)
Owing == /\ DOMAIN cmd = Cmds /\ IndexInv /\ BackupInv /\ FileInv /\ DueInv
         /\ \A q \in Cmds : CmdsInv(q)

LEMMA Known ==
  ASSUME FullInv, NEW p \in Cmds
  PROVE  /\ CmdInv(p) /\ MigrateInv(p) /\ WriteInv(p) /\ FileFor(p) /\ DueFor(p)
         /\ pc[p] \in Labels /\ DOMAIN pc = Cmds /\ DOMAIN cmd = Cmds /\ DOMAIN fence = Cmds
         /\ fence[p] \in Fences /\ lock \in Cmds \cup {Free}
         /\ Inspected \in Fences
BY InspectedType DEF FullInv, CmdsInv, CutoverInv, LockInv, FenceTypeOK

LEMMA MigrateBeginStep ==
  ASSUME FullInv, NEW p \in Cmds, MigrateBegin(p)
  PROVE  Owing'
<1>1. \A q \in Cmds \ {p} : Still(q) /\ pc[q] \notin Locked
  BY Known, Alone DEF MigrateBegin, Goto, Still, FullInv
<1>2. BackupInv'
  BY StaleRemoved DEF MigrateBegin, FullInv, BackupInv, BackupRemains
<1>3. pc'[p] = "backup" /\ fence'[p] = Inspected
      /\ cmd'[p] = [cmd[p] EXCEPT !.mode = "migrate", !.roots = Inspected.snapshot.roots]
  BY Known DEF MigrateBegin, Goto
<1>4. Inspected.snapshot.roots \subseteq Roots
  BY Known DEF Fences, Content
<1>5. CmdInv(p)'
  BY <1>3, <1>4, Known DEF CmdInv, CmdFields
<1>6. MigrateInv(p)' /\ WriteInv(p)'
  BY <1>3, Known DEF MigrateInv, WriteInv, CmdInv, CmdFields, MigrateBegin, Snapshot,
                     BeforeSwitch, AfterSwitch
<1>7. FileFor(p)' /\ ~Unconfirmed(p)'
  <2>1. config.kind = "fence" => config = FenceTo(config.at)
    BY PathKinds DEF FullInv, CutoverInv, FenceTypeOK
  <2>2. config' = config
    BY DEF MigrateBegin
  <2> QED BY <1>3, <2>1, <2>2 DEF FileFor, Inspected, AfterSwitch, Unconfirmed
<1>8. ~Unconfirmed(p)
  BY DEF MigrateBegin, Unconfirmed
<1>9. UNCHANGED Shared /\ DOMAIN cmd' = Cmds
  BY Known DEF MigrateBegin, Shared
<1> QED BY <1>1, <1>2, <1>5, <1>6, <1>7, <1>8, <1>9, Quiet DEF Owing

LEMMA BackupReserveStep ==
  ASSUME FullInv, NEW p \in Cmds, BackupReserve(p)
  PROVE  Owing'
<1>1. \A q \in Cmds \ {p} : Still(q) /\ pc[q] \notin Locked
  BY Known, Alone DEF BackupReserve, Goto, Still, FullInv, fenceVars, Locked
<1>2. cmd' = cmd /\ fence' = fence /\ pc'[p] = "vacuum" /\ pc[p] = "backup" /\ UNCHANGED Shared
  BY Known DEF BackupReserve, Goto, fenceVars, Shared
<1>3. cmd[p].mode = "migrate" /\ active.kind = "v7" /\ truth = active /\ active.v7 \in Legacy
  BY <1>2, Known DEF CmdInv, MigrateInv, Locked, FullInv, IndexInv, WholeAt, V7Index, NoIndex
<1> DEFINE b == [db |-> active.v7, whole |-> FALSE, stale |-> FALSE]
           s == Append(backups, b)
<1>4. s \in Seq(Backup) /\ s # <<>> /\ s[Len(s)] = b
  <2>1. b \in Backup
    BY <1>3 DEF Backup
  <2>2. backups \in Seq(Backup)
    BY DEF FullInv, BackupInv
  <2> HIDE DEF b
  <2> QED BY <2>1, <2>2, AppendProperties
<1>5. backups' = Merged(s)
  BY DEF BackupReserve
<1> HIDE DEF s
<1>6. backups' \in Seq(Backup) /\ backups' # <<>> /\ backups'[Len(backups')] = b
  BY <1>4, <1>5, MergedLast
<1>7. BackupInv'
  BY <1>2, <1>3, <1>6 DEF BackupInv, BackupRemains, Shared
<1>8. OwnLast'
  BY <1>2, <1>3, <1>6 DEF OwnLast, OwnBackup, Shared
<1>9. CmdInv(p)'
  BY <1>2, <1>3, Known DEF CmdInv, Locked
<1>10. MigrateInv(p)' /\ WriteInv(p)'
  BY <1>2, <1>3, <1>8, Known DEF BackupReserve, MigrateInv, WriteInv, Snapshot, BeforeSwitch,
                                 AfterSwitch, Locked, Shared
<1>11. FileFor(p)' /\ ~Unconfirmed(p)' /\ ~Unconfirmed(p)
  BY <1>2, Known DEF FileFor, Unconfirmed, AfterSwitch, Shared
<1> QED BY <1>1, <1>2, <1>7, <1>9, <1>10, <1>11, Known, Quiet DEF Owing

LEMMA BackupDoneStep ==
  ASSUME FullInv, NEW p \in Cmds, BackupDone(p)
  PROVE  Owing'
<1>1. \A q \in Cmds \ {p} : Still(q) /\ pc[q] \notin Locked
  BY Known, Alone DEF BackupDone, Goto, Still, FullInv, fenceVars, Locked
<1>2. cmd' = cmd /\ fence' = fence /\ pc'[p] = "copy" /\ pc[p] = "vacuum" /\ UNCHANGED Shared
  BY Known DEF BackupDone, Goto, fenceVars, Shared
<1>3. cmd[p].mode = "migrate" /\ active.kind = "v7" /\ OwnLast /\ Snapshot(p).whole
  BY <1>2, Known DEF CmdInv, MigrateInv, Locked
<1> DEFINE s == [backups EXCEPT ![Len(backups)].whole = TRUE]
<1>4. backups \in Seq(Backup) /\ backups # <<>>
  BY <1>3 DEF FullInv, BackupInv, OwnLast
<1>5. Len(backups) \in DOMAIN backups /\ backups[Len(backups)] \in Backup
  BY <1>4
<1>6. s \in Seq(Backup) /\ s # <<>> /\ s[Len(s)].db = OwnBackup /\ s[Len(s)].whole
  <2> DEFINE b == [backups[Len(backups)] EXCEPT !.whole = TRUE]
  <2>1. b \in Backup /\ b.db = OwnBackup /\ b.whole
    BY <1>5 DEF Backup, OwnBackup
  <2>2. s = [backups EXCEPT ![Len(backups)] = b]
    OBVIOUS
  <2> HIDE DEF b, s
  <2>3. s \in Seq(Backup) /\ Len(s) = Len(backups) /\ s[Len(backups)] = b
    BY <1>4, <1>5, <2>1, <2>2, ExceptSeq
  <2> QED BY <1>4, <2>1, <2>3
<1>7. backups' = Merged(s)
  BY DEF BackupDone
<1> HIDE DEF s
<1>8. backups' \in Seq(Backup) /\ backups' # <<>> /\ backups'[Len(backups')] = s[Len(s)]
  BY <1>6, <1>7, MergedLast
<1>9. BackupInv'
  BY <1>2, <1>3, <1>8 DEF BackupInv, BackupRemains, Shared
<1>10. OwnLast' /\ backups'[Len(backups')].whole
  BY <1>2, <1>3, <1>6, <1>8 DEF OwnLast, OwnBackup, Shared
<1>11. CmdInv(p)'
  BY <1>2, <1>3, Known DEF CmdInv, Locked
<1>12. MigrateInv(p)' /\ WriteInv(p)'
  BY <1>2, <1>3, <1>10, Known DEF MigrateInv, WriteInv, Snapshot, BeforeSwitch,
                                 AfterSwitch, Locked, Shared
<1>13. FileFor(p)' /\ ~Unconfirmed(p)' /\ ~Unconfirmed(p)
  BY <1>2, Known DEF FileFor, Unconfirmed, AfterSwitch, Shared
<1> QED BY <1>1, <1>2, <1>9, <1>11, <1>12, <1>13, Known, Quiet DEF Owing

LEMMA CopyStep ==
  ASSUME FullInv, NEW p \in Cmds, Copy(p)
  PROVE  Owing'
<1>1. \A q \in Cmds \ {p} : Still(q) /\ pc[q] \notin Locked
  BY Known, Alone DEF Copy, Goto, Still, FullInv, fenceVars, Locked
<1>2. fence' = fence /\ pc'[p] = "preflight" /\ pc[p] = "copy" /\ backups' = backups
      /\ UNCHANGED Shared
  BY Known DEF Copy, Goto, fenceVars, Shared
<1>3. cmd[p].mode = "migrate" /\ active.kind = "v7" /\ OwnLast /\ Snapshot(p).whole
      /\ cmd[p].roots = Snapshot(p).roots /\ backups[Len(backups)].whole
  BY <1>2, Known DEF CmdInv, MigrateInv, Locked
<1>4. cmd'[p] = [cmd[p] EXCEPT !.next = V8Index(CopyOf(truth.v7, cmd[p].roots))]
      /\ DOMAIN cmd' = Cmds
  BY <1>3, Known DEF Copy, OwnLast
<1>5. BackupInv'
  BY <1>2 DEF FullInv, BackupInv, BackupRemains, Shared
<1>6. CmdInv(p)'
  BY <1>2, <1>3, <1>4, Known DEF CmdInv, CmdFields, Locked
<1>7. cmd'[p].mode = "migrate" /\ cmd'[p].roots = cmd[p].roots
      /\ cmd'[p].next = V8Index(CopyOf(truth.v7, cmd[p].roots))
  BY <1>3, <1>4, Known DEF CmdInv, CmdFields
<1>8. OwnLast'
  BY <1>2, <1>3 DEF OwnLast, OwnBackup, Shared
<1>9. MigrateInv(p)' /\ WriteInv(p)'
  BY <1>2, <1>3, <1>7, <1>8 DEF MigrateInv, WriteInv, Snapshot, BeforeSwitch,
                                 AfterSwitch, Locked, Shared
<1>10. FileFor(p)' /\ ~Unconfirmed(p)' /\ ~Unconfirmed(p)
  BY <1>2, Known DEF FileFor, Unconfirmed, AfterSwitch, Shared
<1> QED BY <1>1, <1>2, <1>4, <1>5, <1>6, <1>9, <1>10, Quiet DEF Owing

(* A fence that verifies leads to the file as it was inspected. *)
LEMMA VerifiedFile ==
  ASSUME FullInv, NEW p \in Cmds, Verified(fence[p])
  PROVE  /\ ContentOf(Recorded) = Snapshot(p)
         /\ fence[p].phase = "staged" =>
              /\ dirs[fence[p].dir].backup = fence[p].source
              /\ fence[p].source # NoInode => config = FileAt(fence[p].source)
<1>1. CASE fence[p].phase = "published"
  <2>1. config = FenceTo(fence[p].dir) /\ ContentOf(dirs[fence[p].dir].backup) = Snapshot(p)
    BY <1>1 DEF Verified, Snapshot
  <2>2. Recorded = dirs[fence[p].dir].backup
    BY <2>1 DEF Recorded, FenceTo
  <2> QED BY <1>1, <2>1, <2>2
<1>2. CASE fence[p].phase # "published"
  <2>1. SourceUnchanged(fence[p])
    BY <1>2 DEF Verified
  <2>2. Recorded = fence[p].source
    BY <2>1 DEF SourceUnchanged, Recorded, MissingPath, FileAt
  <2> QED BY <1>2, <2>1, <2>2 DEF SourceUnchanged, Verified, Snapshot
<1> QED BY <1>1, <1>2

LEMMA RecheckStep ==
  ASSUME FullInv, NEW p \in Cmds, Recheck(p)
  PROVE  Owing'
<1>1. \A q \in Cmds \ {p} : Still(q) /\ pc[q] \notin Locked
  BY Known, Alone DEF Recheck, Goto, Still, FullInv, fenceVars, Locked
<1>2. cmd' = cmd /\ fence' = fence /\ pc[p] = "recheck" /\ backups' = backups /\ UNCHANGED Shared
      /\ pc'[p] = IF fence[p].phase = "published" THEN "switch" ELSE "publish"
  BY Known DEF Recheck, Goto, fenceVars, Shared
<1>3. cmd[p].mode = "migrate" /\ Snapshot(p).whole
  BY <1>2, Known DEF CmdInv, MigrateInv, Locked
<1>4. BackupInv' /\ (OwnLast => OwnLast')
  BY <1>2 DEF FullInv, BackupInv, BackupRemains, Shared, OwnLast, OwnBackup
<1>5. CmdInv(p)'
  BY <1>2, <1>3, Known DEF CmdInv, Locked
<1>6. MigrateInv(p)' /\ WriteInv(p)'
  BY <1>2, <1>3, <1>4, Known DEF MigrateInv, WriteInv, Snapshot, BeforeSwitch,
                                 AfterSwitch, Locked, Shared
<1>7. ContentOf(Recorded).whole /\ ContentOf(Recorded)' = ContentOf(Recorded)
  BY <1>2, <1>3, VerifiedFile DEF Recheck, Shared, ContentOf, Recorded
<1>8. FileFor(p)' /\ ~Unconfirmed(p)' /\ ~Unconfirmed(p)
  BY <1>2, <1>7, Known, VerifiedFile DEF Recheck, FileFor, Unconfirmed, AfterSwitch, Shared
<1> QED BY <1>1, <1>2, <1>4, <1>5, <1>6, <1>8, Known, Quiet DEF Owing

LEMMA PreflightAgainStep ==
  ASSUME FullInv, NEW p \in Cmds, PreflightAgain(p)
  PROVE  Owing'
<1>1. \A q \in Cmds \ {p} : Still(q) /\ pc[q] \notin Locked
  BY Known, Alone DEF PreflightAgain, Goto, Still, FullInv, fenceVars, Locked
<1>2. cmd' = cmd /\ fence' = fence /\ pc[p] = "preflight" /\ backups' = backups /\ UNCHANGED Shared
      /\ pc'[p] = AfterPreflight(p)
  BY Known DEF PreflightAgain, Goto, fenceVars, Shared
<1>3. \/ cmd[p].mode = "migrate" /\ pc'[p] = "recheck"
      \/ cmd[p].mode = "write" /\ pc'[p] = "begin"
  BY <1>2, Known DEF CmdInv, Locked, AfterPreflight
<1>4. BackupInv' /\ (OwnLast => OwnLast')
  BY <1>2 DEF FullInv, BackupInv, BackupRemains, Shared, OwnLast, OwnBackup
<1>5. CmdInv(p)'
  BY <1>2, <1>3, Known DEF CmdInv, Locked
<1>6. MigrateInv(p)'
  BY <1>2, <1>3, <1>4, Known DEF MigrateInv, Snapshot, BeforeSwitch, AfterSwitch, Locked, Shared
<1>7. WriteInv(p)'
  BY <1>2, <1>3, Known DEF WriteInv, Snapshot, AfterSwitch, Locked, Shared
<1>8. FileFor(p)' /\ ~Unconfirmed(p)' /\ ~Unconfirmed(p)
  BY <1>2, <1>3, Known DEF FileFor, Unconfirmed, AfterSwitch, Shared
<1> QED BY <1>1, <1>2, <1>4, <1>5, <1>6, <1>7, <1>8, Known, Quiet DEF Owing

LEMMA InspectStep ==
  ASSUME FullInv, NEW p \in Cmds, Inspect(p)
  PROVE  Owing'
<1>1. \A q \in Cmds \ {p} : Still(q) /\ OwnKept
  BY Known DEF Inspect, Goto, Still, OwnKept, OwnBackup
<1>2. pc[p] = "inspect" /\ pc'[p] = "lock" /\ fence'[p] = Inspected /\ backups' = backups
      /\ UNCHANGED Shared /\ DOMAIN cmd' = Cmds
  BY Known DEF Inspect, Goto, Shared
<1> DEFINE boot == Bootstraps(p, Inspected)
<1>3. cmd'[p] = [cmd[p] EXCEPT !.mode = "write", !.bootstrap = boot,
                               !.roots = IF boot THEN Inspected.snapshot.roots ELSE {}]
  BY Known DEF Inspect
<1>4. boot \in BOOLEAN /\ (boot => Inspected.snapshot.whole)
      /\ (boot <=> cmd[p].layout = "none" /\ (cmd[p].op = "remove" => HasLegacyState(Inspected)))
  BY DEF Inspect, Bootstraps
<1> HIDE DEF boot
<1>5. Inspected.snapshot.roots \subseteq Roots
  BY Known DEF Fences, Content
<1>6. /\ cmd'[p].mode = "write" /\ cmd'[p].bootstrap = boot /\ cmd'[p].op = cmd[p].op
      /\ cmd'[p].roots = (IF boot THEN Inspected.snapshot.roots ELSE {})
      /\ cmd'[p].root = cmd[p].root /\ DOMAIN cmd'[p] = CmdFields
  BY <1>3, Known DEF CmdInv, CmdFields
<1>7. BackupInv'
  BY <1>2 DEF FullInv, BackupInv, BackupRemains, Shared
<1>8. CmdInv(p)'
  BY <1>2, <1>4, <1>5, <1>6, Known DEF CmdInv, Locked
<1>9. MigrateInv(p)' /\ WriteInv(p)'
  BY <1>2, <1>4, <1>6, Known DEF MigrateInv, WriteInv, Snapshot, AfterSwitch, Locked, Shared
<1>10. FileFor(p)' /\ ~Unconfirmed(p)' /\ ~Unconfirmed(p)
  <2>1. config.kind = "fence" => config = FenceTo(config.at)
    BY PathKinds DEF FullInv, CutoverInv, FenceTypeOK
  <2> QED BY <1>2, <2>1 DEF FileFor, Inspected, AfterSwitch, Unconfirmed, Shared
<1> QED BY <1>1, <1>2, <1>7, <1>8, <1>9, <1>10, Quiet DEF Owing

LEMMA TakeLockStep ==
  ASSUME FullInv, NEW p \in Cmds, TakeLock(p)
  PROVE  Owing'
<1>1. \A q \in Cmds \ {p} : Still(q) /\ OwnKept
  BY Known DEF TakeLock, Goto, Still, OwnKept, OwnBackup, fenceVars
<1>2. pc[p] = "lock" /\ pc'[p] = "preflight" /\ fence' = fence /\ backups' = backups
      /\ cmd' = cmd /\ UNCHANGED Shared
  BY Known DEF TakeLock, Goto, Shared, fenceVars
<1>3. active.kind = "none" => cmd[p].op # "remove" \/ cmd[p].bootstrap
  BY DEF TakeLock, HasNothingToRemove
<1>4. BackupInv'
  BY <1>2 DEF FullInv, BackupInv, BackupRemains, Shared
<1>5. CmdInv(p)' /\ cmd[p].mode = "write"
  BY <1>2, Known DEF CmdInv, Locked
<1>6. MigrateInv(p)' /\ WriteInv(p)'
  BY <1>2, <1>3, <1>5, Known DEF MigrateInv, WriteInv, Snapshot, AfterSwitch, Locked, Shared
<1>7. FileFor(p)' /\ ~Unconfirmed(p)' /\ ~Unconfirmed(p)
  BY <1>2, Known DEF FileFor, AfterSwitch, Unconfirmed, Shared
<1> QED BY <1>1, <1>2, <1>4, <1>5, <1>6, <1>7, Known, Quiet DEF Owing

(* A command at rest knows nothing that it would act on. *)
LEMMA Resting ==
  ASSUME NEW p, DOMAIN cmd'[p] = CmdFields, pc'[p] \in {"idle", "migrate", "inspect"},
         cmd'[p] = [NoCmd EXCEPT !.op = cmd'[p].op, !.root = cmd'[p].root, !.layout = cmd'[p].layout],
         cmd'[p].op = "add" => cmd'[p].root \in Roots,
         pc'[p] = "inspect" /\ active'.kind = "none" => cmd'[p].layout = "none",
         fence'[p].phase = "published" => (config = FenceTo(fence[p].dir))'
  PROVE  CmdInv(p)' /\ MigrateInv(p)' /\ WriteInv(p)' /\ FileFor(p)' /\ ~Unconfirmed(p)' /\ DueFor(p)'
<1>1. cmd'[p].mode = "none" /\ cmd'[p].bootstrap = FALSE /\ cmd'[p].roots = {}
  BY DEF NoCmd
<1>2. CmdInv(p)'
  BY <1>1 DEF CmdInv, Locked
<1>3. MigrateInv(p)' /\ WriteInv(p)'
  BY DEF MigrateInv, WriteInv, Locked
<1> QED BY <1>2, <1>3 DEF FileFor, Unconfirmed, DueFor, AfterSwitch

LEMMA Ended ==
  ASSUME FullInv, NEW p \in Cmds, Ends(p)
  PROVE  /\ \A q \in Cmds \ {p} : Still(q)
         /\ DOMAIN cmd' = Cmds
         /\ CmdInv(p)' /\ MigrateInv(p)' /\ WriteInv(p)' /\ FileFor(p)' /\ ~Unconfirmed(p)' /\ DueFor(p)'
<1>1. pc'[p] = "idle" /\ cmd'[p] = NoCmd /\ fence'[p] = NoFence /\ DOMAIN cmd' = Cmds
  BY Known DEF Ends, Goto
<1>2. \A q \in Cmds \ {p} : Still(q)
  BY Known DEF Ends, Goto, Still
<1>3. DOMAIN NoCmd = CmdFields /\ NoCmd.op = "none"
      /\ NoCmd = [NoCmd EXCEPT !.op = NoCmd.op, !.root = NoCmd.root, !.layout = NoCmd.layout]
  BY DEF NoCmd, CmdFields
<1>4. NoFence.phase = "none"
  BY DEF NoFence
<1> QED BY <1>1, <1>2, <1>3, <1>4, Resting

LEMMA StartStep ==
  ASSUME FullInv, NEW p \in Cmds, NEW op, NEW r, Start(p, op, r), op = "add" => r \in Roots
  PROVE  Owing'
<1>1. \A q \in Cmds \ {p} : Still(q) /\ OwnKept
  BY Known DEF Start, Goto, Still, OwnKept, OwnBackup, fenceVars
<1>2. /\ cmd'[p] = [NoCmd EXCEPT !.op = op, !.root = r, !.layout = active.kind]
      /\ pc'[p] \in {"migrate", "inspect"} /\ fence' = fence /\ backups' = backups
      /\ UNCHANGED Shared /\ DOMAIN cmd' = Cmds /\ pc[p] = "idle"
  BY Known DEF Start, Goto, fenceVars, Shared
<1>3. cmd'[p].op = op /\ cmd'[p].root = r /\ cmd'[p].layout = active.kind
      /\ DOMAIN cmd'[p] = CmdFields
  BY <1>2 DEF NoCmd, CmdFields
<1>4. fence'[p].phase = "published" => (config = FenceTo(fence[p].dir))'
  BY <1>2, Known DEF FileFor, Shared
<1>5. CmdInv(p)' /\ MigrateInv(p)' /\ WriteInv(p)' /\ FileFor(p)' /\ ~Unconfirmed(p)'
  BY <1>2, <1>3, <1>4, Resting DEF Shared
<1>6. BackupInv' /\ ~Unconfirmed(p)
  BY <1>2 DEF FullInv, BackupInv, BackupRemains, Shared, Unconfirmed
<1> QED BY <1>1, <1>2, <1>5, <1>6, Quiet DEF Owing

LEMMA NothingToRemoveStep ==
  ASSUME FullInv, NEW p \in Cmds, NothingToRemove(p)
  PROVE  Owing'
<1>1. Ends(p) /\ UNCHANGED Shared /\ backups' = backups /\ ~Unconfirmed(p)
  BY DEF NothingToRemove, Shared, Unconfirmed
<1>2. OwnKept /\ BackupInv'
  BY <1>1 DEF FullInv, BackupInv, BackupRemains, Shared, OwnKept, OwnBackup
<1> QED BY <1>1, <1>2, Ended, Quiet DEF Owing

LEMMA BeginStep ==
  ASSUME FullInv, NEW p \in Cmds, Begin(p)
  PROVE  Owing'
<1>1. \A q \in Cmds \ {p} : Still(q) /\ pc[q] \notin Locked
  BY Known, Alone DEF Begin, Goto, Still, FullInv, fenceVars, Locked
<1>2. fence' = fence /\ pc[p] = "begin" /\ backups' = backups /\ UNCHANGED Shared
      /\ pc'[p] = (IF fence[p].phase = "published" THEN "switch" ELSE "publish")
      /\ active.kind \in {"none", "v8"} /\ DOMAIN cmd' = Cmds
  BY Known DEF Begin, Goto, fenceVars, Shared, FullInv, IndexInv
<1> DEFINE next == IF active.kind = "v8"
                     THEN V8Index([active.v8 EXCEPT !.roots = Edited(p, @)])
                     ELSE V8Index(NewIndex(Edited(p, cmd[p].roots)))
           boot == cmd[p].bootstrap /\ active.kind = "none"
<1>3. cmd'[p] = [cmd[p] EXCEPT !.next = next, !.bootstrap = boot]
  BY Known DEF Begin
<1>4. boot \in BOOLEAN /\ cmd[p].mode = "write"
  BY <1>2, Known DEF CmdInv
<1> HIDE DEF boot, next
<1>5. /\ cmd'[p].mode = "write" /\ cmd'[p].bootstrap = boot /\ cmd'[p].op = cmd[p].op
      /\ cmd'[p].roots = cmd[p].roots /\ cmd'[p].root = cmd[p].root
      /\ cmd'[p].next = next /\ DOMAIN cmd'[p] = CmdFields
  BY <1>3, <1>4, Known DEF CmdInv, CmdFields
<1>6. BackupInv'
  BY <1>2 DEF FullInv, BackupInv, BackupRemains, Shared
<1>7. CmdInv(p)'
  BY <1>2, <1>4, <1>5, Known DEF CmdInv, Locked
<1>8. active' = active
  BY <1>2 DEF Shared
<1>9. /\ active.kind = "none" => next = V8Index(NewIndex(Edited(p, cmd[p].roots)))
      /\ active.kind = "v8" => ~boot /\ next = V8Index([active.v8 EXCEPT !.roots = Edited(p, @)])
  BY DEF next, boot
<1>10. boot => Snapshot(p).whole /\ cmd[p].roots = Snapshot(p).roots
  BY <1>2, <1>4, Known DEF WriteInv, boot, Locked
<1>11. active.kind = "none" => boot
  BY <1>2, <1>4, Known DEF WriteInv, boot, Locked
<1>12. MigrateInv(p)'
  BY <1>5 DEF MigrateInv
<1>13. WriteInv(p)'
  BY <1>2, <1>5, <1>8, <1>9, <1>10, <1>11 DEF WriteInv, Edited, Snapshot, AfterSwitch, Locked
<1>14. ContentOf(Recorded) = Snapshot(p) /\ ContentOf(Recorded)' = ContentOf(Recorded)
  BY <1>2, VerifiedFile DEF Begin, Shared, ContentOf, Recorded
<1>15. FileFor(p)' /\ ~Unconfirmed(p)' /\ ~Unconfirmed(p)
  BY <1>2, <1>5, <1>10, <1>14, Known, VerifiedFile
     DEF Begin, FileFor, Unconfirmed, AfterSwitch, Shared, Imports
<1> QED BY <1>1, <1>2, <1>6, <1>7, <1>12, <1>13, <1>15, Quiet DEF Owing

LEMMA CannotConfirmStep ==
  ASSUME FullInv, NEW p \in Cmds, CannotConfirm(p)
  PROVE  Owing'
<1>1. \A q \in Cmds \ {p} : Still(q) /\ pc[q] \notin Locked
  BY Known, Alone DEF CannotConfirm, Goto, Still, FullInv, fenceVars, Locked
<1>2. cmd' = cmd /\ fence' = fence /\ pc[p] = "complete" /\ pc'[p] = "restore"
      /\ cmd[p].mode = "migrate" /\ backups' = backups /\ UNCHANGED Shared
  BY Known DEF CannotConfirm, Goto, fenceVars, Shared
<1>3. BackupInv' /\ (OwnLast => OwnLast')
  BY <1>2 DEF FullInv, BackupInv, BackupRemains, Shared, OwnLast, OwnBackup
<1>4. CmdInv(p)' /\ MigrateInv(p)' /\ WriteInv(p)'
  BY <1>2, <1>3, Known DEF CmdInv, MigrateInv, WriteInv, Snapshot, BeforeSwitch, AfterSwitch,
                           Locked, Shared
<1>5. ContentOf(Recorded)' = ContentOf(Recorded)
  BY <1>2 DEF Shared, ContentOf, Recorded
<1>6. FileFor(p)' /\ Unconfirmed(p)' /\ Unconfirmed(p)
  BY <1>2, <1>5, Known DEF FileFor, Unconfirmed, AfterSwitch, Shared, Imports
<1> QED BY <1>1, <1>2, <1>3, <1>4, <1>6, Known, Quiet DEF Owing

(* The registrations of the index are those owed if the file is still what
   was imported.                                                           *)
LEMMA ConfirmedDue ==
  ASSUME FullInv, NEW p \in Cmds, Unconfirmed(p), ~Late(p)
  PROVE  active.kind = "v8" /\ active.v8.roots = due
<1>1. pc[p] \in AfterSwitch /\ pc[p] \in Locked /\ Imports(p) /\ ContentOf(Recorded) = Snapshot(p)
  BY DEF Unconfirmed, Late, AfterSwitch, Locked, Snapshot
<1>2. due = IF cmd[p].mode = "migrate" THEN Snapshot(p).roots ELSE Edited(p, Snapshot(p).roots)
  BY <1>1, Known DEF DueFor
<1>3. CASE cmd[p].mode = "migrate"
  BY <1>1, <1>2, <1>3, Known DEF MigrateInv
<1>4. CASE cmd[p].mode # "migrate"
  <2>1. cmd[p].mode = "write" /\ cmd[p].bootstrap
    BY <1>1, <1>4, Known DEF CmdInv, Imports
  <2>2. cmd[p].roots = Snapshot(p).roots /\ active.kind = "v8"
        /\ active.v8.roots = Edited(p, cmd[p].roots)
    BY <1>1, <2>1, Known DEF WriteInv
  <2> QED BY <1>2, <1>4, <2>2
<1> QED BY <1>3, <1>4

LEMMA CompleteStep ==
  ASSUME FullInv, NEW p \in Cmds, Complete(p)
  PROVE  Owing'
<1>1. \A q \in Cmds \ {p} : pc[q] \notin Locked
  BY Alone DEF Complete, Locked, FullInv
<1>2. pc[p] = "complete" /\ UNCHANGED Shared /\ backups' = backups
  BY DEF Complete, Shared
<1>3. BackupInv'
  BY <1>2 DEF FullInv, BackupInv, BackupRemains, Shared
<1>4. Unconfirmed(p) => active.v8.roots = due
  BY VerifiedFile, ConfirmedDue DEF Complete, CompletionHolds, Late, Snapshot
<1>5. /\ \A q \in Cmds \ {p} : Still(q)
      /\ DOMAIN cmd' = Cmds
      /\ CmdInv(p)' /\ MigrateInv(p)' /\ WriteInv(p)' /\ FileFor(p)' /\ ~Unconfirmed(p)'
  <2>1. CASE cmd[p].mode = "migrate"
    <3>1. cmd'[p] = [NoCmd EXCEPT !.op = cmd[p].op, !.root = cmd[p].root, !.layout = "v8"]
          /\ pc'[p] = "inspect" /\ fence'[p] = NoFence /\ DOMAIN cmd' = Cmds
          /\ \A q \in Cmds \ {p} : Still(q)
      BY <2>1, Known DEF Complete, Goto, Still
    <3>2. cmd'[p].op = cmd[p].op /\ cmd'[p].root = cmd[p].root /\ cmd'[p].layout = "v8"
          /\ DOMAIN cmd'[p] = CmdFields
      BY <3>1 DEF NoCmd, CmdFields
    <3>3. active.kind = "v8" /\ active' = active /\ fence'[p].phase = "none"
      BY <1>2, <2>1, <3>1, Known DEF MigrateInv, Locked, AfterSwitch, Shared, NoFence
    <3>4. cmd[p].op = "add" => cmd[p].root \in Roots
      BY Known DEF CmdInv
    <3> QED BY <3>1, <3>2, <3>3, <3>4, Resting
  <2>2. CASE cmd[p].mode # "migrate"
    BY <2>2, Ended DEF Complete
  <2> QED BY <2>1, <2>2
<1> QED BY <1>1, <1>2, <1>3, <1>4, <1>5, Quiet DEF Owing

----------------------------------------------------------------------------
(* A step of the fence: one command, which holds the lock, changes where the
   pathname leads or what is there, and the file recorded stays the same.  *)
LEMMA FenceStep ==
  ASSUME FullInv, NEW p \in Cmds,
         UNCHANGED <<inode, active, old, truth, due, backups, cmd>>,
         durable'.active = durable.active, durable'.due = durable.due,
         Recorded' = Recorded, RecordedBy(durable.config)' = Recorded,
         \A q \in Cmds \ {p} : pc'[q] = pc[q] /\ fence'[q] = fence[q] /\ pc[q] \notin Locked
                               /\ (fence[q].phase = "published" => (config = FenceTo(fence[q].dir))'),
         CmdInv(p)', MigrateInv(p)', WriteInv(p)', FileFor(p)', ~Unconfirmed(p)', ~Unconfirmed(p)
  PROVE  Owing'
<1>1. DOMAIN cmd' = Cmds
  BY DEF FullInv
<1>2. IndexInv' /\ BackupInv'
  BY DEF FullInv, IndexInv, WholeAt, BackupInv, BackupRemains
<1>3. FileInv'
  BY DEF FullInv, FileInv
<1>4. ContentOf(Recorded)' = ContentOf(Recorded)
  BY DEF ContentOf
<1>5. ASSUME NEW q \in Cmds \ {p} PROVE CmdsInv(q)' /\ ~Unconfirmed(q)' /\ ~Unconfirmed(q)
  <2>1. Still(q)
    BY DEF Still
  <2>2. CmdInv(q)' /\ MigrateInv(q)' /\ WriteInv(q)'
    BY <2>1, CmdKept, Known
  <2>3. ~Unconfirmed(q) /\ ~Unconfirmed(q)'
    BY Unlocked DEF Unconfirmed, Locked
  <2>4. FileFor(q)' /\ DueFor(q)'
    BY <2>1, <2>3, Known DEF FileFor, DueFor, Locked, AfterSwitch
  <2> QED BY <2>2, <2>3, <2>4 DEF CmdsInv
<1>6. CmdsInv(p)'
  BY DEF CmdsInv, DueFor
<1>7. DueInv'
  BY <1>4, <1>5 DEF FullInv, DueInv
<1> QED BY <1>1, <1>2, <1>3, <1>5, <1>6, <1>7 DEF Owing

LEMMA LinkFull ==
  ASSUME FullInv, NEW p \in Cmds, Link(p)
  PROVE  Owing'
<1> PICK d \in FreshDirs : PreflightLink(p, d)
  BY DEF Link
<1>1. d \in 1..MaxDirs /\ config # FenceTo(d) /\ durable.config # FenceTo(d)
      /\ \A q \in Cmds : fence[q].dir # d
  BY DEF FreshDirs
<1>2. config' = config /\ UNCHANGED <<inode, active, old, truth, due, backups, cmd, durable>>
      /\ pc[p] = "preflight" /\ pc'[p] = "stage"
  BY Known DEF Link, PreflightLink, Goto
<1>3. fence'[p] = [fence[p] EXCEPT !.dir = d] /\ fence[p].phase = "initial"
  BY Known DEF PreflightLink
<1>4. fence'[p].phase = "initial" /\ fence'[p].snapshot = fence[p].snapshot
  BY <1>3, Known DEF Fences
<1>5. \A e \in 1..MaxDirs : e # d => dirs'[e] = dirs[e]
  BY DEF PreflightLink, FullInv, CutoverInv, FenceTypeOK
<1>6. config \in Paths /\ durable.config \in Paths
  BY DEF FullInv, CutoverInv, FenceTypeOK, DurableInv
<1>7. Recorded' = Recorded /\ RecordedBy(durable.config)' = RecordedBy(durable.config)
  BY <1>1, <1>2, <1>5, <1>6 DEF Recorded, RecordedBy, Paths, MissingPath, FileAt, FenceTo
<1>8. \A q \in Cmds \ {p} : pc'[q] = pc[q] /\ fence'[q] = fence[q] /\ pc[q] \notin Locked
  BY Known, Alone DEF Link, PreflightLink, Goto, FullInv, Locked
<1>9. \A q \in Cmds \ {p} : fence[q].phase = "published" => (config = FenceTo(fence[q].dir))'
  BY <1>2, <1>8, Known DEF FileFor
<1>10. CmdInv(p)' /\ MigrateInv(p)' /\ WriteInv(p)'
  BY <1>2, <1>4, Known DEF CmdInv, MigrateInv, WriteInv, Snapshot, OwnLast, OwnBackup,
                           BeforeSwitch, AfterSwitch, Locked
<1>11. FileFor(p)' /\ ~Unconfirmed(p)' /\ ~Unconfirmed(p)
  BY <1>2, <1>4 DEF FileFor, Unconfirmed, AfterSwitch
<1>12. RecordedBy(durable.config) = Recorded
  BY DEF FullInv, FileInv
<1> QED BY <1>2, <1>7, <1>8, <1>9, <1>10, <1>11, <1>12, FenceStep

LEMMA StageFull ==
  ASSUME FullInv, NEW p \in Cmds, Stage(p)
  PROVE  Owing'
<1>1. config' = config /\ UNCHANGED <<inode, active, old, truth, due, backups, cmd, durable>>
      /\ pc[p] = "stage" /\ pc'[p] = AfterPreflight(p)
  BY Known DEF Stage, PreflightStage, Goto
<1>2. fence'[p] = [fence[p] EXCEPT !.phase = "staged"]
  BY Known DEF Stage, PreflightStage
<1>3. fence'[p].phase = "staged" /\ fence'[p].snapshot = fence[p].snapshot
  BY <1>2, Known DEF Fences
<1>4. \A e \in 1..MaxDirs : dirs'[e].backup = dirs[e].backup
  BY DEF Stage, PreflightStage, FullInv, CutoverInv, FenceTypeOK, Dirs
<1>5. config \in Paths /\ durable.config \in Paths
  BY DEF FullInv, CutoverInv, FenceTypeOK, DurableInv
<1>6. Recorded' = Recorded /\ RecordedBy(durable.config)' = RecordedBy(durable.config)
  BY <1>1, <1>4, <1>5 DEF Recorded, RecordedBy, Paths, MissingPath, FileAt, FenceTo
<1>7. \A q \in Cmds \ {p} : pc'[q] = pc[q] /\ fence'[q] = fence[q] /\ pc[q] \notin Locked
  BY Known, Alone DEF Stage, PreflightStage, Goto, FullInv, Locked
<1>8. \A q \in Cmds \ {p} : fence[q].phase = "published" => (config = FenceTo(fence[q].dir))'
  BY <1>1, <1>7, Known DEF FileFor
<1>9. \/ cmd[p].mode = "migrate" /\ pc'[p] = "recheck"
      \/ cmd[p].mode = "write" /\ pc'[p] = "begin"
  BY <1>1, Known DEF CmdInv, Locked, AfterPreflight
<1>10. CmdInv(p)' /\ MigrateInv(p)' /\ WriteInv(p)'
  BY <1>1, <1>3, <1>9, Known DEF CmdInv, MigrateInv, WriteInv, Snapshot, OwnLast, OwnBackup,
                           BeforeSwitch, AfterSwitch, Locked
<1>11. FileFor(p)' /\ ~Unconfirmed(p)' /\ ~Unconfirmed(p)
  BY <1>1, <1>3, <1>9 DEF FileFor, Unconfirmed, AfterSwitch
<1>12. RecordedBy(durable.config) = Recorded
  BY DEF FullInv, FileInv
<1> QED BY <1>1, <1>6, <1>7, <1>8, <1>10, <1>11, <1>12, FenceStep

LEMMA PublishFull ==
  ASSUME FullInv, NEW p \in Cmds, Publish(p)
  PROVE  Owing'
<1> DEFINE d == fence[p].dir
<1>1. /\ fence[p].phase = "staged" /\ config' = FenceTo(d) /\ dirs' = dirs
      /\ fence[p].source = NoInode => config.kind = "missing"
      /\ UNCHANGED <<inode, active, old, truth, due, backups, cmd, durable>>
      /\ pc[p] = "publish" /\ pc'[p] = "confirm"
  BY Known DEF Publish, PublishSwitch, Goto
<1>2. fence'[p] = [fence[p] EXCEPT !.phase = "published"]
  BY Known DEF Publish, PublishSwitch
<1>3. fence'[p].phase = "published" /\ fence'[p].snapshot = fence[p].snapshot /\ fence'[p].dir = d
  BY <1>2, Known DEF Fences
<1>4. dirs[d].backup = fence[p].source
      /\ (fence[p].source # NoInode => config = FileAt(fence[p].source))
  BY <1>1, Known DEF FileFor
<1>5. config.kind # "fence"
  BY <1>1 DEF FullInv, CutoverInv, StagedInv, Publishable
<1>6. Recorded = fence[p].source
  BY <1>1, <1>4 DEF Recorded, FileAt
<1>7. Recorded' = Recorded /\ RecordedBy(durable.config)' = RecordedBy(durable.config)
  BY <1>1, <1>4, <1>6 DEF Recorded, RecordedBy, FenceTo
<1>8. \A q \in Cmds \ {p} : pc'[q] = pc[q] /\ fence'[q] = fence[q] /\ pc[q] \notin Locked
  BY Known, Alone DEF Publish, PublishSwitch, Goto, FullInv, Locked
<1>9. \A q \in Cmds \ {p} : fence[q].phase # "published"
  BY <1>5, Known, PathKinds DEF FileFor, FullInv, CutoverInv, FenceTypeOK
<1>10. CmdInv(p)' /\ MigrateInv(p)' /\ WriteInv(p)'
  BY <1>1, <1>3, Known, ZenonT(60) DEF CmdInv, MigrateInv, WriteInv, Snapshot, OwnLast, OwnBackup,
                           BeforeSwitch, AfterSwitch, Locked, Edited
<1>11. FileFor(p)' /\ ~Unconfirmed(p)' /\ ~Unconfirmed(p)
  BY <1>1, <1>3 DEF FileFor, Unconfirmed, AfterSwitch
<1>12. RecordedBy(durable.config) = Recorded
  BY DEF FullInv, FileInv
<1> QED BY <1>1, <1>7, <1>8, <1>9, <1>10, <1>11, <1>12, FenceStep

LEMMA ConfirmFull ==
  ASSUME FullInv, NEW p \in Cmds, Confirm(p)
  PROVE  Owing'
<1>1. /\ UNCHANGED <<config, dirs, inode, active, old, truth, due, backups, cmd, fence>>
      /\ durable'.config = config /\ durable'.active = durable.active /\ durable'.due = durable.due
      /\ pc[p] = "confirm" /\ pc'[p] = "switch"
  BY Known DEF Confirm, Goto, fenceVars, FullInv, CutoverInv, DurableInv
<1>2. Recorded' = Recorded /\ RecordedBy(durable.config)' = Recorded
      /\ ContentOf(Recorded)' = ContentOf(Recorded)
  BY <1>1 DEF Recorded, RecordedBy, ContentOf
<1>3. \A q \in Cmds \ {p} : pc'[q] = pc[q] /\ fence'[q] = fence[q] /\ pc[q] \notin Locked
  BY <1>1, Known, Alone DEF Confirm, Goto, FullInv, Locked
<1>4. \A q \in Cmds \ {p} : fence[q].phase = "published" => (config = FenceTo(fence[q].dir))'
  BY <1>1, <1>3, Known DEF FileFor
<1>5. CmdInv(p)' /\ MigrateInv(p)' /\ WriteInv(p)'
  BY <1>1, Known DEF CmdInv, MigrateInv, WriteInv, Snapshot, OwnLast, OwnBackup,
                     BeforeSwitch, AfterSwitch, Locked, Edited
<1>6. Imports(p) => ContentOf(Recorded).whole
  <2>1. ContentOf(Recorded) = Snapshot(p)
    BY VerifiedFile DEF Confirm
  <2>2. CASE cmd[p].mode = "migrate"
    BY <1>1, <2>1, <2>2, Known DEF MigrateInv, Locked
  <2>3. CASE cmd[p].mode = "write"
    BY <1>1, <2>1, <2>3, Known DEF WriteInv, Locked, Imports
  <2> QED BY <1>1, <2>2, <2>3, Known DEF CmdInv, Locked
<1>7. FileFor(p)' /\ ~Unconfirmed(p)' /\ ~Unconfirmed(p)
  BY <1>1, <1>2, <1>6, Known DEF FileFor, Unconfirmed, AfterSwitch, Imports
<1> QED BY <1>1, <1>2, <1>3, <1>4, <1>5, <1>7, FenceStep

----------------------------------------------------------------------------
(* The index is switched, or what it is becomes durable, by the command that
   holds the lock: nobody else acts on what changes.                       *)
LEMMA SwitchedOthers ==
  ASSUME FullInv, NEW p \in Cmds, UNCHANGED <<config, inode, dirs, old, truth>>,
         \A q \in Cmds \ {p} : Still(q) /\ pc[q] \notin Locked,
         active'.kind = "none" => active.kind = "none"
  PROVE  /\ \A q \in Cmds \ {p} : CmdsInv(q)' /\ ~Unconfirmed(q)'
         /\ Recorded' = Recorded /\ ContentOf(Recorded)' = ContentOf(Recorded)
<1>1. Recorded' = Recorded /\ ContentOf(Recorded)' = ContentOf(Recorded)
  BY DEF Recorded, ContentOf
<1>2. ASSUME NEW q \in Cmds \ {p} PROVE CmdsInv(q)' /\ ~Unconfirmed(q)'
  <2>1. CmdInv(q)' /\ MigrateInv(q)' /\ WriteInv(q)'
    BY CmdKept, Known
  <2>2. ~Unconfirmed(q)
    BY Unlocked
  <2>3. FileFor(q)' /\ DueFor(q)' /\ ~Unconfirmed(q)'
    BY <1>1, <2>2, FileKept, DueKept, Known
  <2> QED BY <2>1, <2>3 DEF CmdsInv
<1> QED BY <1>1, <1>2

LEMMA PublishNextStep ==
  ASSUME FullInv, NEW p \in Cmds, PublishNext(p)
  PROVE  Owing'
<1>1. /\ pc[p] = "switch" /\ cmd[p].mode = "migrate" /\ pc'[p] = "synced"
      /\ UNCHANGED <<config, inode, dirs, fence, durable, backups, cmd, old, truth, due>>
      /\ active' = cmd[p].next
  BY Known DEF PublishNext, Goto, fenceVars
<1>2. \A q \in Cmds \ {p} : Still(q) /\ pc[q] \notin Locked
  BY <1>1, Known, Alone DEF PublishNext, Goto, Still, FullInv, Locked
<1>3. /\ active.kind = "v7" /\ OwnLast /\ backups[Len(backups)].whole
      /\ active' = V8Index(CopyOf(truth.v7, cmd[p].roots)) /\ cmd[p].roots = Snapshot(p).roots
      /\ Snapshot(p).whole /\ cmd[p].roots \subseteq Roots
  BY <1>1, Known DEF MigrateInv, BeforeSwitch, Locked, CmdInv
<1>4. active'.kind = "v8" /\ active'.v8 = CopyOf(truth.v7, cmd[p].roots)
  BY <1>3 DEF V8Index
<1>5. IndexInv'
  <2>1. truth.kind = "v7" /\ durable.active.kind # "v8"
    BY <1>3 DEF OwnLast, FullInv, IndexInv
  <2>2. WholeAt(active)'
    BY <1>1, <1>4, <2>1, BodyOfCopy DEF WholeAt
  <2> QED BY <1>1, <1>3, <1>4, <2>1, <2>2, BodyOfCopy DEF FullInv, IndexInv, WholeAt
<1>6. BackupInv'
  <2>1. backups \in Seq(Backup) /\ Len(backups) \in DOMAIN backups
    BY <1>3 DEF FullInv, BackupInv, OwnLast
  <2>2. BackupRemains'
    BY <1>1, <1>3, <2>1 DEF BackupRemains, OwnLast, OwnBackup
  <2> QED BY <1>1, <2>1, <2>2 DEF BackupInv
<1>7. /\ \A q \in Cmds \ {p} : CmdsInv(q)' /\ ~Unconfirmed(q)'
      /\ Recorded' = Recorded /\ ContentOf(Recorded)' = ContentOf(Recorded)
  BY <1>1, <1>2, <1>4, SwitchedOthers
<1>8. FileInv'
  BY <1>1, <1>7 DEF FullInv, FileInv, RecordedBy
<1>9. CmdInv(p)' /\ MigrateInv(p)' /\ WriteInv(p)'
  <2>1. cmd[p].roots = active'.v8.roots
    BY <1>4, BodyOfCopy
  <2>2. OwnLast'
    BY <1>1, <1>3 DEF OwnLast, OwnBackup
  <2> QED BY <1>1, <1>3, <1>4, <2>1, <2>2, Known
          DEF CmdInv, MigrateInv, WriteInv, BeforeSwitch, AfterSwitch, Locked, Snapshot
<1>10. ContentOf(Recorded).whole /\ Imports(p)
  BY <1>1, Known DEF FileFor, Imports
<1>11. FileFor(p)' /\ Unconfirmed(p)'
  BY <1>1, <1>7, <1>10, Known DEF FileFor, Unconfirmed, Imports, AfterSwitch
<1>12. DueFor(p)' /\ DueInv'
  <2>1. ContentOf(Recorded).roots = due
    BY <1>3, <1>10 DEF FullInv, DueInv
  <2> QED BY <1>1, <1>4, <1>7, <1>10, <1>11, <2>1 DEF DueFor, FullInv, DueInv
<1> QED BY <1>1, <1>5, <1>6, <1>7, <1>8, <1>9, <1>11, <1>12 DEF Owing, CmdsInv, FullInv

LEMMA PublishScratchStep ==
  ASSUME FullInv, NEW p \in Cmds, PublishScratch(p)
  PROVE  Owing'
<1>1. /\ pc[p] = "switch" /\ cmd[p].mode = "write" /\ pc'[p] = "synced" /\ active.kind = "none"
      /\ UNCHANGED <<config, inode, dirs, fence, durable, backups, cmd, old, truth>>
      /\ active' = cmd[p].next /\ due' = Edited(p, due)
  BY Known DEF PublishScratch, Goto, fenceVars
<1>2. \A q \in Cmds \ {p} : Still(q) /\ pc[q] \notin Locked
  BY <1>1, Known, Alone DEF PublishScratch, Goto, Still, FullInv, Locked
<1>3. /\ active' = V8Index(NewIndex(Edited(p, cmd[p].roots)))
      /\ cmd[p].bootstrap /\ Snapshot(p).whole /\ cmd[p].roots = Snapshot(p).roots
      /\ cmd[p].roots \subseteq Roots
  BY <1>1, Known DEF WriteInv, Locked, CmdInv
<1>4. active'.kind = "v8" /\ active'.v8 = NewIndex(Edited(p, cmd[p].roots))
  BY <1>3 DEF V8Index
<1>5. \A R : R \subseteq Roots => Edited(p, R) \subseteq Roots
  BY Known DEF Edited, CmdInv
<1>6. truth = NoIndex /\ durable.active.kind # "v8"
  BY <1>1 DEF FullInv, IndexInv, WholeAt, V7Index
<1>7. IndexInv'
  <2>1. WholeAt(active)'
    BY <1>1, <1>4, <1>6, BodyOfNew DEF WholeAt, NoIndex
  <2> QED BY <1>1, <1>3, <1>4, <1>5, <1>6, <2>1, BodyOfNew DEF FullInv, IndexInv, WholeAt
<1>8. BackupInv'
  BY <1>1, <1>6 DEF FullInv, BackupInv, BackupRemains, NoIndex
<1>9. /\ \A q \in Cmds \ {p} : CmdsInv(q)' /\ ~Unconfirmed(q)'
      /\ Recorded' = Recorded /\ ContentOf(Recorded)' = ContentOf(Recorded)
  BY <1>1, <1>2, <1>4, SwitchedOthers
<1>10. FileInv'
  BY <1>1, <1>9 DEF FullInv, FileInv, RecordedBy
<1>11. CmdInv(p)' /\ MigrateInv(p)' /\ WriteInv(p)'
  <2>1. active'.v8.roots = Edited(p, cmd[p].roots)
    BY <1>4, BodyOfNew
  <2> QED BY <1>1, <1>3, <1>4, <2>1, Known
          DEF CmdInv, MigrateInv, WriteInv, AfterSwitch, Locked, Snapshot, Edited
<1>12. ContentOf(Recorded).whole /\ Imports(p)
  BY <1>1, <1>3, Known DEF FileFor, Imports
<1>13. FileFor(p)' /\ Unconfirmed(p)'
  BY <1>1, <1>9, <1>12, Known DEF FileFor, Unconfirmed, Imports, AfterSwitch
<1>14. DueFor(p)' /\ DueInv'
  <2>1. ContentOf(Recorded).roots = due /\ due \subseteq Roots
    BY <1>1, <1>12 DEF FullInv, DueInv
  <2>2. DueFor(p)'
    BY <1>1, <1>9, <2>1 DEF DueFor, Edited
  <2>3. DueInv'
    BY <1>1, <1>4, <1>5, <1>9, <1>13, <2>1 DEF FullInv, DueInv
  <2> QED BY <2>2, <2>3
<1> QED BY <1>1, <1>7, <1>8, <1>9, <1>10, <1>11, <1>13, <1>14 DEF Owing, CmdsInv, FullInv

LEMMA CommitInPlaceStep ==
  ASSUME FullInv, NEW p \in Cmds, CommitInPlace(p)
  PROVE  Owing'
<1>1. /\ pc[p] = "switch" /\ cmd[p].mode = "write" /\ pc'[p] = "complete" /\ active.kind = "v8"
      /\ UNCHANGED <<config, inode, dirs, fence, backups, cmd, old, truth>>
      /\ active' = cmd[p].next /\ due' = Edited(p, due)
      /\ durable'.config = config /\ durable'.active = active' /\ durable'.due = due'
  BY Known DEF CommitInPlace, Goto, fenceVars
<1>2. \A q \in Cmds \ {p} : Still(q) /\ pc[q] \notin Locked
  BY <1>1, Known, Alone DEF CommitInPlace, Goto, Still, FullInv, Locked
<1> DEFINE R == Edited(p, active.v8.roots)
<1>3. ~cmd[p].bootstrap /\ active' = V8Index([active.v8 EXCEPT !.roots = R])
  BY <1>1, Known DEF WriteInv, Locked
<1>4. active.v8.roots \subseteq Roots /\ "roots" \in DOMAIN active.v8
  BY <1>1 DEF FullInv, IndexInv
<1>5. \A S : S \subseteq Roots => Edited(p, S) \subseteq Roots
  BY Known DEF Edited, CmdInv
<1>6. /\ active'.kind = "v8" /\ active'.v8 = [active.v8 EXCEPT !.roots = R] /\ R \subseteq Roots
      /\ Body(active'.v8) = Body(active.v8) /\ active'.v8.roots = R /\ "roots" \in DOMAIN active'.v8
  BY <1>3, <1>4, <1>5, BodyOfEdit DEF V8Index
<1>7. IndexInv'
  <2>1. WholeAt(active)'
    BY <1>1, <1>6 DEF WholeAt, FullInv, IndexInv
  <2> QED BY <1>1, <1>6, <2>1 DEF FullInv, IndexInv, WholeAt
<1>8. BackupInv'
  BY <1>1, <1>6 DEF FullInv, BackupInv, BackupRemains
<1>9. /\ \A q \in Cmds \ {p} : CmdsInv(q)' /\ ~Unconfirmed(q)' /\ ~Unconfirmed(q)
      /\ Recorded' = Recorded /\ ContentOf(Recorded)' = ContentOf(Recorded)
  BY <1>1, <1>2, <1>6, SwitchedOthers, Unlocked
<1>10. FileInv'
  BY <1>1, <1>9 DEF FullInv, FileInv, RecordedBy, Recorded
<1>11. ~Unconfirmed(p) /\ ~Unconfirmed(p)' /\ ~Imports(p)'
  BY <1>1, <1>3 DEF Unconfirmed, Imports
<1>12. CmdInv(p)' /\ MigrateInv(p)' /\ WriteInv(p)'
  BY <1>1, <1>3, <1>6, Known DEF CmdInv, MigrateInv, WriteInv, AfterSwitch, Locked
<1>13. FileFor(p)' /\ DueFor(p)'
  BY <1>1, <1>11, Known DEF FileFor, DueFor, AfterSwitch
<1>14. DueInv'
  <2>1. active.v8.roots = due /\ due \subseteq Roots
    BY <1>1, <1>9, <1>11 DEF FullInv, DueInv
  <2> QED BY <1>1, <1>5, <1>6, <2>1 DEF DueInv
<1> QED BY <1>1, <1>7, <1>8, <1>9, <1>10, <1>12, <1>13, <1>14 DEF Owing, CmdsInv, FullInv

LEMMA SyncedStep ==
  ASSUME FullInv, NEW p \in Cmds, Synced(p)
  PROVE  Owing'
<1>1. /\ pc[p] = "synced" /\ pc'[p] = "complete"
      /\ UNCHANGED <<config, inode, dirs, fence, active, backups, cmd, old, truth, due>>
      /\ durable'.config = config /\ durable'.active = active /\ durable'.due = due
  BY Known DEF Synced, Goto, fenceVars
<1>2. \A q \in Cmds \ {p} : Still(q) /\ pc[q] \notin Locked
  BY <1>1, Known, Alone DEF Synced, Goto, Still, FullInv, Locked
<1>3. active.kind = "v8"
  BY <1>1, Known DEF MigrateInv, WriteInv, CmdInv, Locked, AfterSwitch
<1>4. IndexInv' /\ BackupInv'
  BY <1>1 DEF FullInv, IndexInv, WholeAt, BackupInv, BackupRemains
<1>5. /\ \A q \in Cmds \ {p} : CmdsInv(q)' /\ ~Unconfirmed(q)' /\ ~Unconfirmed(q)
      /\ Recorded' = Recorded /\ ContentOf(Recorded)' = ContentOf(Recorded)
  BY <1>1, <1>2, SwitchedOthers, Unlocked
<1>6. FileInv'
  BY <1>1, <1>5 DEF FullInv, FileInv, RecordedBy, Recorded
<1>7. OwnLast => OwnLast'
  BY <1>1 DEF OwnLast, OwnBackup
<1>8. CmdInv(p)' /\ MigrateInv(p)' /\ WriteInv(p)'
  BY <1>1, <1>7, Known DEF CmdInv, MigrateInv, WriteInv, AfterSwitch, BeforeSwitch, Locked,
                           Snapshot, Edited
<1>9. Unconfirmed(p)' = Unconfirmed(p)
  BY <1>1 DEF Unconfirmed, Imports
<1>10. FileFor(p)' /\ DueFor(p)'
  BY <1>1, <1>5, <1>9, Known DEF FileFor, DueFor, AfterSwitch, Imports, Edited
<1>11. DueInv'
  BY <1>1, <1>3, <1>5, <1>9 DEF FullInv, DueInv
<1> QED BY <1>1, <1>4, <1>5, <1>6, <1>8, <1>10, <1>11 DEF Owing, CmdsInv, FullInv

LEMMA RestoredStep ==
  ASSUME FullInv, NEW p \in Cmds, Restore(p)
  PROVE  Owing'
<1>1. /\ pc[p] = "restore" /\ Ends(p)
      /\ UNCHANGED <<config, inode, dirs, backups, old, truth, due>>
      /\ active' = V7Index(OwnBackup)
      /\ durable'.config = config /\ durable'.active = active' /\ durable'.due = due
  BY DEF Restore
<1>2. /\ \A q \in Cmds \ {p} : Still(q) /\ pc[q] \notin Locked
      /\ CmdsInv(p)' /\ ~Unconfirmed(p)' /\ DOMAIN cmd' = Cmds
  BY <1>1, Ended, Alone DEF FullInv, Locked, CmdsInv
<1>3. /\ cmd[p].mode = "migrate" /\ OwnLast /\ ContentOf(Recorded).whole /\ Unconfirmed(p)
  BY <1>1, Known DEF CmdInv, MigrateInv, FileFor, Imports, Unconfirmed, AfterSwitch, Locked
<1>4. due = ContentOf(Recorded).roots
  BY <1>3, Known DEF DueFor
<1>5. active' = truth /\ active'.kind = "v7"
  BY <1>1, <1>3 DEF OwnLast, FullInv, IndexInv, V7Index, NoIndex
<1>6. IndexInv' /\ BackupInv'
  BY <1>1, <1>5 DEF FullInv, IndexInv, WholeAt, BackupInv, BackupRemains
<1>7. /\ \A q \in Cmds \ {p} : CmdsInv(q)'
      /\ Recorded' = Recorded /\ ContentOf(Recorded)' = ContentOf(Recorded)
  BY <1>1, <1>2, <1>5, SwitchedOthers
<1>8. FileInv'
  BY <1>1, <1>7 DEF FullInv, FileInv, RecordedBy, Recorded
<1>9. DueInv'
  BY <1>1, <1>4, <1>5, <1>7 DEF FullInv, DueInv
<1> QED BY <1>2, <1>6, <1>7, <1>8, <1>9 DEF Owing

(* A command that stops: what it leaves unconfirmed is what the index has. *)
LEMMA StoppedStep ==
  ASSUME FullInv, NEW p \in Cmds, Ends(p), due' = Abandoned(p),
         UNCHANGED <<config, inode, dirs, active, durable, backups, old, truth>>
  PROVE  Owing'
<1>1. /\ \A q \in Cmds \ {p} : Still(q)
      /\ CmdsInv(p)' /\ ~Unconfirmed(p)' /\ DOMAIN cmd' = Cmds
  BY Ended DEF CmdsInv
<1>2. IndexInv' /\ BackupInv' /\ OwnKept
  BY DEF FullInv, IndexInv, WholeAt, BackupInv, BackupRemains, OwnKept, OwnBackup
<1>3. FileInv' /\ Recorded' = Recorded /\ ContentOf(Recorded)' = ContentOf(Recorded)
  BY DEF FullInv, FileInv, RecordedBy, Recorded, ContentOf
<1>4. \/ ~Unconfirmed(p) /\ due' = due
      \/ Unconfirmed(p) /\ active.kind = "v8" /\ due' = active.v8.roots
  <2>1. CASE Late(p)
    <3>1. Unconfirmed(p) /\ pc[p] \in AfterSwitch /\ pc[p] \in Locked
      BY <2>1 DEF Late, Unconfirmed, AfterSwitch, Locked
    <3>2. active.kind = "v8"
      BY <3>1, Known DEF MigrateInv, WriteInv, CmdInv
    <3> QED BY <2>1, <3>1, <3>2 DEF Abandoned
  <2>2. CASE ~Late(p)
    BY <2>2, ConfirmedDue DEF Abandoned
  <2> QED BY <2>1, <2>2
<1>5. ASSUME NEW q \in Cmds \ {p} PROVE CmdsInv(q)' /\ Unconfirmed(q)' = Unconfirmed(q)
  <2>1. CmdInv(q)' /\ MigrateInv(q)' /\ WriteInv(q)' /\ FileFor(q)'
    BY <1>1, <1>2, <1>3, CmdKept, FileKept, Known
  <2>2. Unconfirmed(q) => ~Unconfirmed(p)
    BY Alone, Unlocked DEF FullInv
  <2>3. DueFor(q)' /\ Unconfirmed(q)' = Unconfirmed(q)
    BY <1>1, <1>3, <1>4, <2>2, DueKept, Known
  <2> QED BY <2>1, <2>3 DEF CmdsInv
<1>6. DueInv'
  <2>1. CASE ~Unconfirmed(p) /\ due' = due
    BY <1>3, <1>5, <2>1 DEF FullInv, DueInv
  <2>2. CASE Unconfirmed(p) /\ active.kind = "v8" /\ due' = active.v8.roots
    BY <1>3, <2>2 DEF FullInv, DueInv, IndexInv
  <2> QED BY <1>4, <2>1, <2>2
<1> QED BY <1>1, <1>2, <1>3, <1>5, <1>6 DEF Owing

----------------------------------------------------------------------------
(* Power loss: whatever of fence and index survives, it leads to the same
   file, and what is owed goes back with the index.                        *)
LEMMA PowerLossFull ==
  ASSUME FullInv, PowerLoss
  PROVE  Owing'
<1>1. /\ inode' = inode /\ dirs' = dirs /\ backups' = backups /\ truth' = truth /\ old' = {}
      /\ config' \in {config, durable.config} /\ active' \in {active, durable.active}
      /\ durable'.config = config' /\ durable'.active = active' /\ durable'.due = due'
      /\ DOMAIN cmd' = Cmds
  BY DEF PowerLoss
<1>2. ASSUME NEW q \in Cmds PROVE CmdsInv(q)' /\ ~Unconfirmed(q)'
  <2>1. pc'[q] = "idle" /\ cmd'[q] = NoCmd /\ fence'[q] = NoFence
    BY DEF PowerLoss
  <2>2. DOMAIN NoCmd = CmdFields /\ NoCmd.op = "none" /\ NoFence.phase = "none"
        /\ NoCmd = [NoCmd EXCEPT !.op = NoCmd.op, !.root = NoCmd.root, !.layout = NoCmd.layout]
    BY DEF NoCmd, CmdFields, NoFence
  <2>3. CmdInv(q)' /\ MigrateInv(q)' /\ WriteInv(q)' /\ FileFor(q)' /\ ~Unconfirmed(q)' /\ DueFor(q)'
    BY <2>1, <2>2, Resting
  <2> QED BY <2>3 DEF CmdsInv
<1>3. active'.kind = "v8" => active' = active
  BY <1>1 DEF FullInv, IndexInv
<1>4. IndexInv' /\ BackupInv'
  BY <1>1, <1>3 DEF FullInv, IndexInv, WholeAt, BackupInv, BackupRemains
<1>5. Recorded' = Recorded /\ RecordedBy(durable.config)' = Recorded
      /\ ContentOf(Recorded)' = ContentOf(Recorded)
  BY <1>1 DEF FullInv, FileInv, RecordedBy, Recorded, ContentOf
<1>6. FileInv'
  BY <1>1, <1>5 DEF FileInv
<1>7. ASSUME NEW q \in Cmds, Unconfirmed(q) PROVE active.kind = "v8"
  BY <1>7, Known DEF Unconfirmed, MigrateInv, WriteInv, CmdInv, AfterSwitch, Locked
<1>8. DueInv'
  <2>1. CASE active' # active
    <3>1. active' = durable.active /\ due' = durable.due /\ active'.kind # "v8"
      BY <1>1, <1>3, <2>1 DEF PowerLoss
    <3> QED BY <1>1, <1>5, <3>1 DEF FullInv, DueInv
  <2>2. CASE active' = active /\ active.kind # "v8"
    <3>1. due' = due
      BY <1>7, <2>2 DEF PowerLoss, Late
    <3> QED BY <1>1, <1>5, <2>2, <3>1 DEF FullInv, DueInv
  <2>3. CASE active' = active /\ active.kind = "v8"
    <3>1. due' = active.v8.roots
      <4>1. CASE \E q \in Cmds : Late(q)
        BY <2>3, <4>1 DEF PowerLoss
      <4>2. CASE (\A q \in Cmds : ~Late(q)) /\ \E q \in Cmds : Unconfirmed(q)
        BY <2>3, <4>2, ConfirmedDue DEF PowerLoss
      <4>3. CASE \A q \in Cmds : ~Unconfirmed(q)
        BY <2>3, <4>3 DEF PowerLoss, Late, FullInv, DueInv
      <4> QED BY <4>1, <4>2, <4>3
    <3> QED BY <1>1, <1>5, <2>3, <3>1 DEF FullInv, IndexInv, DueInv
  <2> QED BY <2>1, <2>2, <2>3
<1> QED BY <1>1, <1>2, <1>4, <1>6, <1>8 DEF Owing

(* A step of nobody: no command, and nothing that they share, changes. *)
LEMMA NobodyStep ==
  ASSUME FullInv, UNCHANGED Shared, UNCHANGED <<pc, cmd, fence>>, BackupInv', OwnKept
  PROVE  Owing'
<1>1. IndexInv' /\ FileInv'
  BY DEF FullInv, IndexInv, WholeAt, FileInv, Shared, RecordedBy, Recorded
<1>2. Recorded' = Recorded /\ ContentOf(Recorded)' = ContentOf(Recorded)
  BY DEF Shared, Recorded, ContentOf
<1>3. ASSUME NEW q \in Cmds PROVE CmdsInv(q)' /\ Unconfirmed(q)' = Unconfirmed(q)
  <2>1. Still(q)
    BY DEF Still
  <2> QED BY <1>2, <2>1, CmdKept, FileKept, DueKept, Known DEF CmdsInv, Shared
<1>4. DueInv'
  BY <1>2, <1>3 DEF FullInv, DueInv, Shared
<1> QED BY <1>1, <1>3, <1>4 DEF Owing, FullInv

LEMMA DayStep ==
  ASSUME FullInv, Day
  PROVE  Owing'
<1>1. UNCHANGED Shared /\ UNCHANGED <<pc, cmd, fence>>
  BY DEF Day, Shared, fenceVars
<1>2. /\ backups' = [i \in DOMAIN backups |-> [backups[i] EXCEPT !.stale = TRUE]]
      /\ backups \in Seq(Backup) /\ backups # <<>>
  BY DEF Day, FullInv, BackupInv
<1>3. /\ DOMAIN backups' = DOMAIN backups
      /\ \A i \in DOMAIN backups : /\ backups'[i] \in Backup
                                   /\ backups'[i].db = backups[i].db
                                   /\ backups'[i].whole = backups[i].whole
  <2>1. \A i \in DOMAIN backups : backups[i] \in Backup
    BY <1>2
  <2> QED BY <1>2, <2>1 DEF Backup
<1>4. backups' \in Seq(Backup) /\ Len(backups') = Len(backups)
  <2>1. Len(backups) \in Nat /\ DOMAIN backups = 1..Len(backups)
    BY <1>2
  <2>2. backups' \in [1..Len(backups) -> Backup]
    BY <1>2, <1>3, <2>1
  <2> QED BY <2>1, <2>2, SeqDef
<1>5. Len(backups) \in DOMAIN backups /\ backups' # <<>>
  BY <1>2, <1>4
<1>6. OwnKept
  BY <1>3, <1>4, <1>5 DEF OwnKept, OwnBackup
<1>7. BackupInv'
  BY <1>1, <1>3, <1>4 DEF FullInv, BackupInv, BackupRemains, Shared
<1> QED BY <1>1, <1>6, <1>7, NobodyStep

LEMMA StutterStep ==
  ASSUME FullInv, UNCHANGED vars
  PROVE  Owing'
<1>1. UNCHANGED Shared /\ UNCHANGED <<pc, cmd, fence>> /\ backups' = backups
  BY DEF vars, Shared
<1>2. OwnKept /\ BackupInv'
  BY <1>1 DEF FullInv, BackupInv, BackupRemains, Shared, OwnKept, OwnBackup
<1> QED BY <1>1, <1>2, NobodyStep

(* An old sync needs the lock: nobody is under way, and the index it leaves
   is the one there is to migrate.                                         *)
LEMMA OldSyncStep ==
  ASSUME FullInv, NEW db \in Legacy, OldSync(db)
  PROVE  Owing'
<1>1. /\ UNCHANGED <<config, inode, dirs, fence, backups, pc, cmd, old, due>>
      /\ active.kind # "v8" /\ active' = V7Index(db) /\ truth' = active'
      /\ durable'.config = durable.config /\ durable'.active = active' /\ durable'.due = durable.due
  BY DEF OldSync, fenceVars, FullInv, CutoverInv, DurableInv
<1>2. \A q \in Cmds : pc[q] \notin Locked /\ Still(q)
  BY <1>1, FreeAssumption DEF OldSync, FullInv, CutoverInv, LockInv, Still
<1>3. active'.kind = "v7" /\ durable.active.kind # "v8"
  BY <1>1 DEF V7Index, FullInv, IndexInv
<1>4. IndexInv' /\ BackupInv'
  BY <1>1, <1>3 DEF FullInv, IndexInv, WholeAt, BackupInv, BackupRemains
<1>5. Recorded' = Recorded /\ ContentOf(Recorded)' = ContentOf(Recorded) /\ FileInv'
  BY <1>1 DEF FullInv, FileInv, RecordedBy, Recorded, ContentOf
<1>6. ASSUME NEW q \in Cmds PROVE CmdsInv(q)'
  <2>1. CmdInv(q)' /\ MigrateInv(q)' /\ WriteInv(q)'
    BY <1>1, <1>2, <1>3, Known DEF CmdInv, MigrateInv, WriteInv, Snapshot, Locked
  <2>2. ~Unconfirmed(q)
    BY <1>2, Unlocked
  <2> QED BY <1>1, <1>2, <1>5, <2>1, <2>2, FileKept, DueKept, Known DEF CmdsInv
<1>7. DueInv'
  BY <1>1, <1>3, <1>5 DEF FullInv, DueInv
<1> QED BY <1>1, <1>4, <1>5, <1>6, <1>7 DEF Owing, FullInv

(* A registration begins: there is no fence, thus no v8 index and nobody
   behind the fence, and its file is the one that everyone means.          *)
LEMMA OldOpenFull ==
  ASSUME FullInv, NEW op, NEW r \in Roots, OldOpen(op, r)
  PROVE  Owing'
<1> PICK i \in Inodes : /\ OldOpens(i)
                        /\ \E list : old' = old \cup {[open |-> i, list |-> list]}
  BY DEF OldOpen
<1>1. /\ UNCHANGED <<dirs, fence, active, backups, pc, cmd, truth, due>>
      /\ config.kind # "fence" /\ config' = FileAt(i) /\ inode'[i] = Empty
      /\ i = (IF config.kind = "file" THEN config.at ELSE 2)
      /\ durable'.config = config' /\ durable'.active = durable.active /\ durable'.due = durable.due
  BY DEF OldOpen, OldOpens, FullInv, CutoverInv, FenceTypeOK, DurableInv
<1>2. active.kind # "v8" /\ durable.active.kind # "v8" /\ \A q \in Cmds : pc[q] \notin Behind
  BY <1>1 DEF FullInv, CutoverInv, FenceBeforeV8, BehindInv, DurableInv, Fenced
<1>3. Recorded' = i /\ RecordedBy(durable.config)' = i /\ ContentOf(Recorded)' = Empty
  BY <1>1 DEF Recorded, RecordedBy, FileAt, ContentOf, Inodes, NoInode
<1>4. \A call \in old : call.open = i
  <2>1. \A call \in old : call.open \in Inodes /\ call.open = Recorded
    BY DEF FullInv, FileInv, CutoverInv, OldInv
  <2> QED BY <1>1, <2>1 DEF Recorded, Inodes, NoInode
<1>5. FileInv'
  BY <1>3, <1>4 DEF FileInv
<1>6. IndexInv' /\ BackupInv' /\ OwnKept
  BY <1>1 DEF FullInv, IndexInv, WholeAt, BackupInv, BackupRemains, OwnKept, OwnBackup
<1>7. DueInv'
  BY <1>1, <1>2, <1>3 DEF FullInv, DueInv, Empty
<1>8. ASSUME NEW q \in Cmds PROVE CmdsInv(q)'
  <2>1. Still(q)
    BY <1>1 DEF Still
  <2>2. CmdInv(q)' /\ MigrateInv(q)' /\ WriteInv(q)'
    BY <1>1, <1>6, <2>1, CmdKept, Known
  <2>3. FileFor(q) /\ pc'[q] = pc[q] /\ fence'[q] = fence[q] /\ pc[q] \notin Behind
    BY <1>1, <1>2, Known
  <2>4. fence[q].phase # "published"
    BY <1>1, <2>3 DEF FileFor, FenceTo
  <2>5. fence[q].source # NoInode /\ config = FileAt(fence[q].source) => i = fence[q].source
    BY <1>1 DEF FileAt
  <2>6. FileFor(q)' /\ DueFor(q)'
    BY <1>1, <2>3, <2>4, <2>5 DEF FileFor, DueFor, Unconfirmed, AfterSwitch, Behind
  <2> QED BY <2>2, <2>6 DEF CmdsInv
<1> QED BY <1>1, <1>5, <1>6, <1>7, <1>8 DEF Owing, FullInv

(* A registration ends: its list is what is owed, or what the one command
   that imported the file has yet to see.                                  *)
LEMMA OldFinishStep ==
  ASSUME FullInv, OldFinish
  PROVE  Owing'
<1> PICK call \in old : /\ OldWrites(call.open, call.list)
                        /\ old' = old \ {call}
                        /\ due' = Owed(call.list)
                        /\ durable' = [durable EXCEPT !.due = IF durable.active.kind = "v8"
                                                                THEN @ ELSE call.list]
  BY DEF OldFinish
<1>1. /\ UNCHANGED <<config, dirs, fence, active, backups, lock, pc, cmd, truth>>
      /\ inode' = [inode EXCEPT ![call.open] = Whole(call.list)]
      /\ durable'.config = durable.config /\ durable'.active = durable.active
      /\ durable'.due = IF durable.active.kind = "v8" THEN durable.due ELSE call.list
  BY DEF OldFinish, OldWrites, FullInv, CutoverInv, DurableInv
<1>2. call.open \in Inodes /\ call.open = Recorded /\ call.list \subseteq Roots
  BY DEF FullInv, FileInv, CutoverInv, OldInv
<1>3. Recorded' = Recorded /\ RecordedBy(durable.config)' = RecordedBy(durable.config)
  BY <1>1 DEF Recorded, RecordedBy
<1>4. ContentOf(Recorded)' = Whole(call.list)
  BY <1>1, <1>2, <1>3 DEF ContentOf, FullInv, CutoverInv, FenceTypeOK, Inodes, NoInode
<1>5. ContentOf(Recorded)'.whole /\ ContentOf(Recorded)'.roots = call.list
  BY <1>4 DEF Whole
<1>6. FileInv'
  BY <1>3 DEF FullInv, FileInv
<1>7. IndexInv' /\ BackupInv' /\ OwnKept
  BY <1>1 DEF FullInv, IndexInv, WholeAt, BackupInv, BackupRemains, OwnKept, OwnBackup
<1>8. ASSUME NEW q \in Cmds, Unconfirmed(q) PROVE active.kind = "v8" /\ lock = q
  BY <1>8, Known DEF Unconfirmed, MigrateInv, WriteInv, CmdInv, AfterSwitch, Locked,
                     FullInv, CutoverInv, LockInv
<1>9. DueInv'
  <2>1. due' \subseteq Roots /\ durable'.due \subseteq Roots
    <3>1. \A q \in Cmds : Edited(q, call.list) \subseteq Roots
      BY <1>2, Known DEF Edited, CmdInv
    <3> QED BY <1>1, <1>2, <3>1 DEF Owed, FullInv, DueInv
  <2>2. active.kind # "v8" => due' = call.list
    BY DEF Owed
  <2>3. active.kind = "v8" /\ (\A q \in Cmds : ~Unconfirmed(q)') => active.v8.roots = due'
    BY <1>1 DEF Owed, FullInv, DueInv, Unconfirmed, Imports
  <2> QED BY <1>1, <1>5, <2>1, <2>2, <2>3 DEF DueInv
<1>10. ASSUME NEW q \in Cmds PROVE CmdsInv(q)'
  <2>1. Still(q)
    BY <1>1 DEF Still
  <2>2. CmdInv(q)' /\ MigrateInv(q)' /\ WriteInv(q)'
    BY <1>1, <1>7, <2>1, CmdKept, Known
  <2>3. FileFor(q)'
    BY <1>1, <1>5, Known DEF FileFor
  <2>4. DueFor(q)'
    <3>1. CASE Unconfirmed(q)
      <4>1. due' = IF cmd[q].mode = "migrate" THEN call.list ELSE Edited(q, call.list)
        BY <1>8, <3>1 DEF Owed
      <4> QED BY <1>1, <1>5, <4>1 DEF DueFor, Edited
    <3>2. CASE ~Unconfirmed(q)
      BY <1>1, <3>2 DEF DueFor, Unconfirmed, Imports
    <3> QED BY <3>1, <3>2
  <2> QED BY <2>2, <2>3, <2>4 DEF CmdsInv
<1> QED BY <1>1, <1>6, <1>7, <1>9, <1>10 DEF Owing, FullInv

----------------------------------------------------------------------------
LEMMA NextFull ==
  ASSUME FullInv, [Next]_vars
  PROVE  FullInv'
<1> SUFFICES Owing'
  BY NextInv DEF Owing, FullInv
<1>1. ASSUME NEW p \in Cmds, Migrate(p) PROVE Owing'
  BY <1>1, MigrateBeginStep, BackupReserveStep, BackupDoneStep, CopyStep, RecheckStep,
     PublishNextStep, CannotConfirmStep, RestoredStep DEF Migrate
<1>2. ASSUME NEW p \in Cmds, Write(p) PROVE Owing'
  BY <1>2, InspectStep, TakeLockStep, NothingToRemoveStep, BeginStep, PublishScratchStep,
     CommitInPlaceStep DEF Write
<1>3. ASSUME NEW p \in Cmds, Fencing(p) PROVE Owing'
  BY <1>3, LinkFull, PreflightAgainStep, StageFull, PublishFull, ConfirmFull, SyncedStep,
     CompleteStep DEF Fencing
<1>4. ASSUME NEW p \in Cmds, Refuse(p) \/ Stop(p) PROVE Owing'
  BY <1>4, StoppedStep DEF Refuse, Stop
<1>5. ASSUME NEW p \in Cmds, NEW op \in {"sync"} \cup Edits, NEW r, Start(p, op, r),
             op = "add" => r \in Roots
      PROVE  Owing'
  BY <1>5, StartStep
<1>6. CASE \E db \in Legacy : OldSync(db)
  BY <1>6, OldSyncStep
<1>7. CASE \E op \in Edits, r \in Roots : OldOpen(op, r)
  BY <1>7, OldOpenFull
<1>8. CASE OldFinish \/ PowerLoss \/ Day \/ UNCHANGED vars
  BY <1>8, OldFinishStep, PowerLossFull, DayStep, StutterStep
<1> QED BY <1>1, <1>2, <1>3, <1>4, <1>5, <1>6, <1>7, <1>8 DEF Next, Step, Edits

LEMMA SpecFull == Spec => []FullInv
BY InitFull, NextFull, PTL DEF Spec

(* Every variable of the cutover holds a value of its type. *)
THEOREM SpecCutoverTypeOK == Spec => []TypeOK
<1>1. ASSUME FullInv PROVE TypeOK
  <2>1. FenceTypeOK /\ durable.config \in Paths /\ lock \in Cmds \cup {Free} /\ pc \in [Cmds -> Labels]
        /\ old \subseteq [open : Inodes, list : SUBSET Roots]
    BY <1>1 DEF FullInv, CutoverInv, DurableInv, LockInv, OldInv
  <2>2. {active.kind, durable.active.kind, truth.kind} \subseteq {"none", "v7", "v8"}
    BY <1>1 DEF FullInv, IndexInv, NoIndex, V7Index
  <2>3. \A i \in DOMAIN backups : backups[i].whole \in BOOLEAN /\ backups[i].stale \in BOOLEAN
    <3>1. \A i \in DOMAIN backups : backups[i] \in Backup
      BY <1>1 DEF FullInv, BackupInv
    <3> QED BY <3>1 DEF Backup
  <2>4. \A p \in Cmds : cmd[p].mode \in {"none", "migrate", "write"} /\ cmd[p].roots \subseteq Roots
    BY <1>1, Known DEF CmdInv
  <2> QED BY <1>1, <2>1, <2>2, <2>3, <2>4 DEF TypeOK, FullInv, DueInv
<1> QED BY <1>1, SpecFull, PTL

(* Whatever is killed, fails or loses power, and however often a migration
   is tried again: the index at the active path is the whole v7 index, or
   the whole copy of it, or the path never had one.                        *)
THEOREM SpecWholeIndex == Spec => []WholeIndex
<1>1. FullInv => WholeIndex
  BY DEF FullInv, IndexInv, WholeAt, WholeIndex
<1> QED BY <1>1, SpecFull, PTL

(* A complete backup of what was migrated is never cleaned up. *)
THEOREM SpecBackupRemains == Spec => []BackupRemains
<1>1. FullInv => BackupRemains
  BY DEF FullInv, BackupInv
<1> QED BY <1>1, SpecFull, PTL

(* No registration is lost and none comes back, however migrations, first
   syncs, edits and the calls of old writers overlap: but for a file that is
   being written, and a command that is still to look at the file again.   *)
THEOREM SpecRegistryAsOwed == Spec => []RegistryAsOwed
<1>1. ASSUME FullInv PROVE RegistryAsOwed
  <2> SUFFICES ASSUME active.kind = "v8" \/ ContentOf(Recorded).whole, \A p \in Cmds : ~Late(p)
               PROVE  Registry = due
    BY DEF RegistryAsOwed
  <2>1. CASE active.kind # "v8"
    BY <1>1, <2>1 DEF Registry, FullInv, DueInv
  <2>2. CASE active.kind = "v8" /\ \E p \in Cmds : Unconfirmed(p)
    BY <1>1, <2>2, ConfirmedDue DEF Registry
  <2>3. CASE active.kind = "v8" /\ \A p \in Cmds : ~Unconfirmed(p)
    BY <1>1, <2>3 DEF Registry, FullInv, DueInv
  <2> QED BY <2>1, <2>2, <2>3
<1> QED BY <1>1, SpecFull, PTL

=============================================================================
