------------------------------ MODULE Cutover ------------------------------
(* How an installation moves from the v7 index and cold-roots.json to the
   v8 index: the migration (migration/mod.rs, migration/artifacts.rs), the
   first sync into a scratch database, and `cold add` and `cold remove`
   (sync/cold_state.rs, sync/mod.rs), each around the fence of ColdFence.
   Commands run concurrently, are killed, meet I/O errors and lose power
   between any two steps; old writers, which know neither the fence nor v8,
   go on writing.  Layout, fence and pending roots are read before the
   writer lock is taken and used after.                                    *)
EXTENDS ColdFence, LegacyCopy, SequencesExt

CONSTANTS Legacy,        \* v7 databases an old writer may leave
          MaxEdits,      \* bound: cold-root edits of this program
          MaxOldCalls,   \* bound: registrations, removals and syncs by old writers
          MaxFaults,     \* bound: kills, power losses and I/O errors
          MaxDays,       \* bound: times a day passes
          MaxEvents      \* bound: all of these together

VARIABLES active,    \* the database at the active path
          durable,   \* what of config and active is certain to outlive a power loss
          backups,   \* <name>.v7.bak.<run>, oldest first
          lock,      \* who holds the writer lock, or Free
          pc, cmd,   \* per command: next step, and what it remembers
          old,       \* calls of old writers under way: file open, list to write
          truth,     \* ghost: the index that the last old sync left
          due,       \* ghost: the registrations that the users are owed
          used       \* counters of the bounds

Free == "free"
ASSUME FreeAssumption == Free \notin Cmds

fenceVars == <<config, inode, dirs, fence>>
vars == <<config, inode, dirs, fence, active, durable, backups, lock, pc, cmd, old,
          truth, due, used>>

None == "none"
NoIndex == [kind |-> "none"]
V7Index(db) == [kind |-> "v7", v7 |-> db]
V8Index(db) == [kind |-> "v8", v8 |-> db]

NoCmd == [op |-> "none", root |-> None, layout |-> "none", mode |-> "none",
          bootstrap |-> FALSE, roots |-> {}, next |-> NoIndex]

(* What the v8 index says, or what the next command would import. *)
Registry == IF active.kind = "v8" THEN active.v8.roots ELSE ContentOf(Recorded).roots

Init ==
  /\ \E db \in Legacy : active \in {NoIndex, V7Index(db)}
  /\ config \in {MissingPath, FileAt(1)}
  /\ \E rs \in SUBSET Roots :
       inode = [i \in Inodes |-> IF i = 1 /\ config = FileAt(1) THEN Whole(rs) ELSE Empty]
  /\ dirs = [d \in 1..MaxDirs |-> [backup |-> NoInode, ready |-> FALSE]]
  /\ fence = [p \in Cmds |-> NoFence]
  /\ durable = [config |-> config, active |-> active, due |-> Registry]
  /\ backups = <<>>
  /\ lock = Free
  /\ pc = [p \in Cmds |-> "idle"]
  /\ cmd = [p \in Cmds |-> NoCmd]
  /\ old = {}
  /\ truth = active
  /\ due = Registry
  /\ used = [edits |-> 0, calls |-> 0, faults |-> 0, days |-> 0]

Spend(kind, bound) ==
  /\ used[kind] < bound
  /\ used.edits + used.calls + used.faults + used.days < MaxEvents
  /\ used' = [used EXCEPT ![kind] = @ + 1]

Goto(p, label) == pc' = [pc EXCEPT ![p] = label]

\* The end of a command, however it ends: the lock is dropped with it.
Ends(p) ==
  /\ Goto(p, "idle")
  /\ cmd' = [cmd EXCEPT ![p] = NoCmd]
  /\ fence' = [fence EXCEPT ![p] = NoFence]
  /\ lock' = IF lock = p THEN Free ELSE lock

(* A command that has switched to what it imported from the file, and is
   still to look at the file again; and one for which, meanwhile, an old
   writer has flushed other bytes into it.                                 *)
Imports(p) == cmd[p].mode = "migrate" \/ cmd[p].bootstrap
Unconfirmed(p) == pc[p] \in {"synced", "complete", "restore"} /\ Imports(p)
Late(p) == Unconfirmed(p) /\ ContentOf(Recorded) # fence[p].snapshot

----------------------------------------------------------------------------
(* The beginning of a writer command (app/mod.rs): the layout is read
   without the lock, and a v7 index is migrated first.                     *)
Start(p, op, r) ==
  /\ pc[p] = "idle"
  /\ IF op = "sync" THEN used' = used ELSE Spend("edits", MaxEdits)
  /\ cmd' = [cmd EXCEPT ![p] = [NoCmd EXCEPT !.op = op, !.root = r, !.layout = active.kind]]
  /\ Goto(p, IF active.kind = "v7" THEN "migrate" ELSE "inspect")
  /\ UNCHANGED <<fenceVars, active, durable, backups, lock, old, truth, due>>

(* remove_stale_backups: of the backups older than a day, which are those at
   the front, only the newest is kept.                                     *)
RemoveStaleBackups ==
  \/ /\ \A i \in DOMAIN backups : ~backups[i].stale
     /\ backups' = backups
  \/ \E k \in DOMAIN backups :
       /\ backups[k].stale
       /\ \A i \in DOMAIN backups : i > k => ~backups[i].stale
       /\ backups' = SubSeq(backups, k, Len(backups))

(* migrate_with_failure up to prepare_staging. *)
MigrateBegin(p) ==
  /\ pc[p] = "migrate" /\ lock = Free
  /\ active.kind = "v7" /\ SourceLayout(active.v7) = "v7"
  /\ lock' = p
  /\ RemoveStaleBackups
  /\ fence' = [fence EXCEPT ![p] = Inspected]
  /\ cmd' = [cmd EXCEPT ![p].mode = "migrate", ![p].roots = Inspected.snapshot.roots]
  /\ Goto(p, "backup")
  /\ UNCHANGED <<config, inode, dirs, active, durable, old, truth, due, used>>

(* create_consistent_backup: the name is reserved with an empty file before
   VACUUM INTO fills it.  Every attempt leaves a file of its own; a run of
   equal files counts once here.                                           *)
Merged(s) == IF Len(s) > 1 /\ s[Len(s)] = s[Len(s) - 1] THEN Front(s) ELSE s

BackupReserve(p) ==
  /\ pc[p] = "backup"
  /\ fence[p].snapshot.whole /\ Preflight(active.v7)
  /\ backups' = Merged(Append(backups, [db |-> active.v7, whole |-> FALSE, stale |-> FALSE]))
  /\ Goto(p, "vacuum")
  /\ UNCHANGED <<fenceVars, active, durable, lock, cmd, old, truth, due, used>>

\* The backup is complete and has the fingerprint of the active database.
BackupDone(p) ==
  /\ pc[p] = "vacuum"
  /\ backups' = Merged([backups EXCEPT ![Len(backups)].whole = TRUE])
  /\ Goto(p, "copy")
  /\ UNCHANGED <<fenceVars, active, durable, lock, cmd, old, truth, due, used>>

OwnBackup == backups[Len(backups)].db

(* Build, verify and seal the v8 database in the private staging directory. *)
Copy(p) ==
  /\ pc[p] = "copy" /\ CanCopy(OwnBackup)
  /\ LET db == CopyOf(OwnBackup, cmd[p].roots)
     IN /\ Verifies(OwnBackup, db, Fingerprint(OwnBackup), cmd[p].roots)
        /\ cmd' = [cmd EXCEPT ![p].next = V8Index(db)]
  /\ Goto(p, "preflight")
  /\ UNCHANGED <<fenceVars, active, durable, backups, lock, old, truth, due, used>>

----------------------------------------------------------------------------
(* sync, cold add and cold remove.  The fence is inspected before the lock
   is asked for.  Legacy registrations are taken along only when there was
   no index to begin with, and then they have to parse; `cold remove` looks
   for them only if there is any legacy state.                             *)
Bootstraps(p, f) == cmd[p].layout = "none" /\ (cmd[p].op = "remove" => HasLegacyState(f))

Inspect(p) ==
  /\ pc[p] = "inspect"
  /\ Bootstraps(p, Inspected) => Inspected.snapshot.whole
  /\ fence' = [fence EXCEPT ![p] = Inspected]
  /\ cmd' = [cmd EXCEPT ![p].mode = "write",
                        ![p].bootstrap = Bootstraps(p, Inspected),
                        ![p].roots = IF Bootstraps(p, Inspected)
                                       THEN Inspected.snapshot.roots ELSE {}]
  /\ Goto(p, "lock")
  /\ UNCHANGED <<config, inode, dirs, active, durable, backups, lock, old, truth, due, used>>

\* `cold remove` with neither an index nor legacy state: nothing to do.
HasNothingToRemove(p) == cmd[p].op = "remove" /\ active.kind = "none" /\ ~cmd[p].bootstrap

TakeLock(p) ==
  /\ pc[p] = "lock" /\ lock = Free
  /\ ~HasNothingToRemove(p)
  /\ lock' = p
  /\ Goto(p, "preflight")
  /\ UNCHANGED <<fenceVars, active, durable, backups, cmd, old, truth, due, used>>

NothingToRemove(p) ==
  /\ pc[p] = "lock" /\ lock = Free
  /\ HasNothingToRemove(p)
  /\ Ends(p)
  /\ UNCHANGED <<config, inode, dirs, active, durable, backups, old, truth, due, used>>

\* MUTANT of Edited: a sync taken for an add.
EditedBySync(p, roots) == CASE cmd[p].op = "remove" -> roots \ {cmd[p].root}
                            [] OTHER                -> roots \cup {cmd[p].root}

Edited(p, roots) == CASE cmd[p].op = "add"    -> roots \cup {cmd[p].root}
                      [] cmd[p].op = "remove" -> roots \ {cmd[p].root}
                      [] OTHER                -> roots

\* MUTANT of Begin: the fence is left for after the commit.
BeginUnfenced(p) ==
  /\ pc[p] = "begin" /\ active.kind # "v7"
  /\ Verified(fence[p])
  /\ cmd' = [cmd EXCEPT ![p].next =
               IF active.kind = "v8"
                 THEN V8Index([active.v8 EXCEPT !.roots = Edited(p, @)])
                 ELSE V8Index(NewIndex(Edited(p, cmd[p].roots))),
                        ![p].bootstrap = @ /\ active.kind = "none"]
  /\ Goto(p, "switch")
  /\ UNCHANGED <<fenceVars, active, durable, backups, lock, old, truth, due, used>>

\* MUTANT of Begin: the list read before the lock goes into an existing index.
BeginWithStaleList(p) ==
  /\ pc[p] = "begin" /\ active.kind # "v7"
  /\ Verified(fence[p])
  /\ cmd' = [cmd EXCEPT ![p].next =
               IF active.kind = "v8"
                 THEN V8Index([active.v8 EXCEPT !.roots = Edited(p, @ \cup cmd[p].roots)])
                 ELSE V8Index(NewIndex(Edited(p, cmd[p].roots))),
                        ![p].bootstrap = @ /\ active.kind = "none"]
  /\ Goto(p, IF fence[p].phase = "published" THEN "switch" ELSE "publish")
  /\ UNCHANGED <<fenceVars, active, durable, backups, lock, old, truth, due, used>>

(* The transaction, prepared but not committed.  Once there is a v8 index
   its registrations are the only truth, and what was read from the legacy
   file before the lock is dropped.                                        *)
Begin(p) ==
  /\ pc[p] = "begin" /\ active.kind # "v7"
  /\ Verified(fence[p])
  /\ cmd' = [cmd EXCEPT ![p].next =
               IF active.kind = "v8"
                 THEN V8Index([active.v8 EXCEPT !.roots = Edited(p, @)])
                 ELSE V8Index(NewIndex(Edited(p, cmd[p].roots))),
                        ![p].bootstrap = @ /\ active.kind = "none"]
  /\ Goto(p, IF fence[p].phase = "published" THEN "switch" ELSE "publish")
  /\ UNCHANGED <<fenceVars, active, durable, backups, lock, old, truth, due, used>>

----------------------------------------------------------------------------
(* The part that both share: preflight of the fence, publication of the
   fence, switch of the index, confirmation.                               *)
AfterPreflight(p) == IF cmd[p].mode = "migrate" THEN "recheck" ELSE "begin"

FreshDirs == {d \in 1..MaxDirs : /\ config # FenceTo(d) /\ durable.config # FenceTo(d)
                                 /\ \A p \in Cmds : fence[p].dir # d}

Link(p) ==
  /\ pc[p] = "preflight"
  /\ \E d \in FreshDirs : (\A e \in FreshDirs : d <= e) /\ PreflightLink(p, d)
  /\ Goto(p, "stage")
  /\ UNCHANGED <<active, durable, backups, lock, cmd, old, truth, due, used>>

PreflightAgain(p) ==
  /\ pc[p] = "preflight"
  /\ fence[p].phase = "published" /\ Verified(fence[p])
  /\ Goto(p, AfterPreflight(p))
  /\ UNCHANGED <<fenceVars, active, durable, backups, lock, cmd, old, truth, due, used>>

Stage(p) ==
  /\ pc[p] = "stage" /\ PreflightStage(p)
  /\ Goto(p, AfterPreflight(p))
  /\ UNCHANGED <<active, durable, backups, lock, cmd, old, truth, due, used>>

(* The last look at the v7 database before it is replaced.  Its WAL is
   folded in, so that no v7 sidecar can be taken for one of v8.            *)
Recheck(p) ==
  /\ pc[p] = "recheck"
  /\ Fingerprint(active.v7) = Fingerprint(OwnBackup)
  /\ Verified(fence[p])
  /\ Goto(p, IF fence[p].phase = "published" THEN "switch" ELSE "publish")
  /\ UNCHANGED <<fenceVars, active, durable, backups, lock, cmd, old, truth, due, used>>

Publish(p) ==
  /\ pc[p] = "publish" /\ PublishSwitch(p)
  /\ Goto(p, "confirm")
  /\ UNCHANGED <<active, durable, backups, lock, cmd, old, truth, due, used>>

\* The rest of publish: fsync of the parent, then everything is verified.
Confirm(p) ==
  /\ pc[p] = "confirm" /\ Verified(fence[p])
  /\ durable' = [durable EXCEPT !.config = config]
  /\ Goto(p, "switch")
  /\ UNCHANGED <<fenceVars, active, backups, lock, cmd, old, truth, due, used>>

(* publish_next: the verified copy replaces the v7 database in one rename. *)
PublishNext(p) ==
  /\ pc[p] = "switch" /\ cmd[p].mode = "migrate"
  /\ active' = cmd[p].next
  /\ Goto(p, "synced")
  /\ UNCHANGED <<fenceVars, durable, backups, lock, cmd, old, truth, due, used>>

(* publish_scratch_index: the first database is renamed into place, unless
   one has appeared.                                                       *)
PublishScratch(p) ==
  /\ pc[p] = "switch" /\ cmd[p].mode = "write" /\ active.kind = "none"
  /\ active' = cmd[p].next
  /\ due' = Edited(p, due)
  /\ Goto(p, "synced")
  /\ UNCHANGED <<fenceVars, durable, backups, lock, cmd, old, truth, used>>

(* The commit of a transaction on an index that exists.  The journal mode
   is DELETE and synchronous is FULL: SQLite syncs the directory with the
   journal it creates, and the index before it deletes the journal, so that
   all of it is durable.                                                   *)
CommitInPlace(p) ==
  /\ pc[p] = "switch" /\ cmd[p].mode = "write" /\ active.kind = "v8"
  /\ active' = cmd[p].next
  /\ due' = Edited(p, due)
  /\ durable' = [config |-> config, active |-> active', due |-> due']
  /\ Goto(p, "complete")
  /\ UNCHANGED <<fenceVars, backups, lock, cmd, old, truth, used>>

\* confirm_publication_durability, and the fsync in publish_scratch_index.
Synced(p) ==
  /\ pc[p] = "synced"
  /\ durable' = [config |-> config, active |-> active, due |-> due]
  /\ Goto(p, "complete")
  /\ UNCHANGED <<fenceVars, active, backups, lock, cmd, old, truth, due, used>>

(* Fence and backup are verified once more, and the migrated index again. *)
CompletionHolds(p) ==
  /\ Verified(fence[p])
  /\ cmd[p].mode = "migrate" =>
       Verifies(OwnBackup, active.v8, Fingerprint(OwnBackup), cmd[p].roots)

\* MUTANT of Complete: a migration that has succeeded cleans its backups up.
CompleteAndCleanUp(p) ==
  /\ pc[p] = "complete" /\ CompletionHolds(p)
  /\ Ends(p)
  /\ backups' = <<>>
  /\ UNCHANGED <<config, inode, dirs, active, durable, old, truth, due, used>>

Complete(p) ==
  /\ pc[p] = "complete" /\ CompletionHolds(p)
  /\ IF cmd[p].mode = "migrate"
       THEN /\ Goto(p, "inspect")
            /\ fence' = [fence EXCEPT ![p] = NoFence]
            /\ lock' = Free
            /\ cmd' = [cmd EXCEPT ![p] = [NoCmd EXCEPT !.op = cmd[p].op, !.root = cmd[p].root,
                                                       !.layout = "v8"]]
       ELSE Ends(p)
  /\ UNCHANGED <<config, inode, dirs, active, durable, backups, old, truth, due, used>>

(* A migration that cannot confirm what it has published puts a copy of the
   backup back.  The fence stays, and with it what the next attempt imports. *)
CannotConfirm(p) ==
  /\ pc[p] = "complete" /\ cmd[p].mode = "migrate"
  /\ \/ ~CompletionHolds(p) /\ used' = used
     \/ Spend("faults", MaxFaults)
  /\ Goto(p, "restore")
  /\ UNCHANGED <<fenceVars, active, durable, backups, lock, cmd, old, truth, due>>

\* MUTANT of Restore: the failed index is removed first, and that is all.
RestoreByRemoving(p) ==
  /\ pc[p] = "restore"
  /\ active' = NoIndex
  /\ durable' = [config |-> config, active |-> active', due |-> due]
  /\ Ends(p)
  /\ UNCHANGED <<config, inode, dirs, backups, old, truth, due, used>>

\* MUTANT of Restore: the legacy file is put back as well.
RestoreLegacyFile(p) ==
  /\ pc[p] = "restore"
  /\ active' = V7Index(OwnBackup)
  /\ config' = IF Recorded = NoInode THEN MissingPath ELSE FileAt(Recorded)
  /\ durable' = [config |-> config', active |-> active', due |-> due]
  /\ Ends(p)
  /\ UNCHANGED <<inode, dirs, backups, old, truth, due, used>>

Restore(p) ==
  /\ pc[p] = "restore"
  /\ active' = V7Index(OwnBackup)
  /\ durable' = [config |-> config, active |-> active', due |-> due]
  /\ Ends(p)
  /\ UNCHANGED <<config, inode, dirs, backups, old, truth, due, used>>

----------------------------------------------------------------------------
(* Every check that fails ends the command with an error.  After the commit
   the error says that the index is committed and the registrations are
   not confirmed: what an old writer flushed meanwhile stays in the fence's
   directory and is not in the index.                                      *)
Checks(p) ==
  CASE pc[p] = "migrate"   -> lock = Free /\ active.kind = "v7" /\ SourceLayout(active.v7) = "v7"
    [] pc[p] = "backup"    -> fence[p].snapshot.whole /\ Preflight(active.v7)
    [] pc[p] = "copy"      -> CanCopy(OwnBackup)
    [] pc[p] = "inspect"   -> Bootstraps(p, Inspected) => Inspected.snapshot.whole
    [] pc[p] = "lock"      -> lock = Free
    [] pc[p] = "preflight" -> Verified(fence[p])
    [] pc[p] = "stage"     -> SourceUnchanged(fence[p]) /\ dirs[fence[p].dir].backup = fence[p].source
    [] pc[p] = "recheck"   -> Verified(fence[p])
    [] pc[p] = "begin"     -> Verified(fence[p]) /\ active.kind # "v7"
    [] pc[p] = "publish"   -> fence[p].source = NoInode => config.kind = "missing"
    [] pc[p] = "confirm"   -> Verified(fence[p])
    [] pc[p] = "complete"  -> cmd[p].mode = "write" => CompletionHolds(p)
    [] OTHER               -> TRUE

\* The registrations that a command which stops here leaves unconfirmed.
Abandoned(p) == IF Late(p) THEN active.v8.roots ELSE due

Refuse(p) ==
  /\ pc[p] # "idle" /\ ~Checks(p)
  /\ Ends(p)
  /\ due' = Abandoned(p)
  /\ UNCHANGED <<config, inode, dirs, active, durable, backups, old, truth, used>>

(* A command is killed, or one of its calls fails and it reports that. *)
Stop(p) ==
  /\ pc[p] # "idle" /\ Spend("faults", MaxFaults)
  /\ Ends(p)
  /\ due' = Abandoned(p)
  /\ UNCHANGED <<config, inode, dirs, active, durable, backups, old, truth>>

(* Power loss.  Entries of the one directory reach the disk in the order in
   which they were made: the fence may survive without the index that was
   renamed after it, and not the other way round.                          *)
PowerLoss ==
  /\ Spend("faults", MaxFaults)
  /\ \/ config' = config /\ active' = active
     \/ config' = config /\ active' = durable.active
     \/ config' = durable.config /\ active' = durable.active
  /\ due' = IF active' # active THEN durable.due
            ELSE IF \E p \in Cmds : Late(p) THEN active.v8.roots
            ELSE due
  /\ durable' = [config |-> config', active |-> active', due |-> due']
  /\ pc' = [p \in Cmds |-> "idle"]
  /\ cmd' = [p \in Cmds |-> NoCmd]
  /\ fence' = [p \in Cmds |-> NoFence]
  /\ lock' = Free
  /\ old' = {}
  /\ UNCHANGED <<inode, dirs, backups, truth>>

Day ==
  /\ backups # <<>> /\ Spend("days", MaxDays)
  /\ backups' = [i \in DOMAIN backups |-> [backups[i] EXCEPT !.stale = TRUE]]
  /\ UNCHANGED <<fenceVars, active, durable, lock, pc, cmd, old, truth, due>>

----------------------------------------------------------------------------
(* The old writers: a sync, which takes the lock and knows only v7, and a
   registration, which takes no lock: it reads the list, truncates the file
   and writes the list back with one root more.                            *)
OldSync(db) ==
  /\ Spend("calls", MaxOldCalls)
  /\ lock = Free /\ active.kind # "v8"
  /\ active' = V7Index(db)
  /\ durable' = [durable EXCEPT !.active = active']
  /\ truth' = active'
  /\ UNCHANGED <<fenceVars, backups, lock, pc, cmd, old, due>>

OldOpen(op, r) ==
  /\ Spend("calls", MaxOldCalls)
  /\ LET list == ContentOf(Recorded).roots
     IN \E i \in Inodes :
          /\ OldOpens(i)
          /\ old' = old \cup {[open |-> i, list |-> IF op = "add" THEN list \cup {r}
                                                                 ELSE list \ {r}]}
  /\ durable' = [durable EXCEPT !.config = config']
  /\ UNCHANGED <<active, backups, lock, pc, cmd, truth, due>>

(* The call succeeds.  It is lost if the index has been switched and no
   command is left that imported the file and would look at it again.      *)
Owed(list) ==
  IF active.kind # "v8" THEN list
  ELSE IF ~(lock \in Cmds /\ Unconfirmed(lock)) THEN due
  ELSE IF cmd[lock].mode = "migrate" THEN list
  ELSE Edited(lock, list)

OldFinish ==
  /\ \E call \in old :
       /\ OldWrites(call.open, call.list)
       /\ old' = old \ {call}
       /\ due' = Owed(call.list)
       /\ durable' = [durable EXCEPT !.due = IF durable.active.kind = "v8" THEN @ ELSE call.list]
  /\ UNCHANGED <<active, backups, lock, pc, cmd, truth, used>>

----------------------------------------------------------------------------
Edits == {"add", "remove"}

Migrate(p) == \/ MigrateBegin(p) \/ BackupReserve(p) \/ BackupDone(p) \/ Copy(p)
              \/ Recheck(p) \/ PublishNext(p) \/ CannotConfirm(p) \/ Restore(p)
Write(p) == \/ Inspect(p) \/ TakeLock(p) \/ NothingToRemove(p) \/ Begin(p)
            \/ PublishScratch(p) \/ CommitInPlace(p)
Fencing(p) == \/ Link(p) \/ PreflightAgain(p) \/ Stage(p) \/ Publish(p)
              \/ Confirm(p) \/ Synced(p) \/ Complete(p)
Step(p) == Migrate(p) \/ Write(p) \/ Fencing(p) \/ Refuse(p)

Next ==
  \/ \E p \in Cmds : \/ Step(p) \/ Stop(p) \/ Start(p, "sync", None)
                     \/ \E op \in Edits, r \in Roots : Start(p, op, r)
  \/ \E db \in Legacy : OldSync(db)
  \/ \E op \in Edits, r \in Roots : OldOpen(op, r)
  \/ OldFinish \/ PowerLoss \/ Day

Spec == Init /\ [][Next]_vars

(* A started command runs, the user (or the timer) syncs again, and an old
   writer finishes its call.                                               *)
Fairness == /\ \A p \in Cmds : WF_vars(Step(p)) /\ WF_vars(Start(p, "sync", None))
            /\ WF_vars(OldFinish)
FairSpec == Spec /\ Fairness

----------------------------------------------------------------------------
Labels == {"idle", "migrate", "backup", "vacuum", "copy", "inspect", "lock", "begin",
           "preflight", "stage", "recheck", "publish", "confirm", "switch", "synced",
           "complete", "restore"}

\* Every variable holds a value of its type.
TypeOK ==
  /\ FenceTypeOK
  /\ {active.kind, durable.active.kind, truth.kind} \subseteq {"none", "v7", "v8"}
  /\ durable.config \in Paths /\ durable.due \subseteq Roots
  /\ \A i \in DOMAIN backups : backups[i].whole \in BOOLEAN /\ backups[i].stale \in BOOLEAN
  /\ lock \in Cmds \cup {Free}
  /\ pc \in [Cmds -> Labels]
  /\ \A p \in Cmds : cmd[p].mode \in {"none", "migrate", "write"} /\ cmd[p].roots \subseteq Roots
  /\ old \subseteq [open : Inodes, list : SUBSET Roots]
  /\ due \subseteq Roots

(* There is never a v8 index while the legacy pathname is open to the old
   writers, in memory or after a power loss: migrate_locked, write_index and
   mutate_with_cutover publish the fence before the index (migration, sync). *)
Fenced(path) == path.kind = "fence" /\ dirs[path.at].ready
FenceBeforeV8 == /\ active.kind = "v8" => Fenced(config)
                 /\ durable.active.kind = "v8" => Fenced(durable.config)

(* Through migrations, first syncs, concurrent edits, old writers, kills and
   power losses the registrations in force are those the users are owed: none
   is lost between the snapshot of the legacy file and the index, and none
   that was removed comes back from a stale file or from a list read before
   the lock (sync/mod.rs, "stale JSON must never resurrect a root").  Open
   are only the time in which an old writer holds a truncated file, and the
   time until the check that looks at the file again.                      *)
RegistryAsOwed ==
  (active.kind = "v8" \/ ContentOf(Recorded).whole) /\ (\A p \in Cmds : ~Late(p))
    => Registry = due

(* The index at the active path is at every moment the whole v7 index last
   synced or the whole copy of it, and the path is empty only if there never
   was one.                                                                *)
Body(v8) == [v8 EXCEPT !.roots = {}, !.receipt.roots = 0]
WholeIndex ==
  CASE active.kind = "v8" /\ truth.kind = "v7" -> Body(active.v8) = Body(CopyOf(truth.v7, {}))
    [] active.kind = "v8" /\ truth.kind # "v7" -> Body(active.v8) = Body(NewIndex({}))
    [] OTHER                                    -> active = truth

(* A complete backup of the v7 index that was migrated is kept, whatever
   earlier attempts left behind and remove_stale_backups took away.        *)
BackupRemains ==
  active.kind = "v8" /\ truth.kind = "v7" =>
    \E i \in DOMAIN backups : backups[i].whole /\ backups[i].db = truth.v7

(* No step of anyone, a restored v7 index included, takes a durable fence
   away or moves it to another directory.                                  *)
FenceIsPermanent ==
  [][durable.config.kind = "fence"
       => config' = durable.config /\ durable'.config = durable.config]_vars

(* Syncs that are repeated end with a v8 index, whatever happened in
   between, unless the v7 index is one that the migration refuses or an old
   writer died over the legacy file.                                       *)
Acceptable ==
  /\ active.kind = "v7" =>
       SourceLayout(active.v7) = "v7" /\ Preflight(active.v7) /\ CanCopy(active.v7)
  /\ ContentOf(Recorded).whole
Settles == <>[](Acceptable => active.kind = "v8")
=============================================================================
