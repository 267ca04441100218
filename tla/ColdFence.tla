----------------------------- MODULE ColdFence -----------------------------
(* The fence that takes the cold-root registrations away from the old
   writers (migration/cold_fence.rs).  The legacy pathname holds a regular
   JSON file, nothing, or, once the fence is published, a symlink to a
   private directory that keeps a hard link to the last JSON file.  Old
   writers truncate and then write the file they have opened, and take no
   lock; the fence is what stops them.  Several commands use this module at
   once: what each remembers of the fence is `fence[p]`.                   *)
EXTENDS Naturals, FiniteSets

CONSTANTS Cmds,      \* processes that run commands of this program
          Roots,     \* cold roots that may be registered
          MaxDirs    \* bound: recovery directories ever created

ASSUME MaxDirsAssumption == MaxDirs \in Nat \ {0}

VARIABLES config,    \* the legacy pathname
          inode,     \* contents of the files that have been at that pathname
          dirs,      \* recovery directories, 1, 2, ... in order of creation
          fence      \* per command: its ColdConfigFence

(* A file that an old writer has truncated and not yet written is not
   whole: it does not parse.                                              *)
Content == [whole : BOOLEAN, roots : SUBSET Roots]
Whole(rs) == [whole |-> TRUE, roots |-> rs]
Empty == [whole |-> FALSE, roots |-> {}]

Inodes == 1..2       \* the file there at first, and one created later
NoInode == 0
MissingPath == [kind |-> "missing", at |-> 0]
FileAt(i) == [kind |-> "file", at |-> i]
FenceTo(d) == [kind |-> "fence", at |-> d]
Paths == {MissingPath} \cup {FileAt(i) : i \in Inodes} \cup {FenceTo(d) : d \in 1..MaxDirs}

(* `ready` says that marker, backup and staged symlink are on disk, fsynced. *)
Dirs == [backup : Inodes \cup {NoInode}, ready : BOOLEAN]

Fences == [phase : {"none", "initial", "staged", "published"},
           source : Inodes \cup {NoInode},      \* inode inspected, or none
           snapshot : Content,                  \* its bytes
           dir : 0..MaxDirs]
NoFence == [phase |-> "none", source |-> NoInode, snapshot |-> Empty, dir |-> 0]

FenceTypeOK ==
  /\ config \in Paths
  /\ inode \in [Inodes -> Content]
  /\ dirs \in [1..MaxDirs -> Dirs]
  /\ fence \in [Cmds -> Fences]

\* What the path holds for a Rust reader: the file, or the fence's backup.
Recorded == CASE config.kind = "file"  -> config.at
              [] config.kind = "fence" -> dirs[config.at].backup
              [] OTHER                 -> NoInode
ContentOf(i) == IF i = NoInode THEN Whole({}) ELSE inode[i]

\* MUTANT of Inspected: a fence that is there is not recognised.
InspectedAsFile ==
  [phase |-> "initial", source |-> Recorded, snapshot |-> ContentOf(Recorded), dir |-> 0]

(* ColdConfigFence::inspect, which writes nothing and takes no lock. *)
Inspected ==
  [phase    |-> IF config.kind = "fence" THEN "published" ELSE "initial",
   source   |-> Recorded,
   snapshot |-> ContentOf(Recorded),
   dir      |-> IF config.kind = "fence" THEN config.at ELSE 0]

HasLegacyState(f) == f.phase = "published" \/ f.source # NoInode

(* verify_unpublished_source: same bytes in the same inode, or still
   nothing there.                                                         *)
SourceUnchanged(f) ==
  /\ config = IF f.source = NoInode THEN MissingPath ELSE FileAt(f.source)
  /\ ContentOf(f.source) = f.snapshot

(* verify.  A staged fence also checks that its directory is complete and
   that the backup is the same inode; a published one that the path leads
   to its directory and that the backup has the bytes inspected.           *)
Verified(f) ==
  CASE f.phase = "initial" -> SourceUnchanged(f)
    [] f.phase = "staged" -> /\ SourceUnchanged(f)
                             /\ dirs[f.dir].ready
                             /\ dirs[f.dir].backup = f.source
    [] f.phase = "published" -> /\ config = FenceTo(f.dir)
                                /\ dirs[f.dir].ready
                                /\ ContentOf(dirs[f.dir].backup) = f.snapshot
    [] OTHER -> FALSE

(* preflight, first half: check the source, create a directory with a new
   nonce, hard-link the file that is now at the pathname into it.  A fence
   that is staged or published is only verified.                           *)
PreflightLink(p, d) ==
  /\ fence[p].phase = "initial"
  /\ SourceUnchanged(fence[p])
  /\ fence' = [fence EXCEPT ![p].dir = d]
  /\ dirs' = [dirs EXCEPT ![d] = [backup |-> IF config.kind = "file" THEN config.at ELSE NoInode,
                                 ready  |-> FALSE]]
  /\ UNCHANGED <<config, inode>>

(* preflight, second half: the linked bytes must be the snapshot; fsync,
   marker, staged symlink; verify everything.                              *)
PreflightStage(p) ==
  LET staged == [fence[p] EXCEPT !.phase = "staged"]
      d == fence[p].dir
  IN /\ fence[p].phase = "initial" /\ d # 0
     /\ SourceUnchanged(fence[p])
     /\ dirs[d].backup = fence[p].source
     /\ dirs' = [dirs EXCEPT ![d].ready = TRUE]
     /\ fence' = [fence EXCEPT ![p] = staged]
     /\ UNCHANGED <<config, inode>>

(* publish, commit point.  With a file there the staged symlink is renamed
   over whatever is at the pathname; with none a symlink is created, which
   fails if a file has appeared.                                           *)
PublishSwitch(p) ==
  /\ fence[p].phase = "staged"
  /\ fence[p].source = NoInode => config.kind = "missing"
  /\ config' = FenceTo(fence[p].dir)
  /\ fence' = [fence EXCEPT ![p].phase = "published"]
  /\ UNCHANGED <<inode, dirs>>

----------------------------------------------------------------------------
(* The old writers, which are not part of this repository: writeFileSync of
   the whole list, that is open with O_CREAT and O_TRUNC, then write, then
   report success.  Opening the symlink fails with EISDIR.                 *)
OldOpens(i) ==
  /\ config.kind # "fence"
  /\ i = IF config.kind = "file" THEN config.at ELSE 2
  /\ config' = FileAt(i)
  /\ inode' = [inode EXCEPT ![i] = Empty]
  /\ UNCHANGED <<dirs, fence>>

OldWrites(i, list) ==
  /\ inode' = [inode EXCEPT ![i] = Whole(list)]
  /\ UNCHANGED <<config, dirs, fence>>
=============================================================================
