# Verification of sherlog's index core

sherlog reads the transcripts that coding agents write (Codex, Claude Code, Pi,
DSH), keeps a SQLite index of them up to date (`shlog sync`) and answers queries
from it (`shlog find`, `list`, `read`, `status`).  This directory holds TLA+
modules of the parts whose correctness depends on the order of events, the TLC
configurations that check them, and proofs that TLAPS checks.

Paths such as `sync/lock.rs` are relative to `src/src/`.  PROJECT.json maps every
definition to the lines it stands for.

## 1. Inventory

| Component | State | Operations | Talks to |
|---|---|---|---|
| Writer lock, `sync/lock.rs` | one path beside the database: absent, a regular file naming its owner, or the directory of the old TypeScript writer | acquire (claim, hard link, observe, reclaim, sleep), drop | taken by sync and by the migration; competes with the old writer |
| Sync engine, `sync/mod.rs` | what one run holds: snapshots A and B, stage, moves, verdict, errors | `run`: scan, plan, project, scan, validate, resolve moves, classify, write | calls everything below, under the lock |
| Snapshot transition, `sync/transition.rs` | none | `classify_transition` | judges A against B with the proofs of stage and cursors |
| Projection pipeline, `sync/pipeline.rs` | counter, bounded channel, threads | `project_bounded` | calls the adapters, fills the stage |
| Projection stage, `sync/stage.rs` | a private spool file | push, seal, read_all, drop | filled by the pipeline, read by the transaction |
| Source catalog, `sources/catalog.rs` | none of its own | scan, fingerprint_files | stats and reads raw files, reuses cursors' metadata |
| Source adapters, `sources/{codex,claude_code,pi,dsh,jsonl}.rs` | none; the checkpoint travels with the cursor | inventory metadata, full replay, delta | read raw files while agents write them |
| Index writer, `index/writer.rs`, `v8.sql` | sessions, documents, source_files (the cursors), coverage, cold roots | replace, append, refresh, delete, prune, coverage, commit | one transaction of the sync |
| Index reader, `index/reader.rs` | none | bindings, invariants, queries | read committed state |
| Coverage and status, `coverage.rs`, `app/status.rs` | none | evaluate a stored proof against a live scan | catalog, reader |
| Selectors, `selector.rs` | none | canonicalise, imply, contain | coverage, catalog |
| Cold roots, `cold.rs`, `sync/cold*.rs` | registered roots (JSON, then SQLite) | add, remove, list, collect ids | prune keeps what they hold |
| Migration and cold fence, `migration/` | backup, next and quarantine files beside the database | prepare, back up, copy, verify, publish, recover | runs before v8 commands, under the lock |
| Retrieval, `retrieval/` | none | candidates, ranking, merge, elision | rows of the reader |
| Application and CLI | none | parse, dispatch, print | everything |

What is hard in them, and what correctness means:

* **Lock.** Processes interleave between system calls, are killed anywhere, and
  leave debris of two generations.  Correct: one writer inside; only dead owners
  are evicted; debris never blocks for good; every acquire ends.
* **Engine.** Agents write between any two reads.  Files grow, are truncated,
  rewritten, replaced, renamed, copied, removed.  A sync may be killed, meet an
  I/O error or fail half way.  Correct: the index equals what a full replay would
  give (the repository's own core invariant, docs/ARCHITECTURE.md:112), a fresh
  coverage proof means that nothing on disk is missing, a copy never takes over a
  session, history is kept unless `--prune` asks, and the sync converges.
* **Pipeline.** Threads draw inputs from one counter and send results through a
  bounded channel that may be closed under them.  Correct: each input is finished
  exactly once or the run fails, and the function returns.
* **Migration, cold fence, publication of a scratch index.**  Renames and fsyncs
  with crashes between them, against an old writer that knows neither the fence
  nor v8 and truncates before it writes.  Layout, fence and pending roots are
  read before the lock and used under it.  Correct: the fence is durable before
  the v8 index is; the index at the path is always whole; a backup of what was
  migrated stays; no registration is lost and none that was removed returns; and
  it all settles.
* **Reading beside syncs.**  `find`, `status` and `read-page` are several
  statements without a transaction, over an index to which syncs of wider and
  narrower scopes, prunes, failures and crashes have contributed.  Correct: what
  status calls fresh is indexed as it is on disk, a find that is complete misses
  nothing, pages join without a gap, and the advice to query anyway is given
  only where the change is proved to be an append.
* **Selectors, ranking, merge.**  Each is decided in two places (SQL and path
  walk, proof and request, recall and sort) that must agree.  Correct:
  implication is containment, a row is in scope when its file is, and results
  depend neither on the order of the search nor on where the list was cut.
* **Adapters.**  The same records are read by the inventory, by a full replay
  and by a delta that continues a checkpoint.  Correct: a delta is a full
  replay, equal accepted fingerprints are equal sessions (section 3 has the one
  exception), mirrored messages are
  paired once, and a session keeps its name.

PROJECT.json, "hazards", lists each at its line, with the properties that cover
it or the reason why none does.

## 2. Modules

| Module | Models | State and actions in the code |
|---|---|---|
| `SyncLock` | writer lock | `lock` is the object at the lock path.  `pc[p]` is the next system call of process p, so that every pair of calls that the code makes separately can be interleaved: hard_link, stat, read, liveness probe, re-check, unlink, rmdir.  `seen[p]` is the last `ObservedLock`.  `polls[p]` counts sleeps.  `raced` is history: two writers have stood together between the re-check and the unlink of a dead owner's file. |
| `MCSyncLock` | instance | process names, starts: a free path, a malformed file, an empty directory, the file or the directory of a process killed before |
| `SyncLockProofs` | proofs | section 5 |
| `SourceFiles` | raw files and adapters | stat, bounded prefix, its digest, safe offset, accepted fingerprint, full or delta projection, as operators on a file |
| `SnapshotTransition` | `classify_transition` | rejections, deferred paths, verdict, as operators on two snapshots |
| `SyncEngine` | engine, catalog, writer, status | `raw` is the disk; `sess`, `cur`, `cov` are the committed database; the other variables are locals of one `run`.  One action per phase, and one per file where the code loops and the world may move between two files: `ScanStat`, `ScanRead`, `ProjectFile`, `Apply...`.  `AgentStep` is the environment. |
| `MCSyncEngine` | instance | which session a path may carry, sets of requests |
| `ReplayIndex` | abstract specification | an index that knows no cursor and no delta: a sync lists files, reads full replays of some, discards what it cannot prove, and publishes at once or not at all |
| `SyncEngineProofs`, `SyncCoverageProofs` | proofs | section 5 |
| `ParallelMap` | abstract specification | every input is finished at most once, and a run that completes finished all |
| `ProjectionPipeline` | `project_bounded` | `next` is the counter, `at`/`holds` the workers, `channel`, `receiver`, `stage`, `failures` the collector |
| `ProjectionPipelineProofs` | proofs | section 5 |
| `ColdFence` | `migration/cold_fence.rs` | `config` is the legacy pathname (nothing, a file, or the symlink of the fence), `inode` the files that were there, `dirs` the recovery directories, `fence[p]` the `ColdConfigFence` a command remembers.  `Inspected`, `PreflightLink`, `PreflightStage`, `PublishSwitch` are the steps of the code; `OldOpens`, `OldWrites` are the old writer. |
| `LegacyCopy` | `migration/legacy.rs`, `verify.rs` | what the copy contains, which v7 databases are refused, what is verified, as operators on two databases |
| `Cutover` | `migration/mod.rs`, `artifacts.rs`, `sync/cold_state.rs`, and the publishing end of `sync/mod.rs` | `active` is the database at the path, `durable` what a power loss leaves, `backups`, the writer `lock`, `pc`/`cmd` of each command.  One action per step between which a process may die: backup, copy, preflight, recheck, publish, confirm, switch, sync, complete, restore.  `old` is the set of the calls of old writers under way, each with the file it opened and the list it will write.  `truth` and `due` are ghosts: the last v7 index, and the registrations users are owed. |
| `MCCutover` | instance | a v7 index that can be copied and one that must be refused |
| `CutoverProofs`, `CutoverIndexProofs` | proofs | section 5 |
| `Selectors` | `selector.rs`, `app/selectors.rs`, paths of `config.rs` | parsing, canonical paths, implication, containment of a file, the flags of find, list and sync, the sync a find proposes without an index |
| `Coverage` | `coverage.rs`, `app/status.rs`, snapshots of `sources/catalog.rs` | snapshots and their fingerprints, stored proofs, replacement and invalidation, the verdict for a request, append-only advice |
| `QueryIndex` | `index/reader.rs`, the scope of `index/writer.rs` | selector filters as SQL takes them, recall, list, counts, pages and ranges of messages, what a prune removes |
| `Retrieval` | `retrieval/`, `find_summary` and `read_anchor` of `app/mod.rs` | query plans and their fallbacks, grouping, scoring, time narrowing, merge over sources, evidence, anchors, zero-result actions |
| `ReadPath` | readers beside syncs | `disk`; `rows`, `cursors`, `records` of the index; `sync` in progress; `reader`, a command between two of its statements.  The last statement changes nothing and is an operator of the state (`Verdict`, `FindCoverage`). |
| `CodexAdapter` | `sources/codex.rs` | classification of a raw record, what the inventory hashes, the reducer record by record, checkpoint, names of sessions and segments, full replay and delta |
| `ReplayAdapters` | `sources/claude_code.rs`, `pi.rs`, `dsh.rs` | accepted records, inventory, replay |
| `AdapterLaws`, `QueryLaws` | properties of operators | a question stands in `reader`, with every bound of `ReadPath` used up; TLC asks every sample |
| `ReadPathProofs`, `QueryLawsProofs` | proofs | section 5 |
| `MCReadPath` | instance | scopes, files, flags, result lists, documents and transcripts to ask about |

`SyncEngine` extends `SnapshotTransition`, which extends `SourceFiles`.  The
engine has one sync at a time, which is what `SyncLock` is for; and it projects
files one after the other in any order with any failing, which is what
`ProjectionPipeline` is proved to amount to (a run of `ParallelMap`).
`SyncEngine` implements `ReplayIndex` (`ImplementsReplayIndex`): the replays read are
those of the stage that may still be published and of the rows that the open
transaction has changed (`Replayed`, `Rewritten`), the files listed are those of
snapshot A (`Listing` while it is taken), and cursors, restamps, bindings and the
verdict are not visible.  A delta must therefore amount to a replay from the first
record.
`Cutover` extends `ColdFence` and `LegacyCopy` and takes the lock as given.
`ReadPath` extends `Retrieval`, `QueryIndex`, `Coverage` and `Selectors`, in
this chain, and shows the sync of `SyncEngine` from outside: a snapshot, and one
transaction or a failure.  `SyncEngine` and `ReadPath` know a record as a value;
that a delta is a full replay and that a fingerprint decides a session is asked
of the adapters themselves, in `AdapterLaws`.

### Abstractions

* A record is two bytes, text and newline, so that a length can end on a record
  boundary or inside one.  `tail` marks a last record without its newline.
* SHA-256 of a prefix is the prefix, and of the accepted records their sequence with
  the session id.  No collisions.  What a digest is taken of, and that its encoding
  tells records apart, is asked of the adapters (`InventoryDecidesProjection`).
* Every write takes a new mtime, and every new file a new inode.  A rename keeps
  both.  Identity by inode and device is one number.
* Listing the directory is one step, and so is one bounded read of one file
  (`ProofHolds` therefore has no `opened = completed` conjunct, which that makes
  true).  The stat and the metadata read of one path are two steps (`TornScan`).
* One source, one root, one selector `all`; `Codex` chooses the adapter family.
* A SQLite transaction is atomic and durable; the database is there already.
* A stored cursor is `[stat, acc, indexed, head, boundary, sid]`: the stamp and
  accepted metadata of snapshot A, the safe offset, the digests of the bytes read
  and of the safe prefix, the session.
* Cold roots are a fixed set of session ids.
* In `SyncLock`, pids are not reused, a claim file is private to its process and
  not modelled further, at most one old writer runs at a time, and the old
  writer is external: it is what lock.rs says of it.  The processes of earlier
  generations that left something at the path are among the processes
  (`Departed`) and dead from the start.
* In `Cutover`, entries of one directory reach the disk in the order in which
  they were made, so that a power loss keeps a prefix of them, and the commit on
  an existing index makes all of it durable: the journal mode is `DELETE` and
  `synchronous` is `FULL` (`writer.rs`, `configure_writer`), so that SQLite syncs the
  directory with the journal it creates.  A run of equal backups counts once (`Merged`).
  Recovery directories that nobody refers to are used again (`FreshDirs`), so
  that two suffice for two commands.  Old syncs take the lock, old registrations
  and removals do not, and several may be under way at once: each truncates the
  file when it opens it and writes the whole list later, in one write.  That two
  such writes of different length leave a mixture of both is not modelled: it
  would not parse, like the truncated file.  A digest of rows is the rows.
* In `ReadPath` no record is written twice, so content that changed does not come
  back; files are read without failures; there is one source, the append-only
  one, under one root.
* In the adapters a text is the sequence of its lines, and `MaxUnique` texts fill
  the 4000 characters of the code.  Which bytes a projection may read is in
  `SourceFiles`; the conditions here are those on records.  Clipping of titles
  and the wording of summaries are left out.
* In retrieval, words are atoms: segmentation, snippets, elision and UTF-16
  offsets are left out, and a score is an integer number of twentieths.

## 3. Runs

| Run | Instance | What it shows |
|---|---|---|
| `lock` | 2 Rust writers and an old one, and one of each killed before the run; at the path nothing, a malformed file, an empty directory, or the file or directory of the killed; one Rust writer and the old one may be killed at any step, 1 poll | `TypeOK`, `LockInv`, `ExclusiveUntilRaced`, `OnlyTheKilledLeaveDebris`, `ReclaimsOnlyTheDead`, `AcquireEnds`, `LoneWriterGetsLock` |
| `lock_stale_race` | 3 Rust writers, one may be killed | violates `MutualExclusion` |
| `append` | 2 files, 2 records, 4 agent steps of append, create, replace, remove; strict prune and best effort; kills and I/O errors at any step; one cold session | `IncrementalIsFullReplay`, `FreshMeansSearchable`, `KeepsHistory` |
| `moves` | 2 files that may both hold either of 2 sessions, 4 agent steps of append, create, rename, rewrite; strict and best effort | `TransactionNeverFails`, `CopyNeverTakesOver`, `ImplementsReplayIndex` |
| `converge` | 2 files, 3 agent steps of seven kinds, torn scans, half-written records, strict prune | `Converges`, `TypeOK` |
| `torn` | an agent may write between stat and metadata read | violates `FreshMeansSearchable` |
| `prune_rename` | rename and append under strict prune | violates `DropsOnlyTheAbsent` |
| `revived_cursor` | 2 files that may both hold either of 2 sessions, 4 agent steps of create, remove, touch; strict and best effort | violates `OneSourceFile` |
| `pipeline` | 6 inputs, 2 workers, channel of 4 | `TypeOK`, `NoInputTwice`, `NoInputLost`, `ImplementsParallelMap`, `Terminates` |
| `cutover` | 2 commands (sync, cold add, cold remove, each with its migration), 1 root, 1 cold edit, 2 calls of old writers (registrations, removals, syncs), 1 fault (kill, I/O error or power loss), 1 day, and 4 of all these together | `TypeOK`, `FenceBeforeV8`, `RegistryAsOwed`, `WholeIndex`, `BackupRemains`, `FenceIsPermanent`, `Settles` (about 899,000 states) |
| `read_path` | 2 paths (one in a subdirectory, one dated), 2 scopes (all, one cwd), 2 writes, 2 syncs, 1 reader with pages of one message; 1-4 records of 16 kinds for the adapters, 2 to 4 results, candidates or documents for retrieval | `FreshMeansIndexed`, `FindMissesNothing`, `PagesHaveNoGaps`, and the laws `ImpliesIsContainment`, `OneScope`, `BootstrapCoversTheSearch`, `MergeIgnoresOrder`, `TimeSortIsNewest`, `EvidenceIsReadable`, `DeltaIsFullReplay`, `KeepsItsName`, `MirrorPairsOnce`, `InventoryDecidesProjection` (about 244,000 states, of which about half are questions) |
| `unproven_advice` | the same with 1 write | violates `AdviceNeedsProof` |

Why the bounds are enough to be worth running.  The races of the lock need two
contenders and one owner; a second sleep adds nothing that the first does not,
since an acquire keeps no memory but `seen` and the deadline.  The engine's hard
cases are about one file under a cursor (grow, then replace, then grow), and
about two paths that trade a session; four agent steps put one write before the
first sync and three more between any of its phases or before a second sync, and
a run never bounds the number of syncs.  Two files are what a move, a swap and a
duplicate need.  Six inputs exceed the channel (4) and the two workers, so that a
worker blocks on a full channel while inputs are left.  `MaxPolls`, `MaxLen` and
`MaxWrites` are the only counters that are cut in these.

In `cutover` the cases that matter need two commands (one that read the layout
before the other switched it), one edit of the list by this program, two calls of
old writers (one that truncates the file while another has it open, or one edit
and one v7 sync that can invalidate a backup), and one fault between any two
steps; a further fault meets a state that a first one can leave as well.  With a
single old call no list changes after the switch and before the check that looks
at it again (`Late`), so two are needed.  The proofs have no bounds.  A
day passing once makes backups stale and lets later ones be young.  In
`read_path` two syncs are what it takes for a narrower one to act on the proof of
a wider one, and two writes put a change before and after; a first session is
there before the first sync (`Found`).  Samples of rollouts hold every kind of
record up to length 3, and every sequence of length 4 of the kinds that pair and
part mirrored messages.

`append` and `moves` set `TornScan = FALSE`: with torn scans
`FreshMeansSearchable` is false (run `torn`); `append` shows that appends,
replacements, removals, kills and errors alone do not break it.  It leaves
half-written records out: the accepted fingerprint counts a record that is not
terminated yet, on purpose (`sources/jsonl.rs:127`), and the index does not.
`converge` has both and promises complete records.  `ImplementsReplayIndex` is checked
where sessions move, and proved for the rest, as is `IncrementalIsFullReplay` for moves.

Deadlock is checked in the runs of the engine and of the pipeline.  It is off in
those of the lock, whose processes end, and of the read path, where writes, syncs
and reads are bounded and a question has no step.

### Findings

1. `lock_stale_race`.  Re-check and unlink of a reclaimed file are two calls.
   Two writers that reclaim the file of a killed third can both get inside:
   the slower unlinks the faster's fresh lock (`sync/lock.rs:267-278`).
   `ExclusiveUntilRaced` shows that this is the only way to have two inside.
2. `torn`.  `scan` stats a file and reads its metadata later; an append in
   between puts content into the fingerprint that the size excludes from the
   projection, and a strict sync stores that as its proof
   (`sources/catalog.rs:142-167`).
3. `prune_rename`.  Prune protects the paths of snapshot A.  When the new path of
   a renamed file is deferred, the row still names the old one and is deleted,
   though the file is there (`sync/mod.rs:425`, `index/writer.rs:397`).  The
   comment above line 425 handles the like case of compressed twins.
4. `revived_cursor`.  A restamp is planned for a file whose stamp changed and whose
   bytes did not.  When that file vanishes before snapshot B and its session is
   found in another file, the transaction deletes its cursor and then writes the
   planned restamp, which inserts the cursor again (`sync/mod.rs:994-1013`,
   `index/writer.rs:280`).  Two cursors name one session, and one of them belongs
   to a path that is gone.  The proofs of section 5 show that this is the only way
   to that state.
5. `unproven_advice`.  `all_changed_files_prove_append` passes over a changed
   file that has no stored proof, and so takes it for proved
   (`app/status.rs:222`).  A narrower sync with `--prune` can remove that proof,
   and status then recommends to query an index without the rewritten file.

Each quotes the document it disagrees with in PROJECT.json.

One end of an acquire is worth knowing although no document rules it out: a lock
that is released between the stat and the open of `observe` makes `acquire`
return an I/O error at once (`sync/lock.rs:98`, `207`; the label `ioError`).

Known exceptions are written into properties and theorems, where a reader sees them:

* `KeepsItsName`, `DeclaredLate`.  A rollout with one uuid in its name whose
  appended `session_meta`, of the same id, is the first to declare a
  `history_base` gets its file stem for a name, by a delta.  `apply_staged`
  (`sync/mod.rs:1146`) then finds another identity than the stored one and fails
  the whole transaction, at this sync and at every later one.
  `TransactionNeverFails` of `SyncEngine` does not see it, because there a
  content has a fixed session.
* `KeepsItsName`, second half.  A rollout without any id is named by a digest of
  its path (`sources/mod.rs:428`), so its compressed twin has another name,
  against docs/SOURCE_CONTRACTS.md on the two forms of a rollout.
* `InventoryDecidesProjection`, `TellsApart`.  Claude Code hashes a NUL before each
  field and no length (`claude_code.rs:46-55`), and a text, an id or a `cwd` that was
  decoded from JSON may hold a NUL.  Without id, `cwd` and time, one message of a user
  that says `a`, NUL, `user`, four NULs and `b` hashes like two messages, `a` and `b`.
  The fingerprint of a snapshot (`catalog.rs:432`), and so `status`, cannot tell the
  two transcripts apart; a sync reads the raw bytes again before it keeps a file
  whose stamp has changed (`sync/mod.rs:647-654`).  The samples hold such messages, and
  without the exception the property fails.  Pi, DSH and Codex hash a field behind its
  length.
* `SpecCopyNeverTakesOver`, `PutBack`.  `resolve_moves` looks once whether the path
  a session is indexed from is still there (`sync/mod.rs:873`).  An original that is
  renamed away before that look and renamed back, unchanged, before the commit loses
  its session to a copy; the next sync then refuses the original as the duplicate.
  It takes a third path, and so lies outside of run `moves`.
* `RegistryAsOwed`, `Late` and `OldFinish`.  What an old writer flushes after the
  index was switched is reported as unconfirmed by the command that imported the
  list and is still to check the fence, and lost when there is none.  Before the switch it is taken
  from the hard link, as `cold_fence.rs:504-507` says.
* `Settles`, `Acceptable`.  An old writer that dies over a truncated file leaves
  a list that does not parse; every command then refuses, on purpose.
* `BackupRemains` asks for one whole backup after a migration.  Before it,
  `remove_stale_backups` may keep a newest backup that is torn and delete an older
  whole one (`artifacts.rs:434-483`); the v7 index is then still there.
* `FindMissesNothing` is about a find that no commit came between: recall and
  coverage are two statements, and with a commit between them a find can call
  complete what it searched before.

## 4. Fairness

* `SyncLock`: weak fairness of each started acquire, drop and old writer's
  release.  They are loops of system calls without a condition to wait for; the
  operating system runs them.  Starting is not fair, kills are never owed.
  `AcquireEnds` uses that the deadline cannot be put off: the poll bound stands
  for it.
* `SyncEngine`: weak fairness of `SyncStep`, since a started sync is one thread
  that never waits for the agents, and of beginning a strict sync, since
  `Converges` is about a user who repeats it.  Agents, errors and kills are
  unfair: that they rest is a consequence of `MaxWrites`, and the promise is
  about what happens then.
* `Cutover`: weak fairness of each step of a started command, of starting a sync
  (the user or the timer comes back, as `Settles` is about), and of the end of an
  old writer's call.  Kills, power losses, edits and old writers are unfair and
  bounded.  A command that waits for the lock is owed it only as the holder ends.
* `ProjectionPipeline`: weak fairness of each worker and of the collector, which
  are threads.  A blocked send is disabled, not unfair.

## 5. Proofs

`SyncLockProofs` holds for any finite or infinite set of writers, any subset that
was killed before the run, any subset that may be killed in it, any bound on polls
and any start in `InitialLock`, from the assumption `SyncLockAssumption`: Rust and
old writers are disjoint; at most one old writer is alive; the path is free or holds
a malformed file, an empty directory, the file of a killed writer or the directory
of a killed old writer with its owner file.  A directory with several owner files is
not a start.

* `ExclusiveUntilRaced` is not inductive: it says nothing of what the path holds
  while somebody is inside.  `LockInv` adds, as named conjuncts: a file at the
  path names a process that is inside, leaving or killed (`FileNamesOwner`);
  until two reclaimers met, a process inside or leaving owns the path
  (`HolderOwnsPath`), and the one process before an unlink still has before it
  the file that it read (`SoleReclaimer`), which only another reclaimer or its
  dead owner could have replaced; the old writer's directory is empty until he
  writes into it (`FreshDir`); who is about to remove something has seen an owner
  that has ended, and in the case of a file one that was killed, because every
  other exit removes the file first (`ReclaimTargets`).  By `RaceNeedsDebris` the
  race takes a killed writer: while nobody ever was, the lock is exclusive.
  `TypeInit` and `TypeStep` give `TypeCorrect`; `InvInit` and `InvStep`, one step
  per action, give `LockInvariant`.
* From it follow `ExclusionUntilRaced`, `DebrisIsOfTheKilled` and
  `ReclaimIsOfTheDead`.

`ProjectionPipelineProofs` holds for every number of inputs and of workers (the
zero that the code rounds up to one included).

* `PipelineInv` joins the types, `NoInputTwice`, `NoInputLost` and the relation
  between the counter and the inputs that are held, in flight, staged or failed.
  The lemmas `AppendElements` and `TailElements` say what the two channel
  operations do to the set of elements; each action has a lemma of its own.
* `PipelineImplementsParallelMap` is step simulation under the refinement mapping
  of `ImplementsParallelMap`: staged inputs are the range of `stage`, a push
  error maps to a run that is still going, `Seal` maps to `Complete` or `Fail`.

`CutoverProofs` holds for any set of commands and roots, any number of recovery
directories, v7 databases, edits, old writes, faults and days, from
`MaxDirsAssumption` and `FreeAssumption`.

* `FenceBeforeV8` is not inductive: nothing in it says that the command about to
  switch the index has published the fence, or that a power loss cannot take the
  fence and leave the index.  `CutoverInv` adds that whoever is past the
  beginning of a locked section holds the lock (`LockInv`), that a command at
  `publish` has staged a complete directory and sees an open path
  (`StagedInv`), that one behind it sees the fence (`BehindInv`), and that a
  durable fence is the present one (`DurableInv`).  There is a lemma per group of
  actions that leave the same things alone (`QuietStep`, `EndStep`, `MoveStep`,
  `DurableStep`, ...) and one per action that changes the fence or the index.
* `SpecFenceBeforeV8` and `SpecFenceIsPermanent` follow.

`CutoverIndexProofs` proves the rest of the safety of `Cutover` from one inductive
invariant, `FullInv`, which adds to `CutoverInv`

* of the databases (`IndexInv`): `WholeIndex` of the active and of the durable
  index, and that a durable v8 index is the active one, so that a power loss can
  only go back from v8 to what was there before;
* of the backups (`BackupInv`): `BackupRemains`, and the type that the sequence
  operators need (`StaleRemoved`, `MergedLast`);
* of each command (`CmdInv`, `MigrateInv`, `WriteInv`): what it still knows at the
  step where it acts on it.  A migration's last backup is its own, complete and of
  the last v7 index, and its next index is the copy of that; a sync or an edit
  imports only if there is no index, and edits the registrations there are.  These
  hold because nobody else does a locked step meanwhile (`Alone`), and it is the
  lock that keeps an old sync from replacing the index under a migration;
* of the file (`FileInv`, `FileFor`): path, fence, staged directory and all calls
  of old writers under way mean one and the same file, before and after the fence
  is published and after a power loss.  This is what the hard link is for;
* of what is owed (`DueInv`, `DueFor`): while the file is the registry, it is what
  is owed; after the switch the index is, once nobody is left who imported the
  file and has yet to look at it again; until then what is owed is what that
  command would import now.

  Each action has a lemma that it establishes `Owing'`; `Quiet`, `FenceStep` and
  `SwitchedOthers` say what steps leave as it is for the other commands.
  `ConfirmedDue` is the point of the argument: a command that finds the file as it
  imported it has put what is owed into the index.  `SpecCutoverTypeOK`,
  `SpecWholeIndex`, `SpecBackupRemains` and `SpecRegistryAsOwed` follow.

`SyncEngineProofs` holds for any finite or infinite sets of files, sessions and
records, any requests, cold ids and kinds of agent steps, torn scans included,
from `ConstantsOK` and `NoneAssumption` (`None` is not a value of the data).

* `EngineInv` is the shape of all variables: what each phase has of a run, that
  a staged projection is anchored in the entry of snapshot A and in the cursor it
  continues, each file staged once, a restamp changes nothing but the stamp.  It
  gives `SpecTypeOK`.
* `ReplayInv` adds `Consistent` of the committed index and of the transaction: a
  cursor's session has the row that a replay of what the cursor covers gives, no
  path has two sessions, no session two cursors.  While staged projections wait to
  be applied, those of the moves and those of the paths they leave are kept apart
  (`MovesOK`, `ApplyOK`, `Distinct`).  A delta preserves it because its boundary
  is the prefix that the cursor names; a full projection because its session has
  no other cursor left.  That last fact is false if a planned restamp hits a path
  that a moved session has left.  `SpecIncrementalIsFullReplay` and
  `SpecOneSourceFile` are therefore about behaviours without such a step,
  `Spec /\ []~Revives => ...`, and run `revived_cursor` shows that the hypothesis
  is needed: the code does take the step.  `Revives` needs a session that changes
  its path while the old file is touched, so every behaviour of runs `append` and
  `moves` satisfies the hypothesis.
* `TouchInv` says who touched each row of the transaction: a projection at its
  path, or a prune that was asked for.  `SpecKeepsHistory` follows, without a
  hypothesis.
* `NeverInv` adds that every row has the cursor of its file (`RowsOK`,
  `TxRowsOK`), so that the guards inside the transaction find what they expect.
  `SpecTransactionNeverFails` assumes in addition `NoColdRowKept`: there is no
  cold session, or no request prunes.  A prune that spares a row for a cold root
  takes its cursor away, and the path can then be used by another session; the
  hazard at `index/writer.rs:627` is that case.

* `SpecImplementsReplayIndex` is step simulation, for behaviours in which no restamp
  revives a cursor.  Steps that only read or judge map to a stutter, to `List` or to
  `Discard` (`PromisedFrame`, `PromisedDiscard`).  A projection maps to `Read`: its
  boundary is a replay of complete records that the file holds at that moment
  (`ProjectsReplay`).  Applying it must turn that replay into a row; for a delta, which
  brings only what is new, this needs `Consistent` of the cursor it continues
  (`ApplyPublishes`, with `DeltaContinues`).  The
  commit is `Publish` (`PromisedCommit`): no two rows share a path by `ReplayInv`, a row
  that went was touched or pruned by `TouchInv`.  Kills and errors are `Abandon`.

`SyncCoverageProofs` proves `FreshMeansSearchable` in a `CalmWorld`: files only
grow, are touched, appear, are replaced and vanish, scans are not torn, and no two
paths carry the same session.  The first two are the conditions of run `append`,
which allows any number of failures, kills and prunes; run `torn` shows that
scans must not be torn.
With renames, copies, or a session in two files this one is neither proved nor checked.
`SeenInv` relates what a scan, a projection, a cursor and the transaction hold of
a file to what the file still starts with, by its inode; `CoverInv` adds that
every file of snapshot A is staged or already stored until the commit
(`AllStaged`, `CoverOK`), and that the index stores all that the coverage proof
claims (`CovOK`).

The same module proves `SpecCopyNeverTakesOver`, where agents may do anything at any
moment but two things: write between a scan's stat and its read (`~TornScan`), and put
an original back that was gone when the moves were judged (`PutBack`).

* A version of a file is told by mtime and inode: every write has a new mtime, every
  new file a new inode, and a rename keeps both (`Versions`).  So a version is at one
  path at a time, and one that was written over never comes back (`AgentVersion`).
* What a snapshot or a cursor says was accepted under a stamp was accepted of that
  very version (`OfOneVersion`), through cached entries, restamps and deltas.
  `TornScan` breaks this.  A projection of a path that finds another session than the
  snapshot did has therefore read a later version (`ReadLater`).
* From there on the argument is about one fact, `Yields`: whichever projection is to
  write a session at a new path, the file at the old one is gone, or is not as it was
  seen.  `ResolveMoves` establishes it (`GivesUpLeft`); an agent can break it only by
  putting that very version back (`AgentLeft`); the transaction hands it on to its
  rows, and the commit to the index.

The hypothesis is needed: with three paths TLC finds the put-back, and without such a
step it finds every part of `CopyInv` preserved.  In run `moves` no such step exists.

`ReadPathProofs` holds for any finite set of paths, any scopes of one source, any
page size, and any number of writes, syncs and reads, from `ReadPathConstants`:
every component of a path has a case folding, dates are positive, and no two paths
end in the same name, because a session is named by its file here.

* `WorldInv` is the shape of disk and running sync.  A record on disk is smaller
  than the next one (`Earlier`), so that what an agent writes is not what any proof
  was taken of.
* `RowsInv`: ids, names and paths each tell a row, and ids stay below `nextId`.
  New sessions get the next ids in the order of their names; `RankOfName` shows
  that no two get the same, and `PublishRows` that no id ever moves to another path.
* `ProofInv`: every proof on file, and every one that a `status` under way has read,
  is of contents that were on disk once; and each file that it marks and that is
  still as it was (`Vouches`) is in the index as it is, and the running sync has
  seen it as it is (`SeenAsIs`).  The last part is what makes it inductive: the
  prune of that sync takes only rows of its scope that it has not seen, so it
  leaves the file alone, whatever narrower or wider scope it has.
* This needs that the SQL scope of a prune is the scope of the scan, which
  `RowScope` proves up to LIKE, and LIKE ignores the case of ASCII letters.
  `SpecFreshMeansIndexed` and `SpecProvedIsIndexed` therefore assume
  `RootsDifferByMoreThanCase`: where two roots differ in case only, a prune of one
  removes rows of the other and leaves the proof.  `QueryLaws` names the same
  exception in `OneScope`.
* `FreshIsIndexed` goes from a verdict to the record it stands on (`FreshVerdict`,
  `FreshRecord`), from that to its wider scope (`ImpliedScope`), and from there to
  `ProofInv`.
* `WalkInv` is about pages, without a hypothesis: until something other than growth
  comes between, what was read is a prefix of one row, found by its name for the
  header and by its id for the messages (`ReadsFrom`, `OneRow`); `PageGoesOn` is
  the arithmetic.  `SpecPagesHaveNoGaps` follows.

`QueryLawsProofs` holds for any samples that `QuerySamples` describes: scopes as
`Canonicalize` lets them through, files that tell two scopes of a root apart, and
`None` and the error distinct from data, as `Option` and `Result` are.
`SpecImpliesIsContainment` and `SpecOneScope` reduce to `ImpliedScope`,
`ContainmentImplies` and `RowScope`, which mention no sample state;
`SpecBootstrapCoversTheSearch` shows that proposal and search take the same branch
of `OptionalSelector`, and that a scope implies itself.

The second part of the module is about Codex rollouts of any length.  Induction over
their records is induction over numbers with a set for the predicate: the numbers
outside of the set have a least one (`WFMin`), so a set that holds the first record
and the next of each of its members holds all (`UpFrom`, `UpTo`).  `ReadingExists`
builds the recursive function of `ProcessEach` that way, and `ReadsStep` gives its
equation; from there on each proof is about one record.

* `DeltaReading`: a delta from a checkpoint and the full reading it continues go in
  step (`Continues`).  Their states are equal, or differ in the name that the
  checkpoint has made up for a rollout without one (`Agrees`), which the full
  reading makes up at its end; a `session_meta` with an id, the one record that
  tells the two apart, gives both the same name or makes the delta refuse
  (`DeltaApply`).  `SpecDeltaIsFullReplay` follows by `FinishSame`.
* `NamedReading`: a delta never renames, and it becomes a segment only by a record
  that declares a base.  `SpecKeepsItsName` follows, and `TwinKeepsName` for the
  compressed twin.
* `PairedReading`: the mirror of the reducer is the last message read, if that is
  shown and no turn or compaction came since, and the turn of the reducer is the
  one a reader of the records would name (`Remembers`, `TurnStep`).
  `SpecMirrorPairsOnce` follows, both ways.

From `AdapterSamples`: rollouts are sequences, the first and the last uuid of a name
(codex.rs:869, codex.rs:899) are there together, and a digest is not empty.

The third part is about sorting and merging, for lists of any length.  `Sorted` puts
a member where as many come before it as have a lesser key, which needs no recursion
to state; `Places` shows that a strict order of keys (`KeyOrder`) gives every member
a place of its own and leaves none empty, and `InOrderLists` that the result lists
every member once, in order.

* `SpecMergeIgnoresOrder`: sources have no session in common, so the best of each
  session (`Deduped`, again by induction) of two lists joined is that of one joined to
  that of the other (`JoinedDeduped`); and lists that are permutations of each other,
  with keys that tell any two members apart, are sorted alike (`ListedAlike`,
  `EitherWay`).  Without names in the key the last step fails, which is the mutant.
* `SpecTimeSortIsNewest` follows the code in three steps: the sessions chosen to be
  ranked are the newest (`AreNewest`), their candidates are exactly those of these
  sessions (`NarrowedHeads`), all of which are ranked (`RanksAll`), and sorting what
  is ranked by time drops only older ones (`SortedByTime`, `NewestShown`).

From `ListSamples` and `CandidateSamples`: times, ranks and scores are numbers, names
sort as numbers do, the two sources have different names, and one session has one
start and one end, as its row has in the index (writer.rs `upsert_session`).

The last part joins the index and the ranking.  `SpecFindMissesNothing` is about a
find by relevance or by time, with any query of words and any scope, and needs two
hypotheses: `RootsDifferByMoreThanCase`, as above, and that its limits leave room
(`Room`: no more documents than `CandidateLimit`, no more sessions than the limit
asked for) at every step, without which a find leaves sessions out on purpose.  On
the instance of `read_path` every state satisfies `Room`.

* `RecallsWanted`: the keys of recall tell any two documents apart (`RecallKeys`: the
  last two are the session and the place in it), so each document of the scope is
  recalled once; the fallback queries are not reached, because every document of the
  model holds the words (`DocsOf`).
* `RankableDocs`: every part of a score is a number; `HeadsAreRows`: there are no more
  sessions to rank than rows; so all are ranked (`RanksAll`, `ListsAll`) and
  `FindNamesAll` follows.
* `FindInv`: until a commit, the hits have every session of the scope that has
  messages; what a proof vouches for is among these by `ProofInv`.

From `FindArgsConstants`: the query has words, no session is excluded, and the limit,
the day and the order of the source's name are numbers.

`SpecEvidenceIsReadable` is about one source with any documents and any query, the
retries of a query without hits included.

* A list that the code makes element by element is an `Advance` of a function of
  numbers, and a set that holds its first value and the next of each of its values
  holds all (`AdvanceStays`).  That is how the lemmas on plurals and relaxed queries
  (`ExtendedForms`, `QueriesOfForms`, `RelaxedForms`) say that each query of a retry
  is made of forms of the terms, without induction over data.
* `RecallsHeld`: what is recalled for such a query holds a form of a term;
  `FallbackHeld`: so does what the retries append, whichever of them found it.
* `RankingLists` and `RankedShow`: a result shows one of the documents ranked, and
  its place is that of a message, or none if the session was found by its profile
  alone.  `FoundAndShown` joins both, and `AnchorHeld` goes from the result to the
  message that the read command opens.

From `EvidenceSamples`: documents are as the index stores them, one for each place
of a session, a message with a place and a profile without, and one start and end
for a session.

`SpecInventoryDecidesProjection` is about two transcripts of one source, of any
length.  For each adapter there is a reading of the hashed fields, and the
projection is shown to be computed from it: records the adapter does not accept are
neither hashed nor read, and choosing the kinds of records twice is choosing them
once.  Codex, Pi and DSH hash a field behind its length, and the model takes the
list of fields for what is hashed.  Claude Code hashes a NUL before each field and no
length (`claude_code.rs:46-55`), and there the model hashes letters: `FieldCut` shows
that the last NUL is found again where no field holds one, `MessageCut` takes a
message off the end of a hash by five such cuts, and `HashesReadBack` takes all of
them, so that `HashDecides` has equal messages for equal hashes.  Two transcripts
hashed alike are therefore projected alike, under the `cwd` they are selected by,
but for messages of Claude Code that hold a NUL (section 3).

Model-checked only is all liveness (`AcquireEnds`, `LoneWriterGetsLock`, `Converges`,
`Terminates`, `Settles`), for which there is no prover here.  Every safety property that a
passing run checks is the subject of a theorem, under the hypotheses named above.

## 6. Plan and what is not modelled

Next: best effort with prune in the engine's runs; `Codex = FALSE`; a walk entry by
entry; a cold session whose path is used again; nested roots.

Not modelled, and why:

* JSON decoding, the JSONL spool encoding, SQL text, FTS ranking and triggers,
  segmentation, snippets, elision, UTF-16 offsets: sequential conversions whose
  details no property here tells apart.
* Argument parsing, error codes, output formats and progress: no state.
* The compressed form of a Codex rollout, on the disk of `SyncEngine`: what a prune
  keeps for it (`sync/mod.rs:421-432`) and what a move takes from it
  (`sync/mod.rs:842-860`).  `KeepsItsName` is about its name only.
* The refusals of the legacy copy that are about one value: an unknown source, a time
  or a size that is no number (`migration/legacy.rs:239`, 247-248, 333).
* `collect` of cold archives reads files that nobody writes; it is a set of ids.
* Process-id reuse in the lock: its outcome, a timeout, the model has anyway.
* The directory walk is one step (see the hazard at `sources/catalog.rs:110`).
