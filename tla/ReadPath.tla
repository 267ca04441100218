------------------------------ MODULE ReadPath ------------------------------
(***************************************************************************)
(* Commands that read the index while agents write their transcripts and   *)
(* syncs commit (src/src/index/reader.rs, app/mod.rs, app/status.rs; the   *)
(* sync is the one of SyncEngine, seen from outside).                      *)
(*                                                                         *)
(* A reader opens no transaction: find, read-page and status are several   *)
(* statements each, and a sync may commit between two of them.  The last   *)
(* statement of a command changes nothing, so its answer is an operator of *)
(* the state and not an action.                                            *)
(***************************************************************************)
EXTENDS Retrieval

CONSTANTS
  Source,
  Paths,      \* where transcripts may be
  DateOf,     \* [Paths -> dates or None]
  Cwds,
  Scopes,     \* the selectors that are synced and asked for
  FindArgs,   \* how find is called
  Found,      \* what cwds, of which transcripts, the first sync may find
  MaxWrites, MaxSyncs, MaxReads, PageSize

(* Paths are known to CaseFold, dates are after the empty text a path       *)
(* without one is stored with, and names sort, one session to a name.      *)
ASSUME ReadPathConstants ==
  /\ IsFiniteSet(Paths) /\ Paths \subseteq Seq(DOMAIN CaseFold)
  /\ \A p, q \in Paths : NameOrder[Last(p)] = NameOrder[Last(q)] => p = q
  /\ \A p \in Paths : NameOrder[Last(p)] \in Nat \ {0}
  /\ DateOf \in [Paths -> (Nat \ {0}) \cup {None}]
  /\ None \notin Scopes
  /\ \A s \in Scopes :
       /\ s.source = Source /\ s.kind \in Kinds /\ s.root \in Seq(DOMAIN CaseFold)
       /\ IsDated(s) => {s.from, s.to} \subseteq Nat \ {0}
  /\ Found \subseteq [Paths -> Cwds \cup {None}]
  /\ {MaxWrites, MaxSyncs, MaxReads} \subseteq Nat /\ PageSize \in Nat \ {0}

(* A find looks for words, which every record holds, and leaves no session *)
(* out.                                                                    *)
ASSUME FindArgsConstants ==
  /\ FindArgs.query # Blank /\ FindArgs.query.terms # <<>>
  /\ FindArgs.query.terms \in Seq(ToSet(FindArgs.query.terms))
  /\ FindArgs.excluded = {} /\ FindArgs.sort \in {"relevance", "ended", "started"}
  /\ FindArgs.limit \in Nat /\ FindArgs.day \in Int /\ NameOrder[Source] \in Nat

VARIABLES
  disk,      \* the files under the roots
  written,   \* records written so far; each is a fresh number
  rows, cursors, records,   \* the index: sessions, source files, proofs
  nextId,
  sync,      \* the sync that is running
  syncs,     \* how many have begun
  reader,    \* the command that is reading
  reads

vars == <<disk, written, rows, cursors, records, nextId, sync, syncs, reader, reads>>

-----------------------------------------------------------------------------
(* The agents.  A record is never written twice: a file that was changed   *)
(* or removed does not come back with the bytes it had.                    *)

FileAt(path) == CHOOSE f \in disk : f.path = path
Exists(path) == \E f \in disk : f.path = path

NewFile(path, cwd, content) ==
  [source |-> Source, path |-> path, date |-> DateOf[path], cwd |-> cwd, content |-> content]

Write ==
  /\ written < MaxWrites
  /\ written' = written + 1
  /\ UNCHANGED <<rows, cursors, records, nextId, sync, syncs, reader, reads>>

(* A transcript begins without a message.                                  *)
CreateFile(path, cwd) ==
  /\ ~Exists(path)
  /\ disk' = disk \cup {NewFile(path, cwd, <<>>)}
  /\ Write

AppendRecord(path) ==
  /\ Exists(path)
  /\ LET f == FileAt(path) IN
     disk' = (disk \ {f}) \cup {[f EXCEPT !.content = Append(@, written)]}
  /\ Write

RewriteFile(path, cwd) ==
  /\ Exists(path)
  /\ disk' = (disk \ {FileAt(path)}) \cup {NewFile(path, cwd, <<written>>)}
  /\ Write

RemoveFile(path) ==
  /\ Exists(path)
  /\ disk' = disk \ {FileAt(path)}
  /\ Write

-----------------------------------------------------------------------------
(* The index as a sync leaves it.                                          *)

InSnapshot(s, files) == {f \in files : InScope(s, f)}

Native(path) == Last(path)

RowAt(path) == {r \in rows : r.path = path}

(* A session that is indexed keeps its id; a new one takes the next.       *)
RowId(f, new) ==
  IF RowAt(f.path) # {} THEN (CHOOSE r \in RowAt(f.path) : TRUE).id
  ELSE nextId + Cardinality({g \in new : NameOrder[Native(g.path)] < NameOrder[Native(f.path)]})

RowOf(f, root, new) ==
  [id |-> RowId(f, new), source |-> Source, native |-> Native(f.path), uuid |-> Native(f.path),
   path |-> f.path, root |-> root, cwd |-> f.cwd, date |-> StoredDate(f.date),
   started |-> 0, ended |-> 0, msgs |-> f.content]

CursorOf(f, root) ==
  [source |-> Source, path |-> f.path, root |-> root, cwd |-> f.cwd, date |-> StoredDate(f.date),
   content |-> f.content, version |-> IndexVersion, checkpoint |-> TRUE]

(* The rows and cursors once files are projected: a file without messages  *)
(* has a cursor and no session.                                            *)
RowsWith(files, root) ==
  LET kept == {r \in rows : \A f \in files : f.path # r.path}
      shown == {f \in files : f.content # <<>>}
      new == {f \in shown : RowAt(f.path) = {}}
  IN kept \cup {RowOf(f, root, new) : f \in shown}

CursorsWith(files, root) ==
  {c \in cursors : \A f \in files : f.path # c.path} \cup {CursorOf(f, root) : f \in files}

-----------------------------------------------------------------------------
(* A sync.                                                                 *)

Idle == [running |-> FALSE]

Begin(s, strict, prune) ==
  /\ ~sync.running /\ syncs < MaxSyncs
  /\ sync' = [running |-> TRUE, selector |-> s, strict |-> strict, prune |-> prune,
              seen |-> InSnapshot(s, disk)]
  /\ syncs' = syncs + 1
  /\ UNCHANGED <<disk, written, rows, cursors, records, nextId, reader, reads>>

(* What the second scan may show and the first snapshot still be proved.   *)
OnlyGrew ==
  LET now == InSnapshot(sync.selector, disk) IN
  \/ now = sync.seen
  \/ /\ Source = Codex
     /\ {f.path : f \in now} = {f.path : f \in sync.seen}
     /\ \A f \in sync.seen, g \in now :
          f.path = g.path => f.cwd = g.cwd /\ IsPrefix(f.content, g.content)

(* A walk through a session goes on as if nothing had happened while its   *)
(* row only grows.                                                         *)
StillGrowing(walk, after) ==
  \E r \in rows : r.id = walk.id /\ \E n \in after :
    n.id = r.id /\ IsPrefix(r.msgs, n.msgs)

(* One transaction: files are projected, a prune removes the sessions that *)
(* were not seen, with their cursors, and the proofs are replaced.         *)
Publish(files, proofs) ==
  LET s == sync.selector
      put == RowsWith(files, s.root)
      hot == {f.path : f \in sync.seen}
      after == IF sync.prune THEN PrunedRows(put, s, hot, {}) ELSE put
      gone == {c.path : c \in SourceFilesFor(s, cursors)} \ hot
  IN /\ rows' = after
     /\ cursors' = {c \in CursorsWith(files, s.root) : sync.prune => c.path \notin gone}
     /\ nextId' = nextId + Cardinality({f \in files : f.content # <<>> /\ RowAt(f.path) = {}})
     /\ records' = proofs
     /\ reader' = CASE reader.command = "find" -> [reader EXCEPT !.undisturbed = FALSE]
                    [] reader.command = "walk" ->
                         [reader EXCEPT !.undisturbed = @ /\ StillGrowing(reader, after)]
                    [] OTHER -> reader

EndSync == sync' = Idle /\ UNCHANGED <<disk, written, syncs, reads>>

(* Mutant: the proof is of the second scan, which nothing was read from.   *)
CompleteAsOfNow ==
  /\ sync.running /\ sync.strict /\ OnlyGrew
  /\ Publish(sync.seen, ReplaceCoverage(records, ProofOf(Snapshot(sync.selector, disk, {}))))
  /\ EndSync

Complete ==
  /\ sync.running /\ sync.strict /\ OnlyGrew
  /\ Publish(sync.seen, ReplaceCoverage(records, ProofOf(Snapshot(sync.selector, sync.seen, {}))))
  /\ EndSync

(* Files are left out: a best effort may refuse any of them, a strict sync *)
(* defers only files that grew.                                            *)
Partial(files) ==
  /\ sync.running
  /\ sync.strict => OnlyGrew /\ files # sync.seen /\ sync.seen \cap disk \subseteq files
  /\ Publish(files, InvalidateSourceRoot(records, sync.selector))
  /\ EndSync

(* A strict sync that saw an error, or the source change under it.         *)
Fail ==
  /\ sync.running /\ sync.strict
  /\ records' = InvalidateSourceRoot(records, sync.selector)
  /\ UNCHANGED <<rows, cursors, nextId, reader>>
  /\ EndSync

Crash ==
  /\ sync.running
  /\ UNCHANGED <<rows, cursors, records, nextId, reader>>
  /\ EndSync

-----------------------------------------------------------------------------
(* The readers.                                                            *)

NoReader == [command |-> "none"]

Read ==
  /\ reads < MaxReads /\ reads' = reads + 1
  /\ UNCHANGED <<disk, written, rows, cursors, records, nextId, sync, syncs>>

(* Every record holds every word a find looks for.                         *)
DocsOf(row) ==
  {[id |-> row.id, source |-> row.source, native |-> row.native, uuid |-> row.uuid,
    path |-> row.path, cwd |-> row.cwd, date |-> row.date, started |-> row.started,
    ended |-> row.ended, kind |-> "message", seq |-> i - 1, role |-> "user", bm25 |-> 0,
    words |-> ToSet(Words(TermsOf(FindArgs.query))), tokens |-> <<>>, args |-> FALSE,
    title |-> <<>>, cwdWords |-> {}] : i \in DOMAIN row.msgs}

FindIn(s) ==
  FindSource(FindArgs, Source, s, UNION {DocsOf(r) : r \in rows}, rows, records)

(* find: the candidates are recalled, then the coverage is read.           *)
RecallFirst(s) ==
  LET found == FindIn(s).results IN
  /\ reader' = [command |-> "find", scope |-> s, undisturbed |-> TRUE,
                hits |-> {found[i].native : i \in DOMAIN found}]
  /\ Read

FindCoverage == IndexedCoverage(CoverageRecords(records, Source), reader.scope)

(* status: the index is read, then the disk is scanned.                    *)
StatusFirst(s) ==
  /\ reader' = [command |-> "status", scope |-> s, records |-> records, cursors |-> cursors]
  /\ Read

Verdict ==
  Status(All(Source, reader.scope.root), reader.scope, FALSE, disk, {},
         reader.records, reader.cursors).requested

(* read-page, one page after the other: the session's row, then a page of  *)
(* its messages.                                                           *)
ReadHeader(native, offset, got, undisturbed) ==
  LET row == StoredSession(rows, Source, native) IN
  reader' = IF row = None THEN NoReader
            ELSE [command |-> "walk", id |-> row.id, native |-> native, offset |-> offset,
                  total |-> Len(row.msgs), got |-> got, more |-> TRUE, page |-> FALSE,
                  undisturbed |-> undisturbed]

FirstPage(native) == ReadHeader(native, 0, <<>>, TRUE) /\ Read

NextPage ==
  /\ reader.command = "walk" /\ reader.page /\ reader.more
  /\ ReadHeader(reader.native, reader.offset, reader.got, reader.undisturbed)
  /\ UNCHANGED <<disk, written, rows, cursors, records, nextId, sync, syncs, reads>>

ReadMessages ==
  /\ reader.command = "walk" /\ ~reader.page
  /\ LET page == MessagesForPage(rows, reader.id, reader.offset, PageSize) IN
     reader' = [reader EXCEPT !.page = TRUE, !.got = @ \o page, !.offset = @ + Len(page),
                              !.more = HasMore(reader.offset, Len(page), reader.total)]
  /\ UNCHANGED <<disk, written, rows, cursors, records, nextId, sync, syncs, reads>>

-----------------------------------------------------------------------------
(* The index is first built over whatever is there.                        *)
Init ==
  /\ \E cwd \in Found :
       disk = {NewFile(p, cwd[p], <<-NameOrder[Native(p)]>>) : p \in {q \in Paths : cwd[q] # None}}
  /\ written = 0
  /\ rows = {} /\ cursors = {} /\ records = {} /\ nextId = 1
  /\ sync = Idle /\ syncs = 0
  /\ reader = NoReader /\ reads = 0

Agents ==
  \E path \in Paths :
    \/ \E cwd \in Cwds : CreateFile(path, cwd) \/ RewriteFile(path, cwd)
    \/ AppendRecord(path)
    \/ RemoveFile(path)

Sync ==
  \/ \E s \in Scopes, strict, prune \in BOOLEAN : Begin(s, strict, prune)
  \/ Complete
  \/ sync.running /\ \E files \in SUBSET sync.seen : Partial(files)
  \/ Fail
  \/ Crash

Readers ==
  \/ \E s \in Scopes : RecallFirst(s) \/ StatusFirst(s)
  \/ \E r \in rows : FirstPage(r.native)
  \/ NextPage
  \/ ReadMessages

Next == Agents \/ Sync \/ Readers

Spec == Init /\ [][Next]_vars

-----------------------------------------------------------------------------
(* What a reader is told.                                                  *)

Indexed(f) ==
  f.content # <<>> =>
    \E r \in rows : r.path = f.path /\ r.cwd = f.cwd /\ r.msgs = f.content
                      /\ r.date = StoredDate(f.date)

(* When status calls a scope fresh, every file in it is in the index as it *)
(* is on disk, though the index was read before the disk was scanned, and  *)
(* whatever narrower or wider syncs, prunes, failures and crashes came in  *)
(* between (status.rs, coverage.rs evaluate_requested_coverage).           *)
FreshMeansIndexed ==
  reader.command = "status" =>
    (Verdict.freshness = "fresh" => \A f \in InSnapshot(reader.scope, disk) : Indexed(f))

(* A find that calls its scope complete, and that no commit came between,  *)
(* misses no session whose file is still as the proof saw it (app/mod.rs   *)
(* find_summary: recall and coverage must be about one scope).             *)
FindMissesNothing ==
  reader.command = "find" =>
    (reader.undisturbed =>
      \A p \in FindCoverage.covering : \A f \in InSnapshot(reader.scope, disk) :
        /\ f.content # <<>>
        /\ <<Relative(p.selector.root, f.path), f.date, f.cwd, f.content>> \in p.fingerprint[2]
        => Native(f.path) \in reader.hits)

(* The pages of a session that only grows meanwhile join without a gap or  *)
(* a repetition, and once there is no more they reach the total the last   *)
(* page announced (reader.rs read_page: the row is one statement and the   *)
(* messages another).                                                      *)
PagesHaveNoGaps ==
  reader.command = "walk" =>
    (reader.undisturbed =>
      /\ IsPrefix(reader.got, MessagesOf(rows, reader.id))
      /\ reader.more \/ Len(reader.got) >= reader.total)

(* status.rs:114 and :145: "query anyway" is safe only when every changed  *)
(* file proves append-only, and what cannot be proved is not taken to be.  *)
AdviceNeedsProof ==
  reader.command = "status" =>
    (Verdict.action = "query" =>
      \A f \in InSnapshot(reader.scope, disk) :
        \E c \in reader.cursors : c.path = f.path /\ IsPrefix(c.content, f.content))

=============================================================================
