------------------------------ MODULE SyncEngine ------------------------------
(***************************************************************************)
(* One index database, the raw files of one source root and the sync that  *)
(* keeps the first up to date with the second                              *)
(* (src/src/sync/mod.rs with index/writer.rs, sources/catalog.rs).         *)
(*                                                                         *)
(* A sync scans the root (snapshot A), projects what changed into a        *)
(* private stage, scans again (snapshot B), judges the difference, and     *)
(* publishes the stage in one SQLite transaction.  The agents whose        *)
(* transcripts these are go on writing all the while.  Syncs exclude each  *)
(* other by the writer lock of module SyncLock, so there is one here.      *)
(***************************************************************************)
EXTENDS SnapshotTransition, FiniteSets

CONSTANTS
  Files,      \* paths under the source root
  Carries,    \* [Files -> SUBSET Sids]: sessions a file written here can hold
  MaxLen,     \* bound: records per file
  MaxWrites,  \* bound: steps of the agents
  WorldOps,   \* what the agents do to files
  Requests,   \* sync requests, [strict : BOOLEAN, prune : BOOLEAN]
  ColdIds,    \* sessions present under a registered cold root
  TornScan,   \* FALSE: no agent writes between a scan's stat and its read
  Faulty      \* TRUE: a sync can be killed and can meet an I/O error

AllWorldOps ==
  {"append", "tail", "rewrite", "replace", "create", "remove", "rename", "touch"}

ASSUME ConstantsOK ==
  /\ Carries \in [Files -> SUBSET Sids]
  /\ MaxLen \in Nat /\ MaxWrites \in Nat
  /\ WorldOps \subseteq AllWorldOps
  /\ Requests \subseteq [strict : BOOLEAN, prune : BOOLEAN]
  /\ ColdIds \subseteq Sids
  /\ TornScan \in BOOLEAN /\ Faulty \in BOOLEAN /\ Codex \in BOOLEAN
  /\ NoSid \notin Sids

VARIABLES
  raw,       \* what is on disk: [Files -> file or NoFile]
  writes,    \* steps the agents took; the clock of mtimes and inodes
  sess,      \* session_rows with their documents: [Sids -> row or NoSession]
  cur,       \* source_files: [Files -> cursor or NoFile]
  cov,       \* coverage: the proven fingerprint, or NoProof
  pc,        \* where the sync is
  req,       \* its request
  before,    \* snapshot A
  after,     \* snapshot B
  todo,      \* paths the phase has yet to visit
  pending,   \* the path a scan has stat'ed and not read, with its stamp
  errors,    \* phases that recorded an error
  refreshes, \* cursors whose file changed its stamp only: [path, cursor]
  stage,     \* the projections, in order of completion
  stale,     \* bindings a moved session leaves behind: [new, old]
  kind,      \* the verdict on the snapshots
  tx         \* the open transaction: [sess, cur]

world == <<raw, writes>>
index == <<sess, cur, cov>>
run   == <<pc, req, before, after, todo, pending, errors, refreshes, stage,
           stale, kind, tx>>
vars  == <<world, index, run>>

NoSession  == None
NoProof    == None
NoRequest  == None
NoTx       == None
NoVerdict  == None
NoSnapshot == [f \in Files |-> NoFile]

Present == {f \in Files : raw[f] # NoFile}

-----------------------------------------------------------------------------
(* The agents and users who own the raw files.                             *)

Write(f, c) ==
  /\ raw' = [raw EXCEPT ![f] = c]
  /\ writes' = writes + 1

NewFile(s, rs) ==
  [ino |-> writes + 1, mt |-> writes + 1, sid |-> s, recs |-> rs, tail |-> FALSE]

AppendRecord(f, t) ==
  \E r \in Records :
    /\ raw[f] # NoFile
    /\ ~raw[f].tail
    /\ Len(raw[f].recs) < MaxLen
    /\ Write(f, [raw[f] EXCEPT !.recs = Append(@, r), !.mt = writes + 1, !.tail = t])

TerminateRecord(f) ==
  /\ raw[f] # NoFile
  /\ raw[f].tail
  /\ Write(f, [raw[f] EXCEPT !.mt = writes + 1, !.tail = FALSE])

(* Truncated and written anew, under the same inode.                       *)
RewriteFile(f) ==
  \E s \in Carries[f], r \in Records :
    /\ raw[f] # NoFile
    /\ Write(f, [NewFile(s, <<r>>) EXCEPT !.ino = raw[f].ino])

ReplaceFile(f) ==
  \E s \in Carries[f], r \in Records :
    /\ raw[f] # NoFile
    /\ Write(f, NewFile(s, <<r>>))

CreateFile(f) ==
  \E s \in Carries[f], rs \in {<<>>} \union {<<r>> : r \in Records} :
    /\ raw[f] = NoFile
    /\ Write(f, NewFile(s, rs))

RemoveFile(f) ==
  /\ raw[f] # NoFile
  /\ Write(f, NoFile)

(* A rename keeps inode, mtime and bytes.                                  *)
RenameFile(f) ==
  \E g \in Files \ {f} :
    /\ raw[f] # NoFile
    /\ raw[g] = NoFile
    /\ raw' = [raw EXCEPT ![g] = raw[f], ![f] = NoFile]
    /\ writes' = writes + 1

TouchFile(f) ==
  /\ raw[f] # NoFile
  /\ Write(f, [raw[f] EXCEPT !.mt = writes + 1])

AgentStep ==
  /\ writes < MaxWrites
  /\ TornScan \/ pending = NoFile
  /\ UNCHANGED <<index, run>>
  /\ \E f \in Files :
       \/ "append" \in WorldOps /\ AppendRecord(f, FALSE)
       \/ "tail" \in WorldOps /\ (AppendRecord(f, TRUE) \/ TerminateRecord(f))
       \/ "rewrite" \in WorldOps /\ RewriteFile(f)
       \/ "replace" \in WorldOps /\ ReplaceFile(f)
       \/ "create" \in WorldOps /\ CreateFile(f)
       \/ "remove" \in WorldOps /\ RemoveFile(f)
       \/ "rename" \in WorldOps /\ RenameFile(f)
       \/ "touch" \in WorldOps /\ TouchFile(f)

-----------------------------------------------------------------------------
(* Control of the run.                                                     *)

(* Errors end a strict sync; only an index error ends a best-effort one.   *)
Acceptable == "index" \notin errors /\ (req.strict => errors = {})

PhaseDone(p) == pc = p /\ todo = {} /\ pending = NoFile

ResetRun ==
  /\ pc' = "idle" /\ req' = NoRequest
  /\ before' = NoSnapshot /\ after' = NoSnapshot
  /\ todo' = {} /\ pending' = NoFile /\ errors' = {}
  /\ refreshes' = {} /\ stage' = <<>> /\ stale' = {}
  /\ kind' = NoVerdict /\ tx' = NoTx

(* sync_failure_after_invalidation: drop the proof, leave the rest alone.  *)
FailSync ==
  /\ ResetRun
  /\ cov' = NoProof
  /\ UNCHANGED <<world, sess, cur>>

GiveUp == PhaseDone(pc) /\ pc # "idle" /\ ~Acceptable /\ FailSync

(* Staging, opening or writing the database fails.                         *)
IoError == Faulty /\ pc # "idle" /\ FailSync

(* The process is killed: the stage and an open transaction are gone.      *)
Crash ==
  /\ Faulty /\ pc # "idle"
  /\ ResetRun
  /\ UNCHANGED <<world, index>>

-----------------------------------------------------------------------------
(* Snapshots.                                                              *)

Begin(r) ==
  /\ pc = "idle"
  /\ pc' = "scanA"
  /\ req' = r
  /\ todo' = Present
  /\ UNCHANGED <<world, index, before, after, pending, errors, refreshes,
                 stage, stale, kind, tx>>

ScanStat(f) ==
  /\ pc \in {"scanA", "scanB"}
  /\ pending = NoFile
  /\ f \in todo
  /\ todo' = todo \ {f}
  /\ IF raw[f] = NoFile
     THEN errors' = errors \union {"scan"} /\ UNCHANGED pending
     ELSE pending' = [path |-> f, stat |-> Stat(raw[f])] /\ UNCHANGED errors
  /\ UNCHANGED <<world, index, pc, req, before, after, refreshes, stage,
                 stale, kind, tx>>

(* What the scan may take from the cursor (A) or from snapshot A (B).      *)
Cached(f) == IF pc = "scanA" THEN cur[f] ELSE before[f]

ScanRead ==
  /\ pending # NoFile
  /\ LET f      == pending.path
         cached == Cached(f)
         hit    == cached # NoFile /\ cached.stat = pending.stat
         entry  == IF hit THEN [stat |-> pending.stat, acc |-> cached.acc]
                   ELSE IF raw[f] # NoFile /\ Selects(raw[f])
                   THEN [stat |-> pending.stat, acc |-> Accepted(raw[f])]
                   ELSE NoFile
     IN /\ errors' = errors \union
                      (IF ~hit /\ raw[f] = NoFile THEN {"scan"} ELSE {})
        /\ IF pc = "scanA"
           THEN before' = [before EXCEPT ![f] = entry] /\ UNCHANGED after
           ELSE after' = [after EXCEPT ![f] = entry] /\ UNCHANGED before
  /\ pending' = NoFile
  /\ UNCHANGED <<world, index, pc, req, todo, refreshes, stage, stale, kind,
                 tx>>

-----------------------------------------------------------------------------
(* Projection.                                                             *)

(* Mutant: the stamp does not matter when the accepted records are the same*)
UnchangedByContent(f) == cur[f] # NoFile /\ cur[f].acc = before[f].acc

(* source_file_unchanged                                                   *)
Unchanged(f) ==
  cur[f] # NoFile /\ cur[f].stat = before[f].stat /\ cur[f].acc = before[f].acc

(* identity_only_refresh: another stamp, the same bytes.                   *)
SameBytes(f) ==
  /\ cur[f] # NoFile
  /\ cur[f].stat.size = before[f].stat.size
  /\ cur[f].acc = before[f].acc
  /\ PrefixMatches(raw[f], before[f].stat.size, cur[f].head)

PlanProjection ==
  LET changed == {f \in Selected(before) : ~Unchanged(f)}
      touched == {f \in changed : SameBytes(f)}
  IN /\ PhaseDone("scanA") /\ Acceptable
     /\ pc' = "project"
     /\ refreshes' = {[path |-> f, cursor |-> [cur[f] EXCEPT !.stat = before[f].stat]] :
                         f \in touched}
     /\ todo' = changed \ touched
     /\ UNCHANGED <<world, index, req, before, after, pending, errors, stage,
                    stale, kind, tx>>

(* A worker finishes one file.                                             *)
ProjectFile(f) ==
  /\ pc = "project"
  /\ f \in todo
  /\ todo' = todo \ {f}
  /\ IF raw[f] = NoFile \/ (raw[f] # NoFile /\ raw[f].ino # before[f].stat.ino)
     THEN errors' = errors \union {"project"} /\ UNCHANGED stage
     ELSE /\ stage' = Append(stage, Project(raw[f], f, before[f], cur[f]))
          /\ UNCHANGED errors
  /\ UNCHANGED <<world, index, pc, req, before, after, pending, refreshes,
                 stale, kind, tx>>

Rescan ==
  /\ PhaseDone("project") /\ Acceptable
  /\ pc' = "scanB"
  /\ todo' = Present
  /\ UNCHANGED <<world, index, req, before, after, pending, errors, refreshes,
                 stage, stale, kind, tx>>

-----------------------------------------------------------------------------
(* Judgement: which projections may be published.                          *)

(* Give the projections that satisfy Bad another fate than publication.    *)
Refuse(Bad(_), why) ==
  stage' = [i \in DOMAIN stage |->
              IF Bad(stage[i]) THEN [stage[i] EXCEPT !.fate = why] ELSE stage[i]]

Staged == {stage[i].path : i \in DOMAIN stage}

(* The read was complete, of the same inode, and its bytes are still there;*)
(* a file that looks the same in both snapshots was the same when opened.  *)
ProofHolds(st) ==
  LET b == before[st.path] a == after[st.path]
  IN /\ a # NoFile
     /\ st.read = b.stat.size
     /\ st.opened.ino = b.stat.ino
     /\ PrefixMatches(raw[st.path], st.indexed, st.boundary)
     /\ a = b => st.opened = b.stat

Validate ==
  LET Bad(st) == ~ProofHolds(st)
  IN /\ PhaseDone("scanB") /\ Acceptable
     /\ pc' = "resolve"
     /\ Refuse(Bad, "invalid")
     /\ errors' = errors \union
                     {"stage" : i \in {i \in DOMAIN stage : Bad(stage[i])}}
     /\ UNCHANGED <<world, index, req, before, after, todo, pending, refreshes,
                    stale, kind, tx>>

(* session_file_bindings: where the index has this session.                *)
Bindings(s) ==
  {f \in Files : \/ sess[s] # NoSession /\ sess[s].path = f
                 \/ cur[f] # NoFile /\ cur[f].sid = s}

(* Staged, proven files with a session; the others play no part in a move. *)
Candidates ==
  {st \in {stage[i] : i \in DOMAIN stage} :
     st.fate = "staged" /\ st.boundary.recs # <<>>}

(* Mutant: a bound path that the snapshot missed is taken for gone.        *)
GivesUpUnseen(f, s) ==
  \/ \E st \in Candidates : st.path = f /\ st.sid # s
  \/ f \notin Staged

(* A bound path gives the session up when it is staged under another one   *)
(* or is not there any more.  A file here has one form, so that there is   *)
(* no twin, compressed or not, that a staged rollout would supersede.      *)
GivesUp(f, s) ==
  \/ \E st \in Candidates : st.path = f /\ st.sid # s
  \/ raw[f] = NoFile

Duplicate(st) ==
  /\ st \in Candidates
  /\ \/ \E other \in Candidates : other.path # st.path /\ other.sid = st.sid
     \/ \E f \in Bindings(st.sid) \ {st.path} : ~GivesUp(f, st.sid)

ResolveMoves ==
  /\ PhaseDone("resolve") /\ Acceptable
  /\ pc' = "classify"
  /\ Refuse(Duplicate, "duplicate")
  /\ stale' = UNION {{[new |-> st.path, old |-> f] :
                        f \in Bindings(st.sid) \ {st.path}} :
                     st \in {st \in Candidates : ~Duplicate(st)}}
  /\ errors' = errors \union
                  {"moves" : st \in {st \in Candidates : Duplicate(st)}}
  /\ UNCHANGED <<world, index, req, before, after, todo, pending, refreshes,
                 kind, tx>>

(* classify_transition with the proofs of the stage and of the cursors.    *)
ClassifySnapshots ==
  LET proof(f) == CHOOSE st \in {stage[i] : i \in DOMAIN stage} : st.path = f
      projected ==
        [f \in {f \in Staged : /\ proof(f).fate # "invalid"
                               /\ before[f] # after[f]} |->
           [read |-> proof(f).read, opened |-> proof(f).opened,
            wasIndexed |-> cur[f] # NoFile /\ cur[f].sid # NoSid]]
      proven == {f \in Changed(before, after) \ Staged :
                   /\ cur[f] # NoFile
                   /\ PrefixMatches(raw[f], cur[f].indexed, cur[f].boundary)}
      verdict == Classify(before, after, projected, proven)
      Bad(st) == st.fate = "staged" /\ st.path \in verdict.deferred
  IN /\ PhaseDone("classify") /\ Acceptable
     /\ pc' = "open"
     /\ kind' = verdict.kind
     /\ Refuse(Bad, "deferred")
     /\ refreshes' = {r \in refreshes : r.path \notin verdict.deferred}
     /\ errors' = errors \union
                     (IF verdict.kind = "rejected" THEN {"selector"} ELSE {})
     /\ UNCHANGED <<world, index, req, before, after, todo, pending, stale, tx>>

-----------------------------------------------------------------------------
(* The transaction.  x is the state it sees, [sess, cur].                  *)

(* delete_session_id: rows of S and every cursor that points at them.      *)
DropSessions(x, S) ==
  [sess |-> [s \in Sids |-> IF s \in S THEN NoSession ELSE x.sess[s]],
   cur  |-> [f \in Files |-> IF x.cur[f] # NoFile /\ x.cur[f].sid \in S
                             THEN NoFile ELSE x.cur[f]]]

DropCursors(x, F) ==
  [x EXCEPT !.cur = [f \in Files |-> IF f \in F THEN NoFile ELSE x.cur[f]]]

SessionsAt(x, f) == {s \in Sids : x.sess[s] # NoSession /\ x.sess[s].path = f}

(* upsert_session refuses a path that another session owns.                *)
Conflict(x, st) == SessionsAt(x, st.path) \ {st.sid} # {}

CursorOf(st, sid) ==
  [stat     |-> before[st.path].stat,
   acc      |-> before[st.path].acc,
   indexed  |-> st.indexed,
   head     |-> st.head,
   boundary |-> st.boundary,
   sid      |-> sid]

NextSeq(c) == Len(c.boundary.recs)

(* Mutant: the upsert leaves a session that is there under its old path.   *)
PutSessionInPlace(x, st, messages) ==
  [sess |-> [x.sess EXCEPT ![st.sid] =
               [path |-> IF @ = NoSession THEN st.path ELSE @.path, msgs |-> messages]],
   cur  |-> [x.cur EXCEPT ![st.path] = CursorOf(st, st.sid)]]

(* upsert_session, its messages and upsert_source_file.                    *)
PutSession(x, st, messages) ==
  [sess |-> [x.sess EXCEPT ![st.sid] = [path |-> st.path, msgs |-> messages]],
   cur  |-> [x.cur EXCEPT ![st.path] = CursorOf(st, st.sid)]]

(* Paths that a session leaves with this write.                            *)
Abandoned ==
  LET writable == {stage[i].path : i \in {i \in DOMAIN stage : stage[i].fate = "staged"}}
  IN {m.old : m \in {m \in stale : m.new \in writable}}

(* Drop the cursors moved sessions left behind, restamp touched files.     *)
OpenTransaction ==
  LET kept == DropCursors([sess |-> sess, cur |-> cur], Abandoned)
      Restamped(f) == {r \in refreshes : r.path = f}
  IN /\ PhaseDone("open") /\ Acceptable
     /\ pc' = "apply"
     /\ tx' = [kept EXCEPT !.cur =
                 [f \in Files |-> IF Restamped(f) = {} THEN @[f]
                                  ELSE (CHOOSE r \in Restamped(f) : TRUE).cursor]]
     /\ UNCHANGED <<world, index, req, before, after, todo, pending, errors,
                    refreshes, stage, stale, kind>>

(* Write the first of the remaining projections, or fail.                  *)
ApplyNext(ok, newTx) ==
  /\ PhaseDone("apply") /\ Acceptable
  /\ stage # <<>>
  /\ stage' = Tail(stage)
  /\ IF ok THEN tx' = newTx /\ UNCHANGED errors
           ELSE errors' = errors \union {"index"} /\ UNCHANGED tx
  /\ UNCHANGED <<world, index, pc, req, before, after, todo, pending,
                 refreshes, stale, kind>>

ApplyRefused ==
  /\ stage # <<>>
  /\ Head(stage).fate # "staged"
  /\ ApplyNext(TRUE, tx)

(* Filtered and Skipped: a file without messages holds no session.         *)
ApplyEmpty ==
  /\ stage # <<>>
  /\ LET st == Head(stage)
         x  == DropSessions(tx, SessionsAt(tx, st.path))
     IN /\ st.fate = "staged" /\ st.boundary.recs = <<>>
        /\ ApplyNext(TRUE, [x EXCEPT !.cur[st.path] = CursorOf(st, NoSid)])

(* Mutant: a full replay keeps what the file held under another identity.  *)
ApplyFullBeside ==
  /\ stage # <<>>
  /\ LET st == Head(stage)
     IN /\ st.fate = "staged" /\ st.boundary.recs # <<>> /\ st.mode = "full"
        /\ ApplyNext(~Conflict(tx, st), PutSession(tx, st, st.docs))

(* A full replay replaces the session, and drops the one the file held.    *)
ApplyFull ==
  /\ stage # <<>>
  /\ LET st    == Head(stage)
         prior == cur[st.path]
         x     == IF prior # NoFile /\ prior.sid \notin {NoSid, st.sid}
                  THEN DropSessions(tx, SessionsAt(tx, st.path))
                  ELSE tx
     IN /\ st.fate = "staged" /\ st.boundary.recs # <<>> /\ st.mode = "full"
        /\ ApplyNext(~Conflict(x, st), PutSession(x, st, st.docs))

(* A delta appends to the session its cursor names, where it ends.         *)
ApplyDelta ==
  /\ stage # <<>>
  /\ LET st    == Head(stage)
         prior == cur[st.path]
         first == prior.sid = NoSid /\ NextSeq(prior) = 0
         row   == tx.sess[st.sid]
         base  == IF first \/ row = NoSession THEN <<>> ELSE row.msgs
         fits  == first \/ (/\ prior.sid = st.sid
                            /\ row # NoSession
                            /\ Len(base) = NextSeq(prior))
     IN /\ st.fate = "staged" /\ st.boundary.recs # <<>> /\ st.mode = "delta"
        /\ ApplyNext(fits /\ ~Conflict(tx, st), PutSession(tx, st, base \o st.docs))

(* What --prune deletes: sessions whose path is in neither the hot         *)
(* snapshot A nor a cold root, and cursors of paths it did not see.        *)
Pruned(x) ==
  LET hot  == Selected(before)
      gone == {s \in Sids : /\ x.sess[s] # NoSession
                            /\ x.sess[s].path \notin hot
                            /\ s \notin ColdIds}
  IN DropCursors(DropSessions(x, gone), {f \in Files : cur[f] # NoFile} \ hot)

(* Mutant: a complete scan is enough to prune.                             *)
MayPruneUnasked == "scan" \notin errors

(* The paths of the first snapshot are kept; their twins, which the code   *)
(* keeps too, are left out with the compressed form.                       *)
MayPrune == req.prune /\ "scan" \notin errors

Prune ==
  /\ PhaseDone("apply") /\ Acceptable
  /\ stage = <<>>
  /\ pc' = "commit"
  /\ tx' = IF MayPrune THEN Pruned(tx) ELSE tx
  /\ UNCHANGED <<world, index, req, before, after, todo, pending, errors,
                 refreshes, stage, stale, kind>>

(* inspect_v8_invariants before the commit: no cursor disagrees with the   *)
(* length of the session it points at.                                     *)
CursorsFit(x) ==
  \A f \in Files :
    x.cur[f] # NoFile /\ x.cur[f].sid # NoSid /\ x.cur[f].indexed > 0
      => /\ x.sess[x.cur[f].sid] # NoSession
         /\ NextSeq(x.cur[f]) = Len(x.sess[x.cur[f].sid].msgs)

(* Mutant: a best-effort sync over stable snapshots stores a proof too.    *)
ProofUnlessChanged ==
  IF kind \in {"stable", "appendOnly"}
  THEN [f \in Selected(before) |-> before[f].acc]
  ELSE NoProof

(* A strict sync that proved its snapshot stores the fingerprint of A.     *)
Proof ==
  IF req.strict /\ kind \in {"stable", "appendOnly"}
  THEN [f \in Selected(before) |-> before[f].acc]
  ELSE NoProof

Commit ==
  /\ PhaseDone("commit") /\ Acceptable
  /\ IF CursorsFit(tx)
     THEN /\ sess' = tx.sess
          /\ cur' = tx.cur
          /\ cov' = Proof
          /\ ResetRun
          /\ UNCHANGED world
     ELSE FailSync

-----------------------------------------------------------------------------
Init ==
  /\ raw = [f \in Files |-> NoFile]
  /\ writes = 0
  /\ sess = [s \in Sids |-> NoSession]
  /\ cur = [f \in Files |-> NoFile]
  /\ cov = NoProof
  /\ pc = "idle" /\ req = NoRequest
  /\ before = NoSnapshot /\ after = NoSnapshot
  /\ todo = {} /\ pending = NoFile /\ errors = {}
  /\ refreshes = {} /\ stage = <<>> /\ stale = {}
  /\ kind = NoVerdict /\ tx = NoTx

Scan == ScanRead \/ \E f \in Files : ScanStat(f)

ProjectOne == \E f \in Files : ProjectFile(f)

Apply == ApplyRefused \/ ApplyEmpty \/ ApplyFull \/ ApplyDelta

SyncStep ==
  \/ Scan
  \/ PlanProjection
  \/ ProjectOne
  \/ Rescan
  \/ Validate
  \/ ResolveMoves
  \/ ClassifySnapshots
  \/ OpenTransaction
  \/ Apply
  \/ Prune
  \/ Commit
  \/ GiveUp

Next ==
  \/ AgentStep
  \/ \E r \in Requests : Begin(r)
  \/ SyncStep
  \/ IoError
  \/ Crash

Spec == Init /\ [][Next]_vars

-----------------------------------------------------------------------------
(* Properties.                                                             *)

Stats   == [mt : Nat, ino : Nat, size : Nat]
Digests == [sid : Sids \union {NoSid}, recs : Seq(Records), size : Nat]
Accs    == [sid : Sids \union {NoSid}, recs : Seq(Records)]
RawFile == [ino : Nat, mt : Nat, sid : Sids, recs : Seq(Records), tail : BOOLEAN]
Entry   == [stat : Stats, acc : Accs]
Cursor  == [stat : Stats, acc : Accs, indexed : Nat, head : Digests,
            boundary : Digests, sid : Sids \union {NoSid}]
Row     == [path : Files, msgs : Seq(Records)]
Staging == [path : Files, mode : {"full", "delta"}, opened : Stats, read : Nat,
            indexed : Nat, boundary : Digests, head : Digests,
            sid : Sids \union {NoSid}, docs : Seq(Records),
            fate : {"staged", "invalid", "duplicate", "deferred"}]

Phases == {"idle", "scanA", "project", "scanB", "resolve", "classify", "open",
           "apply", "commit"}

(* No value is none of the values that a variable holds.                   *)
ASSUME NoneAssumption ==
  None \notin RawFile \union Entry \union Cursor \union Row
                \union [path : Files, stat : Stats] \union [strict : BOOLEAN, prune : BOOLEAN]
                \union [sess : [Sids -> Row \union {None}], cur : [Files -> Cursor \union {None}]]

(* Every variable has its shape; an idle engine holds nothing of a run; a  *)
(* cursor ends within its file and a projection within its read.           *)
TypeOK ==
  /\ raw \in [Files -> RawFile \union {NoFile}]
  /\ writes \in Nat
  /\ sess \in [Sids -> Row \union {NoSession}]
  /\ cur \in [Files -> Cursor \union {NoFile}]
  /\ cov = NoProof \/ \E F \in SUBSET Files : cov \in [F -> Accs]
  /\ pc \in Phases
  /\ req \in Requests \union {NoRequest}
  /\ before \in [Files -> Entry \union {NoFile}]
  /\ after \in [Files -> Entry \union {NoFile}]
  /\ todo \subseteq Files
  /\ pending = NoFile \/ pending \in [path : Files, stat : Stats]
  /\ errors \subseteq {"scan", "project", "stage", "moves", "selector", "index"}
  /\ \A r \in refreshes : r.path \in Files /\ r.cursor \in Cursor
  /\ stage \in Seq(Staging)
  /\ stale \subseteq [new : Files, old : Files]
  /\ kind \in {"stable", "appendOnly", "deferred", "rejected", NoVerdict}
  /\ tx # NoTx => /\ tx.sess \in [Sids -> Row \union {NoSession}]
                  /\ tx.cur \in [Files -> Cursor \union {NoFile}]
  /\ (pc = "idle") <=> (req = NoRequest)
  /\ pc \in {"apply", "commit"} <=> tx # NoTx
  /\ \A f \in Files : cur[f] # NoFile => cur[f].indexed <= cur[f].stat.size

(* What a full replay of the bytes behind a cursor would store is what the *)
(* index holds: each cursor that names a session describes it message by   *)
(* message, whatever deltas, moves, replacements and prunes came before;   *)
(* and no two sessions share a file.                                       *)
IndexConsistent(x) ==
  /\ \A f \in Files :
       x.cur[f] # NoFile =>
         /\ x.cur[f].sid = x.cur[f].boundary.sid
         /\ x.cur[f].sid # NoSid =>
              x.sess[x.cur[f].sid] = [path |-> f, msgs |-> x.cur[f].boundary.recs]
  /\ \A f \in Files : Cardinality(SessionsAt(x, f)) <= 1

IncrementalIsFullReplay == IndexConsistent([sess |-> sess, cur |-> cur])

(* A moved session keeps one source file: write_index deletes the cursor   *)
(* at the path it leaves (sync/mod.rs, the comment over the loop).         *)
OneSourceFile ==
  \A f, g \in Files :
    /\ cur[f] # NoFile /\ cur[g] # NoFile
    /\ cur[f].sid = cur[g].sid /\ cur[f].sid # NoSid
    => f = g

(* ... unless the plan took the file at that path for one that only needs  *)
(* another stamp: then the loop after it writes the cursor again.          *)
Revives == pc = "open" /\ \E r \in refreshes : r.path \in Abandoned

(* What would break the transaction is refused before, file by file: the   *)
(* guards inside it never fire, so best effort skips only the bad file.    *)
TransactionNeverFails ==
  /\ "index" \notin errors
  /\ pc = "commit" => CursorsFit(tx)

(* What status computes: a live scan, helped by the cursors, against the   *)
(* stored proof.                                                           *)
LiveFingerprint ==
  [f \in {f \in Present : Selects(raw[f])} |->
     IF cur[f] # NoFile /\ cur[f].stat = Stat(raw[f]) THEN cur[f].acc
     ELSE Accepted(raw[f])]

StatusFresh == cov # NoProof /\ cov = LiveFingerprint

(* The index holds the first n records of a file, and nothing else of it.  *)
Searchable(f, n) ==
  n > 0 => sess[raw[f].sid] = [path |-> f, msgs |-> SubSeq(raw[f].recs, 1, n)]

CompleteRecords(c) == Len(c.recs) - (IF c.tail THEN 1 ELSE 0)

(* When status says that the coverage is fresh, every accepted record on   *)
(* disk is in the index.                                                   *)
FreshMeansSearchable ==
  StatusFresh => \A f \in Present : Searchable(f, Len(raw[f].recs))

(* A session leaves the path it is indexed from only when that file is not *)
(* as the scan saw it any more: a copy never takes a session away from an  *)
(* untouched original.                                                     *)
CopyNeverTakesOver ==
  [][\A s \in Sids :
       LET row == sess[s] IN
       /\ row # NoSession /\ sess'[s] # NoSession
       /\ sess'[s].path # row.path
       /\ before[row.path] # NoFile
       /\ before[row.path].acc.sid = s
       => raw[row.path] = NoFile \/ Stat(raw[row.path]) # before[row.path].stat]_vars

(* A sync removes a session only when the hot snapshot has no file of it,  *)
(* or that file lost it meanwhile.                                         *)
DropsOnlyTheAbsent ==
  [][\A s \in Sids :
       sess[s] # NoSession /\ sess'[s] = NoSession
       => \A f \in Selected(before) :
            before[f].acc.sid = s => raw[f] = NoFile \/ raw[f].sid # s]_vars

(* Without --prune the index keeps a session whose file is gone.           *)
KeepsHistory ==
  [][\A s \in Sids :
       /\ sess[s] # NoSession /\ sess'[s] = NoSession
       /\ before[sess[s].path] = NoFile
       => req.prune]_vars

(* An incremental sync does what one does that replays every file in full  *)
(* and publishes at once.  The replays that may be published are those of  *)
(* the stage, and the rows that the transaction has changed.               *)
Replayed ==
  {[path |-> st.path, sid |-> st.sid, msgs |-> st.boundary.recs] : st \in Candidates}

Rewritten ==
  IF tx = NoTx THEN {}
  ELSE {[path |-> tx.sess[s].path, sid |-> s, msgs |-> tx.sess[s].msgs] :
           s \in {s \in Sids : tx.sess[s] \notin {NoSession, sess[s]}}}

Listing == IF pc = "scanA" /\ pending # NoFile THEN {pending.path} ELSE {}

Promised == INSTANCE ReplayIndex WITH
              Nothing <- None,
              rows    <- sess,
              proven  <- cov # NoProof,
              request <- req,
              listed  <- Selected(before) \cup Listing,
              replays <- Replayed \cup Rewritten

ImplementsReplayIndex == Promised!Spec

FairSpec ==
  /\ Spec
  /\ WF_vars(SyncStep)
  /\ \A r \in Requests : r.strict => WF_vars(Begin(r))

(* Once the agents rest, repeated strict syncs reach a fresh coverage and  *)
(* an index of every complete record on disk, and keep both.               *)
Converges ==
  <>[](/\ StatusFresh
       /\ \A f \in Present : Searchable(f, CompleteRecords(raw[f])))

=============================================================================
