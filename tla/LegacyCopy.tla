----------------------------- MODULE LegacyCopy -----------------------------
(* What the v7 to v8 migration copies and what it verifies, as operators on
   two databases (migration/legacy.rs, migration/verify.rs).  Text columns
   that nothing compares are left out; a digest of a set of rows is the set. *)
EXTENDS Naturals, FiniteSets

(* A v7 database is a record
     rows     set of [key, canonical, uuid, path, declared]: a session, if its
              stored key is the canonical one, its UUID, its raw file, and
              its message_count column
     messages set of [key, seq, role, uuid]
     cache    set of paths with a row in source_file_meta_cache
     proofs   number of coverage rows
     sound    PRAGMA integrity_check and foreign_key_check are clean
     shape    "v7", "v8" or "other": what sqlite_master holds              *)
Keys(v7) == {r.key : r \in v7.rows}
MessagesOf(v7, r) == {m \in v7.messages : m.key = r.key}

\* inspect_source_layout
SourceLayout(v7) == v7.shape

\* preflight_v7: a clean file without messages that a join would lose
Preflight(v7) == v7.sound /\ \A m \in v7.messages : m.key \in Keys(v7)

\* fingerprint_v7: a digest of every row and the counts
Fingerprint(v7) == [digest   |-> <<v7.rows, v7.messages, v7.cache, v7.proofs>>,
                    sessions |-> Cardinality(v7.rows),
                    messages |-> Cardinality(v7.messages),
                    files    |-> Cardinality(v7.cache),
                    proofs   |-> v7.proofs]

(* copy_v7_projection fails on the first row it cannot carry over: a session
   key that is not canonical, a message of another UUID or role, a count
   that disagrees, sequence numbers with a gap, a raw file with two owners.
   An unknown source, or a time or a size that is no number, refuses the
   copy too; the rows here have none of these.                             *)
CanCopy(v7) ==
  /\ \A r \in v7.rows :
       LET ms == MessagesOf(v7, r)
       IN /\ r.canonical
          /\ \A m \in ms : m.uuid = r.uuid /\ m.role \in {"user", "assistant"}
          /\ r.declared = Cardinality(ms)
          /\ {m.seq : m \in ms} = 0..(Cardinality(ms) - 1)
  /\ \A r, s \in v7.rows : r.path = s.path => r = s

(* Nothing in v7 proves how far a file was read, so the copied source files
   carry no cursor, and no coverage is copied.                             *)
NoCursor == [indexed |-> 0, digests |-> FALSE, exact |-> FALSE]
CopiedFiles(v7) ==
  {[path    |-> f,
    session |-> {r.key : r \in {s \in v7.rows : s.path = f}},
    cursor  |-> NoCursor] : f \in v7.cache}

Receipt(v7, roots) == [source |-> Fingerprint(v7), roots |-> Cardinality(roots)]

CopyOf(v7, roots) ==
  [sessions  |-> {[key |-> r.key, uuid |-> r.uuid, path |-> r.path,
                   messages |-> r.declared, documents |-> r.declared + 1] : r \in v7.rows},
   documents |-> {[kind |-> "message", key |-> m.key, seq |-> m.seq, role |-> m.role]
                    : m \in v7.messages}
                 \cup {[kind |-> "session_profile", key |-> r.key, seq |-> 0, role |-> "none"]
                    : r \in v7.rows},
   files     |-> CopiedFiles(v7),
   proofs    |-> 0,
   roots     |-> roots,
   receipt   |-> Receipt(v7, roots)]

\* The v8 database of a first sync or of a first cold-root registration.
NewIndex(roots) ==
  [sessions |-> {}, documents |-> {}, files |-> {}, proofs |-> 0, roots |-> roots,
   receipt |-> Receipt([rows |-> {}, messages |-> {}, cache |-> {}, proofs |-> 0], {})]

(* verify_v8_copy reads both databases again.  The two digests of the
   projection (projection_digest_v7, projection_digest_v8) cover the
   identity of each session and each message.                              *)
Messages8(v8) == {d \in v8.documents : d.kind = "message"}
ProjectionOf7(v7) == <<{<<r.key, r.uuid, r.path>> : r \in v7.rows},
                       {<<m.key, m.seq, m.role>> : m \in v7.messages}>>
ProjectionOf8(v8) == <<{<<s.key, s.uuid, s.path>> : s \in v8.sessions},
                       {<<d.key, d.seq, d.role>> : d \in Messages8(v8)}>>
CountsAgree(v8, s) ==
  /\ s.messages = Cardinality({d \in Messages8(v8) : d.key = s.key})
  /\ s.documents = Cardinality({d \in v8.documents : d.key = s.key})

Verifies(v7, v8, fingerprint, roots) ==
  /\ Cardinality(v8.sessions) = fingerprint.sessions
  /\ Cardinality(Messages8(v8)) = fingerprint.messages
  /\ Cardinality(v8.documents) = fingerprint.messages + fingerprint.sessions
  /\ Cardinality(v8.files) = fingerprint.files
  /\ v8.proofs = 0
  /\ v8.roots = roots
  /\ \A f \in v8.files : f.cursor = NoCursor
  /\ v8.receipt = [source |-> fingerprint, roots |-> Cardinality(roots)]
  /\ \A s \in v8.sessions : CountsAgree(v8, s)
  /\ ProjectionOf7(v7) = ProjectionOf8(v8)
  /\ v7.cache = {f.path : f \in v8.files}
=============================================================================
