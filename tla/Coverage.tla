------------------------------ MODULE Coverage ------------------------------
(***************************************************************************)
(* What a scan of a source sees, the proofs a sync files about it, and the *)
(* verdicts of find and status on those proofs (src/src/coverage.rs,       *)
(* app/status.rs, and the snapshots of sources/catalog.rs).                *)
(*                                                                         *)
(* A file on disk is [source, path, date, cwd, content]: its accepted      *)
(* fingerprint is its content, a sequence of records, and the same content *)
(* under the same path carries the same stamp.  A hash is what it hashes.  *)
(***************************************************************************)
EXTENDS Selectors, FiniteSetsExt, TLC

CONSTANT IndexVersion   \* the epochs and version of the running program

Codex == DefaultSource

-----------------------------------------------------------------------------
(* Snapshots.                                                              *)

Scanned(s, disk) == {f \in disk : f.source = s.source /\ IsPrefix(s.root, f.path)}

Relative(root, path) == SubSeq(path, Len(root) + 1, Len(path))

FailureMembers(root, failures) ==
  {<<Relative(root, f.path), "source_scan_failure", f.operation>> : f \in failures}

Fingerprint(root, files, failures) ==
  <<root, {<<Relative(root, f.path), f.date, f.cwd, f.content>> : f \in files}
            \cup FailureMembers(root, failures)>>

FileSetFingerprint(root, files, failures) ==
  <<root, {<<Relative(root, f.path)>> : f \in files} \cup FailureMembers(root, failures)>>

(* Failures belong to every selector of the root: what failed is unknown.  *)
Snapshot(s, disk, failures) ==
  LET selected == {f \in Scanned(s, disk) : ContainsFile(s, f)} IN
  [selector    |-> s,
   fingerprint |-> Fingerprint(s.root, selected, failures),
   fileSet     |-> FileSetFingerprint(s.root, selected, failures),
   count       |-> Cardinality(selected) + Cardinality(failures)]

DateSpan(files) ==
  LET dates == {f.date : f \in files} \ {None} IN
  IF dates = {} THEN None ELSE <<Min(dates), Max(dates)>>

Inventory(s, disk, failures) ==
  LET files == Scanned(s, disk)
      Group(c) == {f \in files : f.cwd = c}
  IN [total  |-> Cardinality(files) + Cardinality(failures),
      span   |-> DateSpan(files),
      groups |-> {[cwd |-> c, count |-> Cardinality(Group(c)), span |-> DateSpan(Group(c))] :
                    c \in {f.cwd : f \in files} \ {None}}]

-----------------------------------------------------------------------------
(* Proofs.  A record of an older program has no file set.                  *)

ProofOf(snapshot) ==
  [version |-> IndexVersion, selector |-> snapshot.selector, count |-> snapshot.count,
   fingerprint |-> snapshot.fingerprint, fileSet |-> snapshot.fileSet]

(* A proof is filed under the storage key of its selector.                 *)
ReplaceCoverage(records, record) ==
  {r \in records : StorageKey(r.selector) # StorageKey(record.selector)} \cup {record}

InvalidateSourceRoot(records, s) ==
  {r \in records : ~(r.selector.source = s.source /\ r.selector.root = s.root)}

CoverageRecords(records, source) ==
  {r \in records : r.selector.source = source /\ r.version = IndexVersion}

Covering(records, s) ==
  {r \in records : r.version = IndexVersion /\ SelectorImplies(r.selector, s)}

(* find looks at no raw file: complete says only that a sync proved it.    *)
IndexedCoverage(records, s) ==
  [complete  |-> s # None /\ Covering(records, s) # {},
   freshness |-> "not_checked",
   covering  |-> IF s = None THEN {} ELSE Covering(records, s)]

-----------------------------------------------------------------------------
(* The verdicts of status.                                                 *)

SameSet(record, snapshot) ==
  record.fileSet # None /\ snapshot.fileSet = record.fileSet

IsFresh(record, snapshot) ==
  /\ snapshot.fingerprint = record.fingerprint
  /\ record.fileSet # None => snapshot.fileSet = record.fileSet
  /\ snapshot.count = record.count
  /\ record.version = IndexVersion

EvaluateRecord(record, snapshot) ==
  LET reason == IF IsFresh(record, snapshot) THEN "none"
                ELSE IF SameSet(record, snapshot) THEN "source_content_changed"
                ELSE "source_set_changed"
  IN [record |-> record, fresh |-> reason = "none", reason |-> reason,
      sameSet  |-> SameSet(record, snapshot),
      advisory |-> snapshot.selector.source = Codex /\ reason = "source_content_changed"]

EvaluateRequested(snapshot, evaluated) ==
  LET covering == {e \in evaluated : e.record.version = IndexVersion
                                       /\ SelectorImplies(e.record.selector, snapshot.selector)}
      freshness == IF \E e \in covering : e.fresh THEN "fresh"
                   ELSE IF covering = {} THEN "missing" ELSE "stale"
      reason == CASE freshness = "fresh"   -> "none"
                  [] freshness = "missing" -> "missing"
                  [] OTHER -> IF \E e \in covering : e.sameSet
                              THEN "source_content_changed" ELSE "source_set_changed"
  IN [freshness |-> freshness, reason |-> reason,
      action |-> IF freshness = "fresh"
                      \/ (snapshot.selector.source = Codex /\ reason = "source_content_changed")
                 THEN "query" ELSE "sync"]

(* What the cursors prove about files: [source, path, content], the bytes  *)
(* that were indexed.  Without its epochs or checkpoint a cursor proves    *)
(* nothing.                                                                *)
StoredProofs(cursors) == {c \in cursors : c.version = IndexVersion /\ c.checkpoint}

(* Mutant: a file that shrank counts as one that grew.                     *)
ProvesAppendBySize(file, proof) == Len(file.content) # Len(proof.content)

ProvesAppend(file, proof) == IsPrefix(proof.content, file.content)

(* Every file under the root, selected or not; one without a stored proof  *)
(* is passed over.                                                         *)
ChangedProveAppend(s, disk, proofs) ==
  \A f \in Scanned(s, disk) : \A p \in proofs :
    p.path = f.path /\ p.content # f.content => ProvesAppend(f, p)

(* The source and roots whose cursors status loads.                        *)
CacheRoots(base, requested, records, inventory) ==
  {<<s.source, s.root>> :
     s \in {base} \cup ({requested} \ {None})
           \cup {r.selector : r \in {x \in records :
                   inventory \/ (requested # None /\ SelectorImplies(x.selector, requested))}}}

AuditRecord(record, disk, failures, proofs) ==
  LET e == EvaluateRecord(record, Snapshot(record.selector, disk, failures)) IN
  [e EXCEPT !.advisory = @ /\ ChangedProveAppend(record.selector, disk, proofs)]

(* status: its verdict on every record it audits, and on what was asked.   *)
Status(base, requested, inventory, disk, failures, records, cursors) ==
  LET known == CoverageRecords(records, base.source)
      roots == CacheRoots(base, requested, known, inventory)
      proofs == {p \in StoredProofs(cursors) :
                   \E r \in roots : p.source = r[1] /\ IsPrefix(r[2], p.path)}
      audited == {r \in known : inventory \/
                    (requested # None /\ SelectorImplies(r.selector, requested))}
      evaluated == {AuditRecord(r, disk, failures, proofs) : r \in audited}
      verdict == EvaluateRequested(Snapshot(requested, disk, failures), evaluated)
  IN [audit |-> evaluated,
      requested |->
        IF requested = None THEN None
        ELSE IF /\ verdict.reason = "source_content_changed"
                /\ ~ChangedProveAppend(requested, disk, proofs)
             THEN [verdict EXCEPT !.action = "sync"] ELSE verdict]

=============================================================================
