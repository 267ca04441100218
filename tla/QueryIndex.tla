----------------------------- MODULE QueryIndex -----------------------------
(***************************************************************************)
(* What the reader takes out of an index: which rows a selector means in   *)
(* SQL, and the results of recall, list, count, read-page and read-range   *)
(* (src/src/index/reader.rs, the scope of index/writer.rs, and the callers *)
(* of app/mod.rs).                                                         *)
(*                                                                         *)
(* A session row is [id, source, native, uuid, path, root, cwd, date,      *)
(* started, ended, msgs]; times and dates are integers.  A document is a   *)
(* row with kind "message" or "session", seq, role, words (the terms and   *)
(* substrings it holds) and bm25 (less is better).                         *)
(***************************************************************************)
EXTENDS Coverage

CONSTANTS
  CaseFold,      \* [components and names -> their lower case]
  SessionsDir    \* the component "sessions"

(* A path without a date is stored with the empty text, before every date. *)
StoredDate(date) == IF date = None THEN 0 ELSE date

-----------------------------------------------------------------------------
(* Scopes.                                                                 *)

(* LIKE ignores the case of ASCII letters.                                 *)
Like(root, path) ==
  Len(path) > Len(root) /\ \A i \in DOMAIN root : CaseFold[path[i]] = CaseFold[root[i]]

(* Mutant: the root itself is compared and what lies under it forgotten.   *)
FilterAtRoot(s, row) ==
  /\ row.source = s.source
  /\ row.path = s.root
  /\ IsDated(s) => row.date >= s.from /\ row.date <= s.to
  /\ IsForCwd(s) => row.cwd = s.cwd

SelectorFilter(s, row) ==
  /\ row.source = s.source
  /\ row.path = s.root \/ Like(s.root, row.path)
  /\ IsDated(s) => row.date >= s.from /\ row.date <= s.to
  /\ IsForCwd(s) => row.cwd = s.cwd

RecallScope(spec, row) ==
  /\ spec.session # None =>
       row.source = spec.session.source /\ row.native = spec.session.native
  /\ spec.selector # None => SelectorFilter(spec.selector, row)
  /\ spec.session = None /\ spec.selector = None /\ spec.sources # {}
       => row.source \in spec.sources
  /\ row.uuid \notin spec.excluded \ {Blank}

(* query.cwds: None, or the cwds whose text contains the filter.           *)
ListScope(query, row) ==
  /\ IF query.selector # None THEN SelectorFilter(query.selector, row)
     ELSE row.source = Or(query.source, DefaultSource)
  /\ query.cwds # None => row.cwd \in query.cwds
  /\ query.since # None => row.ended >= query.since

SelectorCounts(s, rows) ==
  LET scope == {r \in rows : SelectorFilter(s, r)} IN
  [sessions |-> Cardinality(scope), messages |-> MapThenSumSet(LAMBDA r : Len(r.msgs), scope)]

(* The cursors a sync loads, and status for its proofs.                    *)
SourceFilesFor(s, cursors) == {c \in cursors : SelectorFilter(s, c)}

(* Mutant: a prune of a narrow scope removes what lies outside it.         *)
PrunedEverywhere(rows, s, hot, cold) ==
  {r \in rows : r.path \in hot \/ CaseFold[r.native] \in {CaseFold[n] : n \in cold}}

(* The sessions a prune leaves: hot by path, or cold by native id.         *)
PrunedRows(rows, s, hot, cold) ==
  {r \in rows : SelectorFilter(s, r) =>
     r.path \in hot \/ CaseFold[r.native] \in {CaseFold[n] : n \in cold}}

-----------------------------------------------------------------------------
(* Recall.                                                                 *)

Take(seq, n) == SubSeq(seq, 1, IF n < Len(seq) THEN n ELSE Len(seq))

SpecRefused(spec) ==
  \/ spec.terms # {} /\ spec.needle # None
  \/ spec.selector # None /\ spec.sources # {} /\ spec.selector.source \notin spec.sources
  \/ spec.session # None /\ spec.sources # {} /\ spec.session.source \notin spec.sources

Matches(spec, doc) ==
  IF spec.needle # None THEN spec.needle \in doc.words ELSE spec.terms \subseteq doc.words

Relevance(spec, doc) == IF spec.needle # None THEN 0 ELSE doc.bm25

SeqOrNone(doc) == IF doc.seq = None THEN -1 ELSE doc.seq

(* Keys to compare from left to right, less first; the last two, session   *)
(* and place in it, settle what SQLite leaves open.                        *)
RecallKey(spec, doc) ==
  (CASE spec.order = "ended"   -> <<-doc.ended, Relevance(spec, doc)>>
     [] spec.order = "started" -> <<-doc.started, Relevance(spec, doc)>>
     [] OTHER -> <<Relevance(spec, doc), -doc.ended, SeqOrNone(doc)>>)
    \o <<doc.id, SeqOrNone(doc)>>

KeyLess(a, b) ==
  \E i \in DOMAIN a : a[i] < b[i] /\ \A j \in 1..(i - 1) : a[j] = b[j]

(* The members of set, those of the least key first; no two keys are equal, *)
(* so that before each come as many as have a lesser one.                  *)
Sorted(set, Key(_)) ==
  LET keyed == {<<Key(x), x>> : x \in set}
      Before(k) == {j \in keyed : KeyLess(j[1], k[1])}
  IN [n \in 1..Cardinality(set) |-> (CHOOSE k \in keyed : Cardinality(Before(k)) = n - 1)[2]]

(* The elements of seq, those of the least key first, ties as they stand.  *)
SortByKey(seq, Key(_)) ==
  LET at == Sorted(DOMAIN seq, LAMBDA i : Append(Key(seq[i]), i))
  IN [n \in DOMAIN seq |-> seq[at[n]]]

Recall(spec, docs) ==
  IF spec.limit = 0 \/ (spec.terms = {} /\ spec.needle = None) THEN <<>>
  ELSE IF SpecRefused(spec) THEN Refused
  ELSE LET found == {d \in docs : Matches(spec, d) /\ RecallScope(spec, d)} IN
       Take(Sorted(found, LAMBDA d : RecallKey(spec, d)), spec.limit)

CandidateKey(doc) == <<doc.source, doc.native, doc.kind, doc.seq>>

AppendNew(found, doc) ==
  IF \E i \in DOMAIN found : CandidateKey(found[i]) = CandidateKey(doc)
  THEN found ELSE Append(found, doc)

AppendAll(found, docs) ==
  LET joined[n \in 0..Len(docs)] ==
        IF n = 0 THEN found ELSE AppendNew(joined[n - 1], docs[n])
  IN joined[Len(docs)]

(* relaxed: the term sets tried, one after the other, when the query as it *)
(* stands recalls nothing.                                                 *)
RecallAgain(spec, terms, docs, found) ==
  AppendAll(found, Recall([spec EXCEPT !.terms = terms, !.needle = None], docs))

RecallWithFallback(spec, relaxed, docs) ==
  LET strict == Recall(spec, docs)
      found[n \in 0..Len(relaxed)] ==
        IF n = 0 THEN <<>> ELSE RecallAgain(spec, relaxed[n], docs, found[n - 1])
  IN IF strict # <<>> THEN strict ELSE found[Len(relaxed)]

(* Where a qualified name excludes the session it names in that source, a  *)
(* bare one excludes a uuid, and the session with that native id as well.  *)
ResolveExcluded(values, source, rows) ==
  LET Named(name) == {r.uuid : r \in {x \in rows : x.source = source /\ x.native = name}} IN
  UNION {IF v.qualifier = None THEN {v.name} \cup Named(v.name)
         ELSE IF v.qualifier = source THEN Named(v.name) ELSE {} : v \in values}

-----------------------------------------------------------------------------
(* Reading one session.  The row is one statement, its messages another.   *)

StoredSession(rows, source, native) ==
  LET found == {r \in rows : r.source = source /\ r.native = native} IN
  IF found = {} THEN None ELSE CHOOSE r \in found : TRUE

MessagesOf(rows, id) ==
  LET found == {r \in rows : r.id = id} IN
  IF found = {} THEN <<>> ELSE (CHOOSE r \in found : TRUE).msgs

(* Mutant: the page that ends one short of the total is called the last.   *)
HasMoreButOne(offset, returned, total) == offset + returned + 1 < total

HasMore(offset, returned, total) == offset + returned < total

MessagesForPage(rows, id, offset, limit) ==
  LET msgs == MessagesOf(rows, id) IN
  SubSeq(msgs, offset + 1, IF offset + limit < Len(msgs) THEN offset + limit ELSE Len(msgs))

RangeStart(anchor, before) == IF before < anchor THEN anchor - before ELSE 0

(* The sequence numbers of read-range; messages are numbered from 0.       *)
MessagesForRange(rows, id, anchor, before, after) ==
  {seq \in RangeStart(anchor, before)..(anchor + after) : seq < Len(MessagesOf(rows, id))}

(* A row of an old index has no source root.                               *)
SessionRootFromFile(path) ==
  LET at == {i \in 1..(Len(path) - 1) : path[i] = SessionsDir} IN
  IF at # {} THEN SubSeq(path, 1, Min(at)) ELSE Front(path)

SelectorsOfSession(row) ==
  LET root == IF row.root = None THEN SessionRootFromFile(row.path) ELSE row.root IN
  {All(row.source, root), Select("cwd", row.source, root, row.cwd, None, None)}
    \cup IF row.date = 0 THEN {}
         ELSE {Select("date_range", row.source, root, None, row.date, row.date),
               Select("cwd_date_range", row.source, root, row.cwd, row.date, row.date)}

CoverageForSession(records, row) ==
  {r \in CoverageRecords(records, row.source) :
     \E s \in SelectorsOfSession(row) : SelectorImplies(r.selector, s)}

Stats(rows, source) ==
  LET own == {r \in rows : r.source = source} IN
  [sessions |-> Cardinality(own),
   messages |-> MapThenSumSet(LAMBDA r : Len(r.msgs), own),
   earliest |-> IF own = {} THEN None ELSE Min({r.started : r \in own}),
   latest   |-> IF own = {} THEN None ELSE Max({r.ended : r \in own})]

(* The rows list returns, best first.                                      *)
Listed(query, rows) ==
  LET Key(r) == CASE query.sort = "ended" -> r.ended
                  [] query.sort = "started" -> r.started
                  [] OTHER -> Len(r.msgs)
  IN Take(Sorted({r \in rows : ListScope(query, r)}, LAMBDA r : <<-Key(r), r.id>>), query.limit)

=============================================================================
