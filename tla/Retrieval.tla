----------------------------- MODULE Retrieval ------------------------------
(***************************************************************************)
(* From candidates to the results of a find, and from a result to the read *)
(* that shows it (src/src/retrieval: query, ranking, candidate, global,    *)
(* zero, evidence, read; find_summary and read_anchor of app/mod.rs).      *)
(*                                                                         *)
(* A text a user looks for is Blank or [terms, needle, spaced, pathToken]: *)
(* its terms [word, ascii, stop, cjk, forms, lastForms], what to look for  *)
(* when it has none, and two facts about its characters.  A candidate is a *)
(* document of QueryIndex with its tokens, a sequence of words, and the    *)
(* words of its title and cwd.  Scores are in twentieths, so that they are *)
(* integers; day is the current day.                                       *)
(***************************************************************************)
EXTENDS QueryIndex

CONSTANTS
  MaxForms, RelaxedTerms,
  RelevanceMultiplier, TimeMultiplier, MinCandidates, RerankMultiplier,
  NameOrder   \* [sources and native ids -> Nat]: names as they sort

ASSUME RetrievalLimits ==
  {MaxForms, RelaxedTerms, RelevanceMultiplier, TimeMultiplier, MinCandidates, RerankMultiplier}
    \subseteq Nat

-----------------------------------------------------------------------------
(* The query.                                                              *)

Words(query) == [i \in DOMAIN query |-> query[i].word]

Analyze(text) ==
  IF text = Blank THEN [terms |-> {}, needle |-> None, pathLike |-> FALSE]
  ELSE [terms    |-> ToSet(Words(text.terms)),
        needle   |-> IF text.terms = <<>> THEN text.needle ELSE None,
        pathLike |-> text.spaced /\ text.pathToken]

TermsOf(text) == IF text = Blank THEN <<>> ELSE text.terms

(* An alternative for every prefix and form, up to MaxForms of them.       *)
Extended(prefixes, forms) ==
  Take(FlattenSeq([p \in DOMAIN prefixes |->
         [f \in DOMAIN forms |-> Append(prefixes[p], forms[f])]]), MaxForms)

FormsAt(terms, i) == IF i = Len(terms) THEN terms[i].lastForms ELSE terms[i].forms

MorphologicalQueries(terms) ==
  LET queries[i \in 0..Len(terms)] ==
        IF i = 0 THEN << <<>> >> ELSE Extended(queries[i - 1], FormsAt(terms, i))
  IN queries[Len(terms)]

(* The ASCII terms that tell something.                                    *)
KeepTelling(told, term) == IF term.ascii /\ ~term.stop THEN Append(told, term) ELSE told

Telling(query) ==
  LET told[n \in 0..Len(query)] ==
        IF n = 0 THEN <<>> ELSE KeepTelling(told[n - 1], query[n])
  IN told[Len(query)]

(* What a query that recalls nothing is retried as: these, if it has       *)
(* others too.                                                             *)
RelaxedQueries(query) ==
  LET telling == Telling(query)
      mixed == \E i \in DOMAIN query : query[i].cjk
      base == IF mixed THEN telling ELSE Take(telling, RelaxedTerms)
  IN IF Len(query) < 2 \/ telling = <<>> \/ Len(telling) = Len(query)
        \/ Len(base) > RelaxedTerms
     THEN <<>>
     ELSE LET queries == MorphologicalQueries(base) IN
          [i \in DOMAIN queries |-> ToSet(queries[i])]

CandidateLimit(limit, sort) ==
  Max({MinCandidates,
       limit * (IF sort = "relevance" THEN RelevanceMultiplier ELSE TimeMultiplier)})

-----------------------------------------------------------------------------
(* Scores.                                                                 *)

GroupKey(c) == <<c.source, c.native>>

PhraseIn(tokens, words) ==
  \E i \in 0..(Len(tokens) - Len(words)) : SubSeq(tokens, i + 1, i + Len(words)) = words

(* Whether tokens from start to end hold the words in order.               *)
HoldsInOrder(tokens, start, end, words) ==
  FoldLeft(LAMBDA k, t : IF k < Len(words) /\ t = words[k + 1] THEN k + 1 ELSE k,
           0, SubSeq(tokens, start, end)) = Len(words)

(* The lengths of the runs that start with the first word and have the     *)
(* others in order.                                                        *)
OrderedSpans(tokens, words) ==
  {x[2] - x[1] + 1 : x \in {span \in (DOMAIN tokens) \X (DOMAIN tokens) :
     tokens[span[1]] = words[1] /\ HoldsInOrder(tokens, span[1], span[2], words)}}

GapScore(gaps, terms) ==
  CASE gaps = 0 -> 8
    [] gaps \in 1..3 -> 24 - 2 * gaps
    [] gaps > 3 /\ gaps <= terms -> 10 - gaps
    [] OTHER -> 0

SpanScore(spans, terms) == IF spans = {} THEN 0 ELSE GapScore(Min(spans) - terms, terms)

(* c.args: the phrase is followed by arguments.                            *)
SequenceScore(c, words) ==
  IF Len(words) < 2 THEN 0
  ELSE IF PhraseIn(c.tokens, words) THEN IF c.args THEN 60 ELSE 36
  ELSE SpanScore(OrderedSpans(c.tokens, words), Len(words))

MatchedTerms(words, query) == Cardinality({i \in DOMAIN query : query[i].word \in words})

ScoreRow(c, query, pathLike) ==
  20 * (-c.bm25
        + (IF PhraseIn(c.tokens, Words(query)) THEN 8 ELSE 0)
        + (IF pathLike THEN SequenceScore(c, Words(query)) ELSE 0)
        + 2 * MatchedTerms(c.words, query)
        + (IF c.kind = "message" THEN 4 ELSE 0)
        + (IF c.kind = "message" /\ c.role = "user" THEN 2 ELSE 0))

AtMost(n, bound) == IF n < bound THEN n ELSE bound

RecencyDecay(ended, day) ==
  LET age == IF ended > day THEN 0 ELSE day - ended IN
  IF 3 * age > 360 THEN 0 ELSE 360 - 3 * age

(* A title that is the command and more says nothing of the session.       *)
Restates(c, query, pathLike) ==
  pathLike /\ PhraseIn(c.title, Words(query)) /\ Len(c.title) - Len(query) >= 2

(* cs: the candidates, in the order they were recalled; at: the places of  *)
(* those of one session.  A title that restates the query earns nothing.   *)
CountOf(cs, at, kind, role) ==
  Cardinality({i \in at : cs[i].kind = kind /\ cs[i].role = role})

TitleScore(title, query, restates) ==
  IF restates THEN -400
  ELSE 200 * MatchedTerms(ToSet(title), query)
         + IF PhraseIn(title, Words(query)) THEN 600 ELSE 0

ScoreSession(cs, at, first, query, pathLike, day) ==
  Max({ScoreRow(cs[i], query, pathLike) : i \in at})
  + TitleScore(first.title, query, Restates(first, query, pathLike))
  + 360 * MatchedTerms(first.cwdWords, query)
  + 80 * AtMost(CountOf(cs, at, "message", "user"), 3)
  + 40 * AtMost(CountOf(cs, at, "session", None), 2)
  + 30 * AtMost(Cardinality(at), 6)
  + RecencyDecay(first.ended, day)

(* A message is shown before a profile, then the better one, then the      *)
(* earlier one.                                                            *)
DisplayRow(cs, at, query, pathLike) ==
  cs[Sorted(at, LAMBDA i : <<IF cs[i].kind = "message" THEN 0 ELSE 1,
                             -ScoreRow(cs[i], query, pathLike), i>>)[1]]

-----------------------------------------------------------------------------
(* Ranking.                                                                *)

(* A session stands where it was first recalled, of the places among which *)
(* one looks.                                                              *)
Heads(cs, among) ==
  {i \in among : \A j \in among : j < i => GroupKey(cs[j]) # GroupKey(cs[i])}

OfGroup(cs, among, head) == {i \in among : GroupKey(cs[i]) = GroupKey(cs[head])}

Ranked(results) == [i \in DOMAIN results |-> [results[i] EXCEPT !.rank = i]]

ToFindResult(first, shown, hits, rank, score) ==
  [rank |-> rank, source |-> shown.source, native |-> shown.native,
   started |-> first.started, ended |-> first.ended, hits |-> hits,
   kind |-> shown.kind, seq |-> shown.seq, score |-> score]

(* Until it is ranked, a result has the place of its session for a rank.   *)
FindResult(cs, among, head, query, pathLike, day) ==
  LET at == OfGroup(cs, among, head) IN
  ToFindResult(cs[head], DisplayRow(cs, at, query, pathLike), Cardinality(at), head,
               ScoreSession(cs, at, cs[head], query, pathLike, day))

RankCandidates(cs, among, query, pathLike, limit, day) ==
  LET results == {FindResult(cs, among, head, query, pathLike, day) : head \in Heads(cs, among)}
  IN Ranked(Take(Sorted(results, LAMBDA r : <<-r.score, -r.ended, r.rank>>), limit))

TimeOf(r, sort) == IF sort = "started" THEN r.started ELSE r.ended

(* Ties are broken by source and then by session, which StableKey orders.  *)
StableKey(r) == <<NameOrder[r.source], NameOrder[r.native]>>

(* Mutant: the sessions to rank are the first recalled, not the newest.    *)
NewestAsRecalled(cs, sort, n) ==
  {h \in Heads(cs, DOMAIN cs) : Cardinality({i \in Heads(cs, DOMAIN cs) : i < h}) < n}

NewestSessions(cs, sort, n) ==
  ToSet(Take(Sorted(Heads(cs, DOMAIN cs), LAMBDA h : <<-TimeOf(cs[h], sort), h>>), n))

RankForSort(cs, query, pathLike, sort, limit, day) ==
  IF sort = "relevance" THEN RankCandidates(cs, DOMAIN cs, query, pathLike, limit, day)
  ELSE LET n == Max({RerankMultiplier * limit, limit})
           narrowed == UNION {OfGroup(cs, DOMAIN cs, h) : h \in NewestSessions(cs, sort, n)}
           ranked == RankCandidates(cs, narrowed, query, pathLike, n, day)
       IN Ranked(Take(SortByKey(ranked, LAMBDA r : <<-TimeOf(r, sort), -r.score>> \o StableKey(r)),
                      limit))

-----------------------------------------------------------------------------
(* A find over several sources.                                            *)

(* Mutant: results that tie stay in the order the sources were searched.   *)
MergeKeyAsSearched(r, sort) ==
  IF sort = "relevance" THEN <<r.rank, -r.ended>> ELSE <<-TimeOf(r, sort), -r.score>>

(* The reciprocal of the rank orders as the rank does.                     *)
MergeKey(r, sort) ==
  (IF sort = "relevance" THEN <<r.rank, -r.ended>> ELSE <<-TimeOf(r, sort), -r.score>>)
    \o StableKey(r)

KeepBetter(kept, r) ==
  LET same == {i \in DOMAIN kept : StableKey(kept[i]) = StableKey(r)} IN
  IF same = {} THEN Append(kept, r)
  ELSE LET i == CHOOSE k \in same : TRUE IN
       IF r.rank < kept[i].rank \/ (r.rank = kept[i].rank /\ r.score > kept[i].score)
       THEN [kept EXCEPT ![i] = r] ELSE kept

(* The best result of every session, of the first n results.               *)
Deduped(results) ==
  LET deduped[n \in 0..Len(results)] ==
        IF n = 0 THEN <<>> ELSE KeepBetter(deduped[n - 1], results[n])
  IN deduped

(* results: those of every source, one source after the other.             *)
MergeResults(results, sort, limit) ==
  Ranked(Take(SortByKey(Deduped(results)[Len(results)], LAMBDA r : MergeKey(r, sort)), limit))

MergedFreshness(all) ==
  IF all \subseteq {"fresh"} THEN "fresh"
  ELSE IF "missing" \in all THEN "missing"
  ELSE IF "stale" \in all THEN "stale" ELSE "not_checked"

Diagnosis(freshness) ==
  CASE freshness = "fresh" -> "fresh_miss"
    [] freshness \in {"stale", "missing"} -> "stale_or_missing_coverage"
    [] OTHER -> "coverage_not_confirmed"

SpecOf(analysis, source, order, limit) ==
  [terms |-> analysis.terms, needle |-> analysis.needle, sources |-> {source},
   selector |-> None, session |-> None, order |-> order, excluded |-> {}, limit |-> limit]

(* One source of a find: recall, coverage and count over the same scope.   *)
FindSource(args, source, scope, docs, rows, records) ==
  LET analysis == Analyze(args.query)
      terms == TermsOf(args.query)
      spec == [SpecOf(analysis, source, args.sort, CandidateLimit(args.limit, args.sort)) EXCEPT
                 !.selector = scope,
                 !.excluded = ResolveExcluded(args.excluded, source, rows)]
      found == RecallWithFallback(spec, RelaxedQueries(terms), docs)
  IN [results  |-> RankForSort(found, terms, analysis.pathLike, args.sort, args.limit, args.day),
      coverage |-> IndexedCoverage(CoverageRecords(records, source), scope),
      scanned  |-> SelectorCounts(scope, rows).messages]

(* parts: the finds of the sources, in the order they are searched.        *)
MergeSummaries(args, parts) ==
  IF Len(parts) = 1 THEN parts[1]
  ELSE [results  |-> MergeResults(FlattenSeq([i \in DOMAIN parts |-> parts[i].results]),
                                  args.sort, args.limit),
        coverage |-> [complete  |-> \A i \in DOMAIN parts : parts[i].coverage.complete,
                      freshness |-> MergedFreshness({parts[i].coverage.freshness :
                                                       i \in DOMAIN parts}),
                      covering  |-> UNION {parts[i].coverage.covering : i \in DOMAIN parts}],
        scanned  |-> FoldLeft(LAMBDA n, p : n + p.scanned, 0, parts)]

FindSummary(args, parts) ==
  LET merged == MergeSummaries(args, parts) IN
  [merged |-> merged,
   zero   |-> IF merged.results = <<>> THEN Diagnosis(merged.coverage.freshness) ELSE None]

-----------------------------------------------------------------------------
(* What to read next.                                                      *)

EvidenceRead(r, text) ==
  IF r.seq # None THEN [kind |-> "range", seq |-> r.seq, query |-> text]
  ELSE IF text # Blank THEN [kind |-> "range", seq |-> None, query |-> text]
  ELSE [kind |-> "page", seq |-> None, query |-> Blank]

(* Mutant: a match that is no message is read from the first one.          *)
AnchorOrFirst(seq, text, hit) ==
  IF seq # None THEN [seq |-> seq]
  ELSE IF text = Blank THEN Refused
  ELSE IF hit = None \/ hit.seq = None THEN [seq |-> 0] ELSE [seq |-> hit.seq]

ResolveReadAnchor(seq, text, hit) ==
  IF seq # None THEN [seq |-> seq]
  ELSE IF text = Blank THEN Refused
  ELSE IF hit = None \/ hit.seq = None THEN Refused ELSE [seq |-> hit.seq]

(* The anchor of read-range: the best message of the session.              *)
ReadAnchor(read, session, docs, limit, day) ==
  LET analysis == Analyze(read.query)
      terms == TermsOf(read.query)
      spec == [SpecOf(analysis, session.source, "relevance", limit) EXCEPT !.session = session]
      found == RecallWithFallback(spec, RelaxedQueries(terms), docs)
      messages == {i \in DOMAIN found : found[i].kind = "message"}
      best == RankCandidates(found, messages, terms, analysis.pathLike, 1, day)
  IN ResolveReadAnchor(read.seq, read.query,
       IF read.seq # None \/ read.query = Blank \/ best = <<>> THEN None ELSE best[1])

=============================================================================
