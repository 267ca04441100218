----------------------------- MODULE QueryLaws ------------------------------
(***************************************************************************)
(* What the selectors and the retrieval promise about their inputs, asked  *)
(* of every sample of bounded sets.  A question stands in the place of the *)
(* reader once every bound of ReadPath is used up: nothing happens to it.  *)
(***************************************************************************)
EXTENDS AdapterLaws

CONSTANTS
  SampleFiles,      \* files on disk
  SampleScopes,     \* selectors
  SampleFinds,      \* the flags of a find: source, selector, root, cwd
  SampleLists,      \* the results of one source: [1..n -> results], ranked
  SampleCandidates, \* sequences of candidates, one time for each session
  SampleDocs,       \* the documents of one session
  SampleTexts,      \* what a find looks for
  SampleLimits,     \* how many results it asks for
  Env               \* the directory the command runs in

(* Scopes are what Canonicalize lets through, the files tell any two scopes *)
(* of a root apart, None is no date and no scope, and an error no set.     *)
ASSUME QuerySamples ==
  /\ None \notin Nat
  /\ \A s \in SampleScopes :
       /\ s.kind \in Kinds /\ s.root \in Seq(DOMAIN CaseFold)
       /\ IsDated(s) => {s.from, s.to} \subseteq Nat \ {0} /\ s.from <= s.to
  /\ \A f \in SampleFiles :
       f.path \in Seq(DOMAIN CaseFold) /\ f.date \in (Nat \ {0}) \cup {None}
  /\ \A c, r \in SampleScopes : \A date \in IF IsDated(r) THEN {r.from, r.to} ELSE {None} :
       \E f \in SampleFiles :
         /\ f.source = r.source /\ IsPrefix(r.root, f.path) /\ f.date = date
         /\ IF IsForCwd(r) THEN f.cwd = r.cwd ELSE f.cwd # c.cwd
  /\ \A args \in SampleFinds :
       /\ args.selector \notin {None, Blank} =>
            {args.selector.from.is, args.selector.to.is} \subseteq Int \cup {Blank, BadDate}
       /\ IsError(FindSources(args)) \/
            /\ Refused # {FindScope(args, s, Env) : s \in FindSources(args)}
            /\ HasExplicitScope(args) =>
                 \A s \in FindSources(args) : OptionalSelector(args, s, Env, TRUE) # None

(* The results of a find, whose times and scores are numbers, and the      *)
(* sources, which names tell apart.                                        *)
ASSUME ListSamples ==
  /\ SampleLimits \subseteq Nat
  /\ {NameOrder["codex"], NameOrder["pi"]} \subseteq Int /\ NameOrder["codex"] # NameOrder["pi"]
  /\ \A list \in SampleLists :
       /\ list \in Seq(ToSet(list))
       /\ \A r \in ToSet(list) :
            /\ {"rank", "source", "native", "started", "ended", "score"} \subseteq DOMAIN r
            /\ {r.rank, r.started, r.ended, r.score, NameOrder[r.native]} \subseteq Int

(* So are those of candidates, and one of a session has the times of all.  *)
ASSUME CandidateSamples ==
  \A cs \in SampleCandidates :
    /\ cs \in Seq(ToSet(cs))
    /\ \A c \in ToSet(cs) :
         {c.bm25, c.started, c.ended, NameOrder[c.source], NameOrder[c.native]} \subseteq Int
    /\ \A c, d \in ToSet(cs) :
         GroupKey(c) = GroupKey(d) => c.started = d.started /\ c.ended = d.ended

(* The documents of a find: a message has a place in its session, a profile *)
(* none; and what is looked for, the terms with their forms.               *)
IsIndexed(d) ==
  /\ {d.id, d.bm25, d.started, d.ended, NameOrder[d.source], NameOrder[d.native]} \subseteq Int
  /\ d.tokens \in Seq(ToSet(d.tokens))
  /\ IF d.kind = "message" THEN d.seq \in Nat /\ [seq |-> d.seq] # Refused ELSE d.seq = None

ASSUME EvidenceSamples ==
  /\ \A docs \in SampleDocs :
       /\ IsFiniteSet(docs) /\ \A d \in docs : IsIndexed(d)
       /\ \A d, e \in docs :
            /\ d.id = e.id /\ d.seq = e.seq => d = e
            /\ GroupKey(d) = GroupKey(e) => d.started = e.started /\ d.ended = e.ended
  /\ \A text \in SampleTexts \ {Blank} :
       /\ text.terms \in Seq(ToSet(text.terms))
       /\ \A t \in ToSet(text.terms) :
            t.forms \in Seq(ToSet(t.forms)) /\ t.lastForms \in Seq(ToSet(t.lastForms))

Asked ==
  [command : {"scopes"}, covering : SampleScopes, requested : SampleScopes]
    \cup [command : {"row"}, scope : SampleScopes, file : SampleFiles]
    \cup [command : {"flags"}, args : SampleFinds]
    \cup [command : {"merge"}, one : SampleLists, other : SampleLists,
          sort : {"relevance", "ended"}, limit : SampleLimits]
    \cup [command : {"time"}, candidates : SampleCandidates, sort : {"ended", "started"},
          limit : SampleLimits]
    \cup [command : {"evidence"}, docs : SampleDocs, text : SampleTexts]
    \cup AdapterQuestions

LawsInit ==
  \/ Init
  \/ /\ reader \in Asked
     /\ disk = {} /\ written = MaxWrites
     /\ rows = {} /\ cursors = {} /\ records = {} /\ nextId = 1
     /\ sync = Idle /\ syncs = MaxSyncs
     /\ reads = MaxReads

LawsSpec == LawsInit /\ [][Next]_vars

-----------------------------------------------------------------------------
ScopeOf(s) == {f \in SampleFiles : InScope(s, f)}

(* A proof answers for a request exactly when, under the same root, every  *)
(* file of the request is one of the proof's (selector.rs                  *)
(* selector_implies, which no case of dates and cwds may overstate, against*)
(* selector_contains_file, which a scan selects by).                       *)
ImpliesIsContainment ==
  reader.command = "scopes" =>
    LET c == reader.covering  r == reader.requested IN
    /\ SelectorImplies(c, r) => ScopeOf(r) \subseteq ScopeOf(c)
    /\ c.source = r.source /\ c.root = r.root /\ ScopeOf(r) \subseteq ScopeOf(c)
         => SelectorImplies(c, r)

(* The rows a prune removes and a find searches are those of the files a   *)
(* scan of the same selector returns, but for roots that differ in case    *)
(* only (writer.rs selector_filter and reader.rs add_selector_filter,      *)
(* against catalog.rs walk and selector_contains_file).                    *)
RowOfFile(f) ==
  [source |-> f.source, path |-> f.path, cwd |-> f.cwd, date |-> StoredDate(f.date)]

OneScope ==
  reader.command = "row" =>
    LET s == reader.scope  f == reader.file IN
    /\ InScope(s, f) => SelectorFilter(s, RowOfFile(f))
    /\ SelectorFilter(s, RowOfFile(f)) /\ ~InScope(s, f) => Like(s.root, f.path)
                                                          /\ ~IsPrefix(s.root, f.path)

(* The sync a find proposes while there is no index proves, for every      *)
(* source the find then searches, the scope it is searched with            *)
(* (app/selectors.rs find_bootstrap_selectors, app/mod.rs find_summary).   *)
BootstrapCoversTheSearch ==
  reader.command = "flags" =>
    LET args == reader.args
        sources == FindSources(args)
        proposed == BootstrapSelectors(args, Env)
    IN proposed = None \/ IsError(sources)
       \/ IF \E s \in sources : IsError(FindScope(args, s, Env)) THEN IsError(proposed)
          ELSE /\ ~IsError(proposed)
               /\ \A s \in sources : \E p \in proposed :
                    SelectorImplies(p, FindScope(args, s, Env))

(* The results of a find over several sources do not depend on the order   *)
(* they are searched in, ties included (global.rs merge_find_results).     *)
MergeIgnoresOrder ==
  reader.command = "merge" =>
    LET Of(source, list) == [i \in DOMAIN list |-> [list[i] EXCEPT !.source = source]]
        one == Of("codex", reader.one)
        other == Of("pi", reader.other)
    IN MergeResults(one \o other, reader.sort, reader.limit)
         = MergeResults(other \o one, reader.sort, reader.limit)

(* Sorted by time, a find shows the newest sessions of all candidates, in  *)
(* whatever order these were recalled, though it ranks only some of them   *)
(* (ranking.rs rank_candidates_for_sort_at).                               *)
TimeSortIsNewest ==
  reader.command = "time" =>
    LET cs == reader.candidates
        shown == RankForSort(cs, <<>>, FALSE, reader.sort, reader.limit, 0)
    IN /\ Len(shown) = AtMost(Cardinality(Heads(cs, DOMAIN cs)), reader.limit)
       /\ \A i \in DOMAIN shown, j \in DOMAIN cs :
            (\A k \in DOMAIN shown : shown[k].native # cs[j].native)
              => TimeOf(cs[j], reader.sort) <= TimeOf(shown[i], reader.sort)

(* What a find proposes to read shows a message that holds a form of one   *)
(* of the terms, and is refused only where no message was found; a match   *)
(* of the session's profile is never shown as an unrelated message         *)
(* (read.rs:14, evidence.rs, app/mod.rs read_anchor).                      *)
FormsOf(text) ==
  {text.needle}
    \cup UNION {{t.word} \cup ToSet(t.forms) \cup ToSet(t.lastForms) : t \in ToSet(text.terms)}

EvidenceIsReadable ==
  reader.command = "evidence" =>
    LET docs == reader.docs
        args == [query |-> reader.text, excluded |-> {}, sort |-> "relevance",
                 limit |-> 1, day |-> 0]
        results == FindSource(args, Codex, None, docs, {}, {}).results
    IN \A i \in DOMAIN results :
         LET r == results[i]
             anchor == ReadAnchor(EvidenceRead(r, reader.text),
                                  [source |-> r.source, native |-> r.native], docs, 50, 0)
         IN IF IsError(anchor) THEN r.seq = None
            ELSE \E d \in docs : /\ d.kind = "message" /\ d.seq = anchor.seq
                                 /\ d.words \cap FormsOf(reader.text) # {}

=============================================================================
