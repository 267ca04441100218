-------------------------- MODULE QueryLawsProofs ---------------------------
(***************************************************************************)
(* What the selectors promise, for any samples: a proof answers exactly    *)
(* for what it contains, the SQL scope is the scope of the scan, and the   *)
(* proposed sync proves what is searched.  And what the Codex adapter      *)
(* promises, for rollouts of any length: a delta is a full replay, a       *)
(* session keeps its name, a mirror pairs once, and, for every adapter,    *)
(* what the inventory hashes decides what is projected, but for messages   *)
(* of Claude Code that hold a NUL.  And what the ranking does, for lists   *)
(* of any length: the merge of several sources ignores their order, a find *)
(* sorted by time shows the newest, a find that its limits leave room      *)
(* misses nothing that a proof vouches for, and what it proposes to read   *)
(* is there and holds what was looked for.                                 *)
(***************************************************************************)
EXTENDS QueryLaws, ReadPathProofs, WellFoundedInduction, FunctionTheorems

-----------------------------------------------------------------------------
(* A question stays as it was asked.                                       *)

Scoped == {"scopes", "row", "flags", "rollout", "inventory", "merge", "time", "evidence"}

QuestionInv ==
  /\ "command" \in DOMAIN reader
  /\ reader.command \in Scoped => reader \in Asked

LEMMA InitQuestion == LawsInit => QuestionInv
<1>1. Init => QuestionInv
  BY DEF Init, NoReader, QuestionInv, Scoped
<1>2. ASSUME reader \in Asked PROVE QuestionInv
  BY <1>2 DEF Asked, AdapterQuestions, QuestionInv
<1> QED BY <1>1, <1>2 DEF LawsInit

LEMMA NextQuestion == QuestionInv /\ [Next]_vars => QuestionInv'
<1> SUFFICES ASSUME QuestionInv, [Next]_vars PROVE QuestionInv' OBVIOUS
<1>1. ASSUME reader' = reader PROVE QuestionInv'
  BY <1>1 DEF QuestionInv
<1>2. ASSUME NEW files, NEW proofs, Publish(files, proofs) PROVE QuestionInv'
  <2>1. CASE reader.command = "find"
    <3>1. reader' = [reader EXCEPT !.undisturbed = FALSE]
      BY <1>2, <2>1 DEF Publish
    <3> QED BY <2>1, <3>1 DEF QuestionInv, Scoped
  <2>2. CASE reader.command = "walk"
    <3>1. PICK u : reader' = [reader EXCEPT !.undisturbed = u]
      BY <1>2, <2>2 DEF Publish
    <3> QED BY <2>2, <3>1 DEF QuestionInv, Scoped
  <2>3. CASE reader.command \notin {"find", "walk"}
    <3>1. reader' = reader
      BY <1>2, <2>3 DEF Publish
    <3> QED BY <1>1, <3>1
  <2> QED BY <2>1, <2>2, <2>3
<1>3. CASE Agents
  BY <1>1, <1>3 DEF Agents, CreateFile, AppendRecord, RewriteFile, RemoveFile, Write
<1>4. CASE Sync
  BY <1>1, <1>2, <1>4 DEF Sync, Begin, Complete, Partial, Fail, Crash
<1>5. CASE Readers
  <2>1. ASSUME NEW s \in Scopes, RecallFirst(s) \/ StatusFirst(s) PROVE QuestionInv'
    BY <2>1 DEF RecallFirst, StatusFirst, QuestionInv, Scoped
  <2>2. ASSUME NEW native, NEW offset, NEW got, NEW undisturbed,
               ReadHeader(native, offset, got, undisturbed)
        PROVE  QuestionInv'
    BY <2>2 DEF ReadHeader, NoReader, QuestionInv, Scoped
  <2>3. ASSUME ReadMessages PROVE QuestionInv'
    <3>1. /\ reader.command = "walk"
          /\ \E got, offset, more :
               reader' = [reader EXCEPT !.page = TRUE, !.got = got, !.offset = offset, !.more = more]
      BY <2>3 DEF ReadMessages
    <3> QED BY <3>1 DEF QuestionInv, Scoped
  <2> QED BY <1>5, <2>1, <2>2, <2>3 DEF Readers, FirstPage, NextPage
<1>6. CASE UNCHANGED vars
  BY <1>1, <1>6 DEF vars
<1> QED BY <1>3, <1>4, <1>5, <1>6 DEF Next

LEMMA SpecQuestion == LawsSpec => []QuestionInv
BY InitQuestion, NextQuestion, PTL DEF LawsSpec

-----------------------------------------------------------------------------
(* Containment.                                                            *)

(* What contains every file that tells scopes apart is implied.            *)
LEMMA ContainmentImplies ==
  ASSUME NEW c \in SampleScopes, NEW r \in SampleScopes,
         c.source = r.source, c.root = r.root, ScopeOf(r) \subseteq ScopeOf(c)
  PROVE  SelectorImplies(c, r)
<1>1. /\ IsDated(r) => r.from \in Nat /\ r.to \in Nat /\ r.from <= r.to
      /\ IsDated(c) => c.from \in Nat /\ c.to \in Nat
  BY QuerySamples
<1> DEFINE dates == IF IsDated(r) THEN {r.from, r.to} ELSE {None}
<1>2. ASSUME NEW date \in dates
      PROVE  /\ IsDated(c) => date # None /\ DateInRange(date, c)
             /\ IsForCwd(c) => IsForCwd(r) /\ c.cwd = r.cwd
  <2>1. PICK f \in SampleFiles :
          /\ f.source = r.source /\ IsPrefix(r.root, f.path) /\ f.date = date
          /\ IF IsForCwd(r) THEN f.cwd = r.cwd ELSE f.cwd # c.cwd
    BY <1>2, QuerySamples
  <2>2. f.date \in Nat \/ f.date = None
    BY QuerySamples
  <2>3. IsDated(r) => f.date # None /\ DateInRange(f.date, r)
    BY <1>1, <1>2, <2>1, QuerySamples DEF DateInRange
  <2>4. InScope(r, f)
    BY <2>1, <2>3 DEF InScope, ContainsFile
  <2>5. ContainsFile(c, f)
    BY <2>4 DEF ScopeOf, InScope
  <2> QED BY <2>1, <2>5 DEF ContainsFile
<1>3. IsDated(c) => IsDated(r) /\ ContainsDateRange(c, r)
  BY <1>1, <1>2 DEF ContainsDateRange, DateInRange
<1>4. IsForCwd(c) => IsForCwd(r) /\ c.cwd = r.cwd
  BY <1>2
<1> QED BY <1>3, <1>4 DEF SelectorImplies

(* ImpliesIsContainment, for any scopes, and any files that tell two       *)
(* scopes of a root apart.                                                 *)
THEOREM SpecImpliesIsContainment == LawsSpec => []ImpliesIsContainment
<1>1. QuestionInv => ImpliesIsContainment
  <2> SUFFICES ASSUME QuestionInv, reader.command = "scopes"
               PROVE  LET c == reader.covering  r == reader.requested IN
                      /\ SelectorImplies(c, r) => ScopeOf(r) \subseteq ScopeOf(c)
                      /\ c.source = r.source /\ c.root = r.root /\ ScopeOf(r) \subseteq ScopeOf(c)
                           => SelectorImplies(c, r)
    BY DEF ImpliesIsContainment
  <2>1. reader.covering \in SampleScopes /\ reader.requested \in SampleScopes
    BY DEF QuestionInv, Scoped, Asked, AdapterQuestions
  <2>2. ASSUME NEW c \in SampleScopes, NEW r \in SampleScopes, SelectorImplies(c, r)
        PROVE  ScopeOf(r) \subseteq ScopeOf(c)
    <3>1. /\ IsDated(c) => c.from \in Nat /\ c.to \in Nat
          /\ IsDated(r) => r.from \in Nat /\ r.to \in Nat
          /\ \A f \in SampleFiles : f.date = None \/ f.date \in Nat
      BY QuerySamples
    <3> QED BY <2>2, <3>1, ImpliedScope DEF ScopeOf
  <2> QED BY <2>1, <2>2, ContainmentImplies
<1> QED BY <1>1, SpecQuestion, PTL

(* OneScope, for any scopes and files.                                     *)
THEOREM SpecOneScope == LawsSpec => []OneScope
<1>1. QuestionInv => OneScope
  <2> SUFFICES ASSUME QuestionInv, reader.command = "row"
               PROVE  LET s == reader.scope  f == reader.file IN
                      /\ InScope(s, f) => SelectorFilter(s, RowOfFile(f))
                      /\ SelectorFilter(s, RowOfFile(f)) /\ ~InScope(s, f)
                           => Like(s.root, f.path) /\ ~IsPrefix(s.root, f.path)
    BY DEF OneScope
  <2>1. reader.scope \in SampleScopes /\ reader.file \in SampleFiles
    BY DEF QuestionInv, Scoped, Asked, AdapterQuestions
  <2>2. ASSUME NEW s \in SampleScopes, NEW f \in SampleFiles
        PROVE  /\ InScope(s, f) => SelectorFilter(s, RowOfFile(f))
               /\ SelectorFilter(s, RowOfFile(f)) /\ ~InScope(s, f)
                    => Like(s.root, f.path) /\ ~IsPrefix(s.root, f.path)
    <3>1. /\ s.root \in Seq(DOMAIN CaseFold) /\ f.path \in Seq(DOMAIN CaseFold)
          /\ IsDated(s) => {s.from, s.to} \subseteq Nat \ {0}
      BY QuerySamples
    <3>2. /\ RowOfFile(f).source = f.source /\ RowOfFile(f).path = f.path
          /\ RowOfFile(f).cwd = f.cwd /\ RowOfFile(f).date = StoredDate(f.date)
      BY DEF RowOfFile
    <3> QED BY <3>1, <3>2, RowScope
  <2> QED BY <2>1, <2>2
<1> QED BY <1>1, SpecQuestion, PTL

-----------------------------------------------------------------------------
(* The proposed sync.                                                      *)

(* A scope that is no error implies itself.                                *)
LEMMA FindScopeImpliesItself ==
  ASSUME NEW args \in SampleFinds, NEW s, ~IsError(FindScope(args, s, Env))
  PROVE  SelectorImplies(FindScope(args, s, Env), FindScope(args, s, Env))
<1> DEFINE root == ResolveSourceRoot(s, args.root, Env)
           default == [root |-> [pad |-> FALSE, is |-> [absolute |-> TRUE, parts |-> root]],
                       source |-> s]
           parsed == ParseSelector(args.selector, default, Env)
           scope == OptionalSelector(args, s, Env, TRUE)
<1>1. ASSUME NEW x, x.kind = "all" \/ x.kind = "cwd" PROVE SelectorImplies(x, x)
  BY <1>1 DEF SelectorImplies, IsDated
<1>2. ASSUME args.selector # None, ~IsError(parsed) PROVE SelectorImplies(parsed, parsed)
  <2> DEFINE raw == args.selector
             path == Or(raw.root, default.root)
  <2>1. raw # Blank /\ raw.kind \in Kinds /\ parsed = Canonicalize(raw, default, Env)
    BY <1>2 DEF ParseSelector, IsError
  <2>2. /\ IsDated(raw) => DatesValid(raw)
        /\ parsed = Select(raw.kind, Or(raw.source, Or(default.source, DefaultSource)),
                           ResolveLexical(path.is, Env),
                           IF IsForCwd(raw) THEN raw.cwd.is ELSE None,
                           IF IsDated(raw) THEN raw.from.is ELSE None,
                           IF IsDated(raw) THEN raw.to.is ELSE None)
    BY <1>2, <2>1 DEF Canonicalize, IsError
  <2>3. /\ IsDated(parsed) <=> IsDated(raw)
        /\ IsDated(raw) => parsed.from = raw.from.is /\ parsed.to = raw.to.is
    BY <2>2 DEF Select, IsDated
  <2>4. IsDated(raw) => raw.from.is \in Int /\ raw.to.is \in Int
    BY <1>2, <2>1, <2>2, QuerySamples DEF DatesValid, DateValid, Missing
  <2> QED BY <2>3, <2>4 DEF SelectorImplies, ContainsDateRange
<1>3. CASE scope = None
  <2>1. FindScope(args, s, Env) = AllSelector(s, None, Env)
    BY <1>3 DEF FindScope
  <2>2. FindScope(args, s, Env) = All(s, ResolveSourceRoot(s, None, Env))
    BY <2>1 DEF AllSelector, IsError
  <2> QED BY <1>1, <2>2 DEF All, Select
<1>4. CASE scope # None
  <2>1. FindScope(args, s, Env) = scope /\ scope # Refused
    BY <1>4 DEF FindScope, IsError
  <2>2. \/ args.selector # None /\ ~IsError(parsed) /\ scope = parsed
        \/ scope = Select("cwd", s, root, args.cwd, None, None)
        \/ scope = All(s, root)
    BY <1>4, <2>1 DEF OptionalSelector, IsError
  <2>3. Select("cwd", s, root, args.cwd, None, None).kind = "cwd" /\ All(s, root).kind = "all"
    BY DEF All, Select
  <2> HIDE DEF scope, parsed, root
  <2> QED BY <1>1, <1>2, <2>1, <2>2, <2>3
<1> QED BY <1>3, <1>4

(* BootstrapCoversTheSearch, for any flags.                                *)
THEOREM SpecBootstrapCoversTheSearch == LawsSpec => []BootstrapCoversTheSearch
<1>1. QuestionInv => BootstrapCoversTheSearch
  <2> SUFFICES ASSUME NEW args \in SampleFinds, ~IsError(FindSources(args)),
                      BootstrapSelectors(args, Env) # None
               PROVE  LET sources == FindSources(args)
                          proposed == BootstrapSelectors(args, Env)
                      IN IF \E s \in sources : IsError(FindScope(args, s, Env))
                         THEN IsError(proposed)
                         ELSE /\ ~IsError(proposed)
                              /\ \A s \in sources : \E p \in proposed :
                                   SelectorImplies(p, FindScope(args, s, Env))
    <3>1. QuestionInv /\ reader.command = "flags" => reader.args \in SampleFinds
      BY DEF QuestionInv, Scoped, Asked, AdapterQuestions
    <3> QED BY <3>1 DEF BootstrapCoversTheSearch
  <2> DEFINE sources == FindSources(args)
             Proposed(s) ==
               LET scope == OptionalSelector(args, s, Env, TRUE) IN
               IF scope = None THEN AllSelector(s, args.root, Env) ELSE scope
             bad == {s \in sources : IsError(Proposed(s))}
  <2>1. ASSUME NEW s \in sources PROVE Proposed(s) = FindScope(args, s, Env)
    <3>1. OptionalSelector(args, s, Env, TRUE) = None => args.root = None
      BY QuerySamples DEF HasExplicitScope
    <3> QED BY <3>1 DEF FindScope
  <2>2. BootstrapSelectors(args, Env) =
          IF bad # {} THEN Proposed(CHOOSE s \in bad : TRUE) ELSE {Proposed(s) : s \in sources}
    BY DEF BootstrapSelectors
  <2>3. CASE bad # {}
    <3>1. (CHOOSE s \in bad : TRUE) \in bad
      BY <2>3
    <3> QED BY <2>1, <2>2, <2>3, <3>1
  <2>4. CASE bad = {}
    <3>1. \A s \in sources : ~IsError(FindScope(args, s, Env))
      BY <2>1, <2>4
    <3>2. BootstrapSelectors(args, Env) = {FindScope(args, s, Env) : s \in sources}
      BY <2>1, <2>2, <2>4
    <3>3. ~IsError(BootstrapSelectors(args, Env))
      BY <3>2, QuerySamples DEF IsError
    <3> QED BY <3>1, <3>2, <3>3, FindScopeImpliesItself
  <2> QED BY <2>3, <2>4
<1> QED BY <1>1, SpecQuestion, PTL

-----------------------------------------------------------------------------
(* What is read of a sequence, by induction over its length: the numbers   *)
(* that are not in a set have a least one.                                 *)

LEMMA UpFrom ==
  ASSUME NEW m \in Nat, NEW S \in SUBSET Nat, m \in S,
         \A i \in S : i >= m => i + 1 \in S,
         NEW n \in Nat, n >= m
  PROVE  n \in S
<1> SUFFICES ASSUME n \notin S PROVE FALSE OBVIOUS
<1> DEFINE T == {i \in Nat : i >= m /\ i \notin S}
<1>1. T \subseteq Nat /\ T # {} OBVIOUS
<1>2. PICK x \in T : \A y \in T : ~(<<y, x>> \in OpToRel(<, Nat))
  BY <1>1, WFMin, NatLessThanWellFounded
<1>3. \A y \in T : ~(y < x) BY <1>2 DEF OpToRel
<1> QED BY <1>3

IsReading(read, state, said, from, delta, n) ==
  read = [i \in from..n |->
            IF i = from THEN [state |-> state, docs |-> <<>>, refused |-> FALSE]
            ELSE Process(read[i - 1], said[i], i, delta)]

LEMMA UpTo ==
  ASSUME NEW m \in Nat, NEW n \in Nat, m <= n, NEW S \in SUBSET (m..n), m \in S,
         \A i \in S : i < n => i + 1 \in S
  PROVE  \A i \in m..n : i \in S
<1> DEFINE T == {i \in Nat : i <= n => i \in S}
<1>1. m \in T OBVIOUS
<1>2. \A i \in T : i >= m => i + 1 \in T OBVIOUS
<1>3. T \subseteq Nat OBVIOUS
<1> HIDE DEF T
<1>4. \A i \in Nat : i >= m => i \in T BY <1>1, <1>2, <1>3, UpFrom
<1> QED BY <1>4 DEF T

LEMMA ReadingExists ==
  ASSUME NEW state, NEW said, NEW from \in Nat, NEW delta, NEW n \in Nat, n >= from
  PROVE  \E read : IsReading(read, state, said, from, delta, n)
<1> DEFINE S == {m \in Nat : m >= from /\ \E read : IsReading(read, state, said, from, delta, m)}
<1>1. from \in S
  <2> DEFINE one == [i \in from..from |-> [state |-> state, docs |-> <<>>, refused |-> FALSE]]
  <2>1. IsReading(one, state, said, from, delta, from)
    <3>1. \A i \in from..from : i = from OBVIOUS
    <3> QED BY <3>1 DEF IsReading
  <2> HIDE DEF one
  <2> QED BY <2>1
<1>2. ASSUME NEW m \in S, m >= from PROVE m + 1 \in S
  <2>1. PICK read : IsReading(read, state, said, from, delta, m) OBVIOUS
  <2> DEFINE more == [i \in from..(m+1) |->
                        IF i = m+1 THEN Process(read[m], said[m+1], m+1, delta) ELSE read[i]]
  <2>2. ASSUME NEW i \in from..(m+1)
        PROVE more[i] = IF i = from THEN [state |-> state, docs |-> <<>>, refused |-> FALSE]
                        ELSE Process(more[i - 1], said[i], i, delta)
    <3>1. CASE i = m + 1
      <4>1. m \in from..(m+1) /\ m # m + 1 /\ i # from /\ i - 1 = m BY <1>2, <3>1
      <4>2. more[m] = read[m] BY <4>1
      <4>3. more[i] = Process(read[m], said[m+1], m+1, delta) BY <3>1
      <4> HIDE DEF more
      <4> QED BY <4>1, <4>2, <4>3, <3>1
    <3>2. CASE i # m + 1
      <4>1. i \in from..m BY <3>2
      <4>2. more[i] = read[i] BY <3>2
      <4>3. CASE i = from
        <5>1. read[i] = [state |-> state, docs |-> <<>>, refused |-> FALSE]
          BY <4>1, <4>3, <2>1 DEF IsReading
        <5> HIDE DEF more
        <5> QED BY <4>2, <4>3, <5>1
      <4>4. CASE i # from
        <5>1. read[i] = Process(read[i - 1], said[i], i, delta)
          BY <4>1, <4>4, <2>1 DEF IsReading
        <5>2. i - 1 \in from..(m+1) /\ i - 1 # m + 1 BY <4>1, <4>4
        <5>3. more[i - 1] = read[i - 1] BY <5>2
        <5> HIDE DEF more
        <5> QED BY <4>2, <4>4, <5>1, <5>3
      <4> QED BY <4>3, <4>4
    <3> QED BY <3>1, <3>2
  <2>3. IsReading(more, state, said, from, delta, m + 1) BY <2>2 DEF IsReading
  <2> HIDE DEF more
  <2> QED BY <2>3
<1> HIDE DEF S
<1>3. n \in S
  BY <1>1, <1>2, UpFrom DEF S
<1> QED BY <1>3 DEF S

(* The provers take a field that is Boolean better by a name.              *)
Unrefused == FALSE

Reading(s, docs) == [state |-> s, docs |-> docs, refused |-> Unrefused]

Follows(readings, said, from, delta, n) ==
  \A i \in from..n : i < n => readings[i + 1] = Process(readings[i], said[i + 1], i + 1, delta)

LEMMA ReadsStep ==
  ASSUME NEW state, NEW said, NEW from \in Nat, NEW delta, NEW n \in Nat, Len(said) = n, n >= from
  PROVE  /\ ProcessEach(state, said, from, delta)[from] = Reading(state, <<>>)
         /\ Follows(ProcessEach(state, said, from, delta), said, from, delta, n)
<1> DEFINE readings == ProcessEach(state, said, from, delta)
<1>1. PICK read : IsReading(read, state, said, from, delta, n)
  BY ReadingExists
<1>2. IsReading(readings, state, said, from, delta, n)
  BY <1>1 DEF ProcessEach, IsReading
<1> HIDE DEF readings
<1>3. readings[from] = [state |-> state, docs |-> <<>>, refused |-> FALSE]
  BY <1>2 DEF IsReading
<1>4. ASSUME NEW i \in from..n, i < n
      PROVE  readings[i + 1] = Process(readings[i], said[i + 1], i + 1, delta)
  <2>1. i + 1 \in from..n /\ i + 1 # from /\ (i + 1) - 1 = i BY <1>4
  <2>2. readings[i + 1] = Process(readings[(i + 1) - 1], said[i + 1], i + 1, delta)
    BY <1>2, <2>1 DEF IsReading
  <2> QED BY <2>1, <2>2
<1>5. readings[from] = Reading(state, <<>>) BY <1>3, Zenon DEF Reading, Unrefused
<1> QED BY <1>4, <1>5 DEF readings, Follows

-----------------------------------------------------------------------------
StateFields ==
  {"id", "cwd", "model", "next", "filtered", "segment", "turn", "mirror", "first", "latest",
   "compact", "reasoning", "started", "ended"}

IsState(s) ==
  /\ DOMAIN s = StateFields /\ s = [f \in StateFields |-> s[f]]
  /\ s.next \in Nat

Named(s, x) == [s EXCEPT !.id = x]

LEMMA FreshIsState == ASSUME NEW file PROVE IsState(Fresh(file))
BY DEF IsState, Fresh, StateFields

LEMMA ObserveKeeps ==
  ASSUME NEW s, IsState(s), NEW m, NEW x
  PROVE  /\ IsState(Observe(s, m)) /\ Observe(s, m).next = s.next + 1
         /\ Observe(s, m).id = s.id /\ Observe(s, m).segment = s.segment
         /\ Observe(Named(s, x), m) = Named(Observe(s, m), x)
<1> DEFINE entry == [seq |-> s.next, text |-> m.text]
           mirror == [role |-> m.role, text |-> m.text, origin |-> m.origin]
           first == [s.first EXCEPT ![m.role] = IF @ = NoEntry THEN entry ELSE @]
           latest == [s.latest EXCEPT ![m.role] = entry]
           started == IF s.started = 0 \/ m.time < s.started THEN m.time ELSE s.started
           ended == IF m.time > s.ended THEN m.time ELSE s.ended
           After(t) == [t EXCEPT !.next = s.next + 1, !.mirror = mirror, !.first = first,
                                 !.latest = latest, !.started = started, !.ended = ended]
<1>1. Observe(s, m) = After(s) BY DEF Observe, IsState, StateFields
<1>2. Observe(Named(s, x), m) = After(Named(s, x)) BY DEF Observe, IsState, StateFields, Named
<1> HIDE DEF entry, mirror, first, latest, started, ended
<1>3. /\ IsState(After(s)) /\ After(s).next = s.next + 1
      /\ After(s).id = s.id /\ After(s).segment = s.segment
  <2>1. After(s).next = s.next + 1 /\ After(s).id = s.id /\ After(s).segment = s.segment
    BY DEF IsState, StateFields
  <2>2. DOMAIN After(s) = StateFields BY DEF IsState
  <2>3. After(s) = [f \in StateFields |-> After(s)[f]] BY <2>2
  <2> HIDE DEF After
  <2> QED BY <2>1, <2>2, <2>3 DEF IsState
<1>4. After(Named(s, x)) = Named(After(s), x)
  <2>1. DOMAIN After(Named(s, x)) = StateFields /\ DOMAIN Named(After(s), x) = StateFields
    BY DEF IsState, StateFields, Named
  <2>2. \A f \in StateFields : After(Named(s, x))[f] = Named(After(s), x)[f]
    BY DEF IsState, StateFields, Named
  <2> QED BY <2>1, <2>2 DEF Named
<1> HIDE DEF After
<1> QED BY <1>1, <1>2, <1>3, <1>4

LEMMA ContextKeeps ==
  ASSUME NEW s, IsState(s), NEW r, NEW x
  PROVE  /\ IsState(Context(s, r)) /\ Context(s, r).next = s.next
         /\ Context(s, r).id = s.id /\ Context(s, r).segment = s.segment
         /\ Context(Named(s, x), r) = Named(Context(s, r), x)
BY DEF IsState, StateFields, Context, Named

LEMMA MetaKeeps ==
  ASSUME NEW s, IsState(s), NEW r, NEW x
  PROVE  /\ \A delta : /\ IsState(Meta(s, r, delta)) /\ Meta(s, r, delta).next = s.next
                       /\ \/ Meta(s, r, delta).id = s.id
                          \/ r.id # Unset /\ Meta(s, r, delta).id = r.id
         /\ r.id = Unset => Meta(Named(s, x), r, TRUE) = Named(Meta(s, r, FALSE), x)
         /\ r.id = Unset \/ s.id \in {Unset, r.id} => Meta(s, r, TRUE) = Meta(s, r, FALSE)
         /\ r.id # Unset /\ s.id = Unset => Meta(Named(s, r.id), r, TRUE) = Meta(s, r, FALSE)
<1> DEFINE After(t, id) == [t EXCEPT !.id = id, !.segment = s.segment \/ r.segment,
                                     !.cwd = IF r.cwd # Unset THEN r.cwd ELSE s.cwd]
           Id(id, d) == IF r.id # Unset /\ (id = Unset \/ (r.segment /\ ~d)) THEN r.id ELSE id
<1>1. \A d : Meta(s, r, d) = After(s, Id(s.id, d)) BY DEF Meta, IsState, StateFields
<1>2. \A y, d : Meta(Named(s, y), r, d) = After(Named(s, y), Id(y, d))
  BY DEF Meta, IsState, StateFields, Named
<1>3. \A id : IsState(After(s, id)) /\ After(s, id).next = s.next /\ After(s, id).id = id
  <2> TAKE id
  <2>1. After(s, id).next = s.next /\ After(s, id).id = id BY DEF IsState, StateFields
  <2>2. DOMAIN After(s, id) = StateFields BY DEF IsState
  <2>3. After(s, id) = [f \in StateFields |-> After(s, id)[f]] BY <2>2
  <2> HIDE DEF After
  <2> QED BY <2>1, <2>2, <2>3 DEF IsState
<1>4. \A y, id, other : After(Named(s, y), id) = Named(After(s, other), id)
  <2> TAKE y, id, other
  <2>1. DOMAIN After(Named(s, y), id) = StateFields /\ DOMAIN Named(After(s, other), id) = StateFields
    BY DEF IsState, StateFields, Named
  <2>2. \A f \in StateFields : After(Named(s, y), id)[f] = Named(After(s, other), id)[f]
    BY DEF IsState, StateFields, Named
  <2> QED BY <2>1, <2>2 DEF Named
<1>5. \A id, y : Named(After(s, id), y) = After(s, y)
  <2> TAKE id, y
  <2>1. DOMAIN After(s, y) = StateFields /\ DOMAIN Named(After(s, id), y) = StateFields
    BY DEF IsState, StateFields, Named
  <2>2. \A f \in StateFields : After(s, y)[f] = Named(After(s, id), y)[f]
    BY DEF IsState, StateFields, Named
  <2> QED BY <2>1, <2>2 DEF Named
<1> HIDE DEF After
<1>6. \A y, d : r.id = Unset => Id(y, d) = y OBVIOUS
<1>7. \A delta : Id(s.id, delta) = s.id \/ (r.id # Unset /\ Id(s.id, delta) = r.id) OBVIOUS
<1>8. r.id = Unset \/ s.id \in {Unset, r.id} => Id(s.id, TRUE) = Id(s.id, FALSE) OBVIOUS
<1>9. r.id # Unset /\ s.id = Unset => Id(r.id, TRUE) = r.id /\ Id(s.id, FALSE) = r.id OBVIOUS
<1> HIDE DEF Id
<1>10. \A delta : /\ IsState(Meta(s, r, delta)) /\ Meta(s, r, delta).next = s.next
                  /\ Meta(s, r, delta).id = Id(s.id, delta)
  BY <1>1, <1>3
<1>11. ASSUME r.id = Unset PROVE Meta(Named(s, x), r, TRUE) = Named(Meta(s, r, FALSE), x)
  <2>1. Meta(Named(s, x), r, TRUE) = After(Named(s, x), x) BY <1>11, <1>2, <1>6
  <2>2. Meta(s, r, FALSE) = After(s, Id(s.id, FALSE)) BY <1>1
  <2> QED BY <2>1, <2>2, <1>4
<1>12. ASSUME r.id # Unset, s.id = Unset PROVE Meta(Named(s, r.id), r, TRUE) = Meta(s, r, FALSE)
  <2>1. Meta(Named(s, r.id), r, TRUE) = After(Named(s, r.id), r.id) BY <1>12, <1>2, <1>9
  <2>2. After(Named(s, r.id), r.id) = After(s, r.id) BY <1>4, <1>5
  <2> QED BY <1>12, <1>1, <1>9, <2>1, <2>2
<1>13. r.id = Unset \/ s.id \in {Unset, r.id} => Meta(s, r, TRUE) = Meta(s, r, FALSE) BY <1>1, <1>8
<1> QED BY <1>7, <1>10, <1>11, <1>12, <1>13

LEMMA FollowKind ==
  ASSUME NEW s, NEW r
  PROVE  /\ r.kind = "context" => Follow(s, r) = Context(s, r)
         /\ r.kind = "boundary" => Follow(s, r) = [s EXCEPT !.mirror = NoMirror, !.turn = Unset]
         /\ r.kind = "compacted" =>
              Follow(s, r) = [s EXCEPT !.mirror = NoMirror, !.compact = PushUnique(s.compact, r.text)]
         /\ r.kind = "reasoning" =>
              Follow(s, r) = [s EXCEPT !.reasoning = PushAll(s.reasoning, r.texts)]
         /\ r.kind = "filtered" => Follow(s, r) = [s EXCEPT !.filtered = s.filtered + 1]
         /\ Shown(s, r) => Follow(s, r) = Observe(s, r)
         /\ r.kind = "message" /\ ~Shown(s, r) => Follow(s, r) = [s EXCEPT !.mirror = NoMirror]
         /\ r.kind \notin {"context", "boundary", "compacted", "reasoning", "filtered", "message"}
              => Follow(s, r) = s
<1>1. CASE r.kind = "context" BY <1>1 DEF Follow, Shown
<1>2. CASE r.kind = "boundary" BY <1>2 DEF Follow, Shown
<1>3. CASE r.kind = "compacted" BY <1>3 DEF Follow, Shown
<1>4. CASE r.kind = "reasoning" BY <1>4 DEF Follow, Shown
<1>5. CASE r.kind = "filtered" BY <1>5 DEF Follow, Shown
<1>6. CASE r.kind = "message" BY <1>6 DEF Follow, Shown
<1>7. CASE r.kind \notin {"context", "boundary", "compacted", "reasoning", "filtered", "message"}
  BY <1>7 DEF Follow, Shown
<1> QED BY <1>1, <1>2, <1>3, <1>4, <1>5, <1>6, <1>7

SetKeeps(s, t) == IsState(t) /\ t.next = s.next /\ t.id = s.id /\ t.segment = s.segment

LEMMA OthersKeep ==
  ASSUME NEW s, IsState(s), NEW v, NEW w, NEW x
  PROVE  /\ SetKeeps(s, [s EXCEPT !.mirror = v]) /\ SetKeeps(s, [s EXCEPT !.filtered = v])
         /\ SetKeeps(s, [s EXCEPT !.reasoning = v])
         /\ SetKeeps(s, [s EXCEPT !.mirror = v, !.turn = w])
         /\ SetKeeps(s, [s EXCEPT !.mirror = v, !.compact = w])
         /\ [Named(s, x) EXCEPT !.mirror = v] = Named([s EXCEPT !.mirror = v], x)
         /\ [Named(s, x) EXCEPT !.filtered = v] = Named([s EXCEPT !.filtered = v], x)
         /\ [Named(s, x) EXCEPT !.reasoning = v] = Named([s EXCEPT !.reasoning = v], x)
         /\ [Named(s, x) EXCEPT !.mirror = v, !.turn = w]
              = Named([s EXCEPT !.mirror = v, !.turn = w], x)
         /\ [Named(s, x) EXCEPT !.mirror = v, !.compact = w]
              = Named([s EXCEPT !.mirror = v, !.compact = w], x)
<1>1. SetKeeps(s, [s EXCEPT !.mirror = v]) BY DEF IsState, StateFields, SetKeeps
<1>2. SetKeeps(s, [s EXCEPT !.filtered = v]) BY DEF IsState, StateFields, SetKeeps
<1>3. SetKeeps(s, [s EXCEPT !.reasoning = v]) BY DEF IsState, StateFields, SetKeeps
<1>4. SetKeeps(s, [s EXCEPT !.mirror = v, !.turn = w]) BY DEF IsState, StateFields, SetKeeps
<1>5. SetKeeps(s, [s EXCEPT !.mirror = v, !.compact = w]) BY DEF IsState, StateFields, SetKeeps
<1>6. [Named(s, x) EXCEPT !.mirror = v] = Named([s EXCEPT !.mirror = v], x)
  BY DEF IsState, StateFields, Named
<1>7. [Named(s, x) EXCEPT !.filtered = v] = Named([s EXCEPT !.filtered = v], x)
  BY DEF IsState, StateFields, Named
<1>8. [Named(s, x) EXCEPT !.reasoning = v] = Named([s EXCEPT !.reasoning = v], x)
  BY DEF IsState, StateFields, Named
<1>9. [Named(s, x) EXCEPT !.mirror = v, !.turn = w] = Named([s EXCEPT !.mirror = v, !.turn = w], x)
  BY DEF IsState, StateFields, Named
<1>10. [Named(s, x) EXCEPT !.mirror = v, !.compact = w]
         = Named([s EXCEPT !.mirror = v, !.compact = w], x)
  BY DEF IsState, StateFields, Named
<1> QED BY <1>1, <1>2, <1>3, <1>4, <1>5, <1>6, <1>7, <1>8, <1>9, <1>10

-----------------------------------------------------------------------------
RecordKinds ==
  {"none", "meta", "context", "boundary", "compacted", "reasoning", "filtered", "message"}

LEMMA ClassifyKind ==
  ASSUME NEW raw
  PROVE  /\ Classify(raw).kind \in RecordKinds
         /\ Classify(raw).kind = "message" => Classify(raw).role \in Roles
<1> DEFINE Fine(c) == c.kind \in RecordKinds /\ (c.kind = "message" => c.role \in Roles)
<1>1. Fine(Nothing) BY DEF Nothing, RecordKinds
<1>2. ASSUME NEW role \in Roles, NEW text, NEW time, NEW origin
      PROVE  Fine(Conversation(role, text, time, origin))
  BY DEF Conversation, RecordKinds
<1>3. Fine(ResponseItem(raw)) BY <1>1, <1>2 DEF ResponseItem
<1>4. Fine(Event(raw))
  BY <1>1, <1>2 DEF Event, EventRole, RecordKinds, Roles
<1>5. Fine(Classify(raw))
  <2>1. CASE raw.time = 0 BY <1>1, <2>1 DEF Classify
  <2>2. CASE raw.time # 0 /\ raw.type = "response_item"
    <3>1. Classify(raw) = ResponseItem(raw) BY <2>2 DEF Classify
    <3> HIDE DEF Fine
    <3> QED BY <3>1, <1>3
  <2>3. CASE raw.time # 0 /\ raw.type = "event_msg"
    <3>1. Classify(raw) = Event(raw) BY <2>3 DEF Classify
    <3> HIDE DEF Fine
    <3> QED BY <3>1, <1>4
  <2>4. CASE raw.time # 0 /\ raw.type \notin {"response_item", "event_msg"}
    BY <2>4, <1>1 DEF Classify, RecordKinds
  <2> QED BY <2>1, <2>2, <2>3, <2>4
<1> QED BY <1>5

LEMMA ReadingFields ==
  ASSUME NEW s, NEW docs
  PROVE  /\ Reading(s, docs).state = s /\ Reading(s, docs).docs = docs
         /\ Reading(s, docs).refused = FALSE
<1>1. Reading(s, docs).state = s /\ Reading(s, docs).docs = docs
  BY DEF Reading
<1>2. Reading(s, docs).refused = Unrefused BY DEF Reading
<1> QED BY <1>1, <1>2 DEF Unrefused

DocsAfter(s, r, at, docs) == IF Shown(s, r) THEN Append(docs, Document(s, r, at)) ELSE docs

GaveUp(read) == read.refused = TRUE

LEMMA ProcessRecord ==
  ASSUME NEW s, NEW docs, NEW r, NEW at, NEW delta,
         NEW after, after = Process(Reading(s, docs), r, at, delta)
  PROVE  /\ ~Refuses(s, r, delta) => after = Reading(Apply(s, r, delta), DocsAfter(s, r, at, docs))
         /\ Refuses(s, r, delta) => GaveUp(after)
<1> DEFINE read == Reading(s, docs)
<1>1. read.state = s /\ read.docs = docs /\ read.refused = FALSE BY ReadingFields
<1>2. CASE ~Refuses(s, r, delta)
  <2>1. after = [state |-> Apply(s, r, delta), docs |-> DocsAfter(s, r, at, docs), refused |-> FALSE]
    BY <1>1, <1>2, Zenon DEF Process, DocsAfter
  <2> QED BY <1>2, <2>1, Zenon DEF Reading, Unrefused
<1>3. CASE Refuses(s, r, delta)
  <2>1. after = [state |-> s, docs |-> docs, refused |-> TRUE] BY <1>1, <1>3, Zenon DEF Process
  <2> QED BY <1>3, <2>1 DEF GaveUp
<1> QED BY <1>2, <1>3

LEMMA RefusedStays ==
  ASSUME NEW read, GaveUp(read), NEW r, NEW at, NEW delta
  PROVE  GaveUp(Process(read, r, at, delta))
<1>1. Process(read, r, at, delta) = [state |-> read.state, docs |-> read.docs, refused |-> TRUE]
  BY Zenon DEF Process, GaveUp
<1> QED BY <1>1 DEF GaveUp

LEMMA ApplyKeeps ==
  ASSUME NEW s, IsState(s), NEW r
  PROVE  /\ IsState(Apply(s, r, FALSE)) /\ Apply(s, r, FALSE).next >= s.next
         /\ Apply(s, r, FALSE).id = Unset => s.id = Unset
<1> DEFINE Kept(t) == IsState(t) /\ t.next >= s.next /\ (t.id = Unset => s.id = Unset)
<1>0. s.next \in Nat BY DEF IsState
<1>1. \A t : SetKeeps(s, t) => Kept(t) BY <1>0 DEF SetKeeps
<1>2. Kept(s) BY <1>0
<1>3. Kept(Meta(s, r, FALSE))
  <2> DEFINE t == Meta(s, r, FALSE)
  <2>1. IsState(t) BY MetaKeeps
  <2>2. t.next = s.next BY MetaKeeps
  <2>3. t.id = s.id \/ (r.id # Unset /\ t.id = r.id) BY MetaKeeps
  <2> HIDE DEF t
  <2>4. Kept(t) BY <1>0, <2>1, <2>2, <2>3
  <2> QED BY <2>4 DEF t
<1>4. Kept(Context(s, r)) BY <1>0, ContextKeeps
<1>5. Kept(Observe(s, r)) BY <1>0, ObserveKeeps
<1> HIDE DEF Kept
<1>6. /\ Kept([s EXCEPT !.mirror = NoMirror, !.turn = Unset])
      /\ Kept([s EXCEPT !.mirror = NoMirror, !.compact = PushUnique(s.compact, r.text)])
      /\ Kept([s EXCEPT !.reasoning = PushAll(s.reasoning, r.texts)])
      /\ Kept([s EXCEPT !.filtered = s.filtered + 1])
      /\ Kept([s EXCEPT !.mirror = NoMirror])
  BY <1>1, OthersKeep
<1>7. Kept(Follow(s, r)) BY <1>2, <1>4, <1>5, <1>6 DEF Follow
<1>8. Kept(Apply(s, r, FALSE)) BY <1>3, <1>7 DEF Apply
<1> QED BY <1>8 DEF Kept

(* Where the state of a delta is that of a full reading: it may have been  *)
(* given a name by the checkpoint that no record has given it.             *)
Agrees(d, f, x) ==
  \/ d = f
  \/ f.id = Unset /\ f.next > 0 /\ d = Named(f, x)

LEMMA NamedKeeps ==
  ASSUME NEW s, IsState(s), NEW x
  PROVE  /\ Named(s, x).id = x
         /\ \A f \in StateFields \ {"id"} : Named(s, x)[f] = s[f]
         /\ Named(s, x).next = s.next /\ Named(s, x).mirror = s.mirror
         /\ Named(s, x).compact = s.compact /\ Named(s, x).reasoning = s.reasoning
         /\ Named(s, x).filtered = s.filtered /\ Named(s, x).segment = s.segment
         /\ Named(s, x).first = s.first /\ Named(s, x).latest = s.latest
         /\ Named(s, x).cwd = s.cwd /\ Named(s, x).model = s.model
         /\ Named(s, x).started = s.started /\ Named(s, x).ended = s.ended
BY DEF IsState, StateFields, Named

LEMMA NamedByItself == ASSUME NEW s, IsState(s) PROVE Named(s, s.id) = s
BY DEF IsState, StateFields, Named

LEMMA DeltaApply ==
  ASSUME NEW f, IsState(f), NEW x, NEW r, NEW d, Agrees(d, f, x), ~Refuses(d, r, TRUE)
  PROVE  /\ Agrees(Apply(d, r, TRUE), Apply(f, r, FALSE), x)
         /\ Shown(d, r) <=> Shown(f, r)
<1>1. CASE d = f
  <2>1. r.kind = "meta" => Meta(f, r, TRUE) = Meta(f, r, FALSE)
    BY <1>1, MetaKeeps DEF Refuses
  <2>2. Apply(f, r, TRUE) = Apply(f, r, FALSE)
    BY <2>1 DEF Apply
  <2> QED BY <1>1, <2>2 DEF Agrees
<1>2. CASE f.id = Unset /\ f.next > 0 /\ d = Named(f, x)
  <2>0. /\ d.mirror = f.mirror /\ d.compact = f.compact /\ d.reasoning = f.reasoning
        /\ d.filtered = f.filtered /\ d.next = f.next /\ d.id = x
    BY <1>2, NamedKeeps
  <2>1. Shown(d, r) <=> Shown(f, r) BY <2>0 DEF Shown, Mirrors
  <2>2. CASE r.kind = "meta"
    <3> DEFINE a == Meta(d, r, TRUE)
               b == Meta(f, r, FALSE)
    <3>1. Apply(d, r, TRUE) = a /\ Apply(f, r, FALSE) = b
      BY <2>2 DEF Apply
    <3>2. Agrees(a, b, x)
      <4>1. CASE r.id = Unset
        <5>1. a = Named(b, x)
          <6>1. Meta(Named(f, x), r, TRUE) = Named(Meta(f, r, FALSE), x) BY <4>1, MetaKeeps
          <6> QED BY <1>2, <6>1
        <5>2. b.next = f.next BY MetaKeeps
        <5>3. b.id = f.id \/ (r.id # Unset /\ b.id = r.id) BY MetaKeeps
        <5> HIDE DEF a, b
        <5> QED BY <1>2, <4>1, <5>1, <5>2, <5>3 DEF Agrees
      <4>2. CASE r.id # Unset /\ x = r.id
        <5>1. a = b BY <1>2, <4>2, MetaKeeps
        <5> QED BY <5>1 DEF Agrees
      <4>3. CASE r.id # Unset /\ x = Unset
        <5>1. d = f BY <1>2, <4>3, NamedByItself
        <5>2. Meta(f, r, TRUE) = Meta(f, r, FALSE) BY <1>2, MetaKeeps
        <5> QED BY <5>1, <5>2 DEF Agrees
      <4> QED BY <2>0, <2>2, <4>1, <4>2, <4>3 DEF Refuses
    <3>3. Agrees(Apply(d, r, TRUE), Apply(f, r, FALSE), x)
      <4> HIDE DEF a, b
      <4> QED BY <3>1, <3>2
    <3> QED BY <2>1, <3>3
  <2>3. CASE r.kind # "meta"
    <3> DEFINE Fine(a, b) == SetKeeps(f, b) /\ a = Named(b, x)
               v == PushUnique(f.compact, r.text)
               w == PushAll(f.reasoning, r.texts)
               n == f.filtered + 1
    <3>1. /\ v = PushUnique(d.compact, r.text) /\ w = PushAll(d.reasoning, r.texts)
          /\ n = d.filtered + 1 /\ v = PushUnique(f.compact, r.text)
          /\ w = PushAll(f.reasoning, r.texts) /\ n = f.filtered + 1
      BY <2>0
    <3> HIDE DEF v, w, n
    <3>2. Fine([d EXCEPT !.mirror = NoMirror, !.turn = Unset], [f EXCEPT !.mirror = NoMirror, !.turn = Unset])
      <4>1. SetKeeps(f, [f EXCEPT !.mirror = NoMirror, !.turn = Unset]) BY OthersKeep
      <4>2. [d EXCEPT !.mirror = NoMirror, !.turn = Unset]
              = Named([f EXCEPT !.mirror = NoMirror, !.turn = Unset], x)
        BY <1>2 DEF IsState, StateFields, Named
      <4> QED BY <4>1, <4>2
    <3>3. Fine([d EXCEPT !.mirror = NoMirror, !.compact = v], [f EXCEPT !.mirror = NoMirror, !.compact = v])
      <4>1. SetKeeps(f, [f EXCEPT !.mirror = NoMirror, !.compact = v]) BY OthersKeep
      <4>2. [d EXCEPT !.mirror = NoMirror, !.compact = v]
              = Named([f EXCEPT !.mirror = NoMirror, !.compact = v], x)
        BY <1>2 DEF IsState, StateFields, Named
      <4> QED BY <4>1, <4>2
    <3>4. Fine([d EXCEPT !.reasoning = w], [f EXCEPT !.reasoning = w])
      <4>1. SetKeeps(f, [f EXCEPT !.reasoning = w]) BY OthersKeep
      <4>2. [d EXCEPT !.reasoning = w] = Named([f EXCEPT !.reasoning = w], x)
        BY <1>2 DEF IsState, StateFields, Named
      <4> QED BY <4>1, <4>2
    <3>5. Fine([d EXCEPT !.filtered = n], [f EXCEPT !.filtered = n])
      <4>1. SetKeeps(f, [f EXCEPT !.filtered = n]) BY OthersKeep
      <4>2. [d EXCEPT !.filtered = n] = Named([f EXCEPT !.filtered = n], x)
        BY <1>2 DEF IsState, StateFields, Named
      <4> QED BY <4>1, <4>2
    <3>6. Fine([d EXCEPT !.mirror = NoMirror], [f EXCEPT !.mirror = NoMirror])
      <4>1. SetKeeps(f, [f EXCEPT !.mirror = NoMirror]) BY OthersKeep
      <4>2. [d EXCEPT !.mirror = NoMirror] = Named([f EXCEPT !.mirror = NoMirror], x)
        BY <1>2 DEF IsState, StateFields, Named
      <4> QED BY <4>1, <4>2
    <3>7. Fine(Context(d, r), Context(f, r)) BY <1>2, ContextKeeps DEF SetKeeps
    <3>8. Fine(d, f) BY <1>2 DEF SetKeeps
    <3>9. ASSUME NEW a, NEW b, Fine(a, b) PROVE Agrees(a, b, x)
      BY <1>2, <3>9 DEF Agrees, SetKeeps
    <3>10. Agrees(Observe(d, r), Observe(f, r), x)
      <4>1. Observe(d, r) = Named(Observe(f, r), x) BY <1>2, ObserveKeeps
      <4>2. Observe(f, r).id = f.id /\ Observe(f, r).next = f.next + 1 BY ObserveKeeps
      <4>3. f.next \in Nat BY DEF IsState
      <4> QED BY <1>2, <4>1, <4>2, <4>3 DEF Agrees
    <3> HIDE DEF Fine
    <3>11. Agrees(Apply(d, r, TRUE), Apply(f, r, FALSE), x)
      <4>1. CASE Shown(f, r)
        <5>1. Apply(d, r, TRUE) = Observe(d, r) /\ Apply(f, r, FALSE) = Observe(f, r)
          BY <2>1, <4>1 DEF Apply, Follow, Shown
        <5> QED BY <3>10, <5>1
      <4>2. CASE ~Shown(f, r)
        <5>1. Fine(Apply(d, r, TRUE), Apply(f, r, FALSE))
          <6>0. Apply(d, r, TRUE) = Follow(d, r) /\ Apply(f, r, FALSE) = Follow(f, r)
            BY <2>3 DEF Apply
          <6>1. CASE r.kind = "context" BY <3>7, <6>0, <6>1, FollowKind
          <6>2. CASE r.kind = "boundary" BY <3>2, <6>0, <6>2, FollowKind
          <6>3. CASE r.kind = "compacted"
            <7>1. Follow(d, r) = [d EXCEPT !.mirror = NoMirror, !.compact = v]
              <8>1. Follow(d, r) = [d EXCEPT !.mirror = NoMirror, !.compact = PushUnique(d.compact, r.text)]
                BY <6>3, FollowKind, Zenon
              <8> QED BY <3>1, <8>1, Zenon
            <7>2. Follow(f, r) = [f EXCEPT !.mirror = NoMirror, !.compact = v]
              <8>1. Follow(f, r) = [f EXCEPT !.mirror = NoMirror, !.compact = PushUnique(f.compact, r.text)]
                BY <6>3, FollowKind, Zenon
              <8> QED BY <3>1, <8>1, Zenon
            <7> QED BY <3>3, <6>0, <7>1, <7>2
          <6>4. CASE r.kind = "reasoning"
            <7>1. Follow(d, r) = [d EXCEPT !.reasoning = w]
              <8>1. Follow(d, r) = [d EXCEPT !.reasoning = PushAll(d.reasoning, r.texts)]
                BY <6>4, FollowKind, Zenon
              <8> QED BY <3>1, <8>1, Zenon
            <7>2. Follow(f, r) = [f EXCEPT !.reasoning = w]
              <8>1. Follow(f, r) = [f EXCEPT !.reasoning = PushAll(f.reasoning, r.texts)]
                BY <6>4, FollowKind, Zenon
              <8> QED BY <3>1, <8>1, Zenon
            <7> QED BY <3>4, <6>0, <7>1, <7>2
          <6>5. CASE r.kind = "filtered"
            <7>1. Follow(d, r) = [d EXCEPT !.filtered = n] BY <3>1, <6>5, FollowKind
            <7>2. Follow(f, r) = [f EXCEPT !.filtered = n] BY <3>1, <6>5, FollowKind
            <7> QED BY <3>5, <6>0, <7>1, <7>2
          <6>6. CASE r.kind = "message" BY <2>1, <3>6, <4>2, <6>0, <6>6, FollowKind
          <6>7. CASE r.kind \notin {"context", "boundary", "compacted", "reasoning", "filtered", "message"}
            BY <3>8, <6>0, <6>7, FollowKind
          <6> QED BY <6>1, <6>2, <6>3, <6>4, <6>5, <6>6, <6>7
        <5> QED BY <3>9, <5>1
      <4> QED BY <4>1, <4>2
    <3> QED BY <2>1, <3>11
  <2> QED BY <2>2, <2>3
<1> QED BY <1>1, <1>2 DEF Agrees

LEMMA DeltaDocs ==
  ASSUME NEW f, IsState(f), NEW x, NEW r, NEW d, Agrees(d, f, x), NEW at, NEW docs
  PROVE  DocsAfter(d, r, at, docs) = DocsAfter(f, r, at, docs)
<1>1. CASE d = f BY <1>1
<1>2. CASE d = Named(f, x)
  <2>0. d.mirror = f.mirror /\ d.next = f.next BY <1>2, NamedKeeps
  <2>1. Shown(d, r) <=> Shown(f, r) BY <2>0 DEF Shown, Mirrors
  <2> QED BY <2>0, <2>1 DEF DocsAfter, Document
<1> QED BY <1>1, <1>2 DEF Agrees

-----------------------------------------------------------------------------
(* Readings of sequences of records.                                       *)

IsList(docs) == \E D : docs \in Seq(D)

LEMMA ListAppend ==
  ASSUME NEW docs, IsList(docs), NEW d
  PROVE  /\ IsList(Append(docs, d))
         /\ \A before : IsList(before) => before \o Append(docs, d) = Append(before \o docs, d)
<1>1. PICK D : docs \in Seq(D) BY DEF IsList
<1>2. docs \in Seq(D \cup {d}) BY <1>1, SeqMonotonic
<1>3. Append(docs, d) \in Seq(D \cup {d}) BY <1>2
<1>4. ASSUME NEW before, IsList(before)
      PROVE  before \o Append(docs, d) = Append(before \o docs, d)
  <2>1. PICK B : before \in Seq(B) BY <1>4 DEF IsList
  <2> DEFINE Both == B \cup D \cup {d}
  <2>2. before \in Seq(Both) /\ docs \in Seq(Both) /\ d \in Both BY <1>1, <2>1, SeqMonotonic
  <2> HIDE DEF Both
  <2>3. before \o Append(docs, d) = before \o (docs \o <<d>>) BY <2>2, AppendIsConcat
  <2>4. Append(before \o docs, d) = (before \o docs) \o <<d>> BY <2>2, AppendIsConcat, ConcatProperties
  <2>5. <<d>> \in Seq(Both) BY <2>2
  <2>6. before \o (docs \o <<d>>) = (before \o docs) \o <<d>> BY <2>2, <2>5, ConcatAssociative
  <2> QED BY <2>3, <2>4, <2>6
<1> QED BY <1>3, <1>4 DEF IsList

Sound(read, file) ==
  \E s, docs : /\ read = Reading(s, docs) /\ IsState(s) /\ IsList(docs)
               /\ s.id = Unset => file.uuid = Unset

FullReads(file, said) == ProcessEach(Fresh(file), said, 0, FALSE)

LEMMA FullStep ==
  ASSUME NEW file, NEW said, NEW n \in Nat, Len(said) = n
  PROVE  /\ FullReads(file, said)[0] = Reading(Fresh(file), <<>>)
         /\ Follows(FullReads(file, said), said, 0, FALSE, n)
<1>1. n >= 0 /\ 0 \in Nat OBVIOUS
<1> QED BY <1>1, ReadsStep, Zenon DEF FullReads

LEMMA FullReading ==
  ASSUME NEW file, NEW said, NEW n \in Nat, Len(said) = n,
         NEW full, full = FullReads(file, said)
  PROVE  \A i \in 0..n : Sound(full[i], file)
<1>0. /\ full[0] = Reading(Fresh(file), <<>>)
      /\ Follows(full, said, 0, FALSE, n)
  BY FullStep
<1>1. Sound(full[0], file)
  <2>1. IsState(Fresh(file)) BY FreshIsState
  <2>2. Fresh(file).id = file.uuid BY DEF Fresh
  <2>3. IsList(<<>>) BY DEF IsList
  <2> QED BY <1>0, <2>1, <2>2, <2>3 DEF Sound
<1>2. ASSUME NEW i \in 0..n, i < n, Sound(full[i], file) PROVE Sound(full[i + 1], file)
  <2>1. PICK s, docs : /\ full[i] = Reading(s, docs) /\ IsState(s) /\ IsList(docs)
                       /\ s.id = Unset => file.uuid = Unset
    BY <1>2 DEF Sound
  <2> DEFINE r == said[i + 1]
  <2>2. full[i + 1] = Process(full[i], r, i + 1, FALSE)
    BY <1>0, <1>2 DEF Follows
  <2> HIDE DEF r
  <2>3. ~Refuses(s, r, FALSE) BY DEF Refuses
  <2>4. full[i + 1] = Reading(Apply(s, r, FALSE), DocsAfter(s, r, i + 1, docs))
    BY <2>1, <2>2, <2>3, ProcessRecord
  <2>5. IsState(Apply(s, r, FALSE)) /\ (Apply(s, r, FALSE).id = Unset => file.uuid = Unset)
    BY <2>1, ApplyKeeps
  <2>6. IsList(DocsAfter(s, r, i + 1, docs)) BY <2>1, ListAppend DEF DocsAfter
  <2> QED BY <2>4, <2>5, <2>6 DEF Sound
<1> DEFINE S == {i \in 0..n : Sound(full[i], file)}
<1>3. 0 \in S /\ \A i \in S : i < n => i + 1 \in S
  <2>1. 0 \in S
    <3>1. 0 \in 0..n OBVIOUS
    <3> QED BY <1>1, <3>1
  <2>2. ASSUME NEW i \in S, i < n PROVE i + 1 \in S
    <3>1. i \in 0..n /\ Sound(full[i], file) OBVIOUS
    <3>2. i + 1 \in 0..n BY <2>2, <3>1
    <3> QED BY <1>2, <2>2, <3>1, <3>2
  <2> QED BY <2>1, <2>2
<1>4. S \subseteq 0..n OBVIOUS
<1> HIDE DEF S
<1>5. \A i \in 0..n : i \in S BY <1>3, <1>4, UpTo
<1> QED BY <1>5 DEF S

(* A shorter rollout is read as the beginning of a longer one.             *)
LEMMA PrefixReading ==
  ASSUME NEW file, NEW said, NEW n \in Nat, Len(said) = n, NEW k \in 0..n,
         NEW first, Len(first) = k, \A i \in 1..k : first[i] = said[i]
  PROVE  FullReads(file, first)[k] = FullReads(file, said)[k]
<1> DEFINE full == FullReads(file, said)
           before == FullReads(file, first)
<1>1. full[0] = Reading(Fresh(file), <<>>) /\ Follows(full, said, 0, FALSE, n)
  BY FullStep
<1>2. before[0] = Reading(Fresh(file), <<>>) /\ Follows(before, first, 0, FALSE, k)
  <2>1. k \in Nat OBVIOUS
  <2> QED BY <2>1, FullStep DEF before
<1> HIDE DEF full, before
<1>3. ASSUME NEW i \in 0..k, i < k, before[i] = full[i] PROVE before[i + 1] = full[i + 1]
  <2>1. i \in 0..n /\ i < n /\ i + 1 \in 1..k BY <1>3
  <2>2. full[i + 1] = Process(full[i], said[i + 1], i + 1, FALSE) BY <1>1, <2>1 DEF Follows
  <2>3. before[i + 1] = Process(before[i], first[i + 1], i + 1, FALSE) BY <1>2, <1>3 DEF Follows
  <2> QED BY <1>3, <2>1, <2>2, <2>3
<1> DEFINE S == {i \in 0..k : before[i] = full[i]}
<1>4. 0 \in S
  <2>1. 0 \in 0..k OBVIOUS
  <2> QED BY <1>1, <1>2, <2>1
<1>5. \A i \in S : i < k => i + 1 \in S
  <2> SUFFICES ASSUME NEW i \in S, i < k PROVE i + 1 \in S OBVIOUS
  <2>1. i \in 0..k /\ before[i] = full[i] OBVIOUS
  <2>2. i + 1 \in 0..k BY <2>1
  <2> QED BY <1>3, <2>1, <2>2
<1>6. S \subseteq 0..k OBVIOUS
<1>7. k \in 0..k /\ 0 <= k /\ k \in Nat OBVIOUS
<1> HIDE DEF S
<1>8. k \in S BY <1>4, <1>5, <1>6, <1>7, UpTo
<1> QED BY <1>8 DEF S, full, before

(* A delta that is not refused has read what a full reading has.           *)
Continues(delta, full, docs, x) ==
  \/ GaveUp(delta)
  \/ \E d, f, ds : /\ delta = Reading(d, ds) /\ full = Reading(f, docs \o ds)
                    /\ IsState(f) /\ Agrees(d, f, x) /\ IsList(ds)

LEMMA DeltaReading ==
  ASSUME NEW file, NEW said, NEW n \in Nat, Len(said) = n, NEW k \in 0..n, NEW x,
         NEW full, full = FullReads(file, said),
         NEW f0, NEW docs, full[k] = Reading(f0, docs), IsState(f0), IsList(docs),
         NEW d0, Agrees(d0, f0, x),
         NEW delta, delta = ProcessEach(d0, said, k, TRUE)
  PROVE  Continues(delta[n], full[n], docs, x)
<1>1. Follows(full, said, 0, FALSE, n)
  BY FullStep
<1>2. delta[k] = Reading(d0, <<>>) /\ Follows(delta, said, k, TRUE, n)
  <2>1. k \in Nat /\ n >= k OBVIOUS
  <2> QED BY <2>1, ReadsStep, Zenon
<1>3. Continues(delta[k], full[k], docs, x)
  <2>1. docs \o <<>> = docs BY ConcatEmptySeq DEF IsList
  <2>2. IsList(<<>>) BY DEF IsList
  <2> QED BY <1>2, <2>1, <2>2 DEF Continues
<1>4. ASSUME NEW i \in k..n, i < n, Continues(delta[i], full[i], docs, x)
      PROVE  Continues(delta[i + 1], full[i + 1], docs, x)
  <2> DEFINE r == said[i + 1]
  <2>1. full[i + 1] = Process(full[i], r, i + 1, FALSE)
    <3>1. i \in 0..n OBVIOUS
    <3> QED BY <1>1, <1>4, <3>1 DEF Follows
  <2>2. delta[i + 1] = Process(delta[i], r, i + 1, TRUE) BY <1>2, <1>4 DEF Follows
  <2> HIDE DEF r
  <2>3. CASE GaveUp(delta[i])
    <3>1. GaveUp(delta[i + 1]) BY <2>2, <2>3, RefusedStays
    <3> QED BY <3>1 DEF Continues
  <2>4. CASE ~GaveUp(delta[i])
    <3>1. PICK d, f, ds : /\ delta[i] = Reading(d, ds) /\ full[i] = Reading(f, docs \o ds)
                          /\ IsState(f) /\ Agrees(d, f, x) /\ IsList(ds)
      BY <1>4, <2>4 DEF Continues
    <3>2. CASE Refuses(d, r, TRUE)
      <4>1. GaveUp(delta[i + 1])
        <5>1. delta[i + 1] = Process(Reading(d, ds), r, i + 1, TRUE) BY <2>2, <3>1
        <5> QED BY <3>2, <5>1, ProcessRecord
      <4> QED BY <4>1 DEF Continues
    <3>3. CASE ~Refuses(d, r, TRUE)
      <4>1. delta[i + 1] = Reading(Apply(d, r, TRUE), DocsAfter(d, r, i + 1, ds))
        BY <2>2, <3>1, <3>3, ProcessRecord
      <4>2. ~Refuses(f, r, FALSE) BY DEF Refuses
      <4>3. full[i + 1] = Reading(Apply(f, r, FALSE), DocsAfter(f, r, i + 1, docs \o ds))
        BY <2>1, <3>1, <4>2, ProcessRecord
      <4>4. Agrees(Apply(d, r, TRUE), Apply(f, r, FALSE), x) BY <3>1, <3>3, DeltaApply
      <4>5. DocsAfter(d, r, i + 1, ds) = DocsAfter(f, r, i + 1, ds) 
        <5>1. \A at, some : DocsAfter(d, r, at, some) = DocsAfter(f, r, at, some)
          <6>1. IsState(f) /\ Agrees(d, f, x) BY <3>1
          <6> QED BY <3>3, <6>1, DeltaDocs
        <5> QED BY <5>1
      <4>6. DocsAfter(f, r, i + 1, docs \o ds) = docs \o DocsAfter(f, r, i + 1, ds)
        BY <3>1, ListAppend DEF DocsAfter
      <4>7. IsList(DocsAfter(f, r, i + 1, ds)) BY <3>1, ListAppend DEF DocsAfter
      <4>8. IsState(Apply(f, r, FALSE)) BY <3>1, ApplyKeeps
      <4> QED BY <4>1, <4>3, <4>4, <4>5, <4>6, <4>7, <4>8 DEF Continues
    <3> QED BY <3>2, <3>3
  <2> QED BY <2>3, <2>4
<1> DEFINE S == {i \in k..n : Continues(delta[i], full[i], docs, x)}
<1>5. k \in S
  <2>1. k \in k..n OBVIOUS
  <2> QED BY <1>3, <2>1
<1>6. \A i \in S : i < n => i + 1 \in S
  <2> SUFFICES ASSUME NEW i \in S, i < n PROVE i + 1 \in S OBVIOUS
  <2>1. i \in k..n /\ Continues(delta[i], full[i], docs, x) OBVIOUS
  <2>2. i + 1 \in k..n BY <2>1
  <2> QED BY <1>4, <2>1, <2>2
<1>7. S \subseteq k..n OBVIOUS
<1>8. n \in k..n /\ k <= n /\ k \in Nat OBVIOUS
<1> HIDE DEF S
<1>9. n \in S BY <1>5, <1>6, <1>7, <1>8, UpTo
<1> QED BY <1>9 DEF S

LEMMA AgreeingNames ==
  ASSUME NEW file, NEW f, IsState(f), NEW d, Agrees(d, f, file.fallback[file.form]),
         f.id = Unset => file.trailing = Unset
  PROVE  /\ Checkpoint(file, d) = Checkpoint(file, f)
         /\ Segment(file, d) = Segment(file, f)
         /\ \A g \in StateFields \ {"id"} : d[g] = f[g]
<1> DEFINE x == file.fallback[file.form]
<1>1. CASE d = f BY <1>1
<1>2. CASE f.id = Unset /\ f.next > 0 /\ d = Named(f, x)
  <2>1. /\ d.next = f.next /\ d.segment = f.segment /\ d.id = x
        /\ \A g \in StateFields \ {"id"} : d[g] = f[g]
    BY <1>2, NamedKeeps
  <2>2. Checkpoint(file, f) = Named(f, x) BY <1>2 DEF Checkpoint, Named
  <2>3. Checkpoint(file, d) = Named(d, x) BY <1>2, <2>1 DEF Checkpoint, Named
  <2>4. Named(Named(f, x), x) = Named(f, x) BY DEF Named, IsState, StateFields
  <2>5. file.trailing = Unset BY <1>2
  <2>6. Segment(file, d) = Segment(file, f) BY <2>1, <2>5 DEF Segment
  <2> QED BY <1>2, <2>1, <2>2, <2>3, <2>4, <2>6
<1> QED BY <1>1, <1>2 DEF Agrees

LEMMA CheckpointAgrees ==
  ASSUME NEW file, NEW s, IsState(s)
  PROVE  Agrees(Checkpoint(file, s), s, file.fallback[file.form])
<1> DEFINE x == file.fallback[file.form]
<1>1. CASE s.id = Unset /\ s.next > 0
  <2>1. Checkpoint(file, s) = Named(s, x) BY <1>1 DEF Checkpoint, Named
  <2> QED BY <1>1, <2>1 DEF Agrees
<1>2. CASE ~(s.id = Unset /\ s.next > 0)
  <2>1. Checkpoint(file, s) = Named(s, s.id) BY <1>2 DEF Checkpoint, Named
  <2>2. Named(s, s.id) = s BY NamedByItself
  <2> QED BY <2>1, <2>2 DEF Agrees
<1> QED BY <1>1, <1>2

(* Where a full reading of a rollout ends.                                 *)
Ends(file, said, s, docs) ==
  /\ FullReads(file, said)[Len(said)] = Reading(s, docs)
  /\ IsState(s) /\ IsList(docs) /\ (s.id = Unset => file.uuid = Unset)
  /\ ProjectFull(file, said) = FinishProjection(file, InventoryCwd(said), Reading(s, docs))

LEMMA FullResult ==
  ASSUME NEW file, NEW D, NEW said \in Seq(D)
  PROVE  \E s, docs : Ends(file, said, s, docs)
<1> DEFINE n == Len(said)
           readings == FullReads(file, said)
<1>1. n \in Nat /\ n \in 0..n OBVIOUS
<1>2. Sound(readings[n], file) BY <1>1, FullReading
<1>3. ProjectFull(file, said) = FinishProjection(file, InventoryCwd(said), readings[n])
  BY DEF ProjectFull, ReadFrom, FullReads
<1> HIDE DEF n, readings
<1> QED BY <1>2, <1>3 DEF Sound, Ends, n, readings

Until(said, k) == SubSeq(said, 1, k)

LEMMA PrefixEnds ==
  ASSUME NEW file, NEW D, NEW said \in Seq(D), NEW k \in 1..Len(said), NEW s, NEW docs,
         Ends(file, Until(said, k), s, docs)
  PROVE  FullReads(file, said)[k] = Reading(s, docs)
<1> DEFINE n == Len(said)
           first == Until(said, k)
           full == FullReads(file, said)
           before == FullReads(file, first)
<1>1. n \in Nat /\ Len(said) = n /\ k \in 0..n OBVIOUS
<1>2. Len(first) = k /\ \A i \in 1..k : first[i] = said[i]
  BY SubSeqProperties DEF Until
<1>3. before[Len(first)] = Reading(s, docs) BY DEF Ends
<1> HIDE DEF n, first
<1>4. before[k] = full[k] BY <1>1, <1>2, PrefixReading
<1> QED BY <1>2, <1>3, <1>4

BothEnd(file, said, k, f0, docs, f, all) ==
  /\ Ends(file, Until(said, k), f0, docs) /\ Ends(file, said, f, all)
  /\ FullReads(file, said)[k] = Reading(f0, docs)

LEMMA BothEnds ==
  ASSUME NEW file, NEW D, NEW said \in Seq(D), NEW k \in 1..Len(said)
  PROVE  \E f0, docs, f, all : BothEnd(file, said, k, f0, docs, f, all)
<1>1. Until(said, k) \in Seq(D) BY SubSeqProperties DEF Until
<1>2. PICK f0, docs : Ends(file, Until(said, k), f0, docs) BY <1>1, FullResult
<1>3. PICK f, all : Ends(file, said, f, all) BY FullResult
<1>4. FullReads(file, said)[k] = Reading(f0, docs) BY <1>2, PrefixEnds
<1> QED BY <1>2, <1>3, <1>4 DEF BothEnd

(* What is published of two readings that agree is the same.               *)
LEMMA FinishSame ==
  ASSUME NEW file, NEW cwd, NEW f, IsState(f), NEW d, Agrees(d, f, file.fallback[file.form]),
         f.id = Unset => file.trailing = Unset, NEW ds, NEW docs,
         NEW one, one = FinishProjection(file, cwd, Reading(d, ds)),
         NEW all, all = FinishProjection(file, cwd, Reading(f, docs))
  PROVE  /\ one.outcome = all.outcome /\ one.session = all.session
         /\ one.checkpoint = all.checkpoint /\ one.docs = ds /\ all.docs = docs
<1>1. /\ Checkpoint(file, d) = Checkpoint(file, f) /\ Segment(file, d) = Segment(file, f)
      /\ d.next = f.next /\ d.filtered = f.filtered /\ d.first = f.first /\ d.latest = f.latest
      /\ d.compact = f.compact /\ d.reasoning = f.reasoning /\ d.cwd = f.cwd
      /\ d.model = f.model /\ d.started = f.started /\ d.ended = f.ended
  BY AgreeingNames DEF StateFields
<1>2. /\ Reading(d, ds).state = d /\ Reading(d, ds).docs = ds /\ Reading(d, ds).refused = FALSE
      /\ Reading(f, docs).state = f /\ Reading(f, docs).docs = docs
      /\ Reading(f, docs).refused = FALSE
  BY ReadingFields
<1>3. one.docs = ds /\ all.docs = docs BY <1>2 DEF FinishProjection
<1>4. one.checkpoint = all.checkpoint BY <1>1, <1>2 DEF FinishProjection
<1>5. one.outcome = all.outcome BY <1>1, <1>2 DEF FinishProjection
<1>6. one.session = all.session BY <1>1, <1>2 DEF FinishProjection
<1> QED BY <1>3, <1>4, <1>5, <1>6

LEMMA GivenUp ==
  ASSUME NEW file, NEW cwd, NEW read, GaveUp(read)
  PROVE  FinishProjection(file, cwd, read).outcome = "full_required"
BY DEF FinishProjection, GaveUp

(* A delta that is not refused gives what a full reading gives.            *)
SameAsFull(before, delta, full) ==
  /\ delta.outcome = full.outcome /\ delta.session = full.session
  /\ delta.checkpoint = full.checkpoint
  /\ before.docs \o delta.docs = full.docs

LEMMA DeltaIsFull ==
  ASSUME NEW file, file.uuid = Unset => file.trailing = Unset,
         NEW D, NEW said \in Seq(D), NEW k \in 1..Len(said),
         NEW before, before = ProjectFull(file, Until(said, k)),
         NEW full, full = ProjectFull(file, said),
         NEW delta, delta = ProjectDelta(file, said, k, before.checkpoint),
         delta.outcome # "full_required"
  PROVE  SameAsFull(before, delta, full)
<1> DEFINE n == Len(said)
           first == Until(said, k)
           x == file.fallback[file.form]
           readings == FullReads(file, said)
           adds == ProcessEach(before.checkpoint, said, k, TRUE)
<1>1. n \in Nat /\ Len(said) = n /\ k \in 0..n OBVIOUS
<1>2. PICK f0, docs, f, all : BothEnd(file, said, k, f0, docs, f, all)
  BY BothEnds
<1>3. Ends(file, first, f0, docs) /\ Ends(file, said, f, all) /\ readings[k] = Reading(f0, docs)
  BY <1>2 DEF BothEnd
<1>4. IsState(f0) /\ IsList(docs) /\ before = FinishProjection(file, InventoryCwd(first), Reading(f0, docs))
  BY <1>3 DEF Ends
<1>5. /\ readings[n] = Reading(f, all) /\ IsState(f) /\ (f.id = Unset => file.uuid = Unset)
      /\ full = FinishProjection(file, InventoryCwd(said), Reading(f, all))
  BY <1>3 DEF Ends
<1> HIDE DEF n, first
<1>7. before.checkpoint = Checkpoint(file, f0) /\ before.docs = docs
  <2>1. Reading(f0, docs).state = f0 /\ Reading(f0, docs).docs = docs BY ReadingFields
  <2> QED BY <1>4, <2>1 DEF FinishProjection
<1>8. Agrees(before.checkpoint, f0, x) BY <1>4, <1>7, CheckpointAgrees
<1>9. Continues(adds[n], readings[n], docs, x)
  BY <1>1, <1>4, <1>3, <1>8, DeltaReading
<1>10. file.form # "zst" /\ delta = FinishProjection(file, InventoryCwd(said), adds[n])
  <2>1. CASE file.form = "zst"
    <3>1. delta.outcome = "full_required" BY <2>1 DEF ProjectDelta, FinishProjection
    <3> QED BY <3>1
  <2>2. CASE file.form # "zst"
    BY <2>2 DEF ProjectDelta, ReadFrom, n
  <2> QED BY <2>1, <2>2
<1> HIDE DEF adds, readings
<1>11. PICK d, f1, ds : /\ adds[n] = Reading(d, ds) /\ readings[n] = Reading(f1, docs \o ds)
                        /\ Agrees(d, f1, x)
  BY <1>9, <1>10, GivenUp DEF Continues
<1>12. f1 = f /\ all = docs \o ds
  <2>1. Reading(f1, docs \o ds) = Reading(f, all) BY <1>5, <1>11
  <2>2. \A c : Reading(f1, c).state = f1 /\ Reading(f1, c).docs = c BY ReadingFields
  <2>3. Reading(f, all).state = f /\ Reading(f, all).docs = all BY ReadingFields
  <2> QED BY <2>1, <2>2, <2>3
<1>13. /\ delta = FinishProjection(file, InventoryCwd(said), Reading(d, ds)) /\ Agrees(d, f, x)
       /\ f.id = Unset => file.trailing = Unset
  BY <1>5, <1>10, <1>11, <1>12
<1> HIDE DEF x
<1>14. /\ delta.outcome = full.outcome /\ delta.session = full.session
       /\ delta.checkpoint = full.checkpoint /\ delta.docs = ds /\ full.docs = all
  BY <1>5, <1>13, FinishSame DEF x
<1> QED BY <1>7, <1>12, <1>14 DEF SameAsFull

-----------------------------------------------------------------------------
(* The name of a session.                                                  *)

LEMMA ApplyInDelta ==
  ASSUME NEW s, IsState(s), s.id # Unset, NEW r, NEW t, t = Apply(s, r, TRUE)
  PROVE  /\ IsState(t) /\ t.id = s.id /\ (s.segment => t.segment)
         /\ t.segment => s.segment \/ (r.kind = "meta" /\ r.segment)
<1> DEFINE Kept(u) ==
      /\ IsState(u) /\ u.id = s.id /\ (s.segment => u.segment)
      /\ u.segment => s.segment \/ (r.kind = "meta" /\ r.segment)
<1>1. \A u : SetKeeps(s, u) => Kept(u) BY DEF SetKeeps
<1>2. CASE r.kind = "meta"
  <2> DEFINE m == Meta(s, r, TRUE)
  <2>1. IsState(m) BY MetaKeeps
  <2>2. m.id = s.id BY DEF Meta, IsState, StateFields
  <2>3. m.segment = (s.segment \/ r.segment) BY DEF Meta, IsState, StateFields
  <2>4. t = m BY <1>2 DEF Apply
  <2> HIDE DEF m
  <2> QED BY <1>2, <2>1, <2>2, <2>3, <2>4
<1>3. CASE r.kind # "meta"
  <2>1. SetKeeps(s, Context(s, r)) BY ContextKeeps DEF SetKeeps
  <2>2. Kept(Observe(s, r)) BY ObserveKeeps
  <2> HIDE DEF Kept
  <2>3. /\ Kept([s EXCEPT !.mirror = NoMirror, !.turn = Unset])
        /\ Kept([s EXCEPT !.mirror = NoMirror, !.compact = PushUnique(s.compact, r.text)])
        /\ Kept([s EXCEPT !.reasoning = PushAll(s.reasoning, r.texts)])
        /\ Kept([s EXCEPT !.filtered = s.filtered + 1])
        /\ Kept([s EXCEPT !.mirror = NoMirror])
    BY <1>1, OthersKeep
  <2>4. Kept(s) /\ Kept(Context(s, r)) BY <1>1, <2>1 DEF SetKeeps
  <2>5. Kept(Follow(s, r)) BY <2>2, <2>3, <2>4 DEF Follow
  <2>6. t = Follow(s, r) BY <1>3 DEF Apply
  <2> QED BY <2>5, <2>6 DEF Kept
<1> QED BY <1>2, <1>3

DeclaredSince(said, k, i) == \E j \in k+1..i : said[j].kind = "meta" /\ said[j].segment

KeptName(read, c, said, k, i) ==
  \/ GaveUp(read)
  \/ \E d, ds : /\ read = Reading(d, ds) /\ IsState(d) /\ d.id = c.id
                /\ c.segment => d.segment
                /\ d.segment => c.segment \/ DeclaredSince(said, k, i)

(* A delta never renames what it continues.                                *)
LEMMA NamedReading ==
  ASSUME NEW said, NEW n \in Nat, Len(said) = n, NEW k \in 0..n, NEW c, IsState(c), c.id # Unset,
         NEW delta, delta = ProcessEach(c, said, k, TRUE)
  PROVE  KeptName(delta[n], c, said, k, n)
<1>1. delta[k] = Reading(c, <<>>) /\ Follows(delta, said, k, TRUE, n)
  <2>1. k \in Nat /\ n >= k OBVIOUS
  <2> QED BY <2>1, ReadsStep, Zenon
<1>2. KeptName(delta[k], c, said, k, k) BY <1>1 DEF KeptName
<1>3. ASSUME NEW i \in k..n, i < n, KeptName(delta[i], c, said, k, i)
      PROVE  KeptName(delta[i + 1], c, said, k, i + 1)
  <2> DEFINE r == said[i + 1]
  <2>1. delta[i + 1] = Process(delta[i], r, i + 1, TRUE) BY <1>1, <1>3 DEF Follows
  <2>2. DeclaredSince(said, k, i) => DeclaredSince(said, k, i + 1) BY DEF DeclaredSince
  <2>3. r.kind = "meta" /\ r.segment => DeclaredSince(said, k, i + 1) BY DEF DeclaredSince
  <2> HIDE DEF r
  <2>4. CASE GaveUp(delta[i])
    <3>1. GaveUp(delta[i + 1]) BY <2>1, <2>4, RefusedStays
    <3> QED BY <3>1 DEF KeptName
  <2>5. CASE ~GaveUp(delta[i])
    <3>1. PICK d, ds : /\ delta[i] = Reading(d, ds) /\ IsState(d) /\ d.id = c.id
                       /\ c.segment => d.segment
                       /\ d.segment => c.segment \/ DeclaredSince(said, k, i)
      BY <1>3, <2>5 DEF KeptName
    <3>2. delta[i + 1] = Process(Reading(d, ds), r, i + 1, TRUE) BY <2>1, <3>1
    <3>3. CASE Refuses(d, r, TRUE)
      <4>1. GaveUp(delta[i + 1]) BY <3>2, <3>3, ProcessRecord
      <4> QED BY <4>1 DEF KeptName
    <3>4. CASE ~Refuses(d, r, TRUE)
      <4> DEFINE t == Apply(d, r, TRUE)
                 docs == DocsAfter(d, r, i + 1, ds)
      <4>1. delta[i + 1] = Reading(t, docs) BY <3>2, <3>4, ProcessRecord
      <4>2. /\ IsState(t) /\ t.id = d.id /\ (d.segment => t.segment)
            /\ t.segment => d.segment \/ (r.kind = "meta" /\ r.segment)
        BY <3>1, ApplyInDelta
      <4> HIDE DEF t, docs
      <4>3. /\ IsState(t) /\ t.id = c.id /\ (c.segment => t.segment)
            /\ t.segment => c.segment \/ DeclaredSince(said, k, i + 1)
        BY <2>2, <2>3, <3>1, <4>2
      <4> QED BY <4>1, <4>3 DEF KeptName
    <3> QED BY <3>3, <3>4
  <2> QED BY <2>4, <2>5
<1> DEFINE S == {i \in k..n : KeptName(delta[i], c, said, k, i)}
<1>4. k \in S
  <2>1. k \in k..n OBVIOUS
  <2> QED BY <1>2, <2>1
<1>5. \A i \in S : i < n => i + 1 \in S
  <2> SUFFICES ASSUME NEW i \in S, i < n PROVE i + 1 \in S OBVIOUS
  <2>1. i \in k..n /\ KeptName(delta[i], c, said, k, i) OBVIOUS
  <2>2. i + 1 \in k..n BY <2>1
  <2> QED BY <1>3, <2>1, <2>2
<1>6. S \subseteq k..n OBVIOUS
<1>7. n \in k..n /\ k <= n /\ k \in Nat OBVIOUS
<1> HIDE DEF S
<1>8. n \in S BY <1>4, <1>5, <1>6, <1>7, UpTo
<1> QED BY <1>8 DEF S

SessionId(file, s, kept) == IF Segment(file, s) # Unset THEN Segment(file, s) ELSE kept.id

LEMMA FinishFields ==
  ASSUME NEW file, NEW cwd, NEW s, NEW docs, NEW done,
         done = FinishProjection(file, cwd, Reading(s, docs))
  PROVE  /\ done.checkpoint = Checkpoint(file, s) /\ done.docs = docs
         /\ done.session.id = SessionId(file, s, Checkpoint(file, s))
         /\ done.outcome = "projected" => s.next > 0
<1>1. /\ Reading(s, docs).state = s /\ Reading(s, docs).docs = docs
      /\ Reading(s, docs).refused = FALSE
  BY ReadingFields
<1>2. done.checkpoint = Checkpoint(file, s) /\ done.docs = docs BY <1>1 DEF FinishProjection
<1>3. done.session.id = SessionId(file, s, Checkpoint(file, s))
  BY <1>1 DEF FinishProjection, SessionId
<1>4. done.outcome = "projected" => s.next > 0 BY <1>1 DEF FinishProjection
<1> QED BY <1>2, <1>3, <1>4

LEMMA NamedIsState == ASSUME NEW s, IsState(s), NEW x PROVE IsState(Named(s, x))
BY DEF IsState, StateFields, Named

LEMMA GrownKeepsName ==
  ASSUME NEW file, file.uuid = Unset => file.trailing = Unset, file.fallback[file.form] # Unset,
         NEW D, NEW said \in Seq(D), NEW k \in 1..Len(said),
         NEW before, before = ProjectFull(file, Until(said, k)), before.outcome = "projected",
         NEW delta, delta = ProjectDelta(file, said, k, before.checkpoint),
         delta.outcome = "projected"
  PROVE  \/ delta.session.id = before.session.id
         \/ DeclaredLate(file, said, k, before.checkpoint)
<1> DEFINE n == Len(said)
           x == file.fallback[file.form]
           c == before.checkpoint
           adds == ProcessEach(c, said, k, TRUE)
<1>1. n \in Nat /\ Len(said) = n /\ k \in 0..n OBVIOUS
<1>2. Until(said, k) \in Seq(D) BY SubSeqProperties DEF Until
<1>3. PICK s, docs : Ends(file, Until(said, k), s, docs) BY <1>2, FullResult
<1>4. /\ IsState(s) /\ (s.id = Unset => file.uuid = Unset)
      /\ before = FinishProjection(file, InventoryCwd(Until(said, k)), Reading(s, docs))
  BY <1>3 DEF Ends
<1>5. /\ c = Checkpoint(file, s) /\ s.next > 0
      /\ before.session.id = SessionId(file, s, Checkpoint(file, s))
  BY <1>4, FinishFields
<1>6. /\ IsState(c) /\ c.id # Unset /\ c.segment = s.segment
      /\ s.id # Unset => c = s
      /\ s.id = Unset => file.trailing = Unset
  <2>1. CASE s.id = Unset
    <3>1. c = Named(s, x) BY <1>5, <2>1 DEF Checkpoint, Named
    <3> QED BY <1>4, <2>1, <3>1, NamedIsState, NamedKeeps
  <2>2. CASE s.id # Unset
    <3>1. c = Named(s, s.id) BY <1>5, <2>2 DEF Checkpoint, Named
    <3>2. c = s BY <1>4, <3>1, NamedByItself
    <3> QED BY <1>4, <2>2, <3>2
  <2> QED BY <2>1, <2>2
<1>7. file.form # "zst" /\ delta = FinishProjection(file, InventoryCwd(said), adds[n])
  <2>1. CASE file.form = "zst"
    <3>1. delta.outcome = "full_required" BY <2>1 DEF ProjectDelta, FinishProjection
    <3> QED BY <3>1
  <2>2. CASE file.form # "zst" BY <2>2 DEF ProjectDelta, ReadFrom
  <2> QED BY <2>1, <2>2
<1> HIDE DEF c, n
<1>8. KeptName(adds[n], c, said, k, n) BY <1>1, <1>6, NamedReading
<1> HIDE DEF adds
<1>9. PICK d, ds : /\ adds[n] = Reading(d, ds) /\ IsState(d) /\ d.id = c.id
                   /\ c.segment => d.segment
                   /\ d.segment => c.segment \/ DeclaredSince(said, k, n)
  <2>1. GaveUp(adds[n]) => delta.outcome = "full_required" BY <1>7, GivenUp
  <2> QED BY <1>8, <2>1 DEF KeptName
<1>10. delta.session.id = SessionId(file, d, Checkpoint(file, d))
  BY <1>7, <1>9, FinishFields
<1>11. Checkpoint(file, d).id = c.id
  <2>1. Checkpoint(file, d) = Named(d, d.id) BY <1>6, <1>9 DEF Checkpoint, Named
  <2> QED BY <1>9, <2>1, NamedKeeps
<1>12. CASE file.trailing \notin {Unset, c.id}
  <2>1. s.id = c.id BY <1>6, <1>12
  <2>2. Segment(file, d) = file.trailing /\ Segment(file, s) = file.trailing
    BY <1>9, <1>12, <2>1 DEF Segment
  <2> QED BY <1>5, <1>10, <1>12, <2>2 DEF SessionId
<1>13. CASE file.trailing \in {Unset, c.id}
  <2>1. file.trailing \in {Unset, s.id} BY <1>6, <1>13
  <2>2. CASE DeclaredSince(said, k, n) /\ ~c.segment
    BY <1>13, <2>2 DEF DeclaredLate, DeclaredSince, c, n
  <2>3. CASE ~(DeclaredSince(said, k, n) /\ ~c.segment)
    <3>1. d.segment <=> s.segment BY <1>6, <1>9, <2>3
    <3>2. Segment(file, d) = Segment(file, s) BY <1>9, <1>13, <2>1, <3>1 DEF Segment
    <3> QED BY <1>5, <1>10, <1>11, <3>2 DEF SessionId
  <2> QED BY <2>2, <2>3
<1> QED BY <1>12, <1>13

LEMMA TwinKeepsName ==
  ASSUME NEW file, {"uuid", "trailing", "stem", "fallback", "form"} \subseteq DOMAIN file,
         NEW D, NEW said \in Seq(D),
         NEW full, full = ProjectFull(file, said),
         NEW twin, twin = ProjectFull(Twin(file), said),
         full.checkpoint.id # file.fallback[file.form]
  PROVE  twin.session = full.session /\ twin.docs = full.docs
<1>1. /\ Twin(file).uuid = file.uuid /\ Twin(file).trailing = file.trailing
      /\ Twin(file).stem = file.stem
  BY DEF Twin
<1>2. Fresh(Twin(file)) = Fresh(file) BY <1>1 DEF Fresh
<1>3. PICK s, docs : Ends(file, said, s, docs) BY FullResult
<1>4. /\ IsState(s) /\ full = FinishProjection(file, InventoryCwd(said), Reading(s, docs))
      /\ FullReads(file, said)[Len(said)] = Reading(s, docs)
  BY <1>3 DEF Ends
<1>5. twin = FinishProjection(Twin(file), InventoryCwd(said), Reading(s, docs))
  BY <1>2, <1>4 DEF ProjectFull, ReadFrom, FullReads
<1>6. ~(s.id = Unset /\ s.next > 0)
  <2> SUFFICES ASSUME s.id = Unset, s.next > 0 PROVE FALSE OBVIOUS
  <2>1. Checkpoint(file, s) = Named(s, file.fallback[file.form]) BY DEF Checkpoint, Named
  <2>2. Checkpoint(file, s).id = file.fallback[file.form] BY <1>4, <2>1, NamedKeeps
  <2> QED BY <1>4, <2>2, FinishFields
<1>7. Checkpoint(Twin(file), s) = Checkpoint(file, s) BY <1>6 DEF Checkpoint
<1>8. Segment(Twin(file), s) = Segment(file, s) BY <1>1 DEF Segment
<1>9. Reading(s, docs).state = s /\ Reading(s, docs).docs = docs BY ReadingFields
<1>10. twin.docs = full.docs BY <1>4, <1>5, <1>9 DEF FinishProjection
<1>11. twin.session = full.session BY <1>4, <1>5, <1>7, <1>8, <1>9 DEF FinishProjection
<1> QED BY <1>10, <1>11

-----------------------------------------------------------------------------
(* Mirrors.                                                                *)

TurnAfter(turn, r) ==
  IF r.kind = "boundary" THEN Unset
  ELSE IF r.kind = "context" /\ r.turn # Unset THEN r.turn ELSE turn

LEMMA TurnFirst == ASSUME NEW said PROVE TurnBefore(said, 1) = Unset
<1>1. 1..(1-1) = {} OBVIOUS
<1> QED BY <1>1 DEF TurnBefore

LEMMA TurnStep ==
  ASSUME NEW said, NEW i \in Nat
  PROVE  TurnBefore(said, i + 2) = TurnAfter(TurnBefore(said, i + 1), said[i + 1])
<1> DEFINE Ended(k) == {j \in 1..k-1 : said[j].kind = "boundary"}
           NamedBy(k) == {j \in 1..k-1 : /\ said[j].kind = "context" /\ said[j].turn # Unset
                                         /\ \A e \in Ended(k) : e < j}
           Newest(S) == CHOOSE j \in S : \A l \in S : l <= j
           r == said[i + 1]
<1>1. \A k : TurnBefore(said, k) = IF NamedBy(k) = {} THEN Unset ELSE said[Newest(NamedBy(k))].turn
  BY DEF TurnBefore
<1>2. 1..(i + 2) - 1 = (1..(i + 1) - 1) \cup {i + 1} /\ \A j \in 1..(i + 1) - 1 : j < i + 1
  OBVIOUS
<1>3. CASE r.kind = "boundary"
  <2>1. i + 1 \in Ended(i + 2) BY <1>2, <1>3
  <2>2. NamedBy(i + 2) = {}
    <3> SUFFICES ASSUME NEW j \in NamedBy(i + 2) PROVE FALSE OBVIOUS
    <3>1. j \in 1..(i + 2) - 1 /\ i + 1 < j BY <2>1
    <3> QED BY <3>1
  <2> HIDE DEF NamedBy
  <2> QED BY <1>1, <1>3, <2>2 DEF TurnAfter
<1>4. CASE r.kind = "context" /\ r.turn # Unset
  <2>1. \A e \in Ended(i + 2) : e < i + 1 BY <1>2, <1>4
  <2>2. i + 1 \in NamedBy(i + 2) BY <1>2, <1>4, <2>1
  <2>3. \A l \in NamedBy(i + 2) : l <= i + 1 /\ l \in Int BY <1>2
  <2> HIDE DEF NamedBy
  <2>4. Newest(NamedBy(i + 2)) = i + 1 BY <2>2, <2>3
  <2> QED BY <1>1, <1>4, <2>2, <2>4 DEF TurnAfter
<1>5. CASE r.kind # "boundary" /\ ~(r.kind = "context" /\ r.turn # Unset)
  <2>1. Ended(i + 2) = Ended(i + 1) BY <1>2, <1>5
  <2>2. NamedBy(i + 2) = NamedBy(i + 1) BY <1>2, <1>5, <2>1
  <2> HIDE DEF NamedBy
  <2> QED BY <1>1, <1>5, <2>2 DEF TurnAfter
<1> QED BY <1>3, <1>4, <1>5

MirrorOf(m) == [role |-> m.role, text |-> m.text, origin |-> m.origin]

Forgets(s, r) ==
  \/ r.kind \in {"boundary", "compacted"}
  \/ r.kind = "context" /\ r.turn # Unset /\ s.turn \notin {Unset, r.turn}
  \/ r.kind = "message" /\ ~Shown(s, r)

LEMMA ObserveMirror ==
  ASSUME NEW s, IsState(s), NEW m
  PROVE  Observe(s, m).turn = s.turn /\ Observe(s, m).mirror = MirrorOf(m)
BY DEF Observe, IsState, StateFields, MirrorOf

LEMMA ApplyMirror ==
  ASSUME NEW s, IsState(s), NEW r, NEW t, t = Apply(s, r, FALSE)
  PROVE  /\ t.turn = TurnAfter(s.turn, r)
         /\ t.mirror = IF Forgets(s, r) THEN NoMirror
                       ELSE IF Shown(s, r) THEN MirrorOf(r) ELSE s.mirror
<1> DEFINE u == PushUnique(s.compact, r.text)
           w == PushAll(s.reasoning, r.texts)
           n == s.filtered + 1
<1>0. r.kind # "meta" => t = Follow(s, r) BY DEF Apply
<1>1. CASE r.kind = "meta"
  <2>1. t = Meta(s, r, FALSE) BY <1>1 DEF Apply
  <2>2. Meta(s, r, FALSE).turn = s.turn /\ Meta(s, r, FALSE).mirror = s.mirror
    BY DEF Meta, IsState, StateFields
  <2> QED BY <1>1, <2>1, <2>2 DEF TurnAfter, Forgets, Shown
<1>2. CASE r.kind = "context"
  <2>1. t = Context(s, r) BY <1>0, <1>2, FollowKind
  <2>2. /\ Context(s, r).turn = IF r.turn # Unset THEN r.turn ELSE s.turn
        /\ Context(s, r).mirror =
             IF r.turn # Unset /\ s.turn \notin {Unset, r.turn} THEN NoMirror ELSE s.mirror
    BY DEF Context, IsState, StateFields
  <2> QED BY <1>2, <2>1, <2>2 DEF TurnAfter, Forgets, Shown
<1>3. CASE r.kind = "boundary"
  <2>1. t = [s EXCEPT !.mirror = NoMirror, !.turn = Unset] BY <1>0, <1>3, FollowKind
  <2>2. t.mirror = NoMirror /\ t.turn = Unset BY <2>1 DEF IsState, StateFields
  <2> QED BY <1>3, <2>2 DEF TurnAfter, Forgets
<1>4. CASE r.kind = "compacted"
  <2>1. t = [s EXCEPT !.mirror = NoMirror, !.compact = u] BY <1>0, <1>4, FollowKind, Zenon
  <2> HIDE DEF u
  <2>2. t.mirror = NoMirror /\ t.turn = s.turn BY <2>1 DEF IsState, StateFields
  <2> QED BY <1>4, <2>2 DEF TurnAfter, Forgets
<1>5. CASE r.kind = "reasoning"
  <2>1. t = [s EXCEPT !.reasoning = w] BY <1>0, <1>5, FollowKind, Zenon
  <2> HIDE DEF w
  <2>2. t.mirror = s.mirror /\ t.turn = s.turn BY <2>1 DEF IsState, StateFields
  <2> QED BY <1>5, <2>2 DEF TurnAfter, Forgets, Shown
<1>6. CASE r.kind = "filtered"
  <2>1. t = [s EXCEPT !.filtered = n] BY <1>0, <1>6, FollowKind
  <2> HIDE DEF n
  <2>2. t.mirror = s.mirror /\ t.turn = s.turn BY <2>1 DEF IsState, StateFields
  <2> QED BY <1>6, <2>2 DEF TurnAfter, Forgets, Shown
<1>7. CASE r.kind = "message" /\ Shown(s, r)
  <2>1. t = Observe(s, r) BY <1>0, <1>7, FollowKind
  <2> QED BY <1>7, <2>1, ObserveMirror DEF TurnAfter, Forgets
<1>8. CASE r.kind = "message" /\ ~Shown(s, r)
  <2>1. t = [s EXCEPT !.mirror = NoMirror] BY <1>0, <1>8, FollowKind
  <2>2. t.mirror = NoMirror /\ t.turn = s.turn BY <2>1 DEF IsState, StateFields
  <2> QED BY <1>8, <2>2 DEF TurnAfter, Forgets
<1>9. CASE r.kind \notin {"meta", "context", "boundary", "compacted", "reasoning", "filtered", "message"}
  <2>1. t = s BY <1>0, <1>9, FollowKind
  <2> QED BY <1>9, <2>1 DEF TurnAfter, Forgets, Shown
<1> QED BY <1>1, <1>2, <1>3, <1>4, <1>5, <1>6, <1>7, <1>8, <1>9

LEMMA RoleIsSet == Unset \notin Roles
BY Zenon DEF Unset, Roles

ShownIn(docs) == {docs[q].at : q \in DOMAIN docs}

LEMMA ShownAppend ==
  ASSUME NEW docs, IsList(docs), NEW d
  PROVE  ShownIn(Append(docs, d)) = ShownIn(docs) \cup {d.at}
<1>1. PICK D : docs \in Seq(D) BY DEF IsList
<1> DEFINE n == Len(docs)
<1>2. n \in Nat /\ DOMAIN docs = 1..n BY <1>1
<1>3. docs \in Seq(D \cup {d}) BY <1>1, SeqMonotonic
<1>4. /\ DOMAIN Append(docs, d) = 1..n+1 /\ Append(docs, d)[n + 1] = d
      /\ \A q \in 1..n : Append(docs, d)[q] = docs[q]
  BY <1>3
<1> HIDE DEF n
<1>5. 1..n+1 = (1..n) \cup {n + 1} BY <1>2
<1> QED BY <1>2, <1>4, <1>5 DEF ShownIn

(* The message before position i + 1, and whether something parts it from  *)
(* what comes at i + 1.                                                    *)
Newest(said, m, i) ==
  /\ m \in 1..i /\ said[m].kind = "message"
  /\ \A k \in 1..i : said[k].kind = "message" => k <= m

Joined(said, m, i) == \A k \in m+1..i : ~Parts(said, k)

Judged(said, j, shown) ==
  j \in shown <=> \A q \in 1..j-1 : Newest(said, q, j-1) => ~SaidTwice(said, q, j) \/ q \notin shown

(* The mirror is the message before, if it is shown and joined.            *)
Remembers(mirror, said, i, shown) ==
  /\ \/ mirror = NoMirror
     \/ \E m \in shown : Newest(said, m, i) /\ Joined(said, m, i) /\ mirror = MirrorOf(said[m])
  /\ \A m \in shown : Newest(said, m, i) /\ Joined(said, m, i) => mirror = MirrorOf(said[m])

ShownAfter(s, r, i, shown) == IF Shown(s, r) THEN shown \cup {i + 1} ELSE shown

LEMMA MirrorsPairs ==
  ASSUME NEW said, NEW i \in Nat, NEW shown, shown \subseteq 1..i, NEW s,
         Remembers(s.mirror, said, i, shown), NEW r, r = said[i + 1], r.role # Unset
  PROVE  Mirrors(s, r) <=> \E m \in shown : Newest(said, m, i) /\ SaidTwice(said, m, i + 1)
<1>1. \A m : /\ MirrorOf(said[m]).role = said[m].role /\ MirrorOf(said[m]).text = said[m].text
             /\ MirrorOf(said[m]).origin = said[m].origin
  BY DEF MirrorOf
<1>2. NoMirror.role = Unset BY DEF NoMirror
<1>3. \A m \in 1..i : SaidTwice(said, m, i + 1) <=>
        /\ said[m].role = r.role /\ said[m].text = r.text /\ said[m].origin # r.origin
        /\ Joined(said, m, i)
  <2>1. (i + 1) - 1 = i OBVIOUS
  <2> QED BY <2>1 DEF SaidTwice, Joined
<1>4. ASSUME Mirrors(s, r)
      PROVE  \E m \in shown : Newest(said, m, i) /\ SaidTwice(said, m, i + 1)
  <2>1. s.mirror # NoMirror BY <1>2, <1>4 DEF Mirrors
  <2>2. PICK m \in shown : Newest(said, m, i) /\ Joined(said, m, i) /\ s.mirror = MirrorOf(said[m])
    BY <2>1 DEF Remembers
  <2> QED BY <1>1, <1>3, <1>4, <2>2 DEF Mirrors
<1>5. ASSUME NEW m \in shown, Newest(said, m, i), SaidTwice(said, m, i + 1)
      PROVE  Mirrors(s, r)
  <2>1. Joined(said, m, i) BY <1>3, <1>5
  <2>2. s.mirror = MirrorOf(said[m]) BY <1>5, <2>1 DEF Remembers
  <2> QED BY <1>1, <1>3, <1>5, <2>2 DEF Mirrors
<1> QED BY <1>4, <1>5

LEMMA RememberStep ==
  ASSUME NEW said, NEW i \in Nat, NEW shown, shown \subseteq 1..i, NEW s, IsState(s),
         s.turn = TurnBefore(said, i + 1), Remembers(s.mirror, said, i, shown),
         NEW r, r = said[i + 1], NEW t, t = Apply(s, r, FALSE)
  PROVE  Remembers(t.mirror, said, i + 1, ShownAfter(s, r, i, shown))
<1> DEFINE after == ShownAfter(s, r, i, shown)
<1>1. t.mirror = IF Forgets(s, r) THEN NoMirror
                 ELSE IF Shown(s, r) THEN MirrorOf(r) ELSE s.mirror
  BY ApplyMirror
<1>2. CASE r.kind = "message"
  <2>1. Newest(said, i + 1, i + 1) /\ \A m : Newest(said, m, i + 1) => m = i + 1
    BY <1>2 DEF Newest
  <2>2. Joined(said, i + 1, i + 1) BY DEF Joined
  <2>3. CASE Shown(s, r)
    <3>1. t.mirror = MirrorOf(said[i + 1]) BY <1>1, <1>2, <2>3 DEF Forgets
    <3>2. i + 1 \in after BY <2>3 DEF ShownAfter
    <3> QED BY <2>1, <2>2, <3>1, <3>2 DEF Remembers
  <2>4. CASE ~Shown(s, r)
    <3>1. t.mirror = NoMirror BY <1>1, <1>2, <2>4 DEF Forgets
    <3>2. i + 1 \notin after BY <2>4 DEF ShownAfter
    <3> QED BY <2>1, <3>1, <3>2 DEF Remembers
  <2> QED BY <2>3, <2>4
<1>3. CASE r.kind # "message"
  <2>1. after = shown /\ ~Shown(s, r) BY <1>3 DEF ShownAfter, Shown
  <2>2. \A m \in shown : Newest(said, m, i + 1) <=> Newest(said, m, i)
    <3> SUFFICES ASSUME NEW m \in shown PROVE Newest(said, m, i + 1) <=> Newest(said, m, i)
      OBVIOUS
    <3>1. 1..i+1 = (1..i) \cup {i + 1} /\ m \in 1..i OBVIOUS
    <3> QED BY <1>3, <3>1 DEF Newest
  <2>3. Forgets(s, r) <=> Parts(said, i + 1) BY <1>3 DEF Forgets, Parts
  <2>4. \A m \in shown : Joined(said, m, i + 1) <=> Joined(said, m, i) /\ ~Parts(said, i + 1)
    <3> SUFFICES ASSUME NEW m \in shown
                 PROVE  Joined(said, m, i + 1) <=> Joined(said, m, i) /\ ~Parts(said, i + 1)
      OBVIOUS
    <3>1. m \in 1..i OBVIOUS
    <3>2. m+1..i+1 = (m+1..i) \cup {i + 1} BY <3>1
    <3> QED BY <3>2 DEF Joined
  <2> HIDE DEF after
  <2>5. CASE Forgets(s, r)
    <3>1. t.mirror = NoMirror BY <1>1, <2>5
    <3> QED BY <2>1, <2>3, <2>4, <2>5, <3>1 DEF Remembers, after
  <2>6. CASE ~Forgets(s, r)
    <3>1. t.mirror = s.mirror BY <1>1, <2>1, <2>6
    <3>2. \A m \in shown : /\ Newest(said, m, i + 1) <=> Newest(said, m, i)
                           /\ Joined(said, m, i + 1) <=> Joined(said, m, i)
      BY <2>2, <2>3, <2>4, <2>6
    <3>3. Remembers(s.mirror, said, i + 1, shown) BY <3>2 DEF Remembers
    <3> QED BY <2>1, <3>1, <3>3 DEF after
  <2> QED BY <2>5, <2>6
<1> QED BY <1>2, <1>3

LEMMA JudgeStep ==
  ASSUME NEW said, NEW i \in Nat, NEW shown, shown \subseteq 1..i, NEW s,
         Remembers(s.mirror, said, i, shown), NEW r, r = said[i + 1],
         r.kind = "message" => r.role # Unset,
         \A j \in 1..i : said[j].kind = "message" => Judged(said, j, shown),
         NEW after, after = ShownAfter(s, r, i, shown)
  PROVE  /\ after \subseteq 1..i+1
         /\ \A j \in 1..i+1 : said[j].kind = "message" => Judged(said, j, after)
<1>1. /\ after \subseteq 1..i+1 /\ \A j \in 1..i : j \in after <=> j \in shown
      /\ i + 1 \in after <=> Shown(s, r)
  BY DEF ShownAfter
<1>2. ASSUME NEW j \in 1..i, said[j].kind = "message" PROVE Judged(said, j, after)
  <2>1. \A q \in 1..j-1 : q \in 1..i BY <1>2
  <2>2. Judged(said, j, shown) BY <1>2
  <2> QED BY <1>1, <2>1, <2>2 DEF Judged
<1>3. ASSUME r.kind = "message" PROVE Judged(said, i + 1, after)
  <2>1. Shown(s, r) <=> ~Mirrors(s, r) BY <1>3 DEF Shown
  <2>2. Mirrors(s, r) <=> \E m \in shown : Newest(said, m, i) /\ SaidTwice(said, m, i + 1)
    BY <1>3, MirrorsPairs
  <2>3. (i + 1) - 1 = i OBVIOUS
  <2>4. \A q \in 1..i : q \in after <=> q \in shown BY <1>1
  <2> QED BY <1>1, <2>1, <2>2, <2>3, <2>4 DEF Judged
<1>4. 1..i+1 = (1..i) \cup {i + 1} OBVIOUS
<1> QED BY <1>1, <1>2, <1>3, <1>4

Paired(read, said, i) ==
  \E s, docs :
    /\ read = Reading(s, docs) /\ IsState(s) /\ IsList(docs)
    /\ s.turn = TurnBefore(said, i + 1)
    /\ ShownIn(docs) \subseteq 1..i
    /\ Remembers(s.mirror, said, i, ShownIn(docs))
    /\ \A j \in 1..i : said[j].kind = "message" => Judged(said, j, ShownIn(docs))

LEMMA PairedReading ==
  ASSUME NEW file, NEW said, NEW n \in Nat, Len(said) = n,
         \A j \in 1..n : said[j].kind = "message" => said[j].role # Unset
  PROVE  Paired(FullReads(file, said)[n], said, n)
<1> DEFINE full == FullReads(file, said)
<1>0. /\ full[0] = Reading(Fresh(file), <<>>)
      /\ Follows(full, said, 0, FALSE, n)
  BY FullStep
<1> HIDE DEF full
<1>1. Paired(full[0], said, 0)
  <2>1. IsState(Fresh(file)) BY FreshIsState
  <2>2. Fresh(file).turn = Unset /\ Fresh(file).mirror = NoMirror BY DEF Fresh
  <2>3. IsList(<<>>) /\ ShownIn(<<>>) = {} BY DEF IsList, ShownIn
  <2>4. Fresh(file).turn = TurnBefore(said, 0 + 1) BY <2>2, TurnFirst
  <2>5. Remembers(Fresh(file).mirror, said, 0, {}) BY <2>2 DEF Remembers
  <2>6. 1..0 = {} OBVIOUS
  <2> QED BY <1>0, <2>1, <2>3, <2>4, <2>5, <2>6 DEF Paired
<1>2. ASSUME NEW i \in 0..n, i < n, Paired(full[i], said, i)
      PROVE  Paired(full[i + 1], said, i + 1)
  <2>1. PICK s, docs :
          /\ full[i] = Reading(s, docs) /\ IsState(s) /\ IsList(docs)
          /\ s.turn = TurnBefore(said, i + 1)
          /\ ShownIn(docs) \subseteq 1..i
          /\ Remembers(s.mirror, said, i, ShownIn(docs))
          /\ \A j \in 1..i : said[j].kind = "message" => Judged(said, j, ShownIn(docs))
    BY <1>2 DEF Paired
  <2> DEFINE r == said[i + 1]
             t == Apply(s, r, FALSE)
             more == DocsAfter(s, r, i + 1, docs)
             shown == ShownIn(docs)
  <2>2. full[i + 1] = Process(full[i], r, i + 1, FALSE) BY <1>0, <1>2 DEF Follows
  <2>3. i \in Nat /\ i + 1 \in 1..n /\ (i + 1) + 1 = i + 2 BY <1>2
  <2>4. r.kind = "message" => r.role # Unset BY <2>3
  <2> HIDE DEF r
  <2>5. ~Refuses(s, r, FALSE) BY DEF Refuses
  <2>6. full[i + 1] = Reading(t, more) BY <2>1, <2>2, <2>5, ProcessRecord
  <2>7. IsState(t) BY <2>1, ApplyKeeps
  <2>8. IsList(more) BY <2>1, ListAppend DEF DocsAfter
  <2>9. t.turn = TurnBefore(said, (i + 1) + 1)
    <3>1. t.turn = TurnAfter(s.turn, r) BY <2>1, ApplyMirror
    <3> HIDE DEF t
    <3> QED BY <2>1, <2>3, <3>1, TurnStep DEF r
  <2>10. ShownIn(more) = ShownAfter(s, r, i, shown)
    <3>1. Document(s, r, i + 1).at = i + 1 BY DEF Document
    <3> QED BY <2>1, <3>1, ShownAppend DEF DocsAfter, ShownAfter
  <2> HIDE DEF more, shown, t
  <2>11. /\ r = said[i + 1] /\ t = Apply(s, r, FALSE) /\ shown \subseteq 1..i
         /\ Remembers(s.mirror, said, i, shown) /\ IsState(s) /\ s.turn = TurnBefore(said, i + 1)
         /\ \A j \in 1..i : said[j].kind = "message" => Judged(said, j, shown)
    BY <2>1 DEF r, t, shown
  <2>12. Remembers(t.mirror, said, i + 1, ShownIn(more))
    BY <2>3, <2>10, <2>11, RememberStep
  <2>13. /\ ShownIn(more) \subseteq 1..i+1
         /\ \A j \in 1..i+1 : said[j].kind = "message" => Judged(said, j, ShownIn(more))
    BY <2>3, <2>4, <2>10, <2>11, JudgeStep
  <2> QED BY <2>6, <2>7, <2>8, <2>9, <2>12, <2>13 DEF Paired
<1> DEFINE S == {i \in 0..n : Paired(full[i], said, i)}
<1>3. 0 \in S
  <2>1. 0 \in 0..n OBVIOUS
  <2> QED BY <1>1, <2>1
<1>4. \A i \in S : i < n => i + 1 \in S
  <2> SUFFICES ASSUME NEW i \in S, i < n PROVE i + 1 \in S OBVIOUS
  <2>1. i \in 0..n /\ Paired(full[i], said, i) OBVIOUS
  <2>2. i + 1 \in 0..n BY <2>1
  <2> QED BY <1>2, <2>1, <2>2
<1>5. S \subseteq 0..n OBVIOUS
<1>6. n \in 0..n /\ 0 <= n /\ 0 \in Nat OBVIOUS
<1> HIDE DEF S
<1>7. n \in S BY <1>3, <1>4, <1>5, <1>6, UpTo
<1> QED BY <1>7 DEF S, full

LEMMA PairsOnce ==
  ASSUME NEW file, NEW D, NEW said \in Seq(D),
         \A j \in 1..Len(said) : said[j].kind = "message" => said[j].role # Unset,
         NEW docs, docs = ProjectFull(file, said).docs,
         NEW j \in 1..Len(said), said[j].kind = "message"
  PROVE  Judged(said, j, ShownIn(docs))
<1> DEFINE n == Len(said)
<1>1. n \in Nat OBVIOUS
<1>2. Paired(FullReads(file, said)[n], said, n) BY <1>1, PairedReading
<1>3. PICK s, all : /\ FullReads(file, said)[n] = Reading(s, all)
                    /\ \A q \in 1..n : said[q].kind = "message" => Judged(said, q, ShownIn(all))
  BY <1>2 DEF Paired
<1>4. ProjectFull(file, said).docs = all
  <2>1. ProjectFull(file, said) = FinishProjection(file, InventoryCwd(said), Reading(s, all))
    BY <1>3 DEF ProjectFull, ReadFrom, FullReads
  <2> QED BY <2>1, FinishFields
<1> QED BY <1>3, <1>4

-----------------------------------------------------------------------------
(* The Codex adapter, for any rollouts.                                    *)

LEMMA AcceptedRollout ==
  ASSUME NEW raws \in SampleRollouts, NEW said, said = Accepted("codex", raws)
  PROVE  /\ \E D : said \in Seq(D)
         /\ DOMAIN said = 1..Len(said)
         /\ \A j \in 1..Len(said) : said[j].kind = "message" => said[j].role # Unset
<1> DEFINE D == {Accept("codex", raw) : raw \in ToSet(raws)}
<1>1. raws \in Seq(ToSet(raws)) BY AdapterSamples
<1>2. said = [i \in 1..Len(raws) |-> Accept("codex", raws[i])] /\ Len(raws) \in Nat
  BY <1>1 DEF Accepted
<1>3. \A i \in 1..Len(raws) : raws[i] \in ToSet(raws) BY <1>1
<1>4. \A i \in 1..Len(raws) : said[i] \in D BY <1>2, <1>3
<1>5. said \in Seq(D) /\ Len(said) = Len(raws)
  <2> HIDE DEF D
  <2> QED BY <1>2, <1>4
<1>6. ASSUME NEW j \in 1..Len(said), said[j].kind = "message" PROVE said[j].role # Unset
  <2>1. said[j] = Classify(raws[j]) BY <1>2, <1>5 DEF Accept
  <2>2. said[j].role \in Roles BY <1>6, <2>1, ClassifyKind
  <2> QED BY <2>2, RoleIsSet
<1> QED BY <1>2, <1>5, <1>6

LEMMA AskedRollout ==
  ASSUME QuestionInv, reader.command = "rollout"
  PROVE  reader.records \in SampleRollouts /\ reader.file \in SampleNames
BY DEF QuestionInv, Scoped, Asked, AdapterQuestions

(* DeltaIsFullReplay, for any rollouts and names.                          *)
THEOREM SpecDeltaIsFullReplay == LawsSpec => []DeltaIsFullReplay
<1>1. QuestionInv => DeltaIsFullReplay
  <2> SUFFICES ASSUME QuestionInv, reader.command = "rollout"
               PROVE  DeltaIsFullReplay
    BY DEF DeltaIsFullReplay
  <2> DEFINE file == reader.file
             said == Accepted("codex", reader.records)
             full == ProjectFull(file, said)
  <2>1. reader.records \in SampleRollouts /\ file \in SampleNames BY AskedRollout
  <2>2. file.uuid = Unset => file.trailing = Unset BY <2>1, AdapterSamples
  <2>3. PICK D : said \in Seq(D) BY <2>1, AcceptedRollout
  <2>4. DOMAIN said = 1..Len(said) BY <2>1, AcceptedRollout
  <2> HIDE DEF file, said
  <2>5. ASSUME NEW k \in 1..Len(said), NEW before, before = ProjectFull(file, Until(said, k)),
               NEW delta, delta = ProjectDelta(file, said, k, before.checkpoint),
               delta.outcome # "full_required"
        PROVE  SameAsFull(before, delta, full)
    <3>1. full = ProjectFull(file, said) OBVIOUS
    <3> HIDE DEF full
    <3> QED BY <2>2, <2>3, <2>5, <3>1, DeltaIsFull
  <2> QED BY <2>4, <2>5, Zenon DEF DeltaIsFullReplay, SameAsFull, Until, file, said
<1> QED BY <1>1, SpecQuestion, PTL

(* KeepsItsName, for any rollouts and names.                               *)
THEOREM SpecKeepsItsName == LawsSpec => []KeepsItsName
<1>1. QuestionInv => KeepsItsName
  <2> SUFFICES ASSUME QuestionInv, reader.command = "rollout"
               PROVE  KeepsItsName
    BY DEF KeepsItsName
  <2> DEFINE file == reader.file
             said == Accepted("codex", reader.records)
             full == ProjectFull(file, said)
             twin == ProjectFull(Twin(file), said)
  <2>1. reader.records \in SampleRollouts /\ file \in SampleNames BY AskedRollout
  <2>2. /\ file.uuid = Unset => file.trailing = Unset
        /\ file.fallback[file.form] # Unset
        /\ {"uuid", "trailing", "stem", "fallback", "form"} \subseteq DOMAIN file
    BY <2>1, AdapterSamples
  <2>3. PICK D : said \in Seq(D) BY <2>1, AcceptedRollout
  <2>4. DOMAIN said = 1..Len(said) BY <2>1, AcceptedRollout
  <2> HIDE DEF file, said
  <2>5. ASSUME NEW k \in 1..Len(said), NEW before, before = ProjectFull(file, Until(said, k)),
               NEW delta, delta = ProjectDelta(file, said, k, before.checkpoint),
               before.outcome = "projected", delta.outcome = "projected"
        PROVE  \/ delta.session.id = before.session.id
               \/ DeclaredLate(file, said, k, before.checkpoint)
    BY <2>2, <2>3, <2>5, GrownKeepsName
  <2>6. full.checkpoint.id # file.fallback[file.form]
          => twin.session = full.session /\ twin.docs = full.docs
    BY <2>2, <2>3, TwinKeepsName
  <2> QED BY <2>4, <2>5, <2>6, Zenon DEF KeepsItsName, Until, file, said
<1> QED BY <1>1, SpecQuestion, PTL

(* MirrorPairsOnce, for any rollouts.                                      *)
THEOREM SpecMirrorPairsOnce == LawsSpec => []MirrorPairsOnce
<1>1. QuestionInv => MirrorPairsOnce
  <2> SUFFICES ASSUME QuestionInv, reader.command = "rollout"
               PROVE  MirrorPairsOnce
    BY DEF MirrorPairsOnce
  <2> DEFINE said == Accepted("codex", reader.records)
             docs == ProjectFull(reader.file, said).docs
             shown == {docs[i].at : i \in DOMAIN docs}
             messages == {i \in DOMAIN said : said[i].kind = "message"}
             Previous(j) == {i \in messages : i < j /\ \A k \in messages : k <= i \/ k >= j}
  <2>1. reader.records \in SampleRollouts BY AskedRollout
  <2>2. PICK D : said \in Seq(D) BY <2>1, AcceptedRollout
  <2>3. /\ DOMAIN said = 1..Len(said)
        /\ \A j \in 1..Len(said) : said[j].kind = "message" => said[j].role # Unset
    BY <2>1, AcceptedRollout
  <2>4. shown = ShownIn(docs) BY DEF ShownIn
  <2> HIDE DEF said, docs
  <2>5. ASSUME NEW j \in messages
        PROVE  j \in shown <=> \A i \in Previous(j) : ~SaidTwice(said, i, j) \/ i \notin shown
    <3>1. j \in 1..Len(said) /\ said[j].kind = "message" /\ Len(said) \in Nat BY <2>2, <2>3
    <3>2. Judged(said, j, ShownIn(docs))
      BY <2>2, <2>3, <3>1, PairsOnce DEF docs
    <3>3. \A q : q \in Previous(j) <=> q \in 1..j-1 /\ Newest(said, q, j - 1)
      BY <2>3, <3>1 DEF Newest
    <3> HIDE DEF shown, Previous
    <3> QED BY <2>4, <3>2, <3>3 DEF Judged
  <2> QED BY <2>5, Zenon DEF MirrorPairsOnce, said, docs
<1> QED BY <1>1, SpecQuestion, PTL

-----------------------------------------------------------------------------
(* Sorting.  The elements of a finite set that a strict order tells apart  *)
(* have as many before them as their place says.                           *)

Keys(n) == {s \in Seq(Int) : Len(s) = n}

LEMMA KeyOrder ==
  ASSUME NEW n \in Nat, NEW a \in Keys(n), NEW b \in Keys(n)
  PROVE  /\ ~KeyLess(a, a)
         /\ ~(KeyLess(a, b) /\ KeyLess(b, a))
         /\ a # b => KeyLess(a, b) \/ KeyLess(b, a)
         /\ \A c \in Keys(n) : KeyLess(a, b) /\ KeyLess(b, c) => KeyLess(a, c)
<1>1. \A s \in Keys(n) : DOMAIN s = 1..n /\ \A i \in 1..n : s[i] \in Int BY DEF Keys
<1>2. ~KeyLess(a, a) BY <1>1 DEF KeyLess
<1>3. ASSUME NEW c \in Keys(n), KeyLess(a, b), KeyLess(b, c) PROVE KeyLess(a, c)
  <2>1. PICK i \in 1..n : a[i] < b[i] /\ \A j \in 1..(i - 1) : a[j] = b[j] BY <1>1, <1>3 DEF KeyLess
  <2>2. PICK k \in 1..n : b[k] < c[k] /\ \A j \in 1..(k - 1) : b[j] = c[j] BY <1>1, <1>3 DEF KeyLess
  <2>3. CASE i <= k
    <3>1. a[i] < c[i] /\ \A j \in 1..(i - 1) : a[j] = c[j] BY <1>1, <2>1, <2>2, <2>3
    <3> QED BY <1>1, <3>1 DEF KeyLess
  <2>4. CASE k < i
    <3>1. a[k] < c[k] /\ \A j \in 1..(k - 1) : a[j] = c[j] BY <1>1, <2>1, <2>2, <2>4
    <3> QED BY <1>1, <3>1 DEF KeyLess
  <2> QED BY <2>3, <2>4
<1>4. ASSUME a # b PROVE KeyLess(a, b) \/ KeyLess(b, a)
  <2> DEFINE T == {i \in 1..n : a[i] # b[i]}
  <2>1. T \subseteq Nat /\ T # {}
    <3>1. \E i \in 1..n : a[i] # b[i]
      <4>1. a = [i \in 1..n |-> a[i]] /\ b = [i \in 1..n |-> b[i]] BY DEF Keys
      <4> QED BY <1>4, <4>1
    <3> QED BY <3>1
  <2>2. PICK x \in T : \A y \in T : ~(<<y, x>> \in OpToRel(<, Nat))
    BY <2>1, WFMin, NatLessThanWellFounded
  <2>3. \A y \in T : ~(y < x) BY <2>1, <2>2 DEF OpToRel
  <2>4. x \in 1..n /\ a[x] # b[x] /\ \A j \in 1..(x - 1) : a[j] = b[j] BY <2>3
  <2> HIDE DEF T
  <2> QED BY <1>1, <2>4 DEF KeyLess
<1>5. ~(KeyLess(a, b) /\ KeyLess(b, a)) BY <1>2, <1>3
<1> QED BY <1>2, <1>3, <1>4, <1>5

(* A set of pairs of a key and what it is of, each key there once.         *)
Keyed(K, n) ==
  /\ IsFiniteSet(K)
  /\ \A k \in K : k[1] \in Keys(n)
  /\ \A j, k \in K : j[1] = k[1] => j = k

Lesser(K, k) == {j \in K : KeyLess(j[1], k[1])}

Place(K, k) == Cardinality(Lesser(K, k))

LEMMA Places ==
  ASSUME NEW n \in Nat, NEW K, Keyed(K, n)
  PROVE  /\ \A k \in K : Place(K, k) \in 0..(Cardinality(K) - 1)
         /\ \A j, k \in K : KeyLess(j[1], k[1]) <=> Place(K, j) < Place(K, k)
         /\ \A j, k \in K : Place(K, j) = Place(K, k) => j = k
         /\ \A m \in 1..Cardinality(K) : \E k \in K : Place(K, k) = m - 1
<1> DEFINE N == Cardinality(K)
<1>1. IsFiniteSet(K) /\ N \in Nat BY FS_CardinalityType DEF Keyed
<1>2. ASSUME NEW k \in K PROVE IsFiniteSet(Lesser(K, k)) /\ Place(K, k) \in Nat /\ Place(K, k) < N
  <2>1. Lesser(K, k) \subseteq K /\ k \notin Lesser(K, k) BY KeyOrder DEF Lesser, Keyed
  <2>2. IsFiniteSet(Lesser(K, k)) BY <1>1, <2>1, FS_Subset
  <2>3. Place(K, k) \in Nat /\ Place(K, k) <= N /\ Place(K, k) # N
    BY <1>1, <2>1, <2>2, FS_Subset, FS_CardinalityType DEF Place
  <2> QED BY <1>1, <2>2, <2>3
<1>3. ASSUME NEW j \in K, NEW k \in K, KeyLess(j[1], k[1]) PROVE Place(K, j) < Place(K, k)
  <2>1. Lesser(K, j) \subseteq Lesser(K, k) BY <1>3, KeyOrder DEF Lesser, Keyed
  <2>2. j \in Lesser(K, k) /\ j \notin Lesser(K, j) BY <1>3, KeyOrder DEF Lesser, Keyed
  <2>3. Place(K, j) <= Place(K, k) /\ Place(K, j) # Place(K, k)
    BY <1>2, <2>1, <2>2, FS_Subset DEF Place
  <2> QED BY <1>2, <2>3
<1>4. ASSUME NEW j \in K, NEW k \in K, j # k PROVE KeyLess(j[1], k[1]) \/ KeyLess(k[1], j[1])
  BY <1>4, KeyOrder DEF Keyed
<1>5. ASSUME NEW j \in K, NEW k \in K, Place(K, j) = Place(K, k) PROVE j = k
  BY <1>2, <1>3, <1>4, <1>5
<1>6. ASSUME NEW j \in K, NEW k \in K, Place(K, j) < Place(K, k) PROVE KeyLess(j[1], k[1])
  BY <1>2, <1>3, <1>4, <1>6
<1>7. ASSUME NEW m \in 1..N PROVE \E k \in K : Place(K, k) = m - 1
  <2> DEFINE f == [k \in K |-> Place(K, k)]
  <2>1. f \in [K -> 0..(N - 1)] BY <1>1, <1>2
  <2>2. f \in Injection(K, 0..(N - 1)) BY <1>5, <2>1 DEF Injection, IsInjective
  <2>3. IsFiniteSet(0..(N - 1)) /\ Cardinality(0..(N - 1)) = N
    <3>1. 0 \in Int /\ N - 1 \in Int BY <1>1
    <3> HIDE DEF N
    <3>2. /\ IsFiniteSet(0..(N - 1))
          /\ Cardinality(0..(N - 1)) = IF 0 > N - 1 THEN 0 ELSE (N - 1) - 0 + 1
      BY <3>1, FS_Interval
    <3> QED BY <1>1, <3>2 DEF N
  <2> HIDE DEF f
  <2>4. f \in Surjection(K, 0..(N - 1)) BY <2>2, <2>3, FS_Injection
  <2>5. m - 1 \in 0..(N - 1) BY <1>1
  <2> QED BY <2>4, <2>5 DEF Surjection, f
<1> QED BY <1>1, <1>2, <1>3, <1>5, <1>6, <1>7

At(K, m) == CHOOSE k \in K : Place(K, k) = m - 1

LEMMA PlaceOfAt ==
  ASSUME NEW n \in Nat, NEW K, Keyed(K, n)
  PROVE  /\ \A m \in 1..Cardinality(K) : At(K, m) \in K /\ Place(K, At(K, m)) = m - 1
         /\ \A k \in K : \E m \in 1..Cardinality(K) : At(K, m) = k
<1>1. Cardinality(K) \in Nat BY FS_CardinalityType DEF Keyed
<1>2. \A m \in 1..Cardinality(K) : At(K, m) \in K /\ Place(K, At(K, m)) = m - 1
  BY Places DEF At
<1>3. ASSUME NEW k \in K PROVE \E m \in 1..Cardinality(K) : At(K, m) = k
  <2>1. Place(K, k) \in 0..(Cardinality(K) - 1) BY Places
  <2>2. (Place(K, k) + 1) \in 1..Cardinality(K) /\ (Place(K, k) + 1) - 1 = Place(K, k) BY <1>1, <2>1
  <2>3. At(K, Place(K, k) + 1) \in K /\ Place(K, At(K, Place(K, k) + 1)) = Place(K, k)
    BY <1>2, <2>2
  <2>4. At(K, Place(K, k) + 1) = k BY <2>3, Places
  <2> QED BY <2>2, <2>4
<1> QED BY <1>2, <1>3

(* Two sets whose elements correspond in order have them at one place.     *)
LEMMA SamePlaces ==
  ASSUME NEW n \in Nat, NEW K, Keyed(K, n), NEW M, Keyed(M, n),
         NEW f \in Bijection(K, M),
         \A j, k \in K : KeyLess(j[1], k[1]) <=> KeyLess(f[j][1], f[k][1])
  PROVE  /\ Cardinality(K) = Cardinality(M)
         /\ \A m \in 1..Cardinality(K) : At(M, m) = f[At(K, m)]
<1>1. f \in [K -> M] /\ (\A j, k \in K : f[j] = f[k] => j = k) /\ \A x \in M : \E k \in K : f[k] = x
  BY DEF Bijection, Injection, IsInjective, Surjection
<1>2. Cardinality(K) = Cardinality(M)
  BY FS_Bijection DEF ExistsBijection, Keyed
<1>3. ASSUME NEW k \in K PROVE Place(M, f[k]) = Place(K, k)
  <2> DEFINE g == [j \in Lesser(K, k) |-> f[j]]
  <2>1. g \in [Lesser(K, k) -> Lesser(M, f[k])] BY <1>1 DEF Lesser
  <2>2. \A i, j \in Lesser(K, k) : g[i] = g[j] => i = j BY <1>1 DEF Lesser
  <2>3. \A x \in Lesser(M, f[k]) : \E j \in Lesser(K, k) : g[j] = x BY <1>1 DEF Lesser
  <2>4. g \in Bijection(Lesser(K, k), Lesser(M, f[k]))
    <3> HIDE DEF g
    <3> QED BY <2>1, <2>2, <2>3 DEF Bijection, Injection, IsInjective, Surjection
  <2>5. IsFiniteSet(Lesser(K, k)) BY FS_Subset DEF Lesser, Keyed
  <2> HIDE DEF g
  <2> QED BY <2>4, <2>5, FS_Bijection DEF ExistsBijection, Place
<1>4. ASSUME NEW m \in 1..Cardinality(K) PROVE At(M, m) = f[At(K, m)]
  <2>1. At(K, m) \in K /\ Place(K, At(K, m)) = m - 1 BY PlaceOfAt
  <2>2. f[At(K, m)] \in M /\ Place(M, f[At(K, m)]) = m - 1 BY <1>1, <1>3, <2>1
  <2>3. At(M, m) \in M /\ Place(M, At(M, m)) = m - 1 BY <1>2, PlaceOfAt
  <2> QED BY <2>2, <2>3, Places
<1> QED BY <1>2, <1>4
-----------------------------------------------------------------------------
(* The members of a set in the order of their keys, which a function gives *)
(* and tells apart.                                                        *)

Listable(key, n) ==
  /\ IsFiniteSet(DOMAIN key)
  /\ key \in [DOMAIN key -> Keys(n)]
  /\ \A x, y \in DOMAIN key : key[x] = key[y] => x = y

Pairs(key) == {<<key[x], x>> : x \in DOMAIN key}

InOrder(key) == [m \in 1..Cardinality(DOMAIN key) |-> At(Pairs(key), m)[2]]

LEMMA KeyedPairs ==
  ASSUME NEW n \in Nat, NEW key, Listable(key, n)
  PROVE  Keyed(Pairs(key), n) /\ Cardinality(Pairs(key)) = Cardinality(DOMAIN key)
<1> DEFINE K == Pairs(key)
           D == DOMAIN key
           f == [x \in D |-> <<key[x], x>>]
<1>1. f \in [D -> K] BY DEF Pairs
<1>2. \A x, y \in D : f[x] = f[y] => x = y OBVIOUS
<1>3. \A k \in K : \E x \in D : f[x] = k BY DEF Pairs
<1>4. f \in Bijection(D, K)
  <2> HIDE DEF f, K, D
  <2> QED BY <1>1, <1>2, <1>3 DEF Bijection, Injection, IsInjective, Surjection
<1> HIDE DEF f
<1>5. IsFiniteSet(K) /\ Cardinality(K) = Cardinality(D)
  BY <1>4, FS_Bijection DEF ExistsBijection, Listable
<1>6. \A k \in K : k[1] \in Keys(n) BY DEF Pairs, Listable
<1>7. \A j, k \in K : j[1] = k[1] => j = k BY DEF Pairs, Listable
<1> QED BY <1>5, <1>6, <1>7 DEF Keyed

LEMMA InOrderLists ==
  ASSUME NEW n \in Nat, NEW key, Listable(key, n),
         NEW l, l = Cardinality(DOMAIN key), NEW list, list = InOrder(key)
  PROVE  /\ l \in Nat /\ list \in [1..l -> DOMAIN key]
         /\ \A x \in DOMAIN key : \E m \in 1..l : list[m] = x
         /\ \A m, k \in 1..l : KeyLess(key[list[m]], key[list[k]]) <=> m < k
         /\ \A m, k \in 1..l : list[m] = list[k] => m = k
<1> DEFINE K == Pairs(key)
<1>1. Keyed(K, n) /\ Cardinality(K) = l BY KeyedPairs
<1>2. l \in Nat BY FS_CardinalityType DEF Listable
<1>3. \A m \in 1..l : At(K, m) \in K /\ Place(K, At(K, m)) = m - 1 BY <1>1, PlaceOfAt
<1>4. \A k \in K : \E m \in 1..l : At(K, m) = k BY <1>1, PlaceOfAt
<1>5. \A k \in K : k[2] \in DOMAIN key /\ k[1] = key[k[2]] /\ k = <<key[k[2]], k[2]>> BY DEF Pairs
<1>6. \A x \in DOMAIN key : <<key[x], x>> \in K BY DEF Pairs
<1>7. \A m \in 1..l : list[m] = At(K, m)[2] BY DEF InOrder
<1> HIDE DEF K
<1>8. list \in [1..l -> DOMAIN key]
  <2>1. \A m \in 1..l : At(K, m)[2] \in DOMAIN key BY <1>3, <1>5
  <2>2. list = [m \in 1..l |-> At(K, m)[2]] BY DEF InOrder, K
  <2> QED BY <2>1, <2>2
<1>9. \A x \in DOMAIN key : \E m \in 1..l : list[m] = x
  <2> SUFFICES ASSUME NEW x \in DOMAIN key PROVE \E m \in 1..l : list[m] = x OBVIOUS
  <2>1. PICK m \in 1..l : At(K, m) = <<key[x], x>> BY <1>4, <1>6
  <2> QED BY <1>7, <2>1
<1>10. ASSUME NEW m \in 1..l, NEW k \in 1..l
       PROVE  KeyLess(key[list[m]], key[list[k]]) <=> m < k
  <2>1. key[list[m]] = At(K, m)[1] /\ key[list[k]] = At(K, k)[1] BY <1>3, <1>5, <1>7
  <2>2. KeyLess(At(K, m)[1], At(K, k)[1]) <=> Place(K, At(K, m)) < Place(K, At(K, k))
    BY <1>1, <1>3, Places
  <2>3. Place(K, At(K, m)) = m - 1 /\ Place(K, At(K, k)) = k - 1 BY <1>3
  <2> QED BY <1>2, <2>1, <2>2, <2>3
<1>11. ASSUME NEW m \in 1..l, NEW k \in 1..l, list[m] = list[k] PROVE m = k
  <2>1. key[list[m]] \in Keys(n) BY <1>8 DEF Listable
  <2>2. ~KeyLess(key[list[m]], key[list[k]]) /\ ~KeyLess(key[list[k]], key[list[m]])
    BY <1>11, <2>1, KeyOrder
  <2>3. ~(m < k) /\ ~(k < m) BY <1>10, <2>2
  <2> QED BY <1>2, <2>3
<1> QED BY <1>2, <1>8, <1>9, <1>10, <1>11

(* Two sets whose members correspond in order are listed alike.            *)
Alike(j, k, p) ==
  /\ p \in Bijection(DOMAIN j, DOMAIN k)
  /\ \A x, y \in DOMAIN j : KeyLess(j[x], j[y]) <=> KeyLess(k[p[x]], k[p[y]])

LEMMA ListedAlike ==
  ASSUME NEW n \in Nat, NEW j, NEW k, NEW p, Listable(j, n), Listable(k, n), Alike(j, k, p)
  PROVE  /\ Cardinality(DOMAIN j) = Cardinality(DOMAIN k)
         /\ \A m \in 1..Cardinality(DOMAIN j) : InOrder(k)[m] = p[InOrder(j)[m]]
<1> DEFINE J == Pairs(j)
           K == Pairs(k)
           D == DOMAIN j
           E == DOMAIN k
           f == [x \in J |-> <<k[p[x[2]]], p[x[2]]>>]
<1>1. p \in [D -> E] /\ (\A x, y \in D : p[x] = p[y] => x = y) /\ \A y \in E : \E x \in D : p[x] = y
  BY DEF Alike, Bijection, Injection, IsInjective, Surjection
<1>2. Keyed(J, n) /\ Cardinality(J) = Cardinality(D) BY KeyedPairs
<1>3. Keyed(K, n) /\ Cardinality(K) = Cardinality(E) BY KeyedPairs
<1>4. \A x \in J : x[2] \in D /\ x = <<j[x[2]], x[2]>> /\ x[1] = j[x[2]] BY DEF Pairs
<1>5. \A x \in D : <<j[x], x>> \in J BY DEF Pairs
<1>6. \A y \in E : <<k[y], y>> \in K BY DEF Pairs
<1>7. \A y \in K : y[2] \in E /\ y = <<k[y[2]], y[2]>> BY DEF Pairs
<1> HIDE DEF J, K
<1>8. \A x \in J : f[x] = <<k[p[x[2]]], p[x[2]]>> OBVIOUS
<1>9. f \in [J -> K] BY <1>1, <1>4, <1>6
<1> HIDE DEF f
<1>10. \A x, y \in J : f[x] = f[y] => x = y
  <2> SUFFICES ASSUME NEW x \in J, NEW y \in J, f[x] = f[y] PROVE x = y OBVIOUS
  <2>1. p[x[2]] = p[y[2]] BY <1>8
  <2>2. x[2] = y[2] BY <1>1, <1>4, <2>1
  <2> QED BY <1>4, <2>2
<1>11. \A y \in K : \E x \in J : f[x] = y
  <2> SUFFICES ASSUME NEW y \in K PROVE \E x \in J : f[x] = y OBVIOUS
  <2>1. PICK x \in D : p[x] = y[2] BY <1>1, <1>7
  <2>2. f[<<j[x], x>>] = <<k[p[x]], p[x]>> BY <1>5, <1>8
  <2> QED BY <1>5, <1>7, <2>1, <2>2
<1>12. f \in Bijection(J, K)
  BY <1>9, <1>10, <1>11 DEF Bijection, Injection, IsInjective, Surjection
<1>13. \A x, y \in J : KeyLess(x[1], y[1]) <=> KeyLess(f[x][1], f[y][1])
  <2> SUFFICES ASSUME NEW x \in J, NEW y \in J
               PROVE  KeyLess(x[1], y[1]) <=> KeyLess(f[x][1], f[y][1])
    OBVIOUS
  <2>1. f[x][1] = k[p[x[2]]] /\ f[y][1] = k[p[y[2]]] BY <1>8
  <2> QED BY <1>4, <2>1 DEF Alike
<1>14. Cardinality(J) = Cardinality(K) /\ \A m \in 1..Cardinality(J) : At(K, m) = f[At(J, m)]
  BY <1>2, <1>3, <1>12, <1>13, SamePlaces
<1>15. ASSUME NEW m \in 1..Cardinality(D) PROVE InOrder(k)[m] = p[InOrder(j)[m]]
  <2>1. At(J, m) \in J BY <1>2, PlaceOfAt
  <2>2. At(K, m) = <<k[p[At(J, m)[2]]], p[At(J, m)[2]]>> BY <1>2, <1>8, <1>14, <2>1
  <2>3. InOrder(j)[m] = At(J, m)[2] BY DEF InOrder, J
  <2>4. InOrder(k)[m] = At(K, m)[2] BY <1>2, <1>3, <1>14 DEF InOrder, K
  <2> QED BY <2>2, <2>3, <2>4
<1> QED BY <1>2, <1>3, <1>14, <1>15

-----------------------------------------------------------------------------
(* The merge of several sources.                                           *)

IsDeduped(d, results, n) ==
  d = [i \in 0..n |-> IF i = 0 THEN <<>> ELSE KeepBetter(d[i - 1], results[i])]

LEMMA DedupedExists ==
  ASSUME NEW results, NEW n \in Nat PROVE \E d : IsDeduped(d, results, n)
<1> DEFINE S == {m \in Nat : \E d : IsDeduped(d, results, m)}
<1>1. 0 \in S
  <2> DEFINE one == [i \in 0..0 |-> <<>>]
  <2>1. IsDeduped(one, results, 0)
    <3>1. \A i \in 0..0 : i = 0 OBVIOUS
    <3> QED BY <3>1 DEF IsDeduped
  <2> HIDE DEF one
  <2> QED BY <2>1
<1>2. ASSUME NEW m \in S, m >= 0 PROVE m + 1 \in S
  <2>1. PICK d : IsDeduped(d, results, m) OBVIOUS
  <2> DEFINE more == [i \in 0..(m+1) |->
                        IF i = m+1 THEN KeepBetter(d[m], results[m+1]) ELSE d[i]]
  <2>2. ASSUME NEW i \in 0..(m+1)
        PROVE more[i] = IF i = 0 THEN <<>> ELSE KeepBetter(more[i - 1], results[i])
    <3>1. CASE i = m + 1
      <4>1. m \in 0..(m+1) /\ m # m + 1 /\ i # 0 /\ i - 1 = m BY <1>2, <3>1
      <4>2. more[m] = d[m] BY <4>1
      <4>3. more[i] = KeepBetter(d[m], results[m+1]) BY <3>1
      <4> HIDE DEF more
      <4> QED BY <4>1, <4>2, <4>3, <3>1
    <3>2. CASE i # m + 1
      <4>1. i \in 0..m BY <3>2
      <4>2. more[i] = d[i] BY <3>2
      <4>3. CASE i = 0
        <5>1. d[i] = <<>> BY <4>1, <4>3, <2>1 DEF IsDeduped
        <5> HIDE DEF more
        <5> QED BY <4>2, <4>3, <5>1
      <4>4. CASE i # 0
        <5>1. d[i] = KeepBetter(d[i - 1], results[i]) BY <4>1, <4>4, <2>1 DEF IsDeduped
        <5>2. i - 1 \in 0..(m+1) /\ i - 1 # m + 1 BY <4>1, <4>4
        <5>3. more[i - 1] = d[i - 1] BY <5>2
        <5> HIDE DEF more
        <5> QED BY <4>2, <4>4, <5>1, <5>3
      <4> QED BY <4>3, <4>4
    <3> QED BY <3>1, <3>2
  <2>3. IsDeduped(more, results, m + 1) BY <2>2 DEF IsDeduped
  <2> HIDE DEF more
  <2> QED BY <2>3
<1> HIDE DEF S
<1>3. S \in SUBSET Nat BY DEF S
<1>4. n \in S BY <1>1, <1>2, <1>3, UpFrom
<1> QED BY <1>4 DEF S

LEMMA DedupedStep ==
  ASSUME NEW results, NEW n \in Nat, Len(results) = n
  PROVE  /\ Deduped(results)[0] = <<>>
         /\ \A i \in 0..n : i < n =>
              Deduped(results)[i + 1] = KeepBetter(Deduped(results)[i], results[i + 1])
<1> DEFINE d == Deduped(results)
<1>1. PICK e : IsDeduped(e, results, n) BY DedupedExists
<1>2. IsDeduped(d, results, n) BY <1>1 DEF Deduped, IsDeduped
<1> HIDE DEF d
<1>3. d[0] = <<>> BY <1>2 DEF IsDeduped
<1>4. ASSUME NEW i \in 0..n, i < n PROVE d[i + 1] = KeepBetter(d[i], results[i + 1])
  <2>1. i + 1 \in 0..n /\ i + 1 # 0 /\ (i + 1) - 1 = i BY <1>4
  <2>2. d[i + 1] = KeepBetter(d[(i + 1) - 1], results[i + 1]) BY <1>2, <2>1 DEF IsDeduped
  <2> QED BY <2>1, <2>2
<1> QED BY <1>3, <1>4 DEF d

(* Each session once.                                                      *)
OneEach(kept) ==
  \A i, j \in DOMAIN kept : StableKey(kept[i]) = StableKey(kept[j]) => i = j

LEMMA KeepBetterKeeps ==
  ASSUME NEW R, NEW kept \in Seq(R), OneEach(kept), NEW r \in R
  PROVE  /\ KeepBetter(kept, r) \in Seq(R) /\ OneEach(KeepBetter(kept, r))
         /\ \A i \in DOMAIN KeepBetter(kept, r) :
              KeepBetter(kept, r)[i] = r \/ \E j \in DOMAIN kept : KeepBetter(kept, r)[i] = kept[j]
<1> DEFINE same == {i \in DOMAIN kept : StableKey(kept[i]) = StableKey(r)}
<1>1. CASE same = {}
  <2>1. KeepBetter(kept, r) = Append(kept, r) BY <1>1 DEF KeepBetter
  <2> QED BY <1>1, <2>1 DEF OneEach
<1>2. CASE same # {}
  <2> DEFINE i == CHOOSE k \in same : TRUE
             put == [kept EXCEPT ![i] = r]
  <2>1. i \in DOMAIN kept /\ StableKey(kept[i]) = StableKey(r) BY <1>2
  <2>2. KeepBetter(kept, r) = put \/ KeepBetter(kept, r) = kept BY <1>2 DEF KeepBetter
  <2> HIDE DEF i
  <2>3. put \in Seq(R) /\ DOMAIN put = DOMAIN kept
          /\ \A k \in DOMAIN kept : put[k] = IF k = i THEN r ELSE kept[k]
    BY <2>1
  <2>4. OneEach(put) BY <2>1, <2>3 DEF OneEach
  <2> HIDE DEF put, same
  <2> QED BY <2>2, <2>3, <2>4
<1> QED BY <1>1, <1>2

LEMMA DedupedKeeps ==
  ASSUME NEW R, NEW results \in Seq(R), NEW n \in 0..Len(results)
  PROVE  /\ Deduped(results)[n] \in Seq(R) /\ OneEach(Deduped(results)[n])
         /\ \A i \in DOMAIN Deduped(results)[n] :
              \E j \in DOMAIN results : Deduped(results)[n][i] = results[j]
<1> DEFINE d == Deduped(results)
           l == Len(results)
           Kept(m) == /\ d[m] \in Seq(R) /\ OneEach(d[m])
                      /\ \A i \in DOMAIN d[m] : \E j \in DOMAIN results : d[m][i] = results[j]
           S == {m \in 0..l : Kept(m)}
<1>1. d[0] = <<>> /\ \A i \in 0..l : i < l => d[i + 1] = KeepBetter(d[i], results[i + 1])
  BY DedupedStep
<1> HIDE DEF d
<1>2. 0 \in S
  <2>1. l \in Nat OBVIOUS
  <2>2. <<>> \in Seq(R) /\ DOMAIN (<<>>) = {} OBVIOUS
  <2>3. OneEach(<<>>) BY <2>2 DEF OneEach
  <2>4. Kept(0)
    <3>1. d[0] \in Seq(R) /\ OneEach(d[0]) /\ DOMAIN d[0] = {} BY <1>1, <2>2, <2>3
    <3> QED BY <3>1
  <2> QED BY <2>1, <2>4
<1>3. ASSUME NEW m \in S, m < l PROVE m + 1 \in S
  <2>1. m \in 0..l /\ Kept(m) OBVIOUS
  <2>2. m + 1 \in DOMAIN results /\ results[m + 1] \in R BY <1>3, <2>1
  <2>3. d[m + 1] = KeepBetter(d[m], results[m + 1]) BY <1>1, <1>3, <2>1
  <2>4. /\ d[m + 1] \in Seq(R) /\ OneEach(d[m + 1])
        /\ \A i \in DOMAIN d[m + 1] :
             d[m + 1][i] = results[m + 1] \/ \E j \in DOMAIN d[m] : d[m + 1][i] = d[m][j]
    <3> HIDE DEF S
    <3> QED BY <2>1, <2>2, <2>3, KeepBetterKeeps
  <2> QED BY <1>3, <2>1, <2>2, <2>4
<1>4. \A i \in 0..l : i \in S
  <2>1. S \in SUBSET (0..l) OBVIOUS
  <2> HIDE DEF S
  <2> QED BY <1>2, <1>3, <2>1, UpTo
<1> QED BY <1>4 DEF d

LEMMA JoinedKeepBetter ==
  ASSUME NEW R, NEW a \in Seq(R), NEW b \in Seq(R), OneEach(b), NEW r \in R,
         \A i \in DOMAIN a : StableKey(a[i]) # StableKey(r)
  PROVE  KeepBetter(a \o b, r) = a \o KeepBetter(b, r)
<1> DEFINE ab == a \o b
           l == Len(a)
           same == {i \in DOMAIN b : StableKey(b[i]) = StableKey(r)}
           both == {i \in DOMAIN ab : StableKey(ab[i]) = StableKey(r)}
<1>1. ab \in Seq(R) /\ Len(ab) = l + Len(b) /\ DOMAIN ab = 1..(l + Len(b))
      /\ (\A i \in 1..l : ab[i] = a[i]) /\ \A i \in 1..Len(b) : ab[l + i] = b[i]
  OBVIOUS
<1> HIDE DEF ab
<1>2. \A i \in DOMAIN ab : i \in 1..l \/ (i - l \in 1..Len(b) /\ i = l + (i - l)) BY <1>1
<1>3. \A i \in both : i - l \in same /\ i = l + (i - l) BY <1>1, <1>2
<1>4. ASSUME NEW i \in same PROVE l + i \in both
  <2>1. i \in 1..Len(b) /\ l \in Nat OBVIOUS
  <2>2. l + i \in DOMAIN ab /\ ab[l + i] = b[i] BY <1>1, <2>1
  <2> QED BY <2>2
<1>5. CASE same = {}
  <2>1. both = {} BY <1>3, <1>5
  <2>2. KeepBetter(ab, r) = Append(ab, r) BY <2>1 DEF KeepBetter
  <2>3. KeepBetter(b, r) = Append(b, r) BY <1>5 DEF KeepBetter
  <2>4. Append(a \o b, r) = a \o Append(b, r) OBVIOUS
  <2> QED BY <2>2, <2>3, <2>4 DEF ab
<1>6. CASE same # {}
  <2> DEFINE i == CHOOSE k \in same : TRUE
             j == CHOOSE k \in both : TRUE
  <2>1. i \in same BY <1>6
  <2>2. j \in both BY <1>4, <2>1
  <2>3. j = l + i
    <3>1. j - l \in same /\ j = l + (j - l) BY <1>3, <2>2
    <3>2. j - l = i BY <2>1, <3>1 DEF OneEach
    <3> QED BY <3>1, <3>2
  <2> DEFINE put == [b EXCEPT ![i] = r]
             putBoth == [ab EXCEPT ![j] = r]
             Better(x) == r.rank < x.rank \/ (r.rank = x.rank /\ r.score > x.score)
  <2>4. KeepBetter(b, r) = IF Better(b[i]) THEN put ELSE b BY <1>6 DEF KeepBetter
  <2>5. KeepBetter(ab, r) = IF Better(ab[j]) THEN putBoth ELSE ab BY <2>2 DEF KeepBetter
  <2> HIDE DEF i, j
  <2>6. ab[j] = b[i]
    <3>1. i \in 1..Len(b) BY <2>1
    <3> QED BY <1>1, <2>3, <3>1
  <2>7. put \in Seq(R) /\ Len(put) = Len(b) /\ DOMAIN put = 1..Len(b)
          /\ \A k \in 1..Len(b) : put[k] = IF k = i THEN r ELSE b[k]
    BY <2>1
  <2>8. putBoth \in Seq(R) /\ Len(putBoth) = l + Len(b) /\ DOMAIN putBoth = 1..(l + Len(b))
          /\ \A k \in 1..(l + Len(b)) : putBoth[k] = IF k = j THEN r ELSE ab[k]
    BY <1>1, <2>2
  <2> HIDE DEF put, putBoth
  <2>9. putBoth = a \o put
    <3> DEFINE w == a \o put
    <3>1. w \in Seq(R) /\ Len(w) = l + Len(b) /\ DOMAIN w = 1..(l + Len(b))
          /\ (\A k \in 1..l : w[k] = a[k]) /\ \A k \in 1..Len(b) : w[l + k] = put[k]
      BY <2>7
    <3> HIDE DEF w
    <3>2. ASSUME NEW k \in 1..(l + Len(b)) PROVE putBoth[k] = w[k]
      <4>1. CASE k \in 1..l
        <5>1. k # j BY <2>1, <2>3, <4>1
        <5> QED BY <1>1, <2>8, <3>1, <4>1, <5>1
      <4>2. CASE k \notin 1..l
        <5>1. k - l \in 1..Len(b) /\ k = l + (k - l) BY <4>2
        <5>2. w[k] = put[k - l] /\ ab[k] = b[k - l] BY <1>1, <3>1, <5>1
        <5>3. k = j <=> k - l = i BY <2>1, <2>3, <5>1
        <5> QED BY <2>7, <2>8, <5>1, <5>2, <5>3
      <4> QED BY <4>1, <4>2
    <3> DEFINE u == putBoth
    <3>3. u = [k \in 1..(l + Len(b)) |-> u[k]] BY <2>8
    <3>4. w = [k \in 1..(l + Len(b)) |-> w[k]] BY <3>1
    <3>5. u = w
      <4> HIDE DEF u
      <4> QED BY <3>2, <3>3, <3>4 DEF u
    <3> QED BY <3>5 DEF w
  <2> HIDE DEF Better
  <2> QED BY <2>4, <2>5, <2>6, <2>9 DEF ab
<1> QED BY <1>5, <1>6 DEF ab
(* The sources have no session in common, so that what is kept of one      *)
(* follows what is kept of the other.                                      *)
LEMMA JoinedDeduped ==
  ASSUME NEW R, NEW a \in Seq(R), NEW b \in Seq(R),
         \A i \in DOMAIN a, j \in DOMAIN b : StableKey(a[i]) # StableKey(b[j])
  PROVE  Deduped(a \o b)[Len(a \o b)] = Deduped(a)[Len(a)] \o Deduped(b)[Len(b)]
<1> DEFINE ab == a \o b
           m == Len(a)
           n == Len(b)
           da == Deduped(a)
           db == Deduped(b)
           dab == Deduped(ab)
<1>1. ab \in Seq(R) /\ Len(ab) = m + n /\ m \in Nat /\ n \in Nat
      /\ (\A i \in 1..m : ab[i] = a[i]) /\ \A i \in 1..n : ab[m + i] = b[i]
  OBVIOUS
<1>2. da[0] = <<>> /\ \A i \in 0..m : i < m => da[i + 1] = KeepBetter(da[i], a[i + 1])
  BY DedupedStep
<1>3. db[0] = <<>> /\ \A i \in 0..n : i < n => db[i + 1] = KeepBetter(db[i], b[i + 1])
  BY DedupedStep
<1> HIDE DEF ab
<1>4. dab[0] = <<>>
      /\ \A i \in 0..(m + n) : i < m + n => dab[i + 1] = KeepBetter(dab[i], ab[i + 1])
  <2>1. m + n \in Nat /\ Len(ab) = m + n BY <1>1
  <2> QED BY <2>1, DedupedStep
<1>5. da[m] \in Seq(R) /\ \A i \in DOMAIN da[m] : \E j \in DOMAIN a : da[m][i] = a[j]
  BY <1>1, DedupedKeeps
<1>6. \A k \in 0..n : db[k] \in Seq(R) /\ OneEach(db[k]) BY <1>1, DedupedKeeps
<1> HIDE DEF da, db, dab
<1>7. dab[m] = da[m]
  <2> DEFINE S == {i \in 0..m : dab[i] = da[i]}
  <2>1. 0 \in S BY <1>1, <1>2, <1>4
  <2>2. ASSUME NEW i \in S, i < m PROVE i + 1 \in S
    <3>1. i \in 0..m /\ i \in 0..(m + n) /\ i < m + n /\ i + 1 \in 1..m BY <1>1, <2>2
    <3> QED BY <1>1, <1>2, <1>4, <2>2, <3>1
  <2>3. S \in SUBSET (0..m) OBVIOUS
  <2> HIDE DEF S
  <2>4. \A i \in 0..m : i \in S
    <3>1. 0 \in Nat /\ m \in Nat /\ 0 <= m BY <1>1
    <3> QED BY <2>1, <2>2, <2>3, <3>1, UpTo
  <2>5. m \in S BY <1>1, <2>4
  <2> QED BY <2>5 DEF S
<1>8. dab[m + n] = da[m] \o db[n]
  <2> DEFINE S == {i \in 0..n : dab[m + i] = da[m] \o db[i]}
  <2>1. 0 \in S
    <3>1. da[m] \o <<>> = da[m] BY <1>5
    <3>2. 0 \in 0..n /\ m + 0 = m BY <1>1
    <3> QED BY <1>3, <1>7, <3>1, <3>2
  <2>2. ASSUME NEW i \in S, i < n PROVE i + 1 \in S
    <3>1. i \in 0..n /\ m + i \in 0..(m + n) /\ m + i < m + n /\ i + 1 \in 1..n
            /\ m + (i + 1) = (m + i) + 1
      BY <1>1, <2>2
    <3>2. dab[m + (i + 1)] = KeepBetter(dab[m + i], ab[m + (i + 1)]) BY <1>4, <3>1
    <3>3. ab[m + (i + 1)] = b[i + 1] /\ b[i + 1] \in R /\ i + 1 \in DOMAIN b BY <1>1, <3>1
    <3>4. \A j \in DOMAIN da[m] : StableKey(da[m][j]) # StableKey(b[i + 1]) BY <1>5, <3>3
    <3>5. KeepBetter(da[m] \o db[i], b[i + 1]) = da[m] \o KeepBetter(db[i], b[i + 1])
      <4>1. db[i] \in Seq(R) /\ OneEach(db[i]) BY <1>6, <3>1
      <4>2. \A x, y \in Seq(R), r \in R :
              OneEach(y) /\ (\A j \in DOMAIN x : StableKey(x[j]) # StableKey(r))
                => KeepBetter(x \o y, r) = x \o KeepBetter(y, r)
        BY JoinedKeepBetter
      <4> HIDE DEF S, m, n
      <4> QED BY <1>5, <3>3, <3>4, <4>1, <4>2, Zenon
    <3>6. db[i + 1] = KeepBetter(db[i], b[i + 1]) BY <1>3, <2>2, <3>1
    <3>7. dab[m + i] = da[m] \o db[i] OBVIOUS
    <3>8. dab[m + (i + 1)] = da[m] \o db[i + 1] BY <3>2, <3>3, <3>5, <3>6, <3>7
    <3>9. i + 1 \in 0..n BY <1>1, <3>1
    <3> HIDE DEF m, n
    <3> QED BY <3>8, <3>9
  <2>3. S \in SUBSET (0..n) OBVIOUS
  <2> HIDE DEF S
  <2>4. \A i \in 0..n : i \in S
    <3>1. 0 \in Nat /\ n \in Nat /\ 0 <= n BY <1>1
    <3> QED BY <2>1, <2>2, <2>3, <3>1, UpTo
  <2>5. n \in S BY <1>1, <2>4
  <2> QED BY <2>5 DEF S
<1> QED BY <1>1, <1>8 DEF ab, da, db, dab

-----------------------------------------------------------------------------
LEMMA Appended ==
  ASSUME NEW n \in Nat, NEW a \in Keys(n), NEW i \in Int
  PROVE  /\ Append(a, i) \in Keys(n + 1)
         /\ \A x \in 1..n : Append(a, i)[x] = a[x]
         /\ Append(a, i)[n + 1] = i
BY DEF Keys

LEMMA AppendedLess ==
  ASSUME NEW n \in Nat, NEW a \in Keys(n), NEW b \in Keys(n), a # b, NEW i \in Int, NEW j \in Int
  PROVE  KeyLess(Append(a, i), Append(b, j)) <=> KeyLess(a, b)
<1> DEFINE c == Append(a, i)
           d == Append(b, j)
<1>1. DOMAIN a = 1..n /\ DOMAIN b = 1..n BY DEF Keys
<1>2. c \in Keys(n + 1) /\ d \in Keys(n + 1) /\ DOMAIN c = 1..(n + 1)
      /\ \A x \in 1..n : c[x] = a[x] /\ d[x] = b[x]
  <2>1. c \in Keys(n + 1) /\ d \in Keys(n + 1) /\ \A x \in 1..n : c[x] = a[x] /\ d[x] = b[x]
    BY Appended
  <2> HIDE DEF c, d
  <2> QED BY <2>1 DEF Keys
<1> HIDE DEF c, d
<1>3. ASSUME NEW x \in Keys(n), NEW y \in Keys(n), NEW u \in Keys(n + 1), NEW v \in Keys(n + 1),
             \A k \in 1..n : u[k] = x[k] /\ v[k] = y[k], KeyLess(x, y)
      PROVE  KeyLess(u, v)
  <2>1. DOMAIN x = 1..n /\ DOMAIN u = 1..(n + 1) BY DEF Keys
  <2>2. PICK k \in 1..n : x[k] < y[k] /\ \A l \in 1..(k - 1) : x[l] = y[l] BY <1>3, <2>1 DEF KeyLess
  <2>3. k \in DOMAIN u /\ u[k] < v[k] /\ \A l \in 1..(k - 1) : u[l] = v[l] BY <1>3, <2>1, <2>2
  <2> QED BY <2>3 DEF KeyLess
<1>4. KeyLess(a, b) => KeyLess(c, d) BY <1>2, <1>3
<1>5. KeyLess(b, a) => KeyLess(d, c) BY <1>2, <1>3
<1>6. n + 1 \in Nat OBVIOUS
<1>7. ~(KeyLess(c, d) /\ KeyLess(d, c)) BY <1>2, <1>6, KeyOrder
<1>8. KeyLess(a, b) \/ KeyLess(b, a) BY KeyOrder
<1> QED BY <1>4, <1>5, <1>7, <1>8 DEF c, d

IsResult(r) ==
  {r.rank, r.started, r.ended, r.score, NameOrder[r.native], NameOrder[r.source]} \subseteq Int

LEMMA MergeKeys ==
  ASSUME NEW r, IsResult(r), NEW sort
  PROVE  /\ MergeKey(r, sort) \in Keys(4)
         /\ MergeKey(r, sort)[3] = NameOrder[r.source]
         /\ MergeKey(r, sort)[4] = NameOrder[r.native]
<1>1. TimeOf(r, sort) \in Int BY DEF IsResult, TimeOf
<1> DEFINE a == IF sort = "relevance" THEN <<r.rank, -r.ended>> ELSE <<-TimeOf(r, sort), -r.score>>
           b == <<NameOrder[r.source], NameOrder[r.native]>>
<1>2. a \in Seq(Int) /\ Len(a) = 2 BY <1>1 DEF IsResult
<1>3. b \in Seq(Int) /\ Len(b) = 2 /\ b[1] = NameOrder[r.source] /\ b[2] = NameOrder[r.native]
  BY DEF IsResult
<1>4. MergeKey(r, sort) = a \o b BY DEF MergeKey, StableKey
<1> HIDE DEF a, b
<1>5. a \o b \in Seq(Int) /\ Len(a \o b) = 4 /\ (a \o b)[3] = b[1] /\ (a \o b)[4] = b[2]
  <2>1. 1 \in 1..Len(b) /\ 2 \in 1..Len(b) /\ Len(a) + 1 = 3 /\ Len(a) + 2 = 4 BY <1>2, <1>3
  <2>2. \A x, y \in Seq(Int) : /\ x \o y \in Seq(Int) /\ Len(x \o y) = Len(x) + Len(y)
                               /\ \A k \in 1..Len(y) : (x \o y)[Len(x) + k] = y[k]
    OBVIOUS
  <2>3. a \o b \in Seq(Int) /\ Len(a \o b) = Len(a) + Len(b)
          /\ \A k \in 1..Len(b) : (a \o b)[Len(a) + k] = b[k]
    BY <1>2, <1>3, <2>2
  <2> QED BY <1>2, <1>3, <2>1, <2>3
<1> QED BY <1>3, <1>4, <1>5 DEF Keys

KeysAt(seq, sort) == [i \in DOMAIN seq |-> Append(MergeKey(seq[i], sort), i)]

Merged(seq, sort) == SortByKey(seq, LAMBDA r : MergeKey(r, sort))

LEMMA KeysAtSort ==
  ASSUME NEW seq, NEW sort
  PROVE  Merged(seq, sort)
           = [n \in DOMAIN seq |-> seq[InOrder(KeysAt(seq, sort))[n]]]
<1> DEFINE key == KeysAt(seq, sort)
           keyed == {<<Append(MergeKey(seq[i], sort), i), i>> : i \in DOMAIN seq}
           at == [n \in 1..Cardinality(DOMAIN seq) |->
                    (CHOOSE k \in keyed : Cardinality({j \in keyed : KeyLess(j[1], k[1])}) = n - 1)[2]]
<1>1. Merged(seq, sort) = [n \in DOMAIN seq |-> seq[at[n]]] BY DEF Merged, SortByKey, Sorted
<1>2. keyed = Pairs(key) /\ DOMAIN key = DOMAIN seq BY DEF Pairs, KeysAt
<1> HIDE DEF keyed, key
<1>3. at = InOrder(key) BY <1>2 DEF InOrder, At, Place, Lesser
<1> QED BY <1>1, <1>3 DEF key

(* Two lists of results of different sources, joined either way.           *)
LEMMA EitherWay ==
  ASSUME NEW R, \A r \in R : IsResult(r), NEW a \in Seq(R), NEW b \in Seq(R), NEW sort,
         OneEach(a), OneEach(b),
         \A i \in DOMAIN a, j \in DOMAIN b : StableKey(a[i]) # StableKey(b[j])
  PROVE  Merged(a \o b, sort) = Merged(b \o a, sort)
<1> DEFINE s == a \o b
           t == b \o a
           m == Len(a)
           n == Len(b)
           l == m + n
           j == KeysAt(s, sort)
           k == KeysAt(t, sort)
           p == [i \in 1..l |-> IF i <= m THEN i + n ELSE i - m]
<1>1. /\ m \in Nat /\ n \in Nat /\ l \in Nat
      /\ s \in Seq(R) /\ DOMAIN s = 1..l /\ t \in Seq(R) /\ DOMAIN t = 1..l
      /\ DOMAIN a = 1..m /\ DOMAIN b = 1..n
  OBVIOUS
<1>2. /\ \A i \in 1..m : s[i] = a[i] /\ t[i + n] = a[i]
      /\ \A i \in 1..n : s[m + i] = b[i] /\ t[i] = b[i]
  <2>1. \A i \in 1..m : s[i] = a[i] OBVIOUS
  <2>2. \A i \in 1..m : t[n + i] = a[i] OBVIOUS
  <2>3. \A i \in 1..n : s[m + i] = b[i] OBVIOUS
  <2>4. \A i \in 1..n : t[i] = b[i] OBVIOUS
  <2>5. \A i \in 1..m : i + n = n + i BY <1>1
  <2> HIDE DEF s, t, m, n
  <2> QED BY <2>1, <2>2, <2>3, <2>4, <2>5
<1> HIDE DEF s, t, m, n
<1>3. p \in Bijection(1..l, 1..l)
  <2>1. p \in [1..l -> 1..l] BY <1>1
  <2>2. \A x, y \in 1..l : p[x] = p[y] => x = y BY <1>1
  <2>3. ASSUME NEW y \in 1..l PROVE \E x \in 1..l : p[x] = y
    <3>1. CASE y > n
      <4>1. y - n \in 1..l /\ y - n <= m /\ p[y - n] = y BY <1>1, <3>1
      <4> QED BY <4>1
    <3>2. CASE ~(y > n)
      <4>1. y + m \in 1..l /\ ~(y + m <= m) /\ p[y + m] = y BY <1>1, <3>2
      <4> QED BY <4>1
    <3> QED BY <3>1, <3>2
  <2> HIDE DEF p, l
  <2> QED BY <2>1, <2>2, <2>3 DEF Bijection, Injection, IsInjective, Surjection
<1>4. \A i \in 1..l : p[i] \in 1..l /\ t[p[i]] = s[i]
  <2> SUFFICES ASSUME NEW i \in 1..l PROVE p[i] \in 1..l /\ t[p[i]] = s[i] OBVIOUS
  <2>1. CASE i <= m
    <3>1. p[i] = i + n /\ i \in 1..m BY <1>1, <2>1
    <3> QED BY <1>1, <1>2, <3>1
  <2>2. CASE ~(i <= m)
    <3>1. p[i] = i - m /\ i - m \in 1..n /\ m + (i - m) = i BY <1>1, <2>2
    <3> HIDE DEF p
    <3>2. s[m + (i - m)] = b[i - m] /\ t[i - m] = b[i - m] BY <1>2, <3>1
    <3> QED BY <1>1, <3>1, <3>2
  <2> QED BY <2>1, <2>2
<1>5. \A x, y \in 1..l : StableKey(s[x]) = StableKey(s[y]) => x = y
  <2> SUFFICES ASSUME NEW x \in 1..l, NEW y \in 1..l, StableKey(s[x]) = StableKey(s[y])
               PROVE  x = y
    OBVIOUS
  <2>1. \A z \in 1..l : \/ z \in 1..m /\ s[z] = a[z]
                        \/ z \notin 1..m /\ z - m \in 1..n /\ s[z] = b[z - m] /\ m + (z - m) = z
    <3> SUFFICES ASSUME NEW z \in 1..l, z \notin 1..m
                 PROVE  z - m \in 1..n /\ s[z] = b[z - m] /\ m + (z - m) = z
      BY <1>2
    <3>1. z - m \in 1..n /\ m + (z - m) = z BY <1>1
    <3>2. s[m + (z - m)] = b[z - m] BY <1>2, <3>1
    <3> QED BY <3>1, <3>2
  <2>2. CASE x \in 1..m /\ y \in 1..m BY <1>1, <2>1, <2>2 DEF OneEach
  <2>3. CASE x \in 1..m /\ y \notin 1..m BY <1>1, <2>1, <2>3
  <2>4. CASE x \notin 1..m /\ y \in 1..m
    <3>1. x - m \in 1..n /\ StableKey(b[x - m]) = StableKey(a[y]) BY <2>1, <2>4
    <3> QED BY <1>1, <2>4, <3>1
  <2>5. CASE x \notin 1..m /\ y \notin 1..m
    <3>1. StableKey(b[x - m]) = StableKey(b[y - m]) /\ x - m \in 1..n /\ y - m \in 1..n
      BY <2>1, <2>5
    <3>2. x - m = y - m BY <1>1, <3>1 DEF OneEach
    <3> QED BY <2>1, <2>5, <3>2
  <2> QED BY <2>2, <2>3, <2>4, <2>5
<1>6. \A i \in 1..l : s[i] \in R /\ t[i] \in R BY <1>1
<1> DEFINE key(i) == MergeKey(s[i], sort)
<1>7. \A i \in 1..l : key(i) \in Keys(4) /\ MergeKey(t[p[i]], sort) = key(i)
  BY <1>4, <1>6, MergeKeys
<1>8. \A x, y \in 1..l : key(x) = key(y) => x = y
  <2>1. \A x \in 1..l : key(x)[3] = NameOrder[s[x].source] /\ key(x)[4] = NameOrder[s[x].native]
    BY <1>6, MergeKeys
  <2> QED BY <1>5, <2>1 DEF StableKey
<1>9. \A i \in 1..l : j[i] = Append(key(i), i) /\ k[p[i]] = Append(key(i), p[i])
  BY <1>1, <1>4, <1>7 DEF KeysAt
<1>10. \A i \in 1..l : k[i] = Append(MergeKey(t[i], sort), i) /\ MergeKey(t[i], sort) \in Keys(4)
  BY <1>1, <1>6, MergeKeys DEF KeysAt
<1>11. DOMAIN j = 1..l /\ DOMAIN k = 1..l
        /\ j = [i \in 1..l |-> j[i]] /\ k = [i \in 1..l |-> k[i]]
  BY <1>1 DEF KeysAt
<1> HIDE DEF key, j, k, p, l
<1>12. l \in Nat BY <1>1
<1>13. j \in [1..l -> Keys(5)] /\ k \in [1..l -> Keys(5)]
  <2>1. \A c \in Keys(4), i \in Int : Append(c, i) \in Keys(5)
    <3>1. \A c \in Keys(4), i \in Int : Append(c, i) \in Keys(4 + 1) BY Appended
    <3> QED BY <3>1
  <2>2. ASSUME NEW i \in 1..l PROVE j[i] \in Keys(5) /\ k[i] \in Keys(5)
    <3>1. i \in Int /\ j[i] = Append(key(i), i) /\ k[i] = Append(MergeKey(t[i], sort), i)
      BY <1>9, <1>10, <1>12
    <3>2. key(i) \in Keys(4) /\ MergeKey(t[i], sort) \in Keys(4) BY <1>7, <1>10
    <3> QED BY <2>1, <3>1, <3>2
  <2> QED BY <1>11, <2>2
<1>14. \A x, y \in 1..l : j[x] = j[y] => x = y
  <2>1. \A x \in 1..l : j[x][5] = x
    <3>1. \A c \in Keys(4), i \in Int : Append(c, i)[4 + 1] = i BY Appended
    <3> QED BY <1>7, <1>9, <1>12, <3>1
  <2> QED BY <2>1
<1>15. \A x, y \in 1..l : k[x] = k[y] => x = y
  <2>1. \A x \in 1..l : k[x][5] = x
    <3>1. \A c \in Keys(4), i \in Int : Append(c, i)[4 + 1] = i BY Appended
    <3> QED BY <1>10, <1>12, <3>1
  <2> QED BY <2>1
<1>16. \A x, y \in 1..l : KeyLess(j[x], j[y]) <=> KeyLess(k[p[x]], k[p[y]])
  <2> SUFFICES ASSUME NEW x \in 1..l, NEW y \in 1..l
               PROVE  KeyLess(j[x], j[y]) <=> KeyLess(k[p[x]], k[p[y]])
    OBVIOUS
  <2>1. CASE x = y
    <3>1. j[x] \in Keys(5) /\ k[p[x]] \in Keys(5) BY <1>4, <1>13
    <3> QED BY <2>1, <3>1, KeyOrder
  <2>2. CASE x # y
    <3>1. key(x) \in Keys(4) /\ key(y) \in Keys(4) /\ key(x) # key(y) BY <1>7, <1>8, <2>2
    <3>2. x \in Int /\ y \in Int /\ p[x] \in Int /\ p[y] \in Int BY <1>4, <1>12
    <3>3. KeyLess(Append(key(x), x), Append(key(y), y)) <=> KeyLess(key(x), key(y))
      BY <3>1, <3>2, AppendedLess
    <3>4. KeyLess(Append(key(x), p[x]), Append(key(y), p[y])) <=> KeyLess(key(x), key(y))
      BY <3>1, <3>2, AppendedLess
    <3> QED BY <1>9, <3>3, <3>4
  <2> QED BY <2>1, <2>2
<1>17. Listable(j, 5) /\ Listable(k, 5)
  <2>1. IsFiniteSet(1..l) BY <1>12, FS_Interval
  <2> QED BY <1>11, <1>13, <1>14, <1>15, <2>1 DEF Listable
<1>18. Alike(j, k, p) BY <1>3, <1>11, <1>16 DEF Alike
<1>19. \A m0 \in 1..l : InOrder(k)[m0] = p[InOrder(j)[m0]] /\ InOrder(j)[m0] \in 1..l
  <2>1. 5 \in Nat OBVIOUS
  <2>2. Cardinality(1..l) = l BY <1>12, FS_Interval
  <2>3. \A m0 \in 1..l : InOrder(k)[m0] = p[InOrder(j)[m0]]
    <3>1. Cardinality(DOMAIN j) = l BY <1>11, <2>2
    <3>2. \A m0 \in 1..Cardinality(DOMAIN j) : InOrder(k)[m0] = p[InOrder(j)[m0]]
      BY <1>17, <1>18, <2>1, ListedAlike
    <3> QED BY <3>1, <3>2
  <2>4. InOrder(j) \in [1..l -> 1..l] BY <1>11, <1>17, <2>1, <2>2, InOrderLists
  <2> QED BY <2>3, <2>4
<1>20. \A i \in 1..l : s[InOrder(j)[i]] = t[InOrder(k)[i]] BY <1>4, <1>19
<1>21. DOMAIN s = 1..l /\ DOMAIN t = 1..l BY <1>1
<1>22. Merged(s, sort) = [i \in 1..l |-> s[InOrder(j)[i]]] BY <1>21, KeysAtSort DEF j
<1>23. Merged(t, sort) = [i \in 1..l |-> t[InOrder(k)[i]]] BY <1>21, KeysAtSort DEF k
<1> QED BY <1>20, <1>22, <1>23 DEF s, t

FoundIn(source, list) == [i \in DOMAIN list |-> [list[i] EXCEPT !.source = source]]

LEMMA FoundInSource ==
  ASSUME NEW list \in SampleLists, NEW source \in {"codex", "pi"},
         NEW found, found = FoundIn(source, list)
  PROVE  /\ DOMAIN found = 1..Len(found) /\ Len(found) \in Nat
         /\ \A i \in DOMAIN found : IsResult(found[i]) /\ found[i].source = source
<1>1. list \in Seq(ToSet(list)) /\ DOMAIN list = 1..Len(list) /\ Len(list) \in Nat
  BY ListSamples
<1>2. DOMAIN found = 1..Len(list) /\ Len(found) = Len(list) BY <1>1 DEF FoundIn
<1>3. ASSUME NEW i \in DOMAIN found PROVE IsResult(found[i]) /\ found[i].source = source
  <2> DEFINE r == list[i]
  <2>1. r \in ToSet(list) BY <1>1, <1>2
  <2>2. /\ {"rank", "source", "native", "started", "ended", "score"} \subseteq DOMAIN r
        /\ {r.rank, r.started, r.ended, r.score, NameOrder[r.native]} \subseteq Int
    BY <2>1, ListSamples
  <2>3. found[i] = [r EXCEPT !.source = source] BY <1>1, <1>2 DEF FoundIn
  <2> HIDE DEF r
  <2>4. /\ found[i].source = source /\ found[i].rank = r.rank /\ found[i].native = r.native
        /\ found[i].started = r.started /\ found[i].ended = r.ended /\ found[i].score = r.score
    BY <2>2, <2>3
  <2>5. NameOrder[source] \in Int BY ListSamples
  <2> QED BY <2>2, <2>4, <2>5 DEF IsResult
<1> QED BY <1>1, <1>2, <1>3

LEMMA MergedEitherWay ==
  ASSUME NEW x \in SampleLists, NEW y \in SampleLists, NEW sort, NEW limit,
         NEW a, a = FoundIn("codex", x), NEW b, b = FoundIn("pi", y)
  PROVE  MergeResults(a \o b, sort, limit) = MergeResults(b \o a, sort, limit)
<1> DEFINE R == {a[i] : i \in DOMAIN a} \cup {b[i] : i \in DOMAIN b}
           m == Len(a)
           n == Len(b)
           da == Deduped(a)[m]
           db == Deduped(b)[n]
<1>1. /\ DOMAIN a = 1..m /\ m \in Nat /\ DOMAIN b = 1..n /\ n \in Nat
      /\ \A i \in DOMAIN a : IsResult(a[i]) /\ a[i].source = "codex"
      /\ \A i \in DOMAIN b : IsResult(b[i]) /\ b[i].source = "pi"
  BY FoundInSource
<1>2. \A r \in R : IsResult(r) BY <1>1
<1>3. a \in Seq(R) /\ b \in Seq(R)
  <2>1. a = [i \in 1..m |-> a[i]] /\ b = [i \in 1..n |-> b[i]] BY <1>1 DEF FoundIn
  <2>2. (\A i \in 1..m : a[i] \in R) /\ \A i \in 1..n : b[i] \in R BY <1>1
  <2> HIDE DEF R
  <2> QED BY <1>1, <2>1, <2>2
<1>4. \A i \in DOMAIN a, j \in DOMAIN b :
        StableKey(a[i]) # StableKey(b[j]) /\ StableKey(b[j]) # StableKey(a[i])
  BY <1>1, ListSamples DEF StableKey
<1> HIDE DEF R
<1>5. Deduped(a \o b)[Len(a \o b)] = da \o db BY <1>3, <1>4, JoinedDeduped
<1>6. Deduped(b \o a)[Len(b \o a)] = db \o da BY <1>3, <1>4, JoinedDeduped
<1>7. /\ da \in Seq(R) /\ OneEach(da)
      /\ \A i \in DOMAIN da : \E j \in DOMAIN a : da[i] = a[j]
  <2>1. m \in 0..Len(a) BY <1>1
  <2> QED BY <1>3, <2>1, DedupedKeeps
<1>8. /\ db \in Seq(R) /\ OneEach(db)
      /\ \A i \in DOMAIN db : \E j \in DOMAIN b : db[i] = b[j]
  <2>1. n \in 0..Len(b) BY <1>1
  <2> QED BY <1>3, <2>1, DedupedKeeps
<1>9. \A i \in DOMAIN da, j \in DOMAIN db : StableKey(da[i]) # StableKey(db[j])
  BY <1>4, <1>7, <1>8
<1> HIDE DEF da, db
<1>10. Merged(da \o db, sort) = Merged(db \o da, sort)
  BY <1>2, <1>7, <1>8, <1>9, EitherWay
<1>11. MergeResults(a \o b, sort, limit) = Ranked(Take(Merged(da \o db, sort), limit))
  BY <1>5 DEF MergeResults, Merged
<1>12. MergeResults(b \o a, sort, limit) = Ranked(Take(Merged(db \o da, sort), limit))
  BY <1>6 DEF MergeResults, Merged
<1> QED BY <1>10, <1>11, <1>12

(* MergeIgnoresOrder, for any lists: the keys tell any two sessions apart, *)
(* so that the places they are sorted to do not tell who was searched first.*)
THEOREM SpecMergeIgnoresOrder == LawsSpec => []MergeIgnoresOrder
<1>1. QuestionInv => MergeIgnoresOrder
  <2> SUFFICES ASSUME QuestionInv, reader.command = "merge"
               PROVE  MergeIgnoresOrder
    BY DEF MergeIgnoresOrder
  <2>1. reader.one \in SampleLists /\ reader.other \in SampleLists
    BY DEF QuestionInv, Scoped, Asked, AdapterQuestions
  <2>2. MergeResults(FoundIn("codex", reader.one) \o FoundIn("pi", reader.other),
                     reader.sort, reader.limit)
          = MergeResults(FoundIn("pi", reader.other) \o FoundIn("codex", reader.one),
                         reader.sort, reader.limit)
    BY <2>1, MergedEitherWay
  <2> QED BY <2>2, Zenon DEF MergeIgnoresOrder, FoundIn
<1> QED BY <1>1, SpecQuestion, PTL

-----------------------------------------------------------------------------
(* The candidates of a find, and what is made of them.                     *)

LEMMA MaxOfNumbers ==
  ASSUME NEW S, IsFiniteSet(S), S # {}, S \subseteq Int
  PROVE  Max(S) \in S /\ \A x \in S : x <= Max(S)
<1> DEFINE key == [x \in S |-> <<x>>]
           l == Cardinality(S)
           list == InOrder(key)
<1>1. \A x \in S : <<x>> \in Keys(1) /\ <<x>>[1] = x BY DEF Keys
<1>2. Listable(key, 1) BY <1>1 DEF Listable
<1>3. DOMAIN key = S /\ 1 \in Nat OBVIOUS
<1>4. /\ l \in Nat /\ list \in [1..l -> S]
      /\ \A x \in S : \E m \in 1..l : list[m] = x
      /\ \A m, k \in 1..l : KeyLess(key[list[m]], key[list[k]]) <=> m < k
  <2> HIDE DEF key
  <2> QED BY <1>2, <1>3, InOrderLists
<1>5. \A x, y \in S : KeyLess(key[x], key[y]) <=> x < y
  <2> SUFFICES ASSUME NEW x \in S, NEW y \in S PROVE KeyLess(<<x>>, <<y>>) <=> x < y OBVIOUS
  <2>1. DOMAIN <<x>> = {1} /\ <<x>>[1] = x /\ <<y>>[1] = y OBVIOUS
  <2>2. 1..(1 - 1) = {} OBVIOUS
  <2> QED BY <2>1, <2>2 DEF KeyLess
<1> HIDE DEF key, list, l
<1>6. l \in 1..l
  <2>1. PICK x \in S : TRUE OBVIOUS
  <2>2. PICK m \in 1..l : list[m] = x BY <1>4, <2>1
  <2> QED BY <1>4, <2>2
<1>7. list[l] \in S BY <1>4, <1>6
<1>8. \A x \in S : x <= list[l]
  <2> SUFFICES ASSUME NEW x \in S PROVE x <= list[l] OBVIOUS
  <2>1. PICK m \in 1..l : list[m] = x BY <1>4
  <2>2. ~(l < m) BY <1>4
  <2>3. ~(list[l] < x)
    <3>1. ~KeyLess(key[list[l]], key[list[m]]) BY <1>4, <1>6, <2>2
    <3> QED BY <1>5, <1>7, <2>1, <3>1
  <2>4. x \in Int /\ list[l] \in Int BY <1>7
  <2> QED BY <2>3, <2>4
<1>9. \A x, y \in S : x <= y /\ y <= x => x = y OBVIOUS
<1> QED BY <1>7, <1>8 DEF Max

LEMMA MinOfNumbers ==
  ASSUME NEW S, IsFiniteSet(S), S # {}, S \subseteq Int PROVE Min(S) \in S
<1> DEFINE f == [x \in S |-> -x]
           T == {-x : x \in S}
<1>1. T \subseteq Int /\ T # {}
  <2>1. PICK x \in S : x \in Int OBVIOUS
  <2>2. -x \in T BY <2>1
  <2>3. \A y \in T : y \in Int OBVIOUS
  <2> QED BY <2>2, <2>3
<1>2. f \in Surjection(S, T)
  <2>1. f \in [S -> T] /\ \A y \in T : \E x \in S : f[x] = y OBVIOUS
  <2> HIDE DEF f, T
  <2> QED BY <2>1 DEF Surjection
<1> HIDE DEF f
<1>3. IsFiniteSet(T) BY <1>2, FS_Surjection
<1> HIDE DEF T
<1>4. Max(T) \in T /\ \A y \in T : y <= Max(T) BY <1>1, <1>3, MaxOfNumbers
<1>5. PICK x \in S : Max(T) = -x BY <1>4 DEF T
<1>6. \A y \in S : x <= y
  <2> SUFFICES ASSUME NEW y \in S PROVE x <= y OBVIOUS
  <2>1. -y <= -x BY <1>4, <1>5 DEF T
  <2> QED BY <2>1
<1> QED BY <1>6 DEF Min

ListOf(seq, l, S) == seq \in [1..l -> S]

StartsAs(top, size, seq) == \A i \in 1..size : top[i] = seq[i]

LEMMA TakeFirst ==
  ASSUME NEW S, NEW l \in Nat, NEW seq, ListOf(seq, l, S), NEW bound \in Nat,
         NEW size, size = AtMost(l, bound), NEW top, top = Take(seq, bound)
  PROVE  /\ ListOf(top, size, S) /\ size \in Nat /\ size <= l /\ size <= bound /\ Len(top) = size
         /\ StartsAs(top, size, seq)
<1>1. seq \in Seq(S) /\ Len(seq) = l BY DEF ListOf
<1>2. size \in 0..l /\ size <= bound /\ size = IF bound < l THEN bound ELSE l BY DEF AtMost
<1>3. top = SubSeq(seq, 1, size) BY <1>1, <1>2 DEF Take
<1>4. SubSeq(seq, 1, size) \in Seq(S) /\ Len(SubSeq(seq, 1, size)) = size
      /\ \A i \in 1..size : SubSeq(seq, 1, size)[i] = seq[i]
  BY <1>1, <1>2, FirstElements
<1>5. SubSeq(seq, 1, size) \in [1..size -> S]
  <2>1. \A t \in Seq(S) : t \in [1..Len(t) -> S] OBVIOUS
  <2> QED BY <1>4, <2>1
<1> QED BY <1>2, <1>3, <1>4, <1>5 DEF ListOf, StartsAs

IsCandidate(c) ==
  {c.bm25, c.started, c.ended, NameOrder[c.source], NameOrder[c.native]} \subseteq Int

Candidates(cs, l) ==
  /\ l \in Nat /\ DOMAIN cs = 1..l
  /\ \A i \in 1..l : IsCandidate(cs[i])
  /\ \A i, j \in 1..l : GroupKey(cs[i]) = GroupKey(cs[j])
                          => cs[i].started = cs[j].started /\ cs[i].ended = cs[j].ended

(* What is ranked, by whatever query: all the parts of a score are numbers.*)
Rankable(cs, l, query, pathLike, day) ==
  /\ Candidates(cs, l) /\ day \in Int
  /\ \A i \in 1..l : /\ ScoreRow(cs[i], query, pathLike) \in Int
                     /\ TitleScore(cs[i].title, query, Restates(cs[i], query, pathLike)) \in Int
                     /\ MatchedTerms(cs[i].cwdWords, query) \in Int

NoQuery == <<>>

Plain == FALSE

LEMMA EmptyQuery ==
  ASSUME NEW cs, NEW l, Candidates(cs, l) PROVE Rankable(cs, l, NoQuery, Plain, 0)
<1>1. \A words : MatchedTerms(words, NoQuery) = 0
  <2>1. \A words : {i \in DOMAIN NoQuery : NoQuery[i].word \in words} = {} BY DEF NoQuery
  <2> QED BY <2>1, FS_EmptySet DEF MatchedTerms
<1>2. ASSUME NEW c, IsCandidate(c) PROVE ScoreRow(c, NoQuery, Plain) \in Int
  <2> DEFINE phrase == IF PhraseIn(c.tokens, Words(NoQuery)) THEN 8 ELSE 0
             message == IF c.kind = "message" THEN 4 ELSE 0
             user == IF c.kind = "message" /\ c.role = "user" THEN 2 ELSE 0
             matched == MatchedTerms(c.words, NoQuery)
             bm25 == c.bm25
  <2>1. ScoreRow(c, NoQuery, Plain) = 20 * (-bm25 + phrase + 0 + 2 * matched + message + user)
    BY DEF ScoreRow, Plain
  <2>2. phrase \in Int /\ message \in Int /\ user \in Int OBVIOUS
  <2>3. matched = 0 BY <1>1
  <2>4. bm25 \in Int BY <1>2 DEF IsCandidate
  <2> HIDE DEF phrase, message, user, matched, bm25
  <2>5. 20 * (-bm25 + phrase + 0 + 2 * matched + message + user) \in Int BY <2>2, <2>3, <2>4
  <2> QED BY <2>1, <2>5
<1>3. ASSUME NEW c PROVE TitleScore(c.title, NoQuery, Restates(c, NoQuery, Plain)) \in Int
  <2> DEFINE phrase == IF PhraseIn(c.title, Words(NoQuery)) THEN 600 ELSE 0
             matched == MatchedTerms(ToSet(c.title), NoQuery)
  <2>1. phrase \in Int OBVIOUS
  <2>2. matched = 0 BY <1>1
  <2>3. ~Restates(c, NoQuery, Plain) BY DEF Restates, Plain
  <2>4. TitleScore(c.title, NoQuery, Restates(c, NoQuery, Plain)) = 200 * matched + phrase
    BY <2>3, Zenon DEF TitleScore
  <2> HIDE DEF phrase, matched
  <2>5. 200 * matched + phrase \in Int BY <2>1, <2>2
  <2> QED BY <2>4, <2>5
<1>4. \A i \in 1..l : IsCandidate(cs[i]) BY DEF Candidates
<1>5. \A words : MatchedTerms(words, NoQuery) \in Int BY <1>1
<1>6. 0 \in Int OBVIOUS
<1> QED BY <1>2, <1>3, <1>4, <1>5, <1>6 DEF Rankable

LEMMA SessionScore ==
  ASSUME NEW cs, NEW l, NEW query, NEW pathLike, NEW day,
         Rankable(cs, l, query, pathLike, day), NEW at \in SUBSET (1..l), at # {}, NEW first \in 1..l
  PROVE  ScoreSession(cs, at, cs[first], query, pathLike, day) \in Int
<1>1. IsFiniteSet(at)
  <2>1. IsFiniteSet(1..l) BY FS_Interval DEF Rankable, Candidates
  <2> QED BY <2>1, FS_Subset
<1> DEFINE best == Max({ScoreRow(cs[i], query, pathLike) : i \in at})
           title == TitleScore(cs[first].title, query, Restates(cs[first], query, pathLike))
           recent == RecencyDecay(cs[first].ended, day)
           users == AtMost(CountOf(cs, at, "message", "user"), 3)
           profiles == AtMost(CountOf(cs, at, "session", None), 2)
           hits == AtMost(Cardinality(at), 6)
           cwd == MatchedTerms(cs[first].cwdWords, query)
<1>2. best \in Int
  <2> DEFINE S == {ScoreRow(cs[i], query, pathLike) : i \in at}
  <2>1. IsFiniteSet(S)
    <3> DEFINE f == [i \in at |-> ScoreRow(cs[i], query, pathLike)]
    <3>1. f \in Surjection(at, S) BY DEF Surjection
    <3> HIDE DEF f, S
    <3> QED BY <1>1, <3>1, FS_Surjection
  <2>2. S \subseteq Int /\ S # {} BY DEF Rankable
  <2> HIDE DEF S
  <2>3. Max(S) \in S BY <2>1, <2>2, MaxOfNumbers
  <2> QED BY <2>2, <2>3 DEF S
<1>3. title \in Int BY DEF Rankable
<1>4. recent \in Int
  <2>1. cs[first].ended \in Int /\ day \in Int BY DEF Rankable, Candidates, IsCandidate
  <2> QED BY <2>1 DEF RecencyDecay
<1>5. \A n \in Nat, b \in Nat : AtMost(n, b) \in Int BY DEF AtMost
<1>6. \A kind, role : CountOf(cs, at, kind, role) \in Nat
  <2> SUFFICES ASSUME NEW kind, NEW role PROVE CountOf(cs, at, kind, role) \in Nat OBVIOUS
  <2>1. IsFiniteSet({i \in at : cs[i].kind = kind /\ cs[i].role = role}) BY <1>1, FS_Subset
  <2> QED BY <2>1, FS_CardinalityType DEF CountOf
<1>7. Cardinality(at) \in Nat BY <1>1, FS_CardinalityType
<1>8. users \in Int /\ profiles \in Int /\ hits \in Int
  <2>1. CountOf(cs, at, "message", "user") \in Nat /\ CountOf(cs, at, "session", None) \in Nat BY <1>6
  <2>2. 3 \in Nat /\ 2 \in Nat /\ 6 \in Nat OBVIOUS
  <2> QED BY <1>5, <1>7, <2>1, <2>2
<1>9. ScoreSession(cs, at, cs[first], query, pathLike, day)
        = best + title + 360 * cwd + 80 * users + 40 * profiles
            + 30 * hits + recent
  BY Zenon DEF ScoreSession
<1>10. cwd \in Int BY DEF Rankable
<1> HIDE DEF best, title, recent, users, profiles, hits, cwd
<1>11. best + title + 360 * cwd + 80 * users + 40 * profiles + 30 * hits + recent \in Int
  BY <1>2, <1>3, <1>4, <1>8, <1>10
<1> QED BY <1>9, <1>11

(* The row that is shown is one of the session.                            *)
LEMMA ShownRow ==
  ASSUME NEW cs, NEW l, NEW query, NEW pathLike, NEW day,
         Rankable(cs, l, query, pathLike, day), NEW at \in SUBSET (1..l), at # {}
  PROVE  \E i \in at : DisplayRow(cs, at, query, pathLike) = cs[i]
<1> DEFINE key == [i \in at |-> <<IF cs[i].kind = "message" THEN 0 ELSE 1,
                                  -ScoreRow(cs[i], query, pathLike), i>>]
           keyed == {<<<<IF cs[i].kind = "message" THEN 0 ELSE 1,
                         -ScoreRow(cs[i], query, pathLike), i>>, i>> : i \in at}
           list == [n \in 1..Cardinality(at) |->
                      (CHOOSE k \in keyed : Cardinality({j \in keyed : KeyLess(j[1], k[1])}) = n - 1)[2]]
<1>1. DisplayRow(cs, at, query, pathLike) = cs[list[1]] BY DEF DisplayRow, Sorted
<1>2. keyed = Pairs(key) /\ DOMAIN key = at BY DEF Pairs
<1>3. \A i \in at : key[i] \in Keys(3) /\ key[i][3] = i
  <2> SUFFICES ASSUME NEW i \in at PROVE key[i] \in Keys(3) /\ key[i][3] = i OBVIOUS
  <2>1. ScoreRow(cs[i], query, pathLike) \in Int /\ i \in Int
    <3>1. i \in 1..l /\ l \in Nat /\ IsCandidate(cs[i]) BY DEF Rankable, Candidates
    <3> QED BY <3>1 DEF Rankable
  <2>2. (IF cs[i].kind = "message" THEN 0 ELSE 1) \in Int OBVIOUS
  <2>3. \A a, b, c \in Int : <<a, b, c>> \in Keys(3) /\ <<a, b, c>>[3] = c BY DEF Keys
  <2>4. -ScoreRow(cs[i], query, pathLike) \in Int BY <2>1
  <2> QED BY <2>1, <2>2, <2>3, <2>4
<1>4. IsFiniteSet(at)
  <2>1. IsFiniteSet(1..l) BY FS_Interval DEF Rankable, Candidates
  <2> QED BY <2>1, FS_Subset
<1> HIDE DEF key, keyed
<1>5. list = InOrder(key) BY <1>2 DEF InOrder, At, Place, Lesser
<1>6. Listable(key, 3)
  <2>1. key \in [at -> Keys(3)]
    <3>1. key = [i \in at |-> key[i]] BY DEF key
    <3> QED BY <1>3, <3>1
  <2> QED BY <1>2, <1>3, <1>4, <2>1 DEF Listable
<1>7. Cardinality(at) \in Nat /\ list \in [1..Cardinality(at) -> at]
  <2>1. 3 \in Nat OBVIOUS
  <2> HIDE DEF list
  <2> QED BY <1>2, <1>5, <1>6, <2>1, InOrderLists
<1>8. 1 \in 1..Cardinality(at)
  <2>1. Cardinality(at) # 0 BY <1>4, FS_EmptySet
  <2> QED BY <1>7, <2>1
<1> HIDE DEF list
<1>9. list[1] \in at BY <1>7, <1>8
<1> QED BY <1>1, <1>9

ResultAt(cs, among, h, query, pathLike, day) == FindResult(cs, among, h, query, pathLike, day)

(* A result tells its session by the place it stands at.                   *)
LEMMA ResultOf ==
  ASSUME NEW cs, NEW l, NEW query, NEW pathLike, NEW day,
         Rankable(cs, l, query, pathLike, day), NEW among \in SUBSET (1..l), NEW h \in among,
         NEW r, r = ResultAt(cs, among, h, query, pathLike, day)
  PROVE  /\ DOMAIN r = {"rank", "source", "native", "started", "ended", "hits", "kind", "seq", "score"}
         /\ r.rank = h /\ r.started = cs[h].started /\ r.ended = cs[h].ended
         /\ r.source = cs[h].source /\ r.native = cs[h].native /\ r.score \in Int
<1> DEFINE at == OfGroup(cs, among, h)
           score == ScoreSession(cs, at, cs[h], query, pathLike, day)
           shown == DisplayRow(cs, at, query, pathLike)
           hits == Cardinality(at)
<1>1. at \in SUBSET (1..l) /\ h \in at BY DEF OfGroup
<1>2. PICK i \in at : shown = cs[i] BY <1>1, ShownRow
<1>3. cs[i].source = cs[h].source /\ cs[i].native = cs[h].native
  <2>1. GroupKey(cs[i]) = GroupKey(cs[h]) BY <1>2 DEF OfGroup
  <2> QED BY <2>1 DEF GroupKey
<1>4. score \in Int BY <1>1, SessionScore
<1>5. r = ToFindResult(cs[h], shown, hits, h, score) BY DEF FindResult, ResultAt
<1> HIDE DEF at, score, shown, hits
<1>6. r = [rank |-> h, source |-> cs[i].source, native |-> cs[i].native,
           started |-> cs[h].started, ended |-> cs[h].ended, hits |-> hits,
           kind |-> cs[i].kind, seq |-> cs[i].seq, score |-> score]
  BY <1>2, <1>5, Zenon DEF ToFindResult
<1> QED BY <1>3, <1>4, <1>6

RankKey(r) == <<-r.score, -r.ended, r.rank>>

ResultsOf(cs, among, query, pathLike, day) ==
  {ResultAt(cs, among, h, query, pathLike, day) : h \in Heads(cs, among)}

RankedBy(results, limit) ==
  Ranked(Take(Sorted(results, LAMBDA r : <<-r.score, -r.ended, r.rank>>), limit))

LEMMA ResultsSorted ==
  ASSUME NEW results, NEW limit
  PROVE  RankedBy(results, limit) = Ranked(Take(InOrder([r \in results |-> RankKey(r)]), limit))
<1> DEFINE key == [r \in results |-> RankKey(r)]
           keyed == {<<<<-r.score, -r.ended, r.rank>>, r>> : r \in results}
           list == [n \in 1..Cardinality(results) |->
                      (CHOOSE k \in keyed : Cardinality({j \in keyed : KeyLess(j[1], k[1])}) = n - 1)[2]]
<1>1. RankedBy(results, limit) = Ranked(Take(list, limit)) BY DEF RankedBy, Sorted
<1>2. keyed = Pairs(key) /\ DOMAIN key = results BY DEF Pairs, RankKey
<1> HIDE DEF keyed, key
<1>3. list = InOrder(key) BY <1>2 DEF InOrder, At, Place, Lesser
<1> QED BY <1>1, <1>3 DEF key

RanksEach(ranked, n, cs, H) ==
  /\ DOMAIN ranked = 1..n
  /\ \A i \in 1..n : \E h \in H :
       /\ ranked[i].started = cs[h].started /\ ranked[i].ended = cs[h].ended
       /\ ranked[i].source = cs[h].source /\ ranked[i].native = cs[h].native
       /\ ranked[i].score \in Int /\ ranked[i].rank \in Int
       /\ {"started", "ended", "native"} \subseteq DOMAIN ranked[i]
  /\ \A h \in H : \E i \in 1..n :
       /\ ranked[i].started = cs[h].started /\ ranked[i].ended = cs[h].ended
       /\ ranked[i].native = cs[h].native

(* The ranking lists the results of all sessions, and cuts the list short. *)
ListsResults(list, cs, among, query, pathLike, limit, day) ==
  LET n == Cardinality(Heads(cs, among))
      results == ResultsOf(cs, among, query, pathLike, day)
  IN /\ n \in Nat /\ ListOf(list, n, results)
     /\ \A r \in results : \E m \in 1..n : list[m] = r
     /\ RankCandidates(cs, among, query, pathLike, limit, day) = Ranked(Take(list, limit))

LEMMA RankingLists ==
  ASSUME NEW cs, NEW l, NEW query, NEW pathLike, NEW day,
         Rankable(cs, l, query, pathLike, day), NEW among \in SUBSET (1..l), NEW limit
  PROVE  \E list : ListsResults(list, cs, among, query, pathLike, limit, day)
<1> DEFINE H == Heads(cs, among)
           n == Cardinality(H)
           results == ResultsOf(cs, among, query, pathLike, day)
           key == [r \in results |-> RankKey(r)]
           list == InOrder(key)
           f == [h \in H |-> ResultAt(cs, among, h, query, pathLike, day)]
<1>1. H \in SUBSET among /\ l \in Nat BY DEF Heads, Rankable, Candidates
<1>2. IsFiniteSet(H)
  <2>1. IsFiniteSet(1..l) BY <1>1, FS_Interval
  <2> QED BY <1>1, <2>1, FS_Subset
<1>3. \A h \in H : /\ f[h] \in results /\ f[h].rank = h
                   /\ f[h].ended = cs[h].ended /\ f[h].score \in Int
  <2> SUFFICES ASSUME NEW h \in H, NEW r, r = ResultAt(cs, among, h, query, pathLike, day)
               PROVE  /\ r \in results /\ r.rank = h
                      /\ r.ended = cs[h].ended /\ r.score \in Int
    OBVIOUS
  <2>1. r \in results BY DEF ResultsOf
  <2> HIDE DEF results, H
  <2>2. h \in among BY <1>1
  <2> QED BY <2>1, <2>2, ResultOf
<1>4. \A r \in results : \E h \in H : r = f[h] BY DEF ResultsOf
<1>6. RankCandidates(cs, among, query, pathLike, limit, day) = RankedBy(results, limit)
  BY DEF RankCandidates, RankedBy, ResultsOf, ResultAt
<1> HIDE DEF results, H, f
<1>7. f \in Bijection(H, results)
  <2>1. f \in [H -> results]
    <3>1. f = [h \in H |-> f[h]] BY DEF f
    <3> QED BY <1>3, <3>1
  <2>2. \A x, y \in H : f[x] = f[y] => x = y BY <1>3
  <2>3. \A r \in results : \E h \in H : f[h] = r BY <1>4
  <2> QED BY <2>1, <2>2, <2>3 DEF Bijection, Injection, IsInjective, Surjection
<1>8. IsFiniteSet(results) /\ Cardinality(results) = n
  <2>1. ExistsBijection(H, results) BY <1>7 DEF ExistsBijection
  <2> QED BY <1>2, <2>1, FS_Bijection
<1>9. \A r \in results : RankKey(r) \in Keys(3) /\ RankKey(r)[3] = r.rank
  <2> SUFFICES ASSUME NEW h \in H PROVE RankKey(f[h]) \in Keys(3) /\ RankKey(f[h])[3] = f[h].rank
    BY <1>4
  <2>1. f[h].score \in Int /\ f[h].ended \in Int /\ f[h].rank \in Int
    <3>1. h \in 1..l /\ h \in Int BY <1>1
    <3>2. Candidates(cs, l) BY DEF Rankable
    <3>3. cs[h].ended \in Int BY <3>1, <3>2 DEF Candidates, IsCandidate
    <3> QED BY <1>3, <3>1, <3>3
  <2>2. \A a, b, c \in Int : <<-a, -b, c>> \in Keys(3) /\ <<-a, -b, c>>[3] = c BY DEF Keys
  <2> QED BY <2>1, <2>2 DEF RankKey
<1>10. Listable(key, 3)
  <2>1. key \in [results -> Keys(3)] BY <1>9
  <2>2. ASSUME NEW x \in results, NEW y \in results, key[x] = key[y] PROVE x = y
    <3>1. x.rank = y.rank BY <1>9, <2>2
    <3> QED BY <1>3, <1>4, <3>1
  <2> QED BY <1>8, <2>1, <2>2 DEF Listable
<1>11. DOMAIN key = results /\ n = Cardinality(results) BY <1>8
<1> HIDE DEF key
<1>12. /\ n \in Nat /\ list \in [1..n -> results]
       /\ \A r \in results : \E m \in 1..n : list[m] = r
  <2>1. 3 \in Nat OBVIOUS
  <2> QED BY <1>10, <1>11, <2>1, InOrderLists
<1>13. RankCandidates(cs, among, query, pathLike, limit, day) = Ranked(Take(list, limit))
  BY <1>6, ResultsSorted DEF key
<1> HIDE DEF list
<1> QED BY <1>12, <1>13 DEF ListsResults, ListOf, H, results

(* Where the limit leaves room for all, every session is ranked once.      *)
LEMMA RanksAll ==
  ASSUME NEW cs, NEW l, NEW query, NEW pathLike, NEW day,
         Rankable(cs, l, query, pathLike, day), NEW among \in SUBSET (1..l), NEW limit \in Nat,
         NEW n, n = Cardinality(Heads(cs, among)), n <= limit,
         NEW ranked, ranked = RankCandidates(cs, among, query, pathLike, limit, day)
  PROVE  RanksEach(ranked, n, cs, Heads(cs, among))
<1> DEFINE H == Heads(cs, among)
           results == ResultsOf(cs, among, query, pathLike, day)
           f == [h \in H |-> ResultAt(cs, among, h, query, pathLike, day)]
<1>1. H \in SUBSET among /\ l \in Nat BY DEF Heads, Rankable, Candidates
<1>2. PICK list : ListsResults(list, cs, among, query, pathLike, limit, day) BY RankingLists
<1>3. \A h \in H : /\ f[h] \in results /\ f[h].rank = h
                   /\ f[h].started = cs[h].started /\ f[h].ended = cs[h].ended
                   /\ f[h].source = cs[h].source /\ f[h].native = cs[h].native
                   /\ f[h].score \in Int
                   /\ DOMAIN f[h] = {"rank", "source", "native", "started", "ended", "hits",
                                     "kind", "seq", "score"}
  <2> SUFFICES ASSUME NEW h \in H, NEW r, r = ResultAt(cs, among, h, query, pathLike, day)
               PROVE  /\ r \in results /\ r.rank = h
                      /\ r.started = cs[h].started /\ r.ended = cs[h].ended
                      /\ r.source = cs[h].source /\ r.native = cs[h].native
                      /\ r.score \in Int
                      /\ DOMAIN r = {"rank", "source", "native", "started", "ended", "hits",
                                     "kind", "seq", "score"}
    OBVIOUS
  <2>1. r \in results BY DEF ResultsOf
  <2> HIDE DEF results, H
  <2>2. h \in among BY <1>1
  <2> QED BY <2>1, <2>2, ResultOf
<1>4. \A r \in results : \E h \in H : r = f[h] BY DEF ResultsOf
<1>5. n = Cardinality(H) OBVIOUS
<1> HIDE DEF results, H, f
<1>12. /\ n \in Nat /\ ListOf(list, n, results)
       /\ \A r \in results : \E m \in 1..n : list[m] = r
       /\ ranked = Ranked(Take(list, limit))
  BY <1>2, <1>5 DEF ListsResults, H, results
<1> DEFINE taken == Take(list, limit)
<1>14. taken \in [1..n -> results] /\ \A i \in 1..n : taken[i] = list[i]
  <2>1. n = AtMost(n, limit) /\ taken = Take(list, limit) BY <1>12 DEF AtMost
  <2> HIDE DEF taken
  <2>2. n \in Nat /\ ListOf(list, n, results) BY <1>12
  <2>4. taken = Take(list, limit) BY <2>1
  <2>5. n \in Nat BY <2>2
  <2>6. limit \in Nat OBVIOUS
  <2>7. ListOf(list, n, results) BY <2>2
  <2>8. n = AtMost(n, limit) BY <2>1
  <2>9. ListOf(taken, n, results) BY <2>4, <2>5, <2>6, <2>7, <2>8, TakeFirst
  <2>10. StartsAs(taken, n, list) BY <2>4, <2>5, <2>6, <2>7, <2>8, TakeFirst
  <2> QED BY <2>9, <2>10 DEF ListOf, StartsAs
<1> HIDE DEF taken
<1>15. ranked = [i \in 1..n |-> [taken[i] EXCEPT !.rank = i]]
  BY <1>12, <1>14 DEF Ranked, taken
<1>16. \A i \in 1..n : \E h \in H : taken[i] = f[h] BY <1>4, <1>14
<1>17. \A i \in 1..n, h \in H : taken[i] = f[h] =>
         /\ ranked[i].started = cs[h].started /\ ranked[i].ended = cs[h].ended
         /\ ranked[i].source = cs[h].source /\ ranked[i].native = cs[h].native
         /\ ranked[i].score \in Int /\ ranked[i].rank \in Int
         /\ {"started", "ended", "native"} \subseteq DOMAIN ranked[i]
  <2> SUFFICES ASSUME NEW i \in 1..n, NEW h \in H, NEW r, r = taken[i], r = f[h]
               PROVE  /\ ranked[i].started = cs[h].started /\ ranked[i].ended = cs[h].ended
                      /\ ranked[i].source = cs[h].source /\ ranked[i].native = cs[h].native
                      /\ ranked[i].score \in Int /\ ranked[i].rank \in Int
                      /\ {"started", "ended", "native"} \subseteq DOMAIN ranked[i]
    OBVIOUS
  <2>1. ranked[i] = [r EXCEPT !.rank = i] BY <1>15
  <2>2. /\ r.started = cs[h].started /\ r.ended = cs[h].ended
        /\ r.source = cs[h].source /\ r.native = cs[h].native /\ r.score \in Int
        /\ DOMAIN r = {"rank", "source", "native", "started", "ended", "hits", "kind", "seq", "score"}
    BY <1>3
  <2>3. i \in Int BY <1>12
  <2> QED BY <2>1, <2>2, <2>3
<1>18. DOMAIN ranked = 1..n BY <1>15
<1>19. \A h \in H : \E i \in 1..n : taken[i] = f[h] BY <1>3, <1>12, <1>14
<1>20. \A i \in 1..n : \E h \in H :
         /\ ranked[i].started = cs[h].started /\ ranked[i].ended = cs[h].ended
         /\ ranked[i].source = cs[h].source /\ ranked[i].native = cs[h].native
         /\ ranked[i].score \in Int /\ ranked[i].rank \in Int
         /\ {"started", "ended", "native"} \subseteq DOMAIN ranked[i]
  BY <1>16, <1>17
<1>21. \A h \in H : \E i \in 1..n :
         /\ ranked[i].started = cs[h].started /\ ranked[i].ended = cs[h].ended
         /\ ranked[i].native = cs[h].native
  BY <1>17, <1>19
<1> QED BY <1>18, <1>20, <1>21 DEF H, RanksEach

(* The newest sessions.                                                    *)
NewestKey(cs, sort, h) == <<-TimeOf(cs[h], sort), h>>

LEMMA NewestSorted ==
  ASSUME NEW cs, NEW sort, NEW n, NEW H, H = Heads(cs, DOMAIN cs)
  PROVE  NewestSessions(cs, sort, n)
           = ToSet(Take(InOrder([h \in H |-> NewestKey(cs, sort, h)]), n))
<1> DEFINE key == [h \in H |-> NewestKey(cs, sort, h)]
           keyed == {<<<<-TimeOf(cs[h], sort), h>>, h>> : h \in H}
           list == [m \in 1..Cardinality(H) |->
                      (CHOOSE k \in keyed : Cardinality({j \in keyed : KeyLess(j[1], k[1])}) = m - 1)[2]]
<1>1. NewestSessions(cs, sort, n) = ToSet(Take(list, n)) BY DEF NewestSessions, Sorted
<1>2. keyed = Pairs(key) /\ DOMAIN key = H BY DEF Pairs, NewestKey
<1> HIDE DEF keyed, key
<1>3. list = InOrder(key) BY <1>2 DEF InOrder, At, Place, Lesser
<1> QED BY <1>1, <1>3 DEF key

LEMMA FirstOfKeys ==
  ASSUME NEW n \in Nat, NEW a \in Keys(n), NEW b \in Keys(n), n > 0, KeyLess(a, b)
  PROVE  a[1] <= b[1]
<1>1. DOMAIN a = 1..n /\ a[1] \in Int /\ b[1] \in Int BY DEF Keys
<1>2. PICK i \in 1..n : a[i] < b[i] /\ \A j \in 1..(i - 1) : a[j] = b[j] BY <1>1 DEF KeyLess
<1>3. CASE i = 1 BY <1>1, <1>2, <1>3
<1>4. CASE i # 1
  <2>1. 1 \in 1..(i - 1) BY <1>4
  <2> QED BY <1>1, <1>2, <2>1
<1> QED BY <1>3, <1>4

LEMMA AreNewest ==
  ASSUME NEW cs, NEW l, Candidates(cs, l), NEW sort, NEW n \in Nat,
         NEW H, H = Heads(cs, DOMAIN cs), NEW S, S = NewestSessions(cs, sort, n)
  PROVE  /\ S \subseteq H /\ H \subseteq 1..l /\ IsFiniteSet(H)
         /\ Cardinality(S) = AtMost(Cardinality(H), n)
         /\ \A g \in S, h \in H \ S : TimeOf(cs[h], sort) <= TimeOf(cs[g], sort)
<1> DEFINE N == Cardinality(H)
           key == [h \in H |-> NewestKey(cs, sort, h)]
           list == InOrder(key)
           taken == Take(list, n)
           k == AtMost(N, n)
<1>1. H \subseteq 1..l /\ l \in Nat BY DEF Heads, Candidates
<1>2. IsFiniteSet(H)
  <2>1. IsFiniteSet(1..l) BY <1>1, FS_Interval
  <2> QED BY <1>1, <2>1, FS_Subset
<1>3. \A h \in H : TimeOf(cs[h], sort) \in Int /\ h \in Int
  BY <1>1 DEF Candidates, IsCandidate, TimeOf
<1>4. \A h \in H : key[h] \in Keys(2) /\ key[h][1] = -TimeOf(cs[h], sort) /\ key[h][2] = h
  <2>1. \A a, b \in Int : <<-a, b>> \in Keys(2) /\ <<-a, b>>[1] = -a /\ <<-a, b>>[2] = b BY DEF Keys
  <2> QED BY <1>3, <2>1 DEF NewestKey
<1>5. DOMAIN key = H OBVIOUS
<1>6. Listable(key, 2)
  <2>1. key \in [H -> Keys(2)]
    <3>1. key = [h \in H |-> key[h]] BY DEF key
    <3> HIDE DEF key
    <3> QED BY <1>4, <3>1
  <2> HIDE DEF key
  <2> QED BY <1>2, <1>4, <1>5, <2>1 DEF Listable
<1>7. S = ToSet(taken) BY NewestSorted
<1> HIDE DEF key
<1>8. /\ N \in Nat /\ list \in [1..N -> H]
      /\ \A h \in H : \E m \in 1..N : list[m] = h
      /\ \A i, j \in 1..N : KeyLess(key[list[i]], key[list[j]]) <=> i < j
      /\ \A i, j \in 1..N : list[i] = list[j] => i = j
  <2>1. 2 \in Nat OBVIOUS
  <2> QED BY <1>5, <1>6, <2>1, InOrderLists
<1> HIDE DEF list, N
<1>9. /\ taken \in [1..k -> H] /\ k \in Nat /\ k <= N
      /\ \A i \in 1..k : taken[i] = list[i]
  <2>1. k = AtMost(N, n) /\ taken = Take(list, n) OBVIOUS
  <2> HIDE DEF k, taken
  <2>2. N \in Nat /\ ListOf(list, N, H) BY <1>8 DEF ListOf
  <2>3. ListOf(taken, k, H) /\ k \in Nat /\ k <= N /\ StartsAs(taken, k, list)
    BY <2>1, <2>2, TakeFirst
  <2> QED BY <2>3 DEF ListOf, StartsAs
<1> HIDE DEF taken, k
<1>10. S = {taken[i] : i \in 1..k} BY <1>7, <1>9 DEF ToSet
<1>11. S \subseteq H BY <1>9, <1>10
<1>12. Cardinality(S) = k
  <2>1. taken \in Bijection(1..k, S)
    <3>1. taken \in [1..k -> S] BY <1>9, <1>10
    <3>2. \A i, j \in 1..k : taken[i] = taken[j] => i = j BY <1>8, <1>9
    <3> QED BY <1>10, <3>1, <3>2 DEF Bijection, Injection, IsInjective, Surjection
  <2>2. IsFiniteSet(1..k) /\ Cardinality(1..k) = k BY <1>9, FS_Interval
  <2> HIDE DEF k
  <2>3. ExistsBijection(1..k, S) BY <2>1 DEF ExistsBijection
  <2> QED BY <2>2, <2>3, FS_Bijection
<1>13. ASSUME NEW g \in S, NEW h \in H \ S PROVE TimeOf(cs[h], sort) <= TimeOf(cs[g], sort)
  <2>1. PICK i \in 1..k : g = taken[i] BY <1>10
  <2>2. PICK m \in 1..N : list[m] = h BY <1>8
  <2>3. i \in 1..N /\ list[i] = g BY <1>8, <1>9, <2>1
  <2>4. m \notin 1..k BY <1>9, <1>10, <2>2
  <2>5. i < m BY <1>8, <1>9, <2>1, <2>2, <2>4
  <2>6. KeyLess(key[g], key[h]) BY <1>8, <2>2, <2>3, <2>5
  <2>7. key[g][1] <= key[h][1]
    <3>1. 2 \in Nat /\ 2 > 0 OBVIOUS
    <3>2. key[g] \in Keys(2) /\ key[h] \in Keys(2) BY <1>4, <1>11
    <3> QED BY <2>6, <3>1, <3>2, FirstOfKeys
  <2>8. g \in H /\ h \in H BY <1>11
  <2>9. TimeOf(cs[g], sort) \in Int /\ TimeOf(cs[h], sort) \in Int BY <1>3, <2>8
  <2>10. -TimeOf(cs[g], sort) <= -TimeOf(cs[h], sort) BY <1>4, <2>7, <2>8
  <2> QED BY <2>9, <2>10
<1> QED BY <1>1, <1>2, <1>11, <1>12, <1>13 DEF k, N

(* What is ranked of the newest sessions starts with them.                 *)
LEMMA NarrowedHeads ==
  ASSUME NEW cs, NEW l, Candidates(cs, l), NEW S, S \subseteq Heads(cs, DOMAIN cs),
         NEW narrowed, narrowed = UNION {OfGroup(cs, DOMAIN cs, h) : h \in S}
  PROVE  narrowed \subseteq 1..l /\ Heads(cs, narrowed) = S
<1>1. DOMAIN cs = 1..l /\ l \in Nat BY DEF Candidates
<1>2. narrowed = {i \in 1..l : \E h \in S : GroupKey(cs[i]) = GroupKey(cs[h])}
  BY <1>1 DEF OfGroup
<1>3. \A h \in S : h \in 1..l /\ \A j \in 1..l : j < h => GroupKey(cs[j]) # GroupKey(cs[h])
  BY <1>1 DEF Heads
<1>4. ASSUME NEW h \in S PROVE h \in Heads(cs, narrowed) BY <1>2, <1>3 DEF Heads
<1>5. ASSUME NEW i \in Heads(cs, narrowed) PROVE i \in S
  <2>1. i \in narrowed /\ \A j \in narrowed : j < i => GroupKey(cs[j]) # GroupKey(cs[i])
    BY DEF Heads
  <2>2. PICK h \in S : GroupKey(cs[i]) = GroupKey(cs[h]) BY <1>2, <2>1
  <2>3. h \in narrowed /\ i \in 1..l /\ h \in 1..l BY <1>2, <1>3, <2>1
  <2>4. ~(h < i) /\ ~(i < h) BY <1>3, <2>1, <2>2, <2>3
  <2> QED BY <2>3, <2>4
<1> QED BY <1>2, <1>4, <1>5

ByTime(seq, sort) ==
  SortByKey(seq, LAMBDA r : <<-TimeOf(r, sort), -r.score>> \o StableKey(r))

LEMMA KeysByTime ==
  ASSUME NEW seq, NEW sort, sort # "relevance"
  PROVE  ByTime(seq, sort) = [n \in DOMAIN seq |-> seq[InOrder(KeysAt(seq, sort))[n]]]
<1> DEFINE key == KeysAt(seq, sort)
           keyed == {<<Append(<<-TimeOf(seq[i], sort), -seq[i].score>> \o StableKey(seq[i]), i), i>> :
                       i \in DOMAIN seq}
           at == [n \in 1..Cardinality(DOMAIN seq) |->
                    (CHOOSE k \in keyed : Cardinality({j \in keyed : KeyLess(j[1], k[1])}) = n - 1)[2]]
<1>1. ByTime(seq, sort) = [n \in DOMAIN seq |-> seq[at[n]]] BY DEF ByTime, SortByKey, Sorted
<1>2. keyed = Pairs(key) /\ DOMAIN key = DOMAIN seq BY DEF Pairs, KeysAt, MergeKey
<1> HIDE DEF keyed, key
<1>3. at = InOrder(key) BY <1>2 DEF InOrder, At, Place, Lesser
<1> QED BY <1>1, <1>3 DEF key

InTimeOrder(sorted, seq, l, sort) ==
  \E at \in [1..l -> 1..l] :
    /\ sorted = [i \in 1..l |-> seq[at[i]]]
    /\ \A j \in 1..l : \E i \in 1..l : at[i] = j
    /\ \A i, j \in 1..l : i < j => TimeOf(seq[at[j]], sort) <= TimeOf(seq[at[i]], sort)

(* Sorted by time, no result is older than one that comes later.           *)
LEMMA SortedByTime ==
  ASSUME NEW l \in Nat, NEW seq, DOMAIN seq = 1..l, \A i \in 1..l : IsResult(seq[i]),
         NEW sort, sort # "relevance", NEW sorted, sorted = ByTime(seq, sort)
  PROVE  InTimeOrder(sorted, seq, l, sort)
<1> DEFINE key == KeysAt(seq, sort)
           at == InOrder(key)
<1>1. \A i \in 1..l : /\ MergeKey(seq[i], sort) \in Keys(4)
                      /\ MergeKey(seq[i], sort)[1] = -TimeOf(seq[i], sort)
                      /\ TimeOf(seq[i], sort) \in Int
  <2> SUFFICES ASSUME NEW r, IsResult(r)
               PROVE  /\ MergeKey(r, sort) \in Keys(4) /\ TimeOf(r, sort) \in Int
                      /\ MergeKey(r, sort)[1] = -TimeOf(r, sort)
    OBVIOUS
  <2>1. TimeOf(r, sort) \in Int /\ r.score \in Int BY DEF IsResult, TimeOf
  <2> DEFINE a == <<-TimeOf(r, sort), -r.score>>
             b == StableKey(r)
  <2>2. MergeKey(r, sort) = a \o b BY DEF MergeKey
  <2>3. a \in Seq(Int) /\ Len(a) = 2 /\ a[1] = -TimeOf(r, sort) BY <2>1
  <2>4. b \in Seq(Int) BY DEF StableKey, IsResult
  <2>5. \A x, y \in Seq(Int) : \A k \in 1..Len(x) : (x \o y)[k] = x[k] OBVIOUS
  <2> HIDE DEF a, b
  <2>6. (a \o b)[1] = a[1]
    <3>1. 1 \in 1..Len(a) BY <2>3
    <3> QED BY <2>3, <2>4, <2>5, <3>1
  <2> QED BY <2>1, <2>2, <2>3, <2>6, MergeKeys
<1>2. DOMAIN key = 1..l /\ \A i \in 1..l : key[i] = Append(MergeKey(seq[i], sort), i)
  BY DEF KeysAt
<1> HIDE DEF key
<1>3. \A i \in 1..l : key[i] \in Keys(5) /\ key[i][5] = i /\ key[i][1] = -TimeOf(seq[i], sort)
  <2>1. \A a \in Keys(4), i \in Int : /\ Append(a, i) \in Keys(5) /\ Append(a, i)[5] = i
                                      /\ Append(a, i)[1] = a[1]
    <3> SUFFICES ASSUME NEW a \in Keys(4), NEW i \in Int
                 PROVE  /\ Append(a, i) \in Keys(5) /\ Append(a, i)[5] = i
                        /\ Append(a, i)[1] = a[1]
      OBVIOUS
    <3>1. /\ Append(a, i) \in Keys(4 + 1) /\ \A x \in 1..4 : Append(a, i)[x] = a[x]
          /\ Append(a, i)[4 + 1] = i
      <4>1. 4 \in Nat OBVIOUS
      <4> QED BY <4>1, Appended
    <3>2. 4 + 1 = 5 /\ 1 \in 1..4 OBVIOUS
    <3> QED BY <3>1, <3>2
  <2> SUFFICES ASSUME NEW i \in 1..l, NEW a, a = MergeKey(seq[i], sort)
               PROVE  key[i] \in Keys(5) /\ key[i][5] = i /\ key[i][1] = -TimeOf(seq[i], sort)
    OBVIOUS
  <2>2. a \in Keys(4) /\ a[1] = -TimeOf(seq[i], sort) /\ i \in Int BY <1>1
  <2>3. key[i] = Append(a, i) BY <1>2
  <2>4. Append(a, i) \in Keys(5) /\ Append(a, i)[5] = i /\ Append(a, i)[1] = a[1] BY <2>1, <2>2
  <2> QED BY <2>2, <2>3, <2>4
<1>4. key \in [1..l -> Keys(5)]
  <2>1. key = [i \in 1..l |-> key[i]] BY <1>2 DEF key, KeysAt
  <2> QED BY <1>3, <2>1
<1>5. Listable(key, 5)
  <2>1. IsFiniteSet(1..l) BY FS_Interval
  <2>2. \A x, y \in 1..l : key[x] = key[y] => x = y BY <1>3
  <2> QED BY <1>2, <1>4, <2>1, <2>2 DEF Listable
<1>6. /\ at \in [1..l -> 1..l]
      /\ \A j \in 1..l : \E i \in 1..l : at[i] = j
      /\ \A i, j \in 1..l : KeyLess(key[at[i]], key[at[j]]) <=> i < j
  <2>1. 5 \in Nat OBVIOUS
  <2>2. l = Cardinality(DOMAIN key)
    <3>1. Cardinality(1..l) = l BY FS_Interval
    <3> QED BY <1>2, <3>1
  <2> HIDE DEF at
  <2>3. at = InOrder(key) BY DEF at
  <2>4. /\ at \in [1..l -> DOMAIN key]
        /\ \A j \in DOMAIN key : \E i \in 1..l : at[i] = j
        /\ \A i, j \in 1..l : KeyLess(key[at[i]], key[at[j]]) <=> i < j
    BY <1>5, <2>1, <2>2, <2>3, InOrderLists
  <2> QED BY <1>2, <2>4
<1>7. sorted = [i \in 1..l |-> seq[at[i]]] BY KeysByTime DEF key
<1> HIDE DEF at
<1>8. ASSUME NEW i \in 1..l, NEW j \in 1..l, i < j
      PROVE  TimeOf(seq[at[j]], sort) <= TimeOf(seq[at[i]], sort)
  <2>1. at[i] \in 1..l /\ at[j] \in 1..l BY <1>6
  <2>2. KeyLess(key[at[i]], key[at[j]]) BY <1>6, <1>8
  <2>3. key[at[i]][1] <= key[at[j]][1]
    <3>1. 5 \in Nat /\ 5 > 0 OBVIOUS
    <3>2. key[at[i]] \in Keys(5) /\ key[at[j]] \in Keys(5) BY <1>3, <2>1
    <3> QED BY <2>2, <3>1, <3>2, FirstOfKeys
  <2>4. -TimeOf(seq[at[i]], sort) <= -TimeOf(seq[at[j]], sort) BY <1>3, <2>1, <2>3
  <2>5. TimeOf(seq[at[i]], sort) \in Int /\ TimeOf(seq[at[j]], sort) \in Int BY <1>1, <2>1
  <2> QED BY <2>4, <2>5
<1> QED BY <1>6, <1>7, <1>8 DEF InTimeOrder

LEMMA HeadOf ==
  ASSUME NEW cs, NEW l, Candidates(cs, l), NEW j \in 1..l
  PROVE  \E h \in Heads(cs, DOMAIN cs) : GroupKey(cs[h]) = GroupKey(cs[j])
<1> DEFINE T == {i \in 1..l : GroupKey(cs[i]) = GroupKey(cs[j])}
<1>1. l \in Nat /\ DOMAIN cs = 1..l BY DEF Candidates
<1>2. T \subseteq Nat /\ T # {} BY <1>1
<1>3. PICK h \in T : \A i \in T : ~(<<i, h>> \in OpToRel(<, Nat))
  BY <1>2, WFMin, NatLessThanWellFounded
<1>4. \A i \in T : ~(i < h) BY <1>2, <1>3 DEF OpToRel
<1> QED BY <1>1, <1>4 DEF Heads

LEMMA MoreThanAsked ==
  ASSUME NEW limit \in Nat, NEW n, n = Max({RerankMultiplier * limit, limit})
  PROVE  n \in Nat /\ limit <= n
<1> DEFINE S == {RerankMultiplier * limit, limit}
<1>1. RerankMultiplier * limit \in Int
  <2>1. RerankMultiplier \in Nat BY RetrievalLimits
  <2> QED BY <2>1
<1>2. S \subseteq Int /\ S # {} /\ limit \in S BY <1>1
<1>3. IsFiniteSet(S)
  <2>1. S = {limit} \cup {RerankMultiplier * limit} OBVIOUS
  <2> HIDE DEF S
  <2>2. IsFiniteSet({limit}) BY FS_Singleton
  <2> QED BY <2>1, <2>2, FS_AddElement
<1> HIDE DEF S
<1>4. Max(S) \in S /\ \A x \in S : x <= Max(S) BY <1>2, <1>3, MaxOfNumbers
<1>5. n = Max(S) BY DEF S
<1>6. Max(S) \in Int /\ limit <= Max(S) BY <1>2, <1>4
<1>7. \A x \in Int : limit <= x => x \in Nat OBVIOUS
<1> QED BY <1>5, <1>6, <1>7

(* Every session is shown, if the limit leaves room for all.               *)
ListsAll(shown, cs, limit) ==
  LET H == Heads(cs, DOMAIN cs) IN
  Cardinality(H) <= limit =>
    \A h \in H : \E i \in DOMAIN shown : shown[i].native = cs[h].native

ShowsNewest(shown, cs, sort, limit) ==
  /\ Len(shown) = AtMost(Cardinality(Heads(cs, DOMAIN cs)), limit)
  /\ \A i \in DOMAIN shown, j \in DOMAIN cs :
       (\A k \in DOMAIN shown : shown[k].native # cs[j].native)
         => TimeOf(cs[j], sort) <= TimeOf(shown[i], sort)

(* Sorted by time, the newest sessions are shown.                          *)
LEMMA NewestShown ==
  ASSUME NEW cs, NEW l, NEW query, NEW pathLike, NEW day,
         Rankable(cs, l, query, pathLike, day), NEW sort, sort # "relevance", NEW limit \in Nat,
         NEW shown, shown = RankForSort(cs, query, pathLike, sort, limit, day)
  PROVE  ListsAll(shown, cs, limit) /\ ShowsNewest(shown, cs, sort, limit)
<1>1. Candidates(cs, l) BY DEF Rankable
<1> DEFINE n == Max({RerankMultiplier * limit, limit})
           H == Heads(cs, DOMAIN cs)
           S == NewestSessions(cs, sort, n)
           narrowed == UNION {OfGroup(cs, DOMAIN cs, h) : h \in S}
           ranked == RankCandidates(cs, narrowed, query, pathLike, n, day)
           sorted == ByTime(ranked, sort)
           taken == Take(sorted, limit)
           N == Cardinality(S)
           K == AtMost(N, limit)
<1>2. shown = Ranked(taken) BY DEF RankForSort, ByTime
<1>3. n \in Nat /\ limit <= n BY MoreThanAsked
<1> HIDE DEF n
<1>4. /\ S \subseteq H /\ H \subseteq 1..l /\ IsFiniteSet(H)
      /\ N = AtMost(Cardinality(H), n)
      /\ \A g \in S, h \in H \ S : TimeOf(cs[h], sort) <= TimeOf(cs[g], sort)
  BY <1>1, <1>3, AreNewest
<1>5. Cardinality(H) \in Nat BY <1>4, FS_CardinalityType
<1>6. \A h \in H : \E j \in 1..l : h = j BY <1>4
<1> HIDE DEF S
<1>7. narrowed \subseteq 1..l /\ Heads(cs, narrowed) = S BY <1>1, <1>4, NarrowedHeads
<1> HIDE DEF narrowed, H
<1>8. N \in Nat /\ N <= n /\ K = AtMost(Cardinality(H), limit)
      /\ K \in Nat /\ K <= N /\ K <= limit /\ (K < N => K = limit)
  BY <1>3, <1>4, <1>5 DEF AtMost
<1>9. N = AtMost(Cardinality(H), n) BY <1>4 DEF H
<1>10. Cardinality(S) = N OBVIOUS
<1>11. /\ DOMAIN ranked = 1..N
       /\ \A i \in 1..N : \E h \in S :
            /\ ranked[i].started = cs[h].started /\ ranked[i].ended = cs[h].ended
            /\ ranked[i].source = cs[h].source /\ ranked[i].native = cs[h].native
            /\ ranked[i].score \in Int /\ ranked[i].rank \in Int
            /\ {"started", "ended", "native"} \subseteq DOMAIN ranked[i]
       /\ \A h \in S : \E i \in 1..N :
            /\ ranked[i].started = cs[h].started /\ ranked[i].ended = cs[h].ended
            /\ ranked[i].native = cs[h].native
  <2>1. N = Cardinality(Heads(cs, narrowed)) /\ N <= n BY <1>7, <1>8
  <2> HIDE DEF ranked, N
  <2>2. ranked = RankCandidates(cs, narrowed, query, pathLike, n, day) BY DEF ranked
  <2>3. narrowed \in SUBSET (1..l) BY <1>7
  <2>4. RanksEach(ranked, N, cs, S) BY <1>3, <1>7, <2>1, <2>2, <2>3, RanksAll
  <2> QED BY <2>4 DEF RanksEach
<1> HIDE DEF ranked, N
<1>12. \A i \in 1..N : IsResult(ranked[i])
  <2>1. \A h \in S : IsCandidate(cs[h]) BY <1>1, <1>4 DEF Candidates
  <2> SUFFICES ASSUME NEW i \in 1..N PROVE IsResult(ranked[i]) OBVIOUS
  <2>2. PICK h \in S :
           /\ ranked[i].started = cs[h].started /\ ranked[i].ended = cs[h].ended
           /\ ranked[i].source = cs[h].source /\ ranked[i].native = cs[h].native
           /\ ranked[i].score \in Int /\ ranked[i].rank \in Int
    BY <1>11
  <2> QED BY <2>1, <2>2 DEF IsResult, IsCandidate
<1>13. PICK at \in [1..N -> 1..N] :
         /\ sorted = [i \in 1..N |-> ranked[at[i]]]
         /\ \A j \in 1..N : \E i \in 1..N : at[i] = j
         /\ \A i, j \in 1..N : i < j => TimeOf(ranked[at[j]], sort) <= TimeOf(ranked[at[i]], sort)
  <2>1. sorted = ByTime(ranked, sort) /\ DOMAIN ranked = 1..N /\ N \in Nat BY <1>8, <1>11
  <2> HIDE DEF sorted
  <2>2. InTimeOrder(sorted, ranked, N, sort) BY <1>12, <2>1, SortedByTime
  <2> QED BY <2>2 DEF InTimeOrder
<1> HIDE DEF sorted
<1>14. ListOf(taken, K, {ranked[i] : i \in 1..N}) /\ StartsAs(taken, K, sorted)
  <2> DEFINE R == {ranked[i] : i \in 1..N}
  <2>1. ListOf(sorted, N, R) BY <1>13 DEF ListOf
  <2> HIDE DEF R, taken, K
  <2>2. K = AtMost(N, limit) /\ taken = Take(sorted, limit) BY DEF K, taken
  <2>3. ListOf(taken, K, R) /\ StartsAs(taken, K, sorted) BY <1>8, <2>1, <2>2, TakeFirst
  <2> QED BY <2>3 DEF R
<1> HIDE DEF taken, K
<1>15. DOMAIN taken = 1..K /\ \A i \in 1..K : taken[i] = ranked[at[i]] /\ i \in 1..N
  <2>1. DOMAIN taken = 1..K BY <1>14 DEF ListOf
  <2>2. \A i \in 1..K : i \in 1..N BY <1>8
  <2>3. \A i \in 1..N : sorted[i] = ranked[at[i]] BY <1>13
  <2>4. \A i \in 1..K : taken[i] = sorted[i] BY <1>14 DEF StartsAs
  <2> QED BY <2>1, <2>2, <2>3, <2>4
<1>16. shown = [i \in 1..K |-> [taken[i] EXCEPT !.rank = i]] BY <1>2, <1>15 DEF Ranked
<1>17. DOMAIN shown = 1..K /\ Len(shown) = K
  <2>1. \A s, m : m \in Nat /\ DOMAIN s = 1..m => Len(s) = m OBVIOUS
  <2>2. DOMAIN shown = 1..K BY <1>16
  <2> QED BY <1>8, <2>1, <2>2
<1>18. \A i \in 1..K : /\ TimeOf(shown[i], sort) = TimeOf(ranked[at[i]], sort)
                       /\ shown[i].native = ranked[at[i]].native
                       /\ at[i] \in 1..N
  <2> SUFFICES ASSUME NEW i \in 1..K, NEW r, r = ranked[at[i]]
               PROVE  /\ TimeOf(shown[i], sort) = TimeOf(r, sort) /\ shown[i].native = r.native
                      /\ at[i] \in 1..N
    OBVIOUS
  <2>1. at[i] \in 1..N BY <1>13, <1>15
  <2>2. {"started", "ended", "native"} \subseteq DOMAIN r BY <1>11, <2>1
  <2>3. shown[i] = [r EXCEPT !.rank = i] BY <1>15, <1>16
  <2> QED BY <2>1, <2>2, <2>3 DEF TimeOf
<1>19. \A i \in 1..N, h \in S :
         ranked[i].started = cs[h].started /\ ranked[i].ended = cs[h].ended
           => TimeOf(ranked[i], sort) = TimeOf(cs[h], sort)
  BY DEF TimeOf
<1>20. ASSUME NEW i \in 1..K, NEW j \in 1..l, \A k \in 1..K : shown[k].native # cs[j].native
       PROVE  TimeOf(cs[j], sort) <= TimeOf(shown[i], sort)
  <2>1. PICK h \in H : GroupKey(cs[h]) = GroupKey(cs[j]) BY <1>1, HeadOf DEF H
  <2>2. cs[h].native = cs[j].native /\ TimeOf(cs[h], sort) = TimeOf(cs[j], sort)
    <3>1. h \in 1..l BY <1>4
    <3>2. cs[h].started = cs[j].started /\ cs[h].ended = cs[j].ended BY <1>1, <2>1, <3>1 DEF Candidates
    <3> QED BY <2>1, <3>2 DEF GroupKey, TimeOf
  <2>3. CASE h \in S
    <3>1. PICK m \in 1..N :
            /\ ranked[m].started = cs[h].started /\ ranked[m].ended = cs[h].ended
            /\ ranked[m].native = cs[h].native
      BY <1>11, <2>3
    <3>2. PICK p \in 1..N : at[p] = m BY <1>13
    <3>3. p \notin 1..K BY <1>18, <1>20, <2>2, <3>1, <3>2
    <3>4. i \in 1..N /\ i < p BY <1>8, <1>15, <3>3
    <3>5. TimeOf(ranked[m], sort) <= TimeOf(ranked[at[i]], sort) BY <1>13, <3>2, <3>4
    <3>6. TimeOf(ranked[m], sort) = TimeOf(cs[h], sort) BY <1>19, <2>3, <3>1
    <3> QED BY <1>18, <2>2, <3>5, <3>6
  <2>4. CASE h \notin S
    <3>1. at[i] \in 1..N BY <1>18
    <3>2. PICK g \in S : ranked[at[i]].started = cs[g].started /\ ranked[at[i]].ended = cs[g].ended
      BY <1>11, <3>1
    <3>3. TimeOf(ranked[at[i]], sort) = TimeOf(cs[g], sort) BY <1>19, <3>1, <3>2
    <3>4. TimeOf(cs[h], sort) <= TimeOf(cs[g], sort) BY <1>4, <2>4
    <3> QED BY <1>18, <2>2, <3>3, <3>4
  <2> QED BY <2>3, <2>4
<1>21. DOMAIN cs = 1..l BY <1>1 DEF Candidates
<1>22. ListsAll(shown, cs, limit)
  <2> SUFFICES ASSUME Cardinality(H) <= limit, NEW h \in H
               PROVE  \E i \in DOMAIN shown : shown[i].native = cs[h].native
    BY DEF ListsAll, H
  <2>1. N = Cardinality(H) /\ K = N BY <1>3, <1>5, <1>9, <1>8 DEF AtMost
  <2>2. S = H BY <1>4, <1>10, <2>1, FS_Subset
  <2>3. PICK m \in 1..N : ranked[m].native = cs[h].native BY <1>11, <2>2
  <2>4. PICK i \in 1..N : at[i] = m BY <1>13
  <2> QED BY <1>17, <1>18, <2>1, <2>3, <2>4
<1>23. ShowsNewest(shown, cs, sort, limit) BY <1>8, <1>17, <1>20, <1>21 DEF H, ShowsNewest
<1> QED BY <1>22, <1>23

LEMMA SampleIsCandidates ==
  ASSUME NEW cs \in SampleCandidates PROVE Candidates(cs, Len(cs))
<1> DEFINE l == Len(cs)
<1>1. cs \in Seq(ToSet(cs)) BY CandidateSamples
<1>2. DOMAIN cs = 1..l /\ l \in Nat /\ \A i \in 1..l : cs[i] \in ToSet(cs) BY <1>1
<1>3. \A c \in ToSet(cs) : IsCandidate(c) BY CandidateSamples DEF IsCandidate
<1>4. \A c, d \in ToSet(cs) :
        GroupKey(c) = GroupKey(d) => c.started = d.started /\ c.ended = d.ended
  BY CandidateSamples
<1> QED BY <1>2, <1>3, <1>4 DEF Candidates

(* TimeSortIsNewest, for any candidates and any limit.                     *)
THEOREM SpecTimeSortIsNewest == LawsSpec => []TimeSortIsNewest
<1>1. QuestionInv => TimeSortIsNewest
  <2> SUFFICES ASSUME QuestionInv, reader.command = "time"
               PROVE  TimeSortIsNewest
    BY DEF TimeSortIsNewest
  <2> DEFINE cs == reader.candidates
             shown == RankForSort(cs, NoQuery, Plain, reader.sort, reader.limit, 0)
  <2>1. cs \in SampleCandidates /\ reader.limit \in SampleLimits /\ reader.sort \in {"ended", "started"}
    BY DEF QuestionInv, Scoped, Asked, AdapterQuestions
  <2>2. Candidates(cs, Len(cs)) BY <2>1, SampleIsCandidates
  <2>3. reader.limit \in Nat /\ reader.sort # "relevance" BY <2>1, ListSamples
  <2> HIDE DEF cs
  <2> DEFINE l == Len(cs)
             day == 0
  <2>4. Rankable(cs, l, NoQuery, Plain, day) BY <2>2, EmptyQuery
  <2>5. shown = RankForSort(cs, NoQuery, Plain, reader.sort, reader.limit, day) OBVIOUS
  <2> HIDE DEF shown, l, day
  <2>6. ShowsNewest(shown, cs, reader.sort, reader.limit)
    BY <2>3, <2>4, <2>5, NewestShown
  <2> QED BY <2>6, Zenon DEF TimeSortIsNewest, ShowsNewest, cs, shown, day, NoQuery, Plain
<1> QED BY <1>1, SpecQuestion, PTL

-----------------------------------------------------------------------------
(* The documents of a session.                                             *)
Text == Words(TermsOf(FindArgs.query))

IsDoc(d, row, i) ==
  /\ d.id = row.id /\ d.source = row.source /\ d.native = row.native /\ d.path = row.path
  /\ d.cwd = row.cwd /\ d.date = row.date /\ d.started = row.started /\ d.ended = row.ended
  /\ d.seq = i - 1 /\ d.bm25 = 0 /\ d.words = ToSet(Text) /\ d.tokens = NoQuery

LEMMA DocFields ==
  ASSUME NEW row, row.msgs \in Seq(Int)
  PROVE  /\ IsFiniteSet(DocsOf(row))
         /\ \A d \in DocsOf(row) : \E i \in DOMAIN row.msgs : IsDoc(d, row, i)
         /\ \A i \in DOMAIN row.msgs : \E d \in DocsOf(row) : IsDoc(d, row, i)
         /\ \A d, e \in DocsOf(row) : d.seq \in Int /\ d.seq >= 0 /\ (d.seq = e.seq => d = e)
<1> DEFINE doc(i) ==
      [id |-> row.id, source |-> row.source, native |-> row.native, uuid |-> row.uuid,
       path |-> row.path, cwd |-> row.cwd, date |-> row.date, started |-> row.started,
       ended |-> row.ended, kind |-> "message", seq |-> i - 1, role |-> "user", bm25 |-> 0,
       words |-> ToSet(Words(TermsOf(FindArgs.query))), tokens |-> <<>>, args |-> FALSE,
       title |-> <<>>, cwdWords |-> {}]
<1>1. \A i : IsDoc(doc(i), row, i) BY Zenon DEF IsDoc, Text, NoQuery
<1>2. DocsOf(row) = {doc(i) : i \in DOMAIN row.msgs} BY Zenon DEF DocsOf
<1> HIDE DEF doc
<1>3. DOMAIN row.msgs = 1..Len(row.msgs) /\ Len(row.msgs) \in Nat BY LenProperties
<1>4. IsFiniteSet(DocsOf(row))
  <2> DEFINE f == [i \in DOMAIN row.msgs |-> doc(i)]
  <2>1. f \in Surjection(DOMAIN row.msgs, DocsOf(row)) BY <1>2 DEF Surjection
  <2>2. IsFiniteSet(DOMAIN row.msgs)
    <3>1. 1 \in Int /\ Len(row.msgs) \in Int BY <1>3
    <3> QED BY <1>3, <3>1, FS_Interval
  <2> HIDE DEF f
  <2> QED BY <2>1, <2>2, FS_Surjection
<1>5. ASSUME NEW i \in DOMAIN row.msgs, NEW j \in DOMAIN row.msgs
      PROVE  /\ doc(i).seq \in Int /\ doc(i).seq >= 0
             /\ doc(i).seq = doc(j).seq => doc(i) = doc(j)
  <2>1. doc(i).seq = i - 1 /\ doc(j).seq = j - 1 BY <1>1 DEF IsDoc
  <2> QED BY <1>3, <2>1
<1> QED BY <1>1, <1>2, <1>4, <1>5

AllDocs == UNION {DocsOf(r) : r \in rows}

LEMMA FiniteIndex ==
  ASSUME RowsInv PROVE IsFiniteSet(rows) /\ IsFiniteSet(AllDocs)
<1>1. IsFiniteSet(rows)
  <2> DEFINE f == [r \in rows |-> r.path]
  <2>1. f \in Injection(rows, Paths)
    BY DEF Injection, IsInjective, RowsInv, RowOK, OnePerPath
  <2>2. IsFiniteSet(Paths) BY ReadPathConstants
  <2> HIDE DEF f
  <2> QED BY <2>1, <2>2, FS_Injection
<1>2. IsFiniteSet({DocsOf(r) : r \in rows})
  <2> DEFINE S == {DocsOf(r) : r \in rows}
             f == [r \in rows |-> DocsOf(r)]
  <2>1. f \in Surjection(rows, S) BY DEF Surjection
  <2> HIDE DEF f, S
  <2>2. IsFiniteSet(S) BY <1>1, <2>1, FS_Surjection
  <2> QED BY <2>2 DEF S
<1>3. \A T \in {DocsOf(r) : r \in rows} : IsFiniteSet(T) BY DocFields DEF RowsInv, RowOK
<1> QED BY <1>1, <1>2, <1>3, FS_UNION DEF AllDocs

(* What is asked of a query is a number of its terms.                      *)
LEMMA TermsMatched ==
  /\ \A words : MatchedTerms(words, TermsOf(FindArgs.query)) \in Nat
  /\ Text \in Seq(ToSet(Text)) /\ Len(Text) \in Nat /\ Len(Text) > 0
<1> DEFINE T == FindArgs.query.terms
<1>1. TermsOf(FindArgs.query) = T /\ T \in Seq(ToSet(T)) /\ T # <<>>
  BY FindArgsConstants DEF TermsOf
<1> HIDE DEF T
<1>2. Len(T) \in Nat /\ DOMAIN T = 1..Len(T) BY <1>1, LenProperties
<1>3. IsFiniteSet(DOMAIN T)
  <2>1. 1 \in Int /\ Len(T) \in Int BY <1>2
  <2> QED BY <1>2, <2>1, FS_Interval
<1>4. ASSUME NEW words PROVE MatchedTerms(words, T) \in Nat
  <2>1. IsFiniteSet({i \in DOMAIN T : T[i].word \in words}) BY <1>3, FS_Subset
  <2> QED BY <2>1, FS_CardinalityType DEF MatchedTerms
<1>5. Text = [i \in 1..Len(T) |-> T[i].word] BY <1>1, <1>2 DEF Text, Words
<1>6. Text \in Seq(ToSet(Text)) /\ Len(Text) = Len(T)
  <2>1. Text \in [1..Len(T) -> ToSet(Text)] BY <1>5 DEF ToSet
  <2> QED BY <1>2, <2>1
<1>7. Len(T) > 0 BY <1>1, <1>2, EmptySeq
<1> QED BY <1>1, <1>2, <1>4, <1>6, <1>7

(* All scores are numbers, whatever the query.                             *)
LEMMA SpansAreNumbers ==
  ASSUME NEW S, NEW tokens \in Seq(S), NEW words
  PROVE  IsFiniteSet(OrderedSpans(tokens, words)) /\ OrderedSpans(tokens, words) \subseteq Int
<1> DEFINE D == DOMAIN tokens
           P == {span \in D \X D :
                   tokens[span[1]] = words[1] /\ HoldsInOrder(tokens, span[1], span[2], words)}
           lengths == {x[2] - x[1] + 1 : x \in P}
           f == [x \in P |-> x[2] - x[1] + 1]
<1>1. OrderedSpans(tokens, words) = lengths BY DEF OrderedSpans
<1>2. D = 1..Len(tokens) /\ Len(tokens) \in Nat OBVIOUS
<1>3. IsFiniteSet(D)
  <2>1. 1 \in Int /\ Len(tokens) \in Int BY <1>2
  <2> QED BY <1>2, <2>1, FS_Interval
<1>4. IsFiniteSet(D \X D) BY <1>3, FS_Product
<1>5. P \subseteq D \X D OBVIOUS
<1> HIDE DEF P
<1>6. IsFiniteSet(P) BY <1>4, <1>5, FS_Subset
<1>7. f \in Surjection(P, lengths) BY DEF Surjection
<1>8. lengths \subseteq Int
  <2> SUFFICES ASSUME NEW x \in P PROVE x[2] - x[1] + 1 \in Int OBVIOUS
  <2>1. x[1] \in Int /\ x[2] \in Int BY <1>2, <1>5
  <2> QED BY <2>1
<1> HIDE DEF f, lengths
<1>9. IsFiniteSet(lengths) BY <1>6, <1>7, FS_Surjection
<1> QED BY <1>1, <1>8, <1>9

LEMMA SequenceIsNumber ==
  ASSUME NEW c, NEW S, c.tokens \in Seq(S), NEW T, NEW words \in Seq(T)
  PROVE  SequenceScore(c, words) \in Int
<1> DEFINE spans == OrderedSpans(c.tokens, words)
           n == Len(words)
<1>1. IsFiniteSet(spans) /\ spans \subseteq Int BY SpansAreNumbers
<1>2. n \in Nat OBVIOUS
<1>3. \/ SequenceScore(c, words) = 0 \/ SequenceScore(c, words) = 60
      \/ SequenceScore(c, words) = 36 \/ SequenceScore(c, words) = SpanScore(spans, n)
  BY Zenon DEF SequenceScore
<1> HIDE DEF spans, n
<1>4. SpanScore(spans, n) \in Int
  <2>1. CASE spans = {} BY <2>1 DEF SpanScore
  <2>2. CASE spans # {}
    <3>1. Min(spans) \in Int BY <1>1, <2>2, MinOfNumbers
    <3> DEFINE gaps == Min(spans) - n
    <3>2. gaps \in Int BY <1>2, <3>1
    <3>3. SpanScore(spans, n) = GapScore(gaps, n) BY <2>2 DEF SpanScore
    <3> HIDE DEF gaps
    <3>4. GapScore(gaps, n) \in Int
      <4>1. CASE gaps = 0 BY <4>1 DEF GapScore
      <4>2. CASE gaps \in 1..3 BY <3>2, <4>2 DEF GapScore
      <4>3. CASE gaps # 0 /\ gaps \notin 1..3 BY <1>2, <3>2, <4>3 DEF GapScore
      <4> QED BY <4>1, <4>2, <4>3
    <3> QED BY <3>3, <3>4
  <2> QED BY <2>1, <2>2
<1> QED BY <1>3, <1>4

(* What is asked of a query is a number of its terms.                      *)
LEMMA MatchesAreNumbers ==
  ASSUME NEW T, NEW query \in Seq(T)
  PROVE  /\ \A words : MatchedTerms(words, query) \in Nat
         /\ \E S : Words(query) \in Seq(S)
<1>1. Len(query) \in Nat /\ DOMAIN query = 1..Len(query) OBVIOUS
<1>2. IsFiniteSet(DOMAIN query)
  <2>1. 1 \in Int /\ Len(query) \in Int BY <1>1
  <2> QED BY <1>1, <2>1, FS_Interval
<1>3. ASSUME NEW words PROVE MatchedTerms(words, query) \in Nat
  <2>1. IsFiniteSet({i \in DOMAIN query : query[i].word \in words}) BY <1>2, FS_Subset
  <2> QED BY <2>1, FS_CardinalityType DEF MatchedTerms
<1> DEFINE S == {query[i].word : i \in DOMAIN query}
<1>4. Words(query) \in [1..Len(query) -> S] BY <1>1 DEF Words
<1>5. \A k \in Nat : [1..k -> S] \subseteq Seq(S) OBVIOUS
<1> HIDE DEF S
<1> QED BY <1>1, <1>3, <1>4, <1>5

LEMMA ScoresAreNumbers ==
  ASSUME NEW T, NEW query \in Seq(T), NEW c, c.bm25 \in Int, NEW S, c.tokens \in Seq(S),
         NEW pathLike
  PROVE  /\ ScoreRow(c, query, pathLike) \in Int
         /\ TitleScore(c.title, query, Restates(c, query, pathLike)) \in Int
         /\ MatchedTerms(c.cwdWords, query) \in Int
<1>1. \A words : MatchedTerms(words, query) \in Int BY MatchesAreNumbers
<1>2. SequenceScore(c, Words(query)) \in Int BY MatchesAreNumbers, SequenceIsNumber
<1>3. ScoreRow(c, query, pathLike) \in Int
  <2> DEFINE phrase == IF PhraseIn(c.tokens, Words(query)) THEN 8 ELSE 0
             sequence == IF pathLike THEN SequenceScore(c, Words(query)) ELSE 0
             message == IF c.kind = "message" THEN 4 ELSE 0
             user == IF c.kind = "message" /\ c.role = "user" THEN 2 ELSE 0
             matched == MatchedTerms(c.words, query)
             bm25 == c.bm25
  <2>1. ScoreRow(c, query, pathLike) = 20 * (-bm25 + phrase + sequence + 2 * matched + message + user)
    BY Zenon DEF ScoreRow
  <2>2. phrase \in Int /\ message \in Int /\ user \in Int OBVIOUS
  <2>3. matched \in Int BY <1>1
  <2>4. bm25 \in Int OBVIOUS
  <2>5. sequence \in Int BY <1>2
  <2> HIDE DEF phrase, message, user, matched, bm25, sequence
  <2>6. 20 * (-bm25 + phrase + sequence + 2 * matched + message + user) \in Int
    BY <2>2, <2>3, <2>4, <2>5
  <2> QED BY <2>1, <2>6
<1>4. TitleScore(c.title, query, Restates(c, query, pathLike)) \in Int
  <2> DEFINE phrase == IF PhraseIn(c.title, Words(query)) THEN 600 ELSE 0
             matched == MatchedTerms(ToSet(c.title), query)
             restates == Restates(c, query, pathLike)
  <2>1. phrase \in Int /\ matched \in Int BY <1>1
  <2>2. TitleScore(c.title, query, restates) = IF restates THEN -400 ELSE 200 * matched + phrase
    BY Zenon DEF TitleScore
  <2> HIDE DEF phrase, matched, restates
  <2>3. 200 * matched + phrase \in Int /\ -400 \in Int BY <2>1
  <2>4. TitleScore(c.title, query, restates) \in Int BY <2>2, <2>3
  <2> QED BY <2>4 DEF restates
<1> QED BY <1>1, <1>3, <1>4

LEMMA RankableDocs ==
  ASSUME RowsInv, NEW l \in Nat, NEW cs, ListOf(cs, l, AllDocs), NEW query,
         query = TermsOf(FindArgs.query), NEW pathLike, NEW day, day \in Int
  PROVE  Rankable(cs, l, query, pathLike, day)
<1>1. DOMAIN cs = 1..l /\ \A i \in 1..l : cs[i] \in AllDocs BY DEF ListOf
<1>2. ASSUME NEW d \in AllDocs
      PROVE  \E r \in rows : /\ d.source = Source /\ d.native = r.native /\ r.native = Native(r.path)
                             /\ r.path \in Paths
                             /\ d.started = r.started /\ d.ended = r.ended
                             /\ d.started \in Int /\ d.ended \in Int
                             /\ d.bm25 = 0 /\ d.tokens = NoQuery
  <2>1. PICK r \in rows : d \in DocsOf(r) BY DEF AllDocs
  <2>2. RowOK(r) BY DEF RowsInv
  <2>3. PICK i : IsDoc(d, r, i) BY <2>1, <2>2, DocFields DEF RowOK
  <2> QED BY <2>2, <2>3 DEF IsDoc, RowOK
<1>3. ASSUME NEW d \in AllDocs PROVE IsCandidate(d)
  <2>1. PICK r \in rows : /\ d.source = Source /\ d.native = Native(r.path) /\ r.path \in Paths
                          /\ d.started \in Int /\ d.ended \in Int /\ d.bm25 = 0
    BY <1>2
  <2>2. NameOrder[d.source] \in Int /\ NameOrder[d.native] \in Int
    BY <2>1, ReadPathConstants, FindArgsConstants DEF Native
  <2> QED BY <2>1, <2>2 DEF IsCandidate
<1>4. ASSUME NEW d \in AllDocs, NEW e \in AllDocs, GroupKey(d) = GroupKey(e)
      PROVE  d.started = e.started /\ d.ended = e.ended
  <2>1. PICK r \in rows : d.native = r.native /\ d.started = r.started /\ d.ended = r.ended BY <1>2
  <2>2. PICK q \in rows : e.native = q.native /\ e.started = q.started /\ e.ended = q.ended BY <1>2
  <2>3. d.native = e.native BY <1>4 DEF GroupKey
  <2>4. r = q BY <2>1, <2>2, <2>3, OneRow
  <2> QED BY <2>1, <2>2, <2>4
<1>5. Candidates(cs, l) BY <1>1, <1>3, <1>4 DEF Candidates
<1>6. \A words : MatchedTerms(words, query) \in Nat BY TermsMatched
<1>7. ASSUME NEW d \in AllDocs
      PROVE  /\ ScoreRow(d, query, pathLike) \in Int
             /\ TitleScore(d.title, query, Restates(d, query, pathLike)) \in Int
  <2>1. d.bm25 = 0 /\ d.tokens = <<>> BY <1>2 DEF NoQuery
  <2>2. d.bm25 \in Int /\ d.tokens \in Seq({}) BY <2>1, EmptySeq
  <2>3. query \in Seq(ToSet(query)) BY FindArgsConstants DEF TermsOf
  <2> QED BY <2>2, <2>3, ScoresAreNumbers
<1>8. \A words : MatchedTerms(words, query) \in Int BY <1>6
<1> QED BY <1>1, <1>5, <1>7, <1>8 DEF Rankable

(* No session stands for two.                                              *)
LEMMA HeadsAreRows ==
  ASSUME RowsInv, NEW l \in Nat, NEW cs, ListOf(cs, l, AllDocs),
         NEW H, H = Heads(cs, DOMAIN cs)
  PROVE  /\ Cardinality(H) \in Nat /\ Cardinality(rows) \in Nat
         /\ Cardinality(H) <= Cardinality(rows)
<1>1. \A i \in DOMAIN cs : \E r \in rows : cs[i].native = r.native /\ cs[i].source = Source
  <2> SUFFICES ASSUME NEW i \in DOMAIN cs
               PROVE  \E r \in rows : cs[i].native = r.native /\ cs[i].source = Source
    OBVIOUS
  <2>1. PICK r \in rows : cs[i] \in DocsOf(r) BY DEF ListOf, AllDocs
  <2>2. RowOK(r) BY DEF RowsInv
  <2>3. PICK k : IsDoc(cs[i], r, k) BY <2>1, <2>2, DocFields DEF RowOK
  <2> QED BY <2>2, <2>3 DEF IsDoc, RowOK
<1> DEFINE f == [h \in H |-> CHOOSE r \in rows : cs[h].native = r.native]
<1>2. \A h \in H : f[h] \in rows /\ cs[h].native = f[h].native
  BY <1>1 DEF Heads
<1>3. ASSUME NEW g \in H, NEW h \in H, f[g] = f[h] PROVE g = h
  <2>1. GroupKey(cs[g]) = GroupKey(cs[h]) BY <1>1, <1>2, <1>3 DEF GroupKey, Heads
  <2>2. g \in 1..l /\ h \in 1..l /\ ~(g < h) /\ ~(h < g) BY <2>1 DEF Heads, ListOf
  <2> QED BY <2>2
<1>4. f \in Injection(H, rows)
  <2>1. f \in [H -> rows]
    <3>1. f = [h \in H |-> f[h]] OBVIOUS
    <3> HIDE DEF f
    <3> QED BY <1>2, <3>1
  <2> HIDE DEF f
  <2> QED BY <1>3, <2>1 DEF Injection, IsInjective
<1>5. IsFiniteSet(rows) BY FiniteIndex
<1> HIDE DEF f
<1> QED BY <1>4, <1>5, FS_Injection, FS_CardinalityType

(* What a find asks of the index.                                          *)
LimitOfFind == CandidateLimit(FindArgs.limit, FindArgs.sort)

FindSpec(s) ==
  [SpecOf(Analyze(FindArgs.query), Source, FindArgs.sort, LimitOfFind) EXCEPT
     !.selector = s, !.excluded = ResolveExcluded(FindArgs.excluded, Source, rows)]

PathLike == Analyze(FindArgs.query).pathLike

LEMMA FindSpecFields ==
  ASSUME NEW s, NEW spec, spec = FindSpec(s)
  PROVE  /\ spec.terms = ToSet(Text) /\ spec.needle = None /\ spec.sources = {Source}
         /\ spec.selector = s /\ spec.session = None /\ spec.order = FindArgs.sort
         /\ spec.excluded = {} /\ spec.limit = LimitOfFind
<1>1. Analyze(FindArgs.query).terms = ToSet(Text) /\ Analyze(FindArgs.query).needle = None
  BY FindArgsConstants, Zenon DEF Analyze, Text, TermsOf
<1>2. ResolveExcluded(FindArgs.excluded, Source, rows) = {}
  BY FindArgsConstants DEF ResolveExcluded
<1> DEFINE a == Analyze(FindArgs.query)
           e == ResolveExcluded(FindArgs.excluded, Source, rows)
<1>3. /\ spec.terms = a.terms /\ spec.needle = a.needle /\ spec.sources = {Source}
      /\ spec.selector = s /\ spec.session = None /\ spec.order = FindArgs.sort
      /\ spec.excluded = e /\ spec.limit = LimitOfFind
  BY DEF FindSpec, SpecOf
<1> HIDE DEF a, e
<1> QED BY <1>1, <1>2, <1>3 DEF a, e

LEMMA CandidatesAreNumbered ==
  ASSUME NEW limit \in Nat, NEW sort PROVE CandidateLimit(limit, sort) \in Nat
<1> DEFINE factor == IF sort = "relevance" THEN RelevanceMultiplier ELSE TimeMultiplier
           S == {MinCandidates, limit * factor}
<1>1. factor \in Nat /\ MinCandidates \in Nat BY RetrievalLimits
<1>2. CandidateLimit(limit, sort) = Max(S) BY DEF CandidateLimit
<1> HIDE DEF factor
<1>3. limit * factor \in Nat BY <1>1
<1>4. IsFiniteSet(S)
  <2>1. S = {MinCandidates} \cup {limit * factor} OBVIOUS
  <2>2. IsFiniteSet({MinCandidates}) BY FS_Singleton
  <2> HIDE DEF S
  <2> QED BY <2>1, <2>2, FS_AddElement
<1>5. S \subseteq Nat /\ S # {} BY <1>1, <1>3
<1> HIDE DEF S
<1>6. Max(S) \in S
  <2>1. S \subseteq Int BY <1>5
  <2> QED BY <1>4, <1>5, <2>1, MaxOfNumbers
<1> QED BY <1>2, <1>5, <1>6

LEMMA LimitIsNumber == LimitOfFind \in Nat
BY FindArgsConstants, CandidatesAreNumbered DEF LimitOfFind

WithTwo(a, x, y) == a \o <<x, y>>

LEMMA TwoMore ==
  ASSUME NEW m \in Nat, NEW a \in Keys(m), NEW x \in Int, NEW y \in Int,
         NEW key, key = WithTwo(a, x, y)
  PROVE  key \in Keys(m + 2) /\ key[m + 1] = x /\ key[m + 2] = y
<1> DEFINE b == <<x, y>>
<1>1. a \in Seq(Int) /\ Len(a) = m BY DEF Keys
<1>2. b \in Seq(Int) /\ Len(b) = 2 /\ b[1] = x /\ b[2] = y OBVIOUS
<1>3. key = a \o b BY DEF WithTwo
<1> HIDE DEF b
<1>4. /\ key \in Seq(Int) /\ Len(key) = m + 2
      /\ \A i \in 1..(m + 2) : key[i] = IF i <= m THEN a[i] ELSE b[i - m]
  <2>1. /\ a \o b \in Seq(Int) /\ Len(a \o b) = Len(a) + Len(b)
        /\ \A i \in 1..(Len(a) + Len(b)) : (a \o b)[i] = IF i <= Len(a) THEN a[i] ELSE b[i - Len(a)]
    BY <1>1, <1>2, ConcatProperties
  <2> QED BY <1>1, <1>2, <1>3, <2>1
<1>5. /\ m + 1 \in 1..(m + 2) /\ m + 2 \in 1..(m + 2) /\ ~(m + 1 <= m) /\ ~(m + 2 <= m)
      /\ (m + 1) - m = 1 /\ (m + 2) - m = 2
  OBVIOUS
<1> QED BY <1>2, <1>4, <1>5 DEF Keys

(* The order of recall tells any two documents apart.                      *)
KeyWidth == IF FindArgs.sort = "relevance" THEN 5 ELSE 4

LEMMA RecallKeys ==
  ASSUME RowsInv, NEW s, NEW spec, spec = FindSpec(s)
  PROVE  /\ KeyWidth \in Nat
         /\ \A d \in AllDocs : RecallKey(spec, d) \in Keys(KeyWidth)
         /\ \A d, e \in AllDocs : RecallKey(spec, d) = RecallKey(spec, e) => d = e
<1>1. KeyWidth \in Nat BY DEF KeyWidth
<1>2. ASSUME NEW d \in AllDocs
      PROVE  \E r \in rows : /\ d \in DocsOf(r) /\ d.id = r.id /\ r.id \in Int
                             /\ d.started \in Int /\ d.ended \in Int /\ d.bm25 = 0
                             /\ d.seq \in Int /\ d.seq >= 0
  <2>1. PICK r \in rows : d \in DocsOf(r) BY DEF AllDocs
  <2>2. RowOK(r) BY DEF RowsInv
  <2>3. PICK i : IsDoc(d, r, i) BY <2>1, <2>2, DocFields DEF RowOK
  <2>4. d.seq \in Int /\ d.seq >= 0 BY <2>1, <2>2, DocFields DEF RowOK
  <2> QED BY <2>1, <2>2, <2>3, <2>4 DEF IsDoc, RowOK
<1>3. spec.order = FindArgs.sort /\ spec.needle = None BY FindSpecFields
<1>4. ASSUME NEW d \in AllDocs
      PROVE  /\ RecallKey(spec, d) \in Keys(KeyWidth)
             /\ RecallKey(spec, d)[KeyWidth - 1] = d.id
             /\ RecallKey(spec, d)[KeyWidth] = SeqOrNone(d)
  <2>1. /\ d.id \in Int /\ d.started \in Int /\ d.ended \in Int /\ d.bm25 = 0 /\ d.seq \in Int
    BY <1>2
  <2>2. SeqOrNone(d) \in Int BY <2>1 DEF SeqOrNone
  <2>3. Relevance(spec, d) \in Int BY <1>3, <2>1 DEF Relevance
  <2> DEFINE head == CASE spec.order = "ended"   -> <<-d.ended, Relevance(spec, d)>>
                       [] spec.order = "started" -> <<-d.started, Relevance(spec, d)>>
                       [] OTHER -> <<Relevance(spec, d), -d.ended, SeqOrNone(d)>>
             m == IF FindArgs.sort = "relevance" THEN 3 ELSE 2
  <2>4. RecallKey(spec, d) = head \o <<d.id, SeqOrNone(d)>> BY DEF RecallKey
  <2>5. head \in Keys(m)
    <3>1. \A a, b \in Int : <<-a, b>> \in Keys(2) BY DEF Keys
    <3>2. \A a, b, c \in Int : <<a, -b, c>> \in Keys(3) BY DEF Keys
    <3>3. CASE FindArgs.sort = "ended"
      <4>1. head = <<-d.ended, Relevance(spec, d)>> /\ m = 2 BY <1>3, <3>3
      <4> QED BY <2>1, <2>3, <3>1, <4>1
    <3>4. CASE FindArgs.sort = "started"
      <4>1. head = <<-d.started, Relevance(spec, d)>> /\ m = 2 BY <1>3, <3>4
      <4> QED BY <2>1, <2>3, <3>1, <4>1
    <3>5. CASE FindArgs.sort = "relevance"
      <4>1. head = <<Relevance(spec, d), -d.ended, SeqOrNone(d)>> /\ m = 3 BY <1>3, <3>5
      <4> QED BY <2>1, <2>2, <2>3, <3>2, <4>1
    <3> QED BY <3>3, <3>4, <3>5, FindArgsConstants
  <2>6. m \in Nat /\ KeyWidth = m + 2 /\ KeyWidth - 1 = m + 1 BY DEF KeyWidth
  <2> DEFINE key == RecallKey(spec, d)
             id == d.id
             place == SeqOrNone(d)
  <2>7. key = WithTwo(head, id, place) BY <2>4 DEF WithTwo
  <2> HIDE DEF head, m, key, id, place
  <2>8. id \in Int /\ place \in Int BY <2>1, <2>2 DEF id, place
  <2>9. key \in Keys(m + 2) /\ key[m + 1] = id /\ key[m + 2] = place
    BY <2>5, <2>6, <2>7, <2>8, TwoMore
  <2> QED BY <2>6, <2>9 DEF key, id, place
<1>5. ASSUME NEW d \in AllDocs, NEW e \in AllDocs, RecallKey(spec, d) = RecallKey(spec, e)
      PROVE  d = e
  <2>1. d.id = e.id /\ SeqOrNone(d) = SeqOrNone(e) BY <1>4, <1>5
  <2>2. PICK r \in rows : /\ d \in DocsOf(r) /\ d.id = r.id /\ d.seq \in Int /\ d.seq >= 0 BY <1>2
  <2>3. PICK q \in rows : /\ e \in DocsOf(q) /\ e.id = q.id /\ e.seq \in Int /\ e.seq >= 0 BY <1>2
  <2>4. r = q BY <2>1, <2>2, <2>3 DEF RowsInv, OnePerId
  <2>5. d.seq = e.seq BY <2>1, <2>2, <2>3 DEF SeqOrNone
  <2>6. RowOK(r) BY DEF RowsInv
  <2> QED BY <2>2, <2>3, <2>4, <2>5, <2>6, DocFields DEF RowOK
<1> QED BY <1>1, <1>4, <1>5

LEMMA RecallSorted ==
  ASSUME NEW spec, NEW docs, NEW F, F = {d \in docs : Matches(spec, d) /\ RecallScope(spec, d)}
  PROVE  Take(Sorted({d \in docs : Matches(spec, d) /\ RecallScope(spec, d)},
                     LAMBDA d : RecallKey(spec, d)), spec.limit)
           = Take(InOrder([d \in F |-> RecallKey(spec, d)]), spec.limit)
<1> DEFINE S == {d \in docs : Matches(spec, d) /\ RecallScope(spec, d)}
           key == [d \in F |-> RecallKey(spec, d)]
           keyed == {<<RecallKey(spec, d), d>> : d \in S}
           list == [n \in 1..Cardinality(S) |->
                      (CHOOSE k \in keyed : Cardinality({j \in keyed : KeyLess(j[1], k[1])}) = n - 1)[2]]
<1>1. Sorted({d \in docs : Matches(spec, d) /\ RecallScope(spec, d)}, LAMBDA d : RecallKey(spec, d)) = list
  BY DEF Sorted
<1>2. keyed = Pairs(key) /\ DOMAIN key = S BY DEF Pairs
<1> HIDE DEF keyed, key, S
<1>4. list = InOrder(key) BY <1>2 DEF InOrder, At, Place, Lesser
<1> QED BY <1>1, <1>4 DEF key

(* Where the limit leaves room, all that is looked for is recalled.        *)
Wanted(spec) == {d \in AllDocs : Matches(spec, d) /\ RecallScope(spec, d)}

RecalledBy(spec) ==
  Take(Sorted({d \in AllDocs : Matches(spec, d) /\ RecallScope(spec, d)},
              LAMBDA d : RecallKey(spec, d)), spec.limit)

LEMMA RecalledSorted ==
  ASSUME NEW spec
  PROVE  RecalledBy(spec) = Take(InOrder([d \in Wanted(spec) |-> RecallKey(spec, d)]), spec.limit)
BY RecallSorted DEF RecalledBy, Wanted

ListsEach(list, S) ==
  /\ Cardinality(S) \in Nat /\ ListOf(list, Cardinality(S), S)
  /\ \A d \in S : \E i \in 1..Cardinality(S) : list[i] = d

LEMMA RecallsWanted ==
  ASSUME RowsInv, Cardinality(AllDocs) <= LimitOfFind, NEW s \in Scopes,
         NEW spec, spec = FindSpec(s), NEW found, found = Recall(spec, AllDocs)
  PROVE  ListsEach(found, Wanted(spec))
<1> DEFINE F == Wanted(spec)
           l == Cardinality(F)
           key == [d \in F |-> RecallKey(spec, d)]
           list == InOrder(key)
<1>1. F \subseteq AllDocs /\ IsFiniteSet(AllDocs) BY FiniteIndex DEF Wanted
<1>2. /\ IsFiniteSet(F) /\ l \in Nat /\ Cardinality(AllDocs) \in Nat
      /\ l <= Cardinality(AllDocs)
  BY <1>1, FS_Subset, FS_CardinalityType
<1>3. /\ spec.terms = ToSet(Text) /\ spec.needle = None /\ spec.sources = {Source}
      /\ spec.selector = s /\ spec.session = None /\ spec.limit = LimitOfFind
  BY FindSpecFields
<1>4. spec.limit \in Nat /\ l <= spec.limit BY <1>2, <1>3, LimitIsNumber
<1>5. Listable(key, KeyWidth)
  <2>1. DOMAIN key = F OBVIOUS
  <2>2. \A d \in F : RecallKey(spec, d) \in Keys(KeyWidth) BY <1>1, RecallKeys
  <2>3. \A d, e \in F : RecallKey(spec, d) = RecallKey(spec, e) => d = e BY <1>1, RecallKeys
  <2>4. key \in [F -> Keys(KeyWidth)] BY <2>2
  <2>5. \A d, e \in F : key[d] = key[e] => d = e BY <2>3
  <2> HIDE DEF key, F
  <2> QED BY <1>2, <2>1, <2>4, <2>5 DEF Listable
<1>6. DOMAIN key = F OBVIOUS
<1> HIDE DEF key
<1>7. list \in [1..l -> F] /\ \A d \in F : \E i \in 1..l : list[i] = d
  <2>1. KeyWidth \in Nat BY RecallKeys
  <2>2. l = Cardinality(DOMAIN key) /\ list = InOrder(key) BY <1>6
  <2> HIDE DEF l, list
  <2>3. /\ list \in [1..l -> DOMAIN key]
        /\ \A d \in DOMAIN key : \E i \in 1..l : list[i] = d
    BY <1>5, <2>1, <2>2, InOrderLists
  <2> QED BY <1>6, <2>3
<1> HIDE DEF list
<1> DEFINE taken == Take(list, spec.limit)
           bound == spec.limit
<1>8. ListOf(taken, l, F) /\ StartsAs(taken, l, list)
  <2>1. l = AtMost(l, bound) BY <1>2, <1>4 DEF AtMost
  <2>2. taken = Take(list, bound) OBVIOUS
  <2>3. bound \in Nat BY <1>4
  <2> HIDE DEF taken, bound, l, F
  <2>4. ListOf(list, l, F) BY <1>7 DEF ListOf
  <2> QED BY <1>2, <2>1, <2>2, <2>3, <2>4, TakeFirst
<1>9. RecalledBy(spec) = taken BY RecalledSorted DEF list, key
<1>10. CASE spec.limit = 0
  <2>1. l = 0 /\ F = {} BY <1>2, <1>4, <1>10, FS_EmptySet
  <2>2. found = <<>> BY <1>10, Zenon DEF Recall
  <2>3. <<>> \in [1..0 -> F] BY <2>1
  <2> HIDE DEF F
  <2> QED BY <1>2, <2>1, <2>2, <2>3 DEF ListsEach, ListOf, F
<1>11. CASE spec.limit # 0
  <2>1. ~(spec.terms = {} /\ spec.needle = None)
    <3>1. Text[1] \in ToSet(Text) BY TermsMatched DEF ToSet
    <3> QED BY <1>3, <3>1
  <2>2. ~SpecRefused(spec)
    <3>1. s.source = Source BY ReadPathConstants
    <3> QED BY <1>3, <3>1 DEF SpecRefused
  <2>3. found = RecalledBy(spec) BY <1>11, <2>1, <2>2 DEF Recall, RecalledBy
  <2>4. \A d \in F : \E i \in 1..l : found[i] = d BY <1>7, <1>8, <1>9, <2>3 DEF StartsAs
  <2> QED BY <1>2, <1>8, <1>9, <2>3, <2>4 DEF ListsEach
<1> QED BY <1>10, <1>11

(* A session the scope selects is wanted by all its documents.             *)
LEMMA WantedDocs ==
  ASSUME RowsInv, NEW s \in Scopes, NEW spec, spec = FindSpec(s),
         NEW r \in rows, SelectorFilter(s, r), NEW d \in DocsOf(r)
  PROVE  d \in Wanted(spec) /\ d.native = r.native /\ d.source = r.source
<1>1. /\ spec.terms = ToSet(Text) /\ spec.needle = None /\ spec.selector = s
      /\ spec.session = None /\ spec.excluded = {}
  BY FindSpecFields
<1>2. RowOK(r) BY DEF RowsInv
<1>3. PICK i : IsDoc(d, r, i) BY <1>2, DocFields DEF RowOK
<1>4. Matches(spec, d) BY <1>1, <1>3 DEF Matches, IsDoc
<1>5. SelectorFilter(s, d) BY <1>3 DEF SelectorFilter, IsDoc
<1>6. s # None BY ReadPathConstants
<1>7. RecallScope(spec, d) BY <1>1, <1>5, <1>6 DEF RecallScope
<1>8. d \in AllDocs BY DEF AllDocs
<1> QED BY <1>3, <1>4, <1>7, <1>8 DEF Wanted, IsDoc

-----------------------------------------------------------------------------
(* A find within its limits names every session in its scope that has      *)
(* messages.                                                               *)
Room ==
  /\ Cardinality(UNION {DocsOf(r) : r \in rows}) <= CandidateLimit(FindArgs.limit, FindArgs.sort)
  /\ Cardinality(rows) <= FindArgs.limit

LEMMA ListsAllDocs ==
  ASSUME RowsInv, Cardinality(rows) <= FindArgs.limit,
         NEW l \in Nat, NEW cs, ListOf(cs, l, AllDocs),
         NEW query, query = TermsOf(FindArgs.query), NEW pathLike, NEW day, day = FindArgs.day,
         NEW sort, sort = FindArgs.sort, NEW limit, limit = FindArgs.limit,
         NEW shown, shown = RankForSort(cs, query, pathLike, sort, limit, day)
  PROVE  \A h \in Heads(cs, DOMAIN cs) : \E i \in DOMAIN shown : shown[i].native = cs[h].native
<1> DEFINE H == Heads(cs, DOMAIN cs)
           n == Cardinality(H)
<1>1. limit \in Nat /\ day \in Int BY FindArgsConstants
<1>2. Rankable(cs, l, query, pathLike, day) BY <1>1, RankableDocs
<1>3. n \in Nat /\ n <= limit BY <1>1, HeadsAreRows
<1>4. CASE sort # "relevance"
  <2>1. ListsAll(shown, cs, limit) BY <1>1, <1>2, <1>4, NewestShown
  <2> QED BY <1>3, <2>1 DEF ListsAll
<1>5. CASE sort = "relevance"
  <2> DEFINE all == DOMAIN cs
  <2>1. shown = RankCandidates(cs, all, query, pathLike, limit, day)
    BY <1>5, Zenon DEF RankForSort
  <2>2. all \in SUBSET (1..l) BY DEF ListOf
  <2> HIDE DEF all, n
  <2>3. n = Cardinality(Heads(cs, all)) BY DEF n, all
  <2>4. RanksEach(shown, n, cs, Heads(cs, all)) BY <1>1, <1>2, <1>3, <2>1, <2>2, <2>3, RanksAll
  <2> QED BY <2>4 DEF RanksEach, all
<1> QED BY <1>4, <1>5

LEMMA FindNamesAll ==
  ASSUME RowsInv, Room, NEW s \in Scopes, NEW shown, shown = FindIn(s).results,
         NEW r \in rows, SelectorFilter(s, r), r.msgs # <<>>
  PROVE  \E i \in DOMAIN shown : shown[i].native = r.native
<1> DEFINE spec == FindSpec(s)
           strict == Recall(spec, AllDocs)
           query == TermsOf(FindArgs.query)
           found == RecallWithFallback(spec, RelaxedQueries(query), AllDocs)
           W == Wanted(spec)
           l == Cardinality(W)
<1>1. shown = RankForSort(found, query, PathLike, FindArgs.sort, FindArgs.limit, FindArgs.day)
  BY Zenon DEF FindIn, FindSource, FindSpec, PathLike, LimitOfFind, AllDocs
<1> HIDE DEF spec
<1>2. /\ Cardinality(AllDocs) <= LimitOfFind /\ Cardinality(rows) <= FindArgs.limit
  BY DEF Room, AllDocs, LimitOfFind
<1>3. ListsEach(strict, W) BY <1>2, RecallsWanted DEF spec
<1>4. PICK d \in W : d.native = r.native /\ d.source = r.source
  <2>1. RowOK(r) BY DEF RowsInv
  <2>2. DOMAIN r.msgs # {}
    <3>1. r.msgs \in Seq(Int) /\ Len(r.msgs) \in Nat /\ DOMAIN r.msgs = 1..Len(r.msgs)
      BY <2>1, LenProperties DEF RowOK
    <3>2. Len(r.msgs) # 0 BY <3>1, EmptySeq
    <3>3. 1 \in 1..Len(r.msgs) BY <3>1, <3>2
    <3> QED BY <3>1, <3>3
  <2>3. PICK d \in DocsOf(r) : TRUE BY <2>1, <2>2, DocFields DEF RowOK
  <2> QED BY <2>3, WantedDocs DEF spec
<1>5. l \in Nat /\ ListOf(strict, l, W) /\ \E i \in 1..l : strict[i] = d
  BY <1>3 DEF ListsEach
<1>6. strict # <<>>
  <2>1. DOMAIN strict = 1..l /\ 1..l # {} BY <1>5 DEF ListOf
  <2>2. DOMAIN <<>> = {} OBVIOUS
  <2> HIDE DEF strict, l
  <2> QED BY <2>1, <2>2
<1>7. found = strict BY <1>6, Zenon DEF RecallWithFallback
<1> HIDE DEF strict, found, l, W
<1>8. ListOf(found, l, AllDocs)
  <2>1. W \subseteq AllDocs BY DEF W, Wanted
  <2> QED BY <1>5, <1>7, <2>1 DEF ListOf
<1>9. \A h \in Heads(found, DOMAIN found) :
        \E i \in DOMAIN shown : shown[i].native = found[h].native
  <2> DEFINE day == FindArgs.day
             sort == FindArgs.sort
             limit == FindArgs.limit
             pathLike == PathLike
  <2>1. shown = RankForSort(found, query, pathLike, sort, limit, day) BY <1>1
  <2>2. /\ query = TermsOf(FindArgs.query) /\ day = FindArgs.day /\ sort = FindArgs.sort
        /\ limit = FindArgs.limit
    OBVIOUS
  <2> HIDE DEF query, day, sort, limit, pathLike
  <2> QED BY <1>2, <1>5, <1>8, <2>1, <2>2, ListsAllDocs
<1>10. PICK i \in 1..l : found[i] = d BY <1>5, <1>7
<1>11. \E h \in Heads(found, DOMAIN found) : GroupKey(found[h]) = GroupKey(found[i])
  <2> DEFINE day == FindArgs.day
             pathLike == PathLike
  <2>1. day \in Int BY FindArgsConstants
  <2> HIDE DEF day, pathLike
  <2>2. Rankable(found, l, query, pathLike, day) BY <1>5, <1>8, <2>1, RankableDocs
  <2>3. Candidates(found, l) BY <2>2 DEF Rankable
  <2> QED BY <1>10, <2>3, HeadOf
<1>12. PICK h \in Heads(found, DOMAIN found) : GroupKey(found[h]) = GroupKey(found[i]) BY <1>11
<1>13. found[h].native = r.native BY <1>4, <1>10, <1>12 DEF GroupKey
<1> QED BY <1>9, <1>12, <1>13

(* What a find that nothing was committed since has named.                 *)
NamesAll(scope, hits) ==
  \A r \in rows : SelectorFilter(scope, r) /\ r.msgs # <<>> => r.native \in hits

FindInv ==
  reader.command = "find" =>
    /\ {"scope", "undisturbed", "hits"} \subseteq DOMAIN reader
    /\ reader.scope \in Scopes
    /\ reader.undisturbed => NamesAll(reader.scope, reader.hits)

LEMMA RecallFind ==
  ASSUME RowsInv, Room, NEW s \in Scopes, RecallFirst(s) PROVE FindInv'
<1> DEFINE shown == FindIn(s).results
           hits == {shown[i].native : i \in DOMAIN shown}
<1>1. rows' = rows BY DEF RecallFirst, Read
<1>2. reader' = [command |-> "find", scope |-> s, undisturbed |-> TRUE, hits |-> hits]
  BY Zenon DEF RecallFirst
<1>3. NamesAll(s, hits)
  <2> SUFFICES ASSUME NEW r \in rows, SelectorFilter(s, r), r.msgs # <<>> PROVE r.native \in hits
    BY DEF NamesAll
  <2>1. \E i \in DOMAIN shown : shown[i].native = r.native
    <3>1. shown = FindIn(s).results OBVIOUS
    <3> HIDE DEF shown
    <3> QED BY <3>1, FindNamesAll
  <2> QED BY <2>1
<1> HIDE DEF hits
<1>4. /\ reader'.scope = s /\ reader'.hits = hits
      /\ {"scope", "undisturbed", "hits"} \subseteq DOMAIN reader'
  BY <1>2
<1>5. NamesAll(reader.scope, reader.hits)' BY <1>1, <1>3, <1>4 DEF NamesAll
<1> QED BY <1>4, <1>5 DEF FindInv

(* Nothing else makes a reader one that finds, and a commit disturbs it.   *)
LEMMA OtherReaders ==
  ASSUME Readers, ~\E s \in Scopes : RecallFirst(s) PROVE reader'.command # "find"
<1>1. ASSUME NEW native, NEW offset, NEW got, NEW undisturbed,
             ReadHeader(native, offset, got, undisturbed)
      PROVE  reader'.command # "find"
  <2> DEFINE row == StoredSession(rows, Source, native)
  <2>1. CASE row = None BY <1>1, <2>1 DEF ReadHeader, NoReader
  <2>2. CASE row # None
    <3>1. reader' = [command |-> "walk", id |-> row.id, native |-> native, offset |-> offset,
                     total |-> Len(row.msgs), got |-> got, more |-> TRUE, page |-> FALSE,
                     undisturbed |-> undisturbed]
      BY <1>1, <2>2 DEF ReadHeader
    <3> QED BY <3>1
  <2> QED BY <2>1, <2>2
<1>2. CASE \E s \in Scopes : StatusFirst(s) BY <1>2 DEF StatusFirst
<1>3. CASE (\E r \in rows : FirstPage(r.native)) \/ NextPage
  BY <1>1, <1>3 DEF FirstPage, NextPage
<1>4. CASE ReadMessages
  <2>1. /\ reader.command = "walk"
        /\ \E got, offset, more :
             reader' = [reader EXCEPT !.page = TRUE, !.got = got, !.offset = offset, !.more = more]
    BY <1>4 DEF ReadMessages
  <2> QED BY <2>1
<1> QED BY <1>2, <1>3, <1>4 DEF Readers

LEMMA PublishFind ==
  ASSUME FindInv, ReaderInv, NEW files, NEW proofs, Publish(files, proofs) PROVE FindInv'
<1>1. CASE reader.command = "find"
  <2>1. reader' = [reader EXCEPT !.undisturbed = FALSE] BY <1>1 DEF Publish
  <2>2. /\ reader'.scope = reader.scope /\ DOMAIN reader' = DOMAIN reader
        /\ ~reader'.undisturbed
    BY <1>1, <2>1 DEF FindInv
  <2> QED BY <1>1, <2>2 DEF FindInv
<1>2. CASE reader.command = "walk"
  <2>1. PICK u : reader' = [reader EXCEPT !.undisturbed = u] BY <1>2 DEF Publish
  <2>2. reader'.command = "walk" BY <1>2, <2>1 DEF ReaderInv
  <2> QED BY <2>2 DEF FindInv
<1>3. CASE reader.command \notin {"find", "walk"}
  <2>1. reader' = reader BY <1>3 DEF Publish
  <2> QED BY <1>3, <2>1 DEF FindInv
<1> QED BY <1>1, <1>2, <1>3

LEMMA NextFind == WorldInv /\ RowsInv /\ ReaderInv /\ Room /\ FindInv /\ [Next]_vars => FindInv'
<1> SUFFICES ASSUME WorldInv, RowsInv, ReaderInv, Room, FindInv, [Next]_vars PROVE FindInv'
  OBVIOUS
<1>1. ASSUME UNCHANGED <<rows, reader>> PROVE FindInv' BY <1>1 DEF FindInv, NamesAll
<1>2. CASE Agents BY <1>1, <1>2, AgentsStep
<1>3. CASE Sync
  <2>1. ASSUME sync.running, NEW files \in SUBSET sync.seen, NEW proofs, Publishes(files, proofs)
        PROVE  FindInv'
    BY <2>1, PublishFind DEF Publishes
  <2>2. ASSUME \E s \in Scopes, strict, prune \in BOOLEAN : Begin(s, strict, prune)
        PROVE  FindInv'
    BY <1>1, <2>2 DEF Begin
  <2> QED BY <1>1, <1>3, <2>1, <2>2, SyncCases
<1>4. CASE Readers
  <2>1. CASE \E s \in Scopes : RecallFirst(s) BY <2>1, RecallFind
  <2>2. CASE ~\E s \in Scopes : RecallFirst(s) BY <1>4, <2>2, OtherReaders DEF FindInv
  <2> QED BY <2>1, <2>2
<1>5. CASE UNCHANGED vars BY <1>1, <1>5 DEF vars
<1> QED BY <1>2, <1>3, <1>4, <1>5 DEF Next

LEMMA FindIsComplete == ReadInv /\ FindInv => FindMissesNothing
<1> SUFFICES ASSUME ReadInv, FindInv, reader.command = "find", reader.undisturbed,
                    NEW p \in FindCoverage.covering, NEW f \in InSnapshot(reader.scope, disk),
                    f.content # <<>>,
                    <<Relative(p.selector.root, f.path), f.date, f.cwd, f.content>>
                      \in p.fingerprint[2]
             PROVE  Native(f.path) \in reader.hits
  BY DEF FindMissesNothing
<1> DEFINE s == reader.scope
<1>1. s \in Scopes /\ NamesAll(s, reader.hits) BY DEF FindInv
<1>2. f \in disk /\ InScope(s, f) BY DEF InSnapshot
<1>3. p \in records /\ SelectorImplies(p.selector, s)
  BY DEF FindCoverage, IndexedCoverage, Covering, CoverageRecords
<1>4. InScope(p.selector, f)
  <2>1. p.selector \in Scopes BY <1>3 DEF ReadInv, ProofInv, Filed, ProofOK
  <2>2. /\ IsDated(p.selector) => p.selector.from \in Nat /\ p.selector.to \in Nat
        /\ IsDated(s) => s.from \in Nat /\ s.to \in Nat
    BY <1>1, <2>1, ReadPathConstants
  <2>3. f.date = None \/ f.date \in Nat BY <1>2 DEF ReadInv, WorldInv, FilesOK, File
  <2> QED BY <1>2, <1>3, <2>2, <2>3, ImpliedScope
<1>5. Vouches(p, f) BY <1>4 DEF Vouches, Mark
<1>6. Indexed(f) BY <1>2, <1>3, <1>5 DEF ReadInv, ProofInv, Filed
<1>7. PICK r \in rows : /\ r.path = f.path /\ r.cwd = f.cwd /\ r.msgs = f.content
                        /\ r.date = StoredDate(f.date)
  BY <1>6 DEF Indexed
<1>8. r.source = Source /\ r.native = Native(r.path) /\ f.source = Source /\ f.path \in Paths
  BY <1>2 DEF ReadInv, RowsInv, RowOK, WorldInv, FilesOK, File
<1>9. SelectorFilter(s, r)
  <2>1. /\ s.root \in Seq(DOMAIN CaseFold) /\ f.path \in Seq(DOMAIN CaseFold)
        /\ IsDated(s) => {s.from, s.to} \subseteq Nat \ {0}
    BY <1>1, <1>8, ReadPathConstants
  <2> HIDE DEF s
  <2> QED BY <1>2, <1>7, <1>8, <2>1, RowScope
<1> QED BY <1>1, <1>7, <1>8, <1>9 DEF NamesAll

(* FindMissesNothing, whatever the agents write and the syncs commit: the  *)
(* recall and the coverage it is told with are about one scope, and what   *)
(* the relaxed queries, the ranking and its narrowing to the newest do     *)
(* leaves no session out while the limits leave room for all.              *)
THEOREM SpecFindMissesNothing ==
  ASSUME RootsDifferByMoreThanCase PROVE Spec /\ []Room => []FindMissesNothing
<1>1. Init => FindInv BY DEF Init, NoReader, FindInv
<1>2. ReadInv /\ Room /\ FindInv /\ [Next]_vars => FindInv' BY NextFind DEF ReadInv
<1>3. Spec => []ReadInv BY SpecReadInv
<1> QED BY <1>1, <1>2, <1>3, FindIsComplete, PTL DEF Spec

-----------------------------------------------------------------------------
(* The lists of the adapters and the retrieval that are made element by    *)
(* element: what one more element of seq does to x.                        *)

(* What a hashed field says: the record it is of, or a part of it.         *)
RecordOf(t) ==
  CASE t[1] = "session_meta" -> [kind |-> "meta", id |-> t[2], cwd |-> t[3], segment |-> t[4]]
    [] t[1] = "turn_context" -> [kind |-> "context", model |-> t[2], cwd |-> t[3], turn |-> t[4]]
    [] t[1] = "turn_boundary" -> [kind |-> "boundary"]
    [] t[1] = "compacted" -> [kind |-> "compacted", text |-> t[2]]
    [] t[1] = "reasoning" -> [kind |-> "reasoning", texts |-> <<t[2]>>]
    [] OTHER -> [kind |-> "message", role |-> t[2], time |-> t[3], text |-> t[4], origin |-> t[5]]

(* A reading without what no field says: how many prompts were filtered,   *)
(* and where a document was said.                                          *)
ReadField(v, r) ==
  [state |-> Apply(v.state, r, FALSE),
   docs  |-> IF Shown(v.state, r) THEN Append(v.docs, Document(v.state, r, 0)) ELSE v.docs]

Advance(of, x, e) ==
  CASE of[1] = "flat"  -> x \o e
    [] of[1] = "cwd"   -> AdoptCwd(x, e)
    [] of[1] = "push"  -> PushUnique(x, e)
    [] of[1] = "kinds" -> KeepKind(x, e, of[2])
    [] of[1] = "hash"  -> HashMessage(x, e)
    [] of[1] = "field" -> ReadField(x, RecordOf(e))
    [] of[1] = "new"   -> AppendNew(x, e)
    [] of[1] = "again" -> RecallAgain(of[2], e, of[3], x)
    [] of[1] = "forms" -> Extended(x, e)
    [] OTHER           -> KeepTelling(x, e)

IsAdvance(made, of, first, seq, m, n) ==
  made = [i \in m..n |-> IF i = m THEN first ELSE Advance(of, made[i - 1], seq[i])]

LEMMA AdvanceExists ==
  ASSUME NEW of, NEW first, NEW seq, NEW m \in Nat, NEW n \in Nat, n >= m
  PROVE  \E made : IsAdvance(made, of, first, seq, m, n)
<1> DEFINE S == {k \in Nat : k >= m /\ \E made : IsAdvance(made, of, first, seq, m, k)}
<1>1. m \in S
  <2> DEFINE one == [i \in m..m |-> first]
  <2>1. IsAdvance(one, of, first, seq, m, m)
    <3>1. \A i \in m..m : i = m OBVIOUS
    <3> QED BY <3>1 DEF IsAdvance
  <2> HIDE DEF one
  <2> QED BY <2>1
<1>2. ASSUME NEW k \in S, k >= m PROVE k + 1 \in S
  <2>1. PICK made : IsAdvance(made, of, first, seq, m, k) OBVIOUS
  <2> DEFINE more == [i \in m..(k+1) |->
                        IF i = k+1 THEN Advance(of, made[k], seq[k+1]) ELSE made[i]]
  <2>2. ASSUME NEW i \in m..(k+1)
        PROVE more[i] = IF i = m THEN first ELSE Advance(of, more[i - 1], seq[i])
    <3>1. CASE i = k + 1
      <4>1. k \in m..(k+1) /\ k # k + 1 /\ i # m /\ i - 1 = k BY <1>2, <3>1
      <4>2. more[k] = made[k] BY <4>1
      <4>3. more[i] = Advance(of, made[k], seq[k+1]) BY <3>1
      <4> HIDE DEF more
      <4> QED BY <4>1, <4>2, <4>3, <3>1
    <3>2. CASE i # k + 1
      <4>1. i \in m..k BY <3>2
      <4>2. more[i] = made[i] BY <3>2
      <4>3. CASE i = m
        <5>1. made[i] = first BY <4>1, <4>3, <2>1 DEF IsAdvance
        <5> HIDE DEF more
        <5> QED BY <4>2, <4>3, <5>1
      <4>4. CASE i # m
        <5>1. made[i] = Advance(of, made[i - 1], seq[i]) BY <4>1, <4>4, <2>1 DEF IsAdvance
        <5>2. i - 1 \in m..(k+1) /\ i - 1 # k + 1 BY <4>1, <4>4
        <5>3. more[i - 1] = made[i - 1] BY <5>2
        <5> HIDE DEF more
        <5> QED BY <4>2, <4>4, <5>1, <5>3
      <4> QED BY <4>3, <4>4
    <3> QED BY <3>1, <3>2
  <2>3. IsAdvance(more, of, first, seq, m, k + 1) BY <2>2 DEF IsAdvance
  <2> HIDE DEF more
  <2> QED BY <2>3
<1> HIDE DEF S
<1>3. S \in SUBSET Nat BY DEF S
<1>4. n \in S BY <1>1, <1>2, <1>3, UpFrom
<1> QED BY <1>4 DEF S

(* It starts with first, and goes on with every element.                   *)
Advances(made, of, first, seq, m, n) ==
  /\ made[m] = first
  /\ \A i \in m..n : i < n => made[i + 1] = Advance(of, made[i], seq[i + 1])

LEMMA AdvanceStep ==
  ASSUME NEW of, NEW first, NEW seq, NEW m \in Nat, NEW n \in Nat, n >= m,
         NEW made, IsAdvance(made, of, first, seq, m, n)
  PROVE  Advances(made, of, first, seq, m, n)
<1>2. IsAdvance(made, of, first, seq, m, n) OBVIOUS
<1>3. made[m] = first BY <1>2 DEF IsAdvance
<1>4. ASSUME NEW i \in m..n, i < n PROVE made[i + 1] = Advance(of, made[i], seq[i + 1])
  <2>1. i + 1 \in m..n /\ i + 1 # m /\ (i + 1) - 1 = i BY <1>4
  <2>2. made[i + 1] = Advance(of, made[(i + 1) - 1], seq[i + 1]) BY <1>2, <2>1 DEF IsAdvance
  <2> QED BY <2>1, <2>2
<1> QED BY <1>3, <1>4 DEF Advances

(* The definitions of the model are such lists.                            *)
LEMMA CwdAdvances ==
  ASSUME NEW said, NEW n \in Nat, Len(said) = n
  PROVE  \E made : /\ Advances(made, <<"cwd">>, Unset, said, 0, n)
                   /\ InventoryCwd(said) = made[n]
<1> DEFINE Is(f) == f = [i \in 0..Len(said) |-> IF i = 0 THEN Unset ELSE AdoptCwd(f[i - 1], said[i])]
           made == CHOOSE f : Is(f)
<1>1. \A x, e : Advance(<<"cwd">>, x, e) = AdoptCwd(x, e) BY DEF Advance
<1>2. \A f : Is(f) <=> IsAdvance(f, <<"cwd">>, Unset, said, 0, n) BY <1>1 DEF IsAdvance
<1>3. InventoryCwd(said) = made[n] BY DEF InventoryCwd
<1> HIDE DEF Is
<1>4. \E f : Is(f)
  <2>1. 0 \in Nat /\ n >= 0 OBVIOUS
  <2>2. PICK f : IsAdvance(f, <<"cwd">>, Unset, said, 0, n) BY <2>1, AdvanceExists
  <2> QED BY <1>2, <2>2
<1>5. Is(made) BY <1>4
<1> HIDE DEF made
<1>6. Advances(made, <<"cwd">>, Unset, said, 0, n) BY <1>2, <1>5, AdvanceStep
<1> QED BY <1>3, <1>6

LEMMA PushAdvances ==
  ASSUME NEW parts, NEW texts, NEW n \in Nat, Len(texts) = n
  PROVE  \E made : /\ Advances(made, <<"push">>, parts, texts, 0, n)
                   /\ PushAll(parts, texts) = made[n]
<1> DEFINE Is(f) == f = [i \in 0..Len(texts) |-> IF i = 0 THEN parts ELSE PushUnique(f[i - 1], texts[i])]
           made == CHOOSE f : Is(f)
<1>1. \A x, e : Advance(<<"push">>, x, e) = PushUnique(x, e) BY DEF Advance
<1>2. \A f : Is(f) <=> IsAdvance(f, <<"push">>, parts, texts, 0, n) BY <1>1 DEF IsAdvance
<1>3. PushAll(parts, texts) = made[n] BY DEF PushAll
<1> HIDE DEF Is
<1>4. \E f : Is(f)
  <2>1. 0 \in Nat /\ n >= 0 OBVIOUS
  <2>2. PICK f : IsAdvance(f, <<"push">>, parts, texts, 0, n) BY <2>1, AdvanceExists
  <2> QED BY <1>2, <2>2
<1>5. Is(made) BY <1>4
<1> HIDE DEF made
<1>6. Advances(made, <<"push">>, parts, texts, 0, n) BY <1>2, <1>5, AdvanceStep
<1> QED BY <1>3, <1>6

LEMMA KindAdvances ==
  ASSUME NEW said, NEW kinds, NEW n \in Nat, Len(said) = n
  PROVE  \E made : /\ Advances(made, <<"kinds", kinds>>, <<>>, said, 0, n)
                   /\ OfKind(said, kinds) = made[n]
<1> DEFINE of == <<"kinds", kinds>>
           Is(f) == f = [i \in 0..Len(said) |-> IF i = 0 THEN <<>> ELSE KeepKind(f[i - 1], said[i], kinds)]
           made == CHOOSE f : Is(f)
<1>1. \A x, e : Advance(of, x, e) = KeepKind(x, e, kinds)
  BY DEF Advance
<1>3. OfKind(said, kinds) = made[n] BY DEF OfKind
<1> HIDE DEF of
<1>2. \A f : Is(f) <=> IsAdvance(f, of, <<>>, said, 0, n) BY <1>1 DEF IsAdvance
<1> HIDE DEF Is
<1>4. \E f : Is(f)
  <2>1. 0 \in Nat /\ n >= 0 OBVIOUS
  <2>2. PICK f : IsAdvance(f, of, <<>>, said, 0, n) BY <2>1, AdvanceExists
  <2> QED BY <1>2, <2>2
<1>5. Is(made) BY <1>4
<1> HIDE DEF made
<1>6. Advances(made, of, <<>>, said, 0, n) BY <1>2, <1>5, AdvanceStep
<1> QED BY <1>3, <1>6 DEF of

(* What a list is when it has been made of all of seq.                     *)
Makes(of, first, seq, v) ==
  \E made : Advances(made, of, first, seq, 0, Len(seq)) /\ v = made[Len(seq)]

LEMMA MakesNothing ==
  ASSUME NEW of, NEW first PROVE Makes(of, first, <<>>, first)
<1>1. Len(<<>>) = 0 OBVIOUS
<1> DEFINE z == 0
<1>5. z \in Nat /\ z >= z /\ z = 0 OBVIOUS
<1> HIDE DEF z
<1>2. PICK made : IsAdvance(made, of, first, <<>>, z, z) BY <1>5, AdvanceExists
<1>3. Advances(made, of, first, <<>>, z, z) BY <1>2, <1>5, AdvanceStep
<1>4. made[0] = first BY <1>3, <1>5 DEF Advances
<1> QED BY <1>1, <1>3, <1>4, <1>5 DEF Makes

LEMMA MakesMore ==
  ASSUME NEW of, NEW first, NEW S, NEW seq \in Seq(S), NEW e \in S, NEW v, Makes(of, first, seq, v)
  PROVE  Makes(of, first, Append(seq, e), Advance(of, v, e))
<1> DEFINE n == Len(seq)
           more == Append(seq, e)
<1>1. PICK made : Advances(made, of, first, seq, 0, n) /\ v = made[n] BY DEF Makes
<1>2. /\ n \in Nat /\ Len(more) = n + 1 /\ more[n + 1] = e
      /\ \A i \in 0..n : i < n => more[i + 1] = seq[i + 1]
  OBVIOUS
<1> HIDE DEF n, more
<1> DEFINE longer == [i \in 0..(n + 1) |-> IF i <= n THEN made[i] ELSE Advance(of, v, e)]
<1>3. longer[0] = first BY <1>1, <1>2 DEF Advances
<1>4. longer[n + 1] = Advance(of, v, e) BY <1>2
<1>5. ASSUME NEW i \in 0..(n + 1), i < n + 1 PROVE longer[i + 1] = Advance(of, longer[i], more[i + 1])
  <2>1. longer[i] = made[i] BY <1>2, <1>5
  <2>2. CASE i = n
    <3>1. longer[i + 1] = Advance(of, v, e) BY <1>4, <2>2
    <3> HIDE DEF longer
    <3> QED BY <1>1, <1>2, <2>1, <2>2, <3>1
  <2>3. CASE i # n
    <3>1. i \in 0..n /\ i < n /\ i + 1 <= n /\ i + 1 \in 0..(n + 1) BY <1>2, <1>5, <2>3
    <3>2. longer[i + 1] = made[i + 1] BY <3>1
    <3>3. made[i + 1] = Advance(of, made[i], seq[i + 1]) BY <1>1, <3>1 DEF Advances
    <3> HIDE DEF longer
    <3> QED BY <1>2, <2>1, <3>1, <3>2, <3>3
  <2> QED BY <2>2, <2>3
<1> HIDE DEF longer
<1>6. Advances(longer, of, first, more, 0, n + 1) BY <1>3, <1>5 DEF Advances
<1>7. Makes(of, first, more, Advance(of, v, e)) BY <1>2, <1>4, <1>6 DEF Makes
<1> QED BY <1>7 DEF more

LEMMA MakesOne ==
  ASSUME NEW of, NEW first, NEW seq, Len(seq) \in Nat, NEW v, NEW w,
         Makes(of, first, seq, v), Makes(of, first, seq, w)
  PROVE  v = w
<1> DEFINE n == Len(seq)
<1>1. PICK a : Advances(a, of, first, seq, 0, n) /\ v = a[n] BY DEF Makes
<1>2. PICK b : Advances(b, of, first, seq, 0, n) /\ w = b[n] BY DEF Makes
<1>3. n \in Nat OBVIOUS
<1> HIDE DEF n
<1> DEFINE S == {i \in 0..n : a[i] = b[i]}
<1>4. 0 \in S BY <1>1, <1>2, <1>3 DEF Advances
<1>5. ASSUME NEW i \in S, i < n PROVE i + 1 \in S
  <2>1. i + 1 \in 0..n BY <1>3, <1>5
  <2>2. a[i + 1] = Advance(of, a[i], seq[i + 1]) BY <1>1, <1>5 DEF Advances
  <2>3. b[i + 1] = Advance(of, b[i], seq[i + 1]) BY <1>2, <1>5 DEF Advances
  <2> QED BY <2>1, <2>2, <2>3
<1>6. S \in SUBSET (0..n) OBVIOUS
<1> HIDE DEF S
<1>7. \A i \in 0..n : i \in S BY <1>3, <1>4, <1>5, <1>6, UpTo, SMTT(30)
<1>8. n \in S BY <1>3, <1>7
<1> QED BY <1>1, <1>2, <1>8 DEF S

(* What every element leaves in a set is in it at the end.                 *)
StaysIn(of, seq, m, n, X) == \A x \in X, i \in m..n : i < n => Advance(of, x, seq[i + 1]) \in X

LEMMA AdvanceStays ==
  ASSUME NEW of, NEW first, NEW seq, NEW m \in Nat, NEW n \in Nat, n >= m,
         NEW made, Advances(made, of, first, seq, m, n), NEW X, first \in X,
         StaysIn(of, seq, m, n, X)
  PROVE  made[n] \in X
<1> DEFINE S == {k \in Nat : k >= m /\ (k <= n => made[k] \in X)}
<1>1. m \in S BY DEF Advances
<1>2. ASSUME NEW k \in S, k >= m PROVE k + 1 \in S
  <2>1. CASE k + 1 <= n
    <3>1. k \in m..n /\ k < n /\ made[k] \in X BY <1>2, <2>1
    <3>2. made[k + 1] = Advance(of, made[k], seq[k + 1]) BY <3>1 DEF Advances
    <3> QED BY <3>1, <3>2 DEF StaysIn
  <2>2. CASE ~(k + 1 <= n) BY <2>2
  <2> QED BY <2>1, <2>2
<1>3. S \in SUBSET Nat OBVIOUS
<1> HIDE DEF S
<1>4. n \in S BY <1>1, <1>2, <1>3, UpFrom
<1> QED BY <1>4 DEF S

-----------------------------------------------------------------------------
(* The records of some kinds.                                              *)

LEMMA OfKindMade ==
  ASSUME NEW said, Len(said) \in Nat, NEW kinds
  PROVE  Makes(<<"kinds", kinds>>, <<>>, said, OfKind(said, kinds))
<1>1. PICK made : /\ Advances(made, <<"kinds", kinds>>, <<>>, said, 0, Len(said))
                  /\ OfKind(said, kinds) = made[Len(said)]
  BY KindAdvances
<1> QED BY <1>1 DEF Makes

LEMMA KindStep == \A kinds, x, e : Advance(<<"kinds", kinds>>, x, e) = KeepKind(x, e, kinds)
<1> TAKE kinds, x, e
<1> DEFINE of == <<"kinds", kinds>>
<1>1. of[1] = "kinds" /\ of[2] = kinds OBVIOUS
<1> HIDE DEF of
<1>2. Advance(of, x, e) = KeepKind(x, e, kinds) BY <1>1 DEF Advance
<1> QED BY <1>2 DEF of

(* What is chosen of the chosen is what is chosen of all.                  *)
LEMMA OfKindTwice ==
  ASSUME NEW T, NEW said \in Seq(T), NEW L, NEW K, K \subseteq L
  PROVE  OfKind(OfKind(said, L), K) = OfKind(said, K)
<1> DEFINE n == Len(said)
<1>0. n \in Nat /\ \A i \in 0..n : i < n => said[i + 1] \in T OBVIOUS
<1>1. PICK a : Advances(a, <<"kinds", L>>, <<>>, said, 0, n) /\ OfKind(said, L) = a[n]
  BY <1>0, KindAdvances
<1>2. PICK b : Advances(b, <<"kinds", K>>, <<>>, said, 0, n) /\ OfKind(said, K) = b[n]
  BY <1>0, KindAdvances
<1> HIDE DEF n
<1> DEFINE S == {i \in 0..n : a[i] \in Seq(T) /\ Makes(<<"kinds", K>>, <<>>, a[i], b[i])}
<1>3. 0 \in S
  <2>1. a[0] = <<>> /\ b[0] = <<>> BY <1>1, <1>2 DEF Advances
  <2>2. a[0] \in Seq(T) BY <2>1, EmptySeq
  <2>3. 0 \in 0..n BY <1>0
  <2> QED BY <2>1, <2>2, <2>3, MakesNothing
<1>4. ASSUME NEW i \in S, i < n PROVE i + 1 \in S
  <2> DEFINE e == said[i + 1]
  <2>1. i + 1 \in 0..n /\ e \in T BY <1>0, <1>4
  <2>2. a[i + 1] = KeepKind(a[i], e, L) BY <1>1, <1>4, KindStep DEF Advances
  <2>3. b[i + 1] = KeepKind(b[i], e, K) BY <1>2, <1>4, KindStep DEF Advances
  <2>4. a[i] \in Seq(T) /\ Makes(<<"kinds", K>>, <<>>, a[i], b[i]) OBVIOUS
  <2> HIDE DEF e
  <2>5. CASE e.kind \in L
    <3>1. a[i + 1] = Append(a[i], e) BY <2>2, <2>5 DEF KeepKind
    <3>2. Makes(<<"kinds", K>>, <<>>, a[i + 1], b[i + 1])
      BY <2>1, <2>3, <2>4, <3>1, MakesMore, KindStep
    <3>3. a[i + 1] \in Seq(T) BY <2>1, <2>4, <3>1, AppendProperties
    <3> QED BY <2>1, <3>2, <3>3
  <2>6. CASE e.kind \notin L
    <3>1. a[i + 1] = a[i] /\ b[i + 1] = b[i] BY <2>2, <2>3, <2>6 DEF KeepKind
    <3> QED BY <2>1, <2>4, <3>1
  <2> QED BY <2>5, <2>6
<1>5. S \in SUBSET (0..n) OBVIOUS
<1> HIDE DEF S
<1>6. \A i \in 0..n : i \in S BY <1>0, <1>3, <1>4, <1>5, UpTo
<1>7. a[n] \in Seq(T) /\ Makes(<<"kinds", K>>, <<>>, a[n], b[n]) BY <1>0, <1>6 DEF S
<1>8. Makes(<<"kinds", K>>, <<>>, a[n], OfKind(a[n], K)) BY <1>7, OfKindMade
<1>9. OfKind(a[n], K) = b[n] BY <1>7, <1>8, MakesOne
<1> QED BY <1>1, <1>2, <1>9

(* Of the kinds of one or the other, there is none if there is none of     *)
(* either.                                                                 *)
LEMMA OfKindEither ==
  ASSUME NEW T, NEW said \in Seq(T), NEW K, NEW L
  PROVE  OfKind(said, K \cup L) = <<>> <=> OfKind(said, K) = <<>> /\ OfKind(said, L) = <<>>
<1> DEFINE n == Len(said)
           M == K \cup L
<1>0. n \in Nat /\ (\A i \in 0..n : i < n => said[i + 1] \in T) /\ M = K \cup L OBVIOUS
<1>1. PICK a : Advances(a, <<"kinds", M>>, <<>>, said, 0, n) /\ OfKind(said, M) = a[n]
  BY <1>0, KindAdvances
<1>2. PICK b : Advances(b, <<"kinds", K>>, <<>>, said, 0, n) /\ OfKind(said, K) = b[n]
  BY <1>0, KindAdvances
<1>3. PICK c : Advances(c, <<"kinds", L>>, <<>>, said, 0, n) /\ OfKind(said, L) = c[n]
  BY <1>0, KindAdvances
<1> HIDE DEF n, M
<1> DEFINE S == {i \in 0..n : /\ a[i] \in Seq(T) /\ b[i] \in Seq(T) /\ c[i] \in Seq(T)
                              /\ a[i] = <<>> <=> b[i] = <<>> /\ c[i] = <<>>}
<1>4. 0 \in S
  <2>1. a[0] = <<>> /\ b[0] = <<>> /\ c[0] = <<>> BY <1>1, <1>2, <1>3 DEF Advances
  <2>2. a[0] \in Seq(T) /\ b[0] \in Seq(T) /\ c[0] \in Seq(T) BY <2>1, EmptySeq
  <2>3. 0 \in 0..n BY <1>0
  <2> QED BY <2>1, <2>2, <2>3, Zenon
<1>5. ASSUME NEW i \in S, i < n PROVE i + 1 \in S
  <2> DEFINE e == said[i + 1]
  <2>1. i + 1 \in 0..n /\ e \in T BY <1>0, <1>5
  <2>2. a[i + 1] = KeepKind(a[i], e, M) BY <1>1, <1>5, KindStep DEF Advances
  <2>3. b[i + 1] = KeepKind(b[i], e, K) BY <1>2, <1>5, KindStep DEF Advances
  <2>4. c[i + 1] = KeepKind(c[i], e, L) BY <1>3, <1>5, KindStep DEF Advances
  <2> HIDE DEF e
  <2>5. \A x \in Seq(T) : Append(x, e) \in Seq(T) /\ Append(x, e) # <<>> BY <2>1, AppendProperties
  <2>6. e.kind \in M <=> e.kind \in K \/ e.kind \in L BY <1>0
  <2> QED BY <2>1, <2>2, <2>3, <2>4, <2>5, <2>6 DEF KeepKind
<1>6. S \in SUBSET (0..n) OBVIOUS
<1> HIDE DEF S
<1>7. \A i \in 0..n : i \in S BY <1>0, <1>4, <1>5, <1>6, UpTo
<1>8. a[n] = <<>> <=> b[n] = <<>> /\ c[n] = <<>> BY <1>0, <1>7 DEF S
<1> QED BY <1>0, <1>1, <1>2, <1>3, <1>8

(* The chosen are of the kinds they are chosen by.                         *)
LEMMA OfKindOnly ==
  ASSUME NEW T, NEW said \in Seq(T), NEW K
  PROVE  OfKind(said, K) \in Seq({e \in T : e.kind \in K})
<1> DEFINE n == Len(said)
           U == {e \in T : e.kind \in K}
<1>0. n \in Nat /\ \A i \in 0..n : i < n => said[i + 1] \in T OBVIOUS
<1>1. PICK a : Advances(a, <<"kinds", K>>, <<>>, said, 0, n) /\ OfKind(said, K) = a[n]
  BY <1>0, KindAdvances
<1>2. \A e \in T : e.kind \in K => e \in U OBVIOUS
<1> HIDE DEF n, U
<1> DEFINE S == {i \in 0..n : a[i] \in Seq(U)}
<1>3. 0 \in S
  <2>1. a[0] = <<>> BY <1>1 DEF Advances
  <2>2. a[0] \in Seq(U) BY <2>1, EmptySeq
  <2>3. 0 \in 0..n BY <1>0
  <2> QED BY <2>2, <2>3
<1>4. ASSUME NEW i \in S, i < n PROVE i + 1 \in S
  <2> DEFINE e == said[i + 1]
  <2>1. i + 1 \in 0..n /\ e \in T BY <1>0, <1>4
  <2>2. a[i + 1] = KeepKind(a[i], e, K) BY <1>1, <1>4, KindStep DEF Advances
  <2>3. a[i] \in Seq(U) OBVIOUS
  <2> HIDE DEF e
  <2>4. e.kind \in K => Append(a[i], e) \in Seq(U) BY <1>2, <2>1, <2>3, AppendProperties
  <2>5. a[i + 1] \in Seq(U) BY <2>2, <2>3, <2>4 DEF KeepKind
  <2> QED BY <2>1, <2>5
<1>5. S \in SUBSET (0..n) OBVIOUS
<1> HIDE DEF S
<1>6. \A i \in 0..n : i \in S BY <1>0, <1>3, <1>4, <1>5, UpTo
<1>7. OfKind(said, K) \in Seq(U) BY <1>0, <1>1, <1>6 DEF S
<1> QED BY <1>7 DEF U

LEMMA OfKindIsSeq ==
  ASSUME NEW T, NEW said \in Seq(T), NEW K
  PROVE  OfKind(said, K) \in Seq(T)
<1> DEFINE U == {e \in T : e.kind \in K}
<1>1. OfKind(said, K) \in Seq(U) BY OfKindOnly
<1>2. U \subseteq T OBVIOUS
<1> HIDE DEF U
<1> QED BY <1>1, <1>2

LEMMA OfKindNone ==
  ASSUME NEW T, NEW said \in Seq(T), NEW K, \A e \in T : e.kind \notin K
  PROVE  OfKind(said, K) = <<>>
<1> DEFINE U == {e \in T : e.kind \in K}
<1>1. OfKind(said, K) \in Seq(U) BY OfKindOnly
<1>2. U = {} OBVIOUS
<1> HIDE DEF U
<1> QED BY <1>1, <1>2

HashedKinds == {"session", "model", "title", "message", "compaction"}

(* What is replayed are the records of each kind.                          *)
SameOfEachKind(a, b) == \A k \in HashedKinds : OfKind(a, {k}) = OfKind(b, {k})

LEMMA ReplayOfKinds ==
  ASSUME NEW source, NEW file, NEW a, NEW b, SameOfEachKind(a, b)
  PROVE  Replay(source, file, a) = Replay(source, file, b)
<1>1. /\ OfKind(a, {"session"}) = OfKind(b, {"session"})
      /\ OfKind(a, {"model"}) = OfKind(b, {"model"})
      /\ OfKind(a, {"title"}) = OfKind(b, {"title"})
      /\ OfKind(a, {"message"}) = OfKind(b, {"message"})
      /\ OfKind(a, {"compaction"}) = OfKind(b, {"compaction"})
  BY DEF SameOfEachKind, HashedKinds
<1>2. Located(source, a) = Located(source, b) BY <1>1 DEF Located
<1>3. SessionName(source, file, a) = SessionName(source, file, b)
  BY <1>2, Zenon DEF SessionName
<1>4. Title(a) = Title(b) BY <1>1, Zenon DEF Title
<1> QED BY <1>1, <1>2, <1>3, <1>4, Zenon DEF Replay

LEMMA TakenInKinds ==
  ASSUME NEW T, NEW a \in Seq(T), NEW b \in Seq(T), NEW source, source # "claude_code",
         TakenIn(source, a).fields = TakenIn(source, b).fields
  PROVE  /\ SameOfEachKind(a, b)
         /\ TakenIn(source, a) = TakenIn(source, b)
<1>1. OfKind(a, HashedKinds) = OfKind(b, HashedKinds) BY DEF TakenIn, HashedKinds
<1>2. ASSUME NEW k \in HashedKinds PROVE OfKind(a, {k}) = OfKind(b, {k})
  <2>1. {k} \subseteq HashedKinds OBVIOUS
  <2>2. OfKind(OfKind(a, HashedKinds), {k}) = OfKind(a, {k}) BY <2>1, OfKindTwice
  <2>3. OfKind(OfKind(b, HashedKinds), {k}) = OfKind(b, {k}) BY <2>1, OfKindTwice
  <2> QED BY <1>1, <2>2, <2>3
<1>3. SameOfEachKind(a, b) BY <1>2 DEF SameOfEachKind
<1>4. Located(source, a) = Located(source, b) BY <1>3 DEF Located, SameOfEachKind, HashedKinds
<1>6. OfKind(a, {"message", "compaction"}) = OfKind(b, {"message", "compaction"})
  <2>1. {"message", "compaction"} \subseteq HashedKinds BY DEF HashedKinds
  <2>2. OfKind(OfKind(a, HashedKinds), {"message", "compaction"}) = OfKind(a, {"message", "compaction"})
    BY <2>1, OfKindTwice
  <2>3. OfKind(OfKind(b, HashedKinds), {"message", "compaction"}) = OfKind(b, {"message", "compaction"})
    BY <2>1, OfKindTwice
  <2> QED BY <1>1, <2>2, <2>3
<1>5. TakenIn(source, a) = TakenIn(source, b) BY <1>1, <1>4, <1>6, Zenon DEF TakenIn, HashedKinds
<1> QED BY <1>3, <1>5

LEMMA ReplayProjected ==
  ASSUME NEW T, NEW said \in Seq(T), NEW source, NEW file
  PROVE  /\ Replay(source, file, said).outcome = "projected" <=> TakenIn(source, said).selected
         /\ TakenIn(source, said).selected \in BOOLEAN
         /\ Replay(source, file, said).session.cwd = TakenIn(source, said).cwd
<1> DEFINE messages == OfKind(said, {"message"})
           compacted == OfKind(said, {"compaction"})
           compact == [i \in DOMAIN compacted |-> compacted[i].text]
<1>1. OfKind(said, {"message", "compaction"}) = <<>> <=> messages = <<>> /\ compacted = <<>>
  <2>1. {"message"} \cup {"compaction"} = {"message", "compaction"} OBVIOUS
  <2> QED BY <2>1, OfKindEither
<1>2. compact = <<>> <=> compacted = <<>>
  <2>1. compacted \in Seq(T) BY OfKindIsSeq
  <2> HIDE DEF compacted
  <2>2. DOMAIN compact = 1..Len(compacted) /\ Len(compacted) \in Nat BY <2>1
  <2>3. DOMAIN <<>> = {} OBVIOUS
  <2>4. compacted = <<>> => compact = <<>> BY <2>2, <2>3
  <2>5. compact = <<>> => Len(compacted) = 0 BY <2>2, <2>3
  <2> QED BY <2>1, <2>4, <2>5, EmptySeq
<1>3. Replay(source, file, said).outcome
        = IF messages = <<>> /\ compact = <<>> THEN "skipped" ELSE "projected"
  BY DEF Replay
<1>4. TakenIn(source, said).selected = (OfKind(said, {"message", "compaction"}) # <<>>)
  BY Zenon DEF TakenIn
<1>5. Replay(source, file, said).session.cwd = TakenIn(source, said).cwd
  BY DEF Replay, TakenIn
<1> HIDE DEF messages, compacted, compact
<1> QED BY <1>1, <1>2, <1>3, <1>4, <1>5

-----------------------------------------------------------------------------
(* What was read of a rollout, but for what no field says.                 *)

View(s) == [s EXCEPT !.filtered = 0]

Placeless(docs) == [i \in DOMAIN docs |-> [docs[i] EXCEPT !.at = 0]]

(* What Classify returns is what its fields say.                           *)
Exact(r) ==
  /\ r.kind \in RecordKinds
  /\ r.kind \in {"meta", "context", "boundary", "compacted", "message"} =>
       Hashed(r) = <<Hashed(r)[1]>> /\ RecordOf(Hashed(r)[1]) = r
  /\ r.kind \in {"none", "filtered"} => Hashed(r) = <<>>
  /\ r.kind = "reasoning" =>
       Hashed(r) = [i \in DOMAIN r.texts |-> <<"reasoning", r.texts[i]>>]

LEMMA ClassifyExact == ASSUME NEW raw PROVE Exact(Classify(raw))
<1>1. Exact(Nothing) BY DEF Nothing, Exact, RecordKinds, Hashed
<1>2. Exact([kind |-> "filtered"]) BY DEF Exact, RecordKinds, Hashed
<1>3. Exact([kind |-> "boundary"]) BY DEF Exact, RecordKinds, Hashed, RecordOf
<1>4. ASSUME NEW role, NEW text, NEW time, NEW origin
      PROVE  Exact([kind |-> "message", role |-> role, text |-> text, time |-> time, origin |-> origin])
  BY DEF Exact, RecordKinds, Hashed, RecordOf
<1>5. ASSUME NEW id, NEW cwd, NEW segment
      PROVE  Exact([kind |-> "meta", id |-> id, cwd |-> cwd, segment |-> segment])
  BY DEF Exact, RecordKinds, Hashed, RecordOf
<1>6. ASSUME NEW model, NEW cwd, NEW turn
      PROVE  Exact([kind |-> "context", model |-> model, cwd |-> cwd, turn |-> turn])
  BY DEF Exact, RecordKinds, Hashed, RecordOf
<1>7. ASSUME NEW text PROVE Exact([kind |-> "compacted", text |-> text])
  BY DEF Exact, RecordKinds, Hashed, RecordOf
<1>8. ASSUME NEW texts PROVE Exact([kind |-> "reasoning", texts |-> texts])
  BY DEF Exact, RecordKinds, Hashed, RecordOf
<1>9. ASSUME NEW role, NEW text, NEW time, NEW origin
      PROVE  Exact(Conversation(role, text, time, origin))
  BY <1>2, <1>4 DEF Conversation
<1>10. Exact(ResponseItem(raw)) BY <1>1, <1>9 DEF ResponseItem
<1>11. Exact(Event(raw)) BY <1>1, <1>3, <1>9 DEF Event
<1>12. CASE raw.time = 0 BY <1>1, <1>12 DEF Classify
<1>13. CASE raw.time # 0
  <2> DEFINE metas == raw.type = "session_meta" /\ <<raw.id, raw.cwd>> # <<Unset, Unset>>
             contexts == raw.type = "turn_context" /\ <<raw.model, raw.cwd, raw.turn>> # <<Unset, Unset, Unset>>
             compacts == raw.type = "compacted" /\ raw.text # <<>>
             reasons == raw.type = "reasoning" /\ raw.texts # <<>>
  <2>1. Classify(raw) \in
          {[kind |-> "meta", id |-> raw.id, cwd |-> raw.cwd, segment |-> raw.history],
           [kind |-> "context", model |-> raw.model, cwd |-> raw.cwd, turn |-> raw.turn],
           [kind |-> "compacted", text |-> raw.text], [kind |-> "reasoning", texts |-> raw.texts],
           ResponseItem(raw), Event(raw), Nothing}
    BY <1>13, Zenon DEF Classify
  <2> QED BY <2>1, <1>1, <1>5, <1>6, <1>7, <1>8, <1>10, <1>11, Zenon
<1> QED BY <1>12, <1>13

(* A reasoning is that of the rollout.                                     *)
LEMMA ClassifyReasoning ==
  ASSUME NEW raw, Classify(raw).kind = "reasoning"
  PROVE  raw.type = "reasoning" /\ Classify(raw).texts = raw.texts
<1>1. raw.time # 0 BY DEF Classify, Nothing
<1>2. \A role, text, time, origin : Conversation(role, text, time, origin).kind # "reasoning"
  BY DEF Conversation
<1>3. ResponseItem(raw).kind # "reasoning" BY <1>2 DEF ResponseItem, Nothing
<1>4. Event(raw).kind # "reasoning" BY <1>2 DEF Event, Nothing
<1>5. CASE raw.type = "reasoning" /\ raw.texts # <<>> BY <1>1, <1>5 DEF Classify
<1>6. CASE raw.type = "reasoning" /\ raw.texts = <<>> BY <1>1, <1>6 DEF Classify, Nothing
<1>7. CASE raw.type = "response_item" BY <1>1, <1>3, <1>7 DEF Classify
<1>8. CASE raw.type = "event_msg" BY <1>1, <1>4, <1>8 DEF Classify
<1>9. CASE raw.type \notin {"reasoning", "response_item", "event_msg"}
  BY <1>1, <1>9 DEF Classify, Nothing
<1> QED BY <1>5, <1>6, <1>7, <1>8, <1>9

LEMMA HashedKeepsCwd ==
  ASSUME NEW s, IsState(s), NEW r
  PROVE  Apply(s, r, FALSE).cwd = AdoptCwd(s.cwd, r)
<1>1. CASE r.kind = "meta" BY <1>1 DEF Apply, Meta, AdoptCwd, IsState, StateFields
<1>2. CASE r.kind = "context"
  <2>1. Apply(s, r, FALSE) = Context(s, r) BY <1>2, FollowKind DEF Apply
  <2>2. Context(s, r).cwd = IF s.cwd = Unset THEN r.cwd ELSE s.cwd
    BY DEF Context, IsState, StateFields
  <2>3. AdoptCwd(s.cwd, r) = IF s.cwd = Unset THEN r.cwd ELSE s.cwd BY <1>2 DEF AdoptCwd
  <2> QED BY <2>1, <2>2, <2>3
<1>3. CASE r.kind \notin {"meta", "context"}
  <2>1. AdoptCwd(s.cwd, r) = s.cwd BY <1>3 DEF AdoptCwd
  <2>2. Apply(s, r, FALSE) = Follow(s, r) BY <1>3 DEF Apply
  <2>3. Observe(s, r).cwd = s.cwd BY DEF Observe, IsState, StateFields
  <2>4. /\ [s EXCEPT !.mirror = NoMirror, !.turn = Unset].cwd = s.cwd
        /\ [s EXCEPT !.mirror = NoMirror, !.compact = PushUnique(s.compact, r.text)].cwd = s.cwd
        /\ [s EXCEPT !.reasoning = PushAll(s.reasoning, r.texts)].cwd = s.cwd
        /\ [s EXCEPT !.filtered = s.filtered + 1].cwd = s.cwd
        /\ [s EXCEPT !.mirror = NoMirror].cwd = s.cwd
    BY DEF IsState, StateFields
  <2>5. CASE r.kind = "message" BY <2>2, <2>3, <2>4, <2>5, <2>1, FollowKind
  <2>6. CASE r.kind # "message" BY <1>3, <2>1, <2>2, <2>4, <2>6, FollowKind
  <2> QED BY <2>5, <2>6
<1> QED BY <1>1, <1>2, <1>3

LEMMA ViewKeeps ==
  ASSUME NEW s, IsState(s)
  PROVE  /\ IsState(View(s)) /\ View(View(s)) = View(s)
         /\ \A f \in StateFields \ {"filtered"} : View(s)[f] = s[f]
<1>1. DOMAIN View(s) = StateFields BY DEF IsState, View
<1>2. View(s) = [f \in StateFields |-> View(s)[f]] BY <1>1 DEF View, IsState
<1>3. \A f \in StateFields \ {"filtered"} : View(s)[f] = s[f] BY DEF IsState, View
<1>4. View(s).next \in Nat BY <1>3 DEF StateFields, IsState
<1>5. IsState(View(s)) BY <1>1, <1>2, <1>4 DEF IsState
<1>6. View(View(s)) = View(s)
  <2>1. DOMAIN View(View(s)) = StateFields BY <1>1 DEF View
  <2>2. \A f \in StateFields : View(View(s))[f] = View(s)[f] BY <1>1 DEF View, IsState, StateFields
  <2>3. View(View(s)) = [f \in StateFields |-> View(View(s))[f]] BY <2>1 DEF View, IsState
  <2> QED BY <1>2, <2>2, <2>3
<1> QED BY <1>3, <1>5, <1>6

Seen(s, docs) == [state |-> View(s), docs |-> Placeless(docs)]

LEMMA ViewApply ==
  ASSUME NEW s, IsState(s), NEW r, r.kind # "filtered"
  PROVE  Apply(View(s), r, FALSE) = View(Apply(s, r, FALSE)) /\ (Shown(View(s), r) <=> Shown(s, r))
<1> DEFINE t == View(s)
           v == PushUnique(s.compact, r.text)
           w == PushAll(s.reasoning, r.texts)
<1>0. /\ IsState(t) /\ t.mirror = s.mirror /\ t.next = s.next
      /\ v = PushUnique(t.compact, r.text) /\ w = PushAll(t.reasoning, r.texts)
  BY ViewKeeps DEF StateFields
<1> HIDE DEF v, w
<1>1. Shown(t, r) <=> Shown(s, r) BY <1>0 DEF Shown, Mirrors
<1>2. Meta(t, r, FALSE) = View(Meta(s, r, FALSE)) BY DEF View, Meta, IsState, StateFields
<1>3. Context(t, r) = View(Context(s, r)) BY DEF View, Context, IsState, StateFields
<1>4. [t EXCEPT !.mirror = NoMirror, !.turn = Unset] = View([s EXCEPT !.mirror = NoMirror, !.turn = Unset])
  BY DEF View, IsState, StateFields
<1>5. [t EXCEPT !.mirror = NoMirror, !.compact = v] = View([s EXCEPT !.mirror = NoMirror, !.compact = v])
  BY DEF View, IsState, StateFields
<1>6. [t EXCEPT !.reasoning = w] = View([s EXCEPT !.reasoning = w])
  BY DEF View, IsState, StateFields
<1>7. [t EXCEPT !.mirror = NoMirror] = View([s EXCEPT !.mirror = NoMirror])
  BY DEF View, IsState, StateFields
<1>8. Observe(t, r) = View(Observe(s, r))
  <2> DEFINE entry == [seq |-> s.next, text |-> r.text]
             mirror == [role |-> r.role, text |-> r.text, origin |-> r.origin]
             first == [s.first EXCEPT ![r.role] = IF @ = NoEntry THEN entry ELSE @]
             latest == [s.latest EXCEPT ![r.role] = entry]
             started == IF s.started = 0 \/ r.time < s.started THEN r.time ELSE s.started
             ended == IF r.time > s.ended THEN r.time ELSE s.ended
             After(x) == [x EXCEPT !.next = s.next + 1, !.mirror = mirror, !.first = first,
                                   !.latest = latest, !.started = started, !.ended = ended]
  <2>1. Observe(s, r) = After(s) BY DEF Observe, IsState, StateFields
  <2>2. Observe(t, r) = After(t) BY DEF Observe, IsState, StateFields, View
  <2> HIDE DEF entry, mirror, first, latest, started, ended
  <2>3. After(t) = View(After(s)) BY DEF View, IsState, StateFields
  <2> HIDE DEF After
  <2> QED BY <2>1, <2>2, <2>3
<1> HIDE DEF t
<1>9. Apply(t, r, FALSE) = View(Apply(s, r, FALSE))
  <2>1. CASE r.kind = "meta" BY <1>2, <2>1 DEF Apply
  <2>2. CASE r.kind # "meta"
    <3>0. Apply(t, r, FALSE) = Follow(t, r) /\ Apply(s, r, FALSE) = Follow(s, r)
      BY <2>2 DEF Apply
    <3>1. CASE r.kind = "context" BY <1>3, <3>0, <3>1, FollowKind, ZenonT(60)
    <3>2. CASE r.kind = "boundary" BY <1>4, <3>0, <3>2, FollowKind
    <3>3. CASE r.kind = "compacted"
      <4>1. Follow(t, r) = [t EXCEPT !.mirror = NoMirror, !.compact = v]
        BY <3>3, <1>0, FollowKind, Zenon
      <4>2. Follow(s, r) = [s EXCEPT !.mirror = NoMirror, !.compact = v]
        BY <3>3, FollowKind, Zenon DEF v
      <4> QED BY <1>5, <3>0, <4>1, <4>2
    <3>4. CASE r.kind = "reasoning"
      <4>1. Follow(t, r) = [t EXCEPT !.reasoning = w] BY <3>4, <1>0, FollowKind, Zenon
      <4>2. Follow(s, r) = [s EXCEPT !.reasoning = w] BY <3>4, FollowKind, Zenon DEF w
      <4> QED BY <1>6, <3>0, <4>1, <4>2
    <3>5. CASE r.kind = "message"
      <4>1. CASE Shown(s, r) BY <1>1, <1>8, <3>0, <4>1, FollowKind, ZenonT(60)
      <4>2. CASE ~Shown(s, r) BY <1>1, <1>7, <3>0, <3>5, <4>2, FollowKind
      <4> QED BY <4>1, <4>2
    <3>6. CASE r.kind \notin {"context", "boundary", "compacted", "reasoning", "message"}
      <4>1. Follow(t, r) = t /\ Follow(s, r) = s BY <2>2, <3>6, FollowKind
      <4> QED BY <3>0, <4>1 DEF t
    <3> QED BY <3>1, <3>2, <3>3, <3>4, <3>5, <3>6
  <2> QED BY <2>1, <2>2
<1> QED BY <1>1, <1>9 DEF t

LEMMA PlacelessAppend ==
  ASSUME NEW docs, IsList(docs), NEW d
  PROVE  Placeless(Append(docs, d)) = Append(Placeless(docs), [d EXCEPT !.at = 0])
<1> DEFINE n == Len(docs)
           more == Append(docs, d)
           less == Placeless(docs)
           e == [d EXCEPT !.at = 0]
<1>1. PICK D : docs \in Seq(D) BY DEF IsList
<1>2. docs \in Seq(D \cup {d}) BY <1>1, SeqMonotonic
<1>3. /\ n \in Nat /\ DOMAIN docs = 1..n /\ DOMAIN more = 1..(n + 1)
      /\ more[n + 1] = d /\ \A i \in 1..n : more[i] = docs[i]
  BY <1>2
<1>4. less = [i \in 1..n |-> [docs[i] EXCEPT !.at = 0]] BY <1>3 DEF Placeless
<1>5. Placeless(more) = [i \in 1..(n + 1) |-> [more[i] EXCEPT !.at = 0]] BY <1>3 DEF Placeless
<1> HIDE DEF n, more
<1>6. /\ Append(less, e) = [i \in 1..(n + 1) |-> IF i = n + 1 THEN e ELSE less[i]]
  <2> DEFINE T == {[docs[i] EXCEPT !.at = 0] : i \in 1..n} \cup {e}
  <2>1. Len(less) = n /\ less \in Seq(T) /\ e \in T BY <1>3, <1>4
  <2> HIDE DEF less, e, T
  <2> DEFINE x == Append(less, e)
  <2>2. /\ x \in Seq(T) /\ Len(x) = n + 1 /\ x[n + 1] = e
        /\ \A i \in 1..n : x[i] = less[i]
    BY <2>1, AppendProperties
  <2> HIDE DEF x
  <2>3. x = [i \in 1..(n + 1) |-> x[i]] BY <2>2
  <2>4. \A i \in 1..(n + 1) : x[i] = IF i = n + 1 THEN e ELSE less[i] BY <1>3, <2>2
  <2> QED BY <2>3, <2>4 DEF x
<1>7. ASSUME NEW i \in 1..(n + 1) PROVE [more[i] EXCEPT !.at = 0] = IF i = n + 1 THEN e ELSE less[i]
  <2>1. CASE i = n + 1 BY <1>3, <2>1
  <2>2. CASE i # n + 1
    <3>1. i \in 1..n BY <1>3, <2>2
    <3>2. less[i] = [docs[i] EXCEPT !.at = 0] BY <1>4, <3>1
    <3>3. more[i] = docs[i] BY <1>3, <3>1
    <3> HIDE DEF less
    <3> QED BY <2>2, <3>2, <3>3
  <2> QED BY <2>1, <2>2
<1> HIDE DEF less, e
<1> QED BY <1>5, <1>6, <1>7 DEF more, less, e

LEMMA FieldSees ==
  ASSUME NEW s, IsState(s), NEW docs, IsList(docs), NEW r, r.kind # "filtered", NEW at
  PROVE  ReadField(Seen(s, docs), r) = Seen(Apply(s, r, FALSE), DocsAfter(s, r, at, docs))
<1>1. Seen(s, docs).state = View(s) /\ Seen(s, docs).docs = Placeless(docs) BY DEF Seen
<1>2. Apply(View(s), r, FALSE) = View(Apply(s, r, FALSE)) /\ (Shown(View(s), r) <=> Shown(s, r))
  BY ViewApply
<1>3. View(s).next = s.next BY ViewKeeps DEF StateFields
<1>4. [Document(s, r, at) EXCEPT !.at = 0] = Document(View(s), r, 0) BY <1>3 DEF Document
<1>5. Placeless(Append(docs, Document(s, r, at))) = Append(Placeless(docs), Document(View(s), r, 0))
  BY <1>4, PlacelessAppend
<1>6. ReadField(Seen(s, docs), r)
        = [state |-> View(Apply(s, r, FALSE)),
           docs |-> IF Shown(s, r) THEN Append(Placeless(docs), Document(View(s), r, 0)) ELSE Placeless(docs)]
  BY <1>1, <1>2, Zenon DEF ReadField
<1>7. Placeless(DocsAfter(s, r, at, docs))
        = IF Shown(s, r) THEN Append(Placeless(docs), Document(View(s), r, 0)) ELSE Placeless(docs)
  BY <1>5 DEF DocsAfter
<1> QED BY <1>6, <1>7, Zenon DEF Seen

LEMMA UnsaidSees ==
  ASSUME NEW s, IsState(s), NEW docs, NEW at, NEW r, r.kind = "none" \/ r.kind = "filtered"
  PROVE  Seen(Apply(s, r, FALSE), DocsAfter(s, r, at, docs)) = Seen(s, docs)
<1>1. ~Shown(s, r) BY DEF Shown
<1>2. DocsAfter(s, r, at, docs) = docs BY <1>1 DEF DocsAfter
<1>3. View([s EXCEPT !.filtered = s.filtered + 1]) = View(s) BY DEF View, IsState, StateFields
<1>4. Apply(s, r, FALSE) = Follow(s, r) BY DEF Apply
<1>5. CASE r.kind = "none" BY <1>2, <1>4, <1>5, FollowKind
<1>6. CASE r.kind = "filtered" BY <1>2, <1>3, <1>4, <1>6, FollowKind DEF Seen
<1> QED BY <1>5, <1>6

FieldOf == <<"field">>

LEMMA FieldStep == \A x, e : Advance(FieldOf, x, e) = ReadField(x, RecordOf(e))
<1> TAKE x, e
<1>1. FieldOf[1] = "field" BY DEF FieldOf
<1> HIDE DEF FieldOf
<1> QED BY <1>1 DEF Advance

LEMMA FieldsMore ==
  ASSUME NEW first, NEW x, IsList(x), NEW v, Makes(FieldOf, first, x, v), NEW e
  PROVE  Makes(FieldOf, first, Append(x, e), ReadField(v, RecordOf(e))) /\ IsList(Append(x, e))
<1>1. PICK D : x \in Seq(D) BY DEF IsList
<1>2. x \in Seq(D \cup {e}) /\ e \in D \cup {e} BY <1>1, SeqMonotonic
<1>3. Makes(FieldOf, first, Append(x, e), Advance(FieldOf, v, e)) BY <1>2, MakesMore
<1> QED BY <1>3, FieldStep, ListAppend

LEMMA PushOne == ASSUME NEW parts, NEW t PROVE PushAll(parts, <<t>>) = PushUnique(parts, t)
<1> DEFINE texts == <<t>>
           of == <<"push">>
           n == 1
<1>1. Len(texts) = n /\ texts[1] = t /\ n \in Nat /\ n = 1 OBVIOUS
<1> HIDE DEF texts, n
<1>2. PICK made : /\ Advances(made, of, parts, texts, 0, n) /\ PushAll(parts, texts) = made[n]
  BY <1>1, PushAdvances
<1>3. of[1] = "push" OBVIOUS
<1> HIDE DEF of
<1>4. made[0] = parts /\ made[0 + 1] = Advance(of, made[0], texts[0 + 1])
  BY <1>1, <1>2 DEF Advances
<1>5. made[1] = Advance(of, parts, t) BY <1>1, <1>4
<1>6. Advance(of, parts, t) = PushUnique(parts, t) BY <1>3 DEF Advance
<1>7. PushAll(parts, texts) = PushUnique(parts, t) BY <1>1, <1>2, <1>5, <1>6
<1> QED BY <1>7 DEF texts

LEMMA ReasoningApplies ==
  ASSUME NEW s, IsState(s), NEW r, r.kind = "reasoning"
  PROVE  Apply(s, r, FALSE) = [s EXCEPT !.reasoning = PushAll(s.reasoning, r.texts)]
<1>1. Apply(s, r, FALSE) = Follow(s, r) BY DEF Apply
<1> QED BY <1>1, FollowKind

LEMMA ReasoningDocs ==
  ASSUME NEW s, NEW r, r.kind \in {"reasoning", "none", "filtered"}, NEW at, NEW docs
  PROVE  DocsAfter(s, r, at, docs) = docs
BY DEF Shown, DocsAfter

LEMMA ReasoningSees ==
  ASSUME NEW s, IsState(s), NEW docs, IsList(docs), NEW r, r.kind = "reasoning", Exact(r),
         NEW T, r.texts \in Seq(T), NEW x, IsList(x), NEW first,
         Makes(FieldOf, first, x, Seen(s, docs)), NEW at
  PROVE  /\ IsList(x \o Hashed(r))
         /\ Makes(FieldOf, first, x \o Hashed(r), Seen(Apply(s, r, FALSE), DocsAfter(s, r, at, docs)))
<1> DEFINE texts == r.texts
           n == Len(texts)
           e == Hashed(r)
           E == {<<"reasoning", texts[i]>> : i \in 1..n}
<1>0. n \in Nat /\ DOMAIN texts = 1..n OBVIOUS
<1>1. e = [i \in 1..n |-> <<"reasoning", texts[i]>>] BY <1>0 DEF Exact
<1>2. e \in Seq(E) /\ Len(e) = n /\ DOMAIN e = 1..n /\ \A i \in 1..n : e[i] = <<"reasoning", texts[i]>>
  BY <1>0, <1>1, SMTT(30)
<1>3. PICK p : /\ Advances(p, <<"push">>, s.reasoning, texts, 0, n)
               /\ PushAll(s.reasoning, texts) = p[n]
  BY <1>0, PushAdvances
<1>4. PICK D : x \in Seq(D) BY DEF IsList
<1> HIDE DEF n, e, E, texts
<1>5. x \in Seq(D \cup E) /\ e \in Seq(D \cup E) BY <1>2, <1>4, SeqMonotonic
<1>6. ASSUME NEW i \in 0..n, i < n PROVE p[i + 1] = PushUnique(p[i], texts[i + 1])
  <2> DEFINE of == <<"push">>
  <2>1. of[1] = "push" OBVIOUS
  <2>2. p[i + 1] = Advance(of, p[i], texts[i + 1]) BY <1>3, <1>6 DEF Advances
  <2> HIDE DEF of
  <2> QED BY <2>1, <2>2 DEF Advance
<1> DEFINE Held(i) == [s EXCEPT !.reasoning = p[i]]
           Upto(i) == x \o SubSeq(e, 1, i)
           S == {i \in 0..n : IsList(Upto(i)) /\ Makes(FieldOf, first, Upto(i), Seen(Held(i), docs))}
<1>7. 0 \in S
  <2>1. p[0] = s.reasoning BY <1>3 DEF Advances
  <2>2. Held(0) = s BY <2>1 DEF IsState, StateFields
  <2>3. SubSeq(e, 1, 0) = <<>> BY SubSeqEmpty
  <2>4. Upto(0) = x BY <1>4, <2>3, ConcatEmptySeq
  <2>5. 0 \in 0..n BY <1>0
  <2> HIDE DEF Held, Upto
  <2> QED BY <2>2, <2>4, <2>5
<1>8. ASSUME NEW i \in S, i < n PROVE i + 1 \in S
  <2> DEFINE t == texts[i + 1]
             q == RecordOf(e[i + 1])
  <2>0. i \in 0..n /\ i + 1 \in 1..n /\ i + 1 \in 0..n BY <1>0, <1>8
  <2>1. e[i + 1] = <<"reasoning", t>> BY <1>2, <2>0
  <2>2. q = [kind |-> "reasoning", texts |-> <<t>>] BY <2>1 DEF RecordOf
  <2>3. q.kind = "reasoning" /\ q.texts = <<t>> BY <2>2
  <2>4. IsState(Held(i)) /\ Held(i).reasoning = p[i]
    <3>1. SetKeeps(s, Held(i)) BY OthersKeep
    <3>2. Held(i).reasoning = p[i] BY DEF IsState, StateFields
    <3> HIDE DEF Held
    <3> QED BY <3>1, <3>2, Zenon DEF SetKeeps
  <2>5. [Held(i) EXCEPT !.reasoning = p[i + 1]] = Held(i + 1) BY DEF IsState, StateFields
  <2>6. Upto(i + 1) = Append(Upto(i), e[i + 1])
    <3> DEFINE U == D \cup E
               y == SubSeq(e, 1, i)
               z == e[i + 1]
    <3>1. SubSeq(e, 1, i + 1) = y \o <<z>>
      <4>1. 1 \in 1..Len(e) /\ i + 1 \in 1..Len(e) BY <1>2, <2>0
      <4>2. SubSeq(e, 1, i + 1) = SubSeq(e, 1, (i + 1) - 1) \o <<e[i + 1]>>
        BY <1>2, <4>1, SubSeqRecursiveSecond
      <4>3. (i + 1) - 1 = i BY <2>0
      <4> QED BY <4>2, <4>3
    <3>2. y \in Seq(U) /\ z \in U
      <4>1. \A j \in 1..i : e[j] \in U BY <1>2, <2>0, SMTT(30) DEF E
      <4>2. SubSeq(e, 1, i) \in Seq(U) BY <2>0, <4>1, SubSeqProperties
      <4>3. z \in U BY <1>2, <2>0 DEF E
      <4> QED BY <4>2, <4>3
    <3> HIDE DEF U, y, z
    <3>3. IsList(y) BY <3>2 DEF IsList
    <3>4. x \o Append(y, z) = Append(x \o y, z) BY <3>3, ListAppend
    <3>5. Append(y, z) = y \o <<z>> BY <3>2, AppendIsConcat
    <3> QED BY <3>1, <3>4, <3>5 DEF y, z
  <2> HIDE DEF Upto
  <2>7. IsList(Upto(i)) /\ Makes(FieldOf, first, Upto(i), Seen(Held(i), docs)) OBVIOUS
  <2>8. /\ Makes(FieldOf, first, Upto(i + 1), ReadField(Seen(Held(i), docs), q))
        /\ IsList(Upto(i + 1))
    <3> HIDE DEF Held
    <3> QED BY <2>6, <2>7, FieldsMore
  <2> HIDE DEF q
  <2>9. ReadField(Seen(Held(i), docs), q) = Seen(Apply(Held(i), q, FALSE), DocsAfter(Held(i), q, at, docs))
    <3> HIDE DEF Held
    <3> QED BY <2>3, <2>4, FieldSees
  <2>10. Apply(Held(i), q, FALSE) = Held(i + 1) /\ DocsAfter(Held(i), q, at, docs) = docs
    <3>1. Apply(Held(i), q, FALSE) = [Held(i) EXCEPT !.reasoning = PushAll(Held(i).reasoning, q.texts)]
      <4> HIDE DEF Held
      <4> QED BY <2>3, <2>4, ReasoningApplies
    <3>2. PushAll(Held(i).reasoning, q.texts) = p[i + 1]
      <4> HIDE DEF Held
      <4> QED BY <1>6, <2>0, <1>8, <2>3, <2>4, PushOne
    <3>3. DocsAfter(Held(i), q, at, docs) = docs
      <4> HIDE DEF Held
      <4> QED BY <2>3, ReasoningDocs
    <3> QED BY <2>5, <3>1, <3>2, <3>3
  <2> HIDE DEF Held
  <2> QED BY <2>0, <2>8, <2>9, <2>10
<1>9. S \in SUBSET (0..n) OBVIOUS
<1> HIDE DEF S
<1>10. \A i \in 0..n : i \in S BY <1>0, <1>7, <1>8, <1>9, UpTo, SMTT(30)
<1>11. IsList(Upto(n)) /\ Makes(FieldOf, first, Upto(n), Seen(Held(n), docs)) BY <1>0, <1>10 DEF S
<1>12. Upto(n) = x \o e BY <1>2, SubSeqFull
<1>13. Apply(s, r, FALSE) = Held(n) /\ DocsAfter(s, r, at, docs) = docs
  <2>1. Apply(s, r, FALSE) = [s EXCEPT !.reasoning = PushAll(s.reasoning, texts)]
    BY ReasoningApplies DEF texts
  <2>2. DocsAfter(s, r, at, docs) = docs BY ReasoningDocs
  <2> QED BY <1>3, <2>1, <2>2
<1> HIDE DEF Held, Upto
<1> QED BY <1>11, <1>12, <1>13 DEF e

LEMMA RecordSees ==
  ASSUME NEW s, IsState(s), NEW docs, IsList(docs), NEW r, Exact(r),
         NEW T, r.kind = "reasoning" => r.texts \in Seq(T), NEW x, IsList(x), NEW first,
         Makes(FieldOf, first, x, Seen(s, docs)), NEW at
  PROVE  /\ IsList(x \o Hashed(r))
         /\ Makes(FieldOf, first, x \o Hashed(r), Seen(Apply(s, r, FALSE), DocsAfter(s, r, at, docs)))
<1>0. PICK D : x \in Seq(D) BY DEF IsList
<1>1. CASE r.kind = "reasoning" BY <1>1, ReasoningSees
<1>2. CASE r.kind \in {"none", "filtered"}
  <2>1. Hashed(r) = <<>> BY <1>2 DEF Exact
  <2>2. x \o Hashed(r) = x BY <1>0, <2>1, ConcatEmptySeq
  <2>3. IsState(s) /\ (r.kind = "none" \/ r.kind = "filtered") BY <1>2
  <2>4. Seen(Apply(s, r, FALSE), DocsAfter(s, r, at, docs)) = Seen(s, docs)
    BY <2>3, UnsaidSees
  <2> QED BY <2>2, <2>4
<1>3. CASE r.kind \in {"meta", "context", "boundary", "compacted", "message"}
  <2> DEFINE e == Hashed(r)[1]
  <2>1. Hashed(r) = <<e>> /\ RecordOf(e) = r BY <1>3 DEF Exact
  <2> HIDE DEF e
  <2>2. x \o <<e>> = Append(x, e)
    <3>1. x \in Seq(D \cup {e}) /\ e \in D \cup {e} BY <1>0, SeqMonotonic
    <3> QED BY <3>1, AppendIsConcat
  <2>3. Makes(FieldOf, first, Append(x, e), ReadField(Seen(s, docs), r)) /\ IsList(Append(x, e))
    BY <2>1, FieldsMore
  <2>4. ReadField(Seen(s, docs), r) = Seen(Apply(s, r, FALSE), DocsAfter(s, r, at, docs))
    BY <1>3, FieldSees
  <2> QED BY <2>1, <2>2, <2>3, <2>4
<1> QED BY <1>1, <1>2, <1>3 DEF Exact, RecordKinds

FlatOf == <<"flat">>

LEMMA FlatAdvances ==
  ASSUME NEW seqs, NEW n \in Nat, Len(seqs) = n, n >= 1
  PROVE  \E made : Advances(made, FlatOf, seqs[1], seqs, 1, n) /\ FlattenSeq(seqs) = made[n]
<1> DEFINE Is(f) == f = [i \in 1..Len(seqs) |-> IF i = 1 THEN seqs[i] ELSE f[i - 1] \o seqs[i]]
           made == CHOOSE f : Is(f)
<1>0. FlatOf[1] = "flat" BY DEF FlatOf
<1> HIDE DEF FlatOf
<1>1. \A x, e : Advance(FlatOf, x, e) = x \o e BY <1>0 DEF Advance
<1>2. \A f : Is(f) <=> IsAdvance(f, FlatOf, seqs[1], seqs, 1, n)
  <2> TAKE f
  <2> DEFINE a == [i \in 1..n |-> IF i = 1 THEN seqs[i] ELSE f[i - 1] \o seqs[i]]
             b == [i \in 1..n |-> IF i = 1 THEN seqs[1] ELSE Advance(FlatOf, f[i - 1], seqs[i])]
  <2>1. a = b BY <1>1
  <2>2. Is(f) <=> f = a OBVIOUS
  <2>3. IsAdvance(f, FlatOf, seqs[1], seqs, 1, n) <=> f = b BY DEF IsAdvance
  <2> HIDE DEF a, b
  <2> QED BY <2>1, <2>2, <2>3
<1>3. FlattenSeq(seqs) = made[n] BY DEF FlattenSeq
<1> HIDE DEF Is
<1>4. \E f : Is(f)
  <2>1. 1 \in Nat /\ n >= 1 OBVIOUS
  <2>2. PICK f : IsAdvance(f, FlatOf, seqs[1], seqs, 1, n) BY <2>1, AdvanceExists
  <2> QED BY <1>2, <2>2
<1>5. Is(made) BY <1>4
<1> HIDE DEF made
<1>6. Advances(made, FlatOf, seqs[1], seqs, 1, n) BY <1>2, <1>5, AdvanceStep
<1> QED BY <1>3, <1>6

LEMMA FlatStep == \A x, e : Advance(FlatOf, x, e) = x \o e
<1> TAKE x, e
<1>0. FlatOf[1] = "flat" BY DEF FlatOf
<1> HIDE DEF FlatOf
<1> QED BY <1>0 DEF Advance

LEMMA FlatOfLists ==
  ASSUME NEW S, NEW seqs \in Seq(Seq(S)) PROVE FlattenSeq(seqs) \in Seq(S)
<1> DEFINE n == Len(seqs)
           m == 1
           first == seqs[1]
<1>1. n \in Nat /\ \A i \in 1..n : seqs[i] \in Seq(S) OBVIOUS
<1>2. CASE n = 0
  <2>1. seqs = <<>> BY <1>2, EmptySeq
  <2>2. FlattenSeq(seqs) = seqs BY <1>2 DEF FlattenSeq
  <2>3. <<>> \in Seq(S) OBVIOUS
  <2> QED BY <2>1, <2>2, <2>3
<1>3. CASE n # 0
  <2>1. n >= 1 BY <1>1, <1>3
  <2>2. PICK made : Advances(made, FlatOf, seqs[1], seqs, 1, n) /\ FlattenSeq(seqs) = made[n]
    BY <1>1, <2>1, FlatAdvances
  <2>3. m \in Nat /\ n >= m /\ m = 1 /\ first = seqs[1] BY <2>1
  <2>4. first \in Seq(S) BY <1>1, <2>1
  <2> HIDE DEF n, m, first
  <2>5. ASSUME NEW x \in Seq(S), NEW i \in m..n, i < n
        PROVE  Advance(FlatOf, x, seqs[i + 1]) \in Seq(S)
    <3>1. Advance(FlatOf, x, seqs[i + 1]) = x \o seqs[i + 1] BY FlatStep
    <3>2. seqs[i + 1] \in Seq(S) BY <1>1, <2>3, <2>5
    <3>3. x \o seqs[i + 1] \in Seq(S) BY <3>2, ConcatProperties
    <3> QED BY <3>1, <3>3
  <2>6. Advances(made, FlatOf, first, seqs, m, n) BY <2>2, <2>3
  <2> DEFINE X == Seq(S)
  <2>7. StaysIn(FlatOf, seqs, m, n, X) /\ first \in X BY <2>4, <2>5 DEF StaysIn
  <2> HIDE DEF X
  <2>8. made[n] \in X BY <1>1, <2>3, <2>6, <2>7, AdvanceStays
  <2> QED BY <2>2, <2>8 DEF X
<1> QED BY <1>2, <1>3

(* A rollout: what Classify makes of records whose reasonings are texts.   *)
Rollout(said) ==
  /\ said = [i \in 1..Len(said) |-> said[i]] /\ Len(said) \in Nat
  /\ \A i \in 1..Len(said) : Exact(said[i]) /\ (said[i].kind = "reasoning" => IsList(said[i].texts))

LEMMA HashedIsList ==
  ASSUME NEW r, Exact(r), NEW T, r.kind = "reasoning" => r.texts \in Seq(T)
  PROVE  IsList(Hashed(r))
<1>3. CASE r.kind = "reasoning"
  <2> DEFINE texts == r.texts
             field == {<<"reasoning", texts[i]>> : i \in 1..Len(texts)}
  <2>1. texts \in Seq(T) BY <1>3
  <2>2. Hashed(r) = [i \in DOMAIN texts |-> <<"reasoning", texts[i]>>] BY <1>3 DEF Exact
  <2> HIDE DEF texts
  <2>3. Hashed(r) \in Seq(field) BY <2>1, <2>2
  <2> HIDE DEF field
  <2> QED BY <2>3 DEF IsList
<1>4. CASE r.kind \in {"none", "filtered"}
  <2>1. Hashed(r) = <<>> BY <1>4 DEF Exact
  <2>2. IsList(<<>>) BY EmptySeq DEF IsList
  <2> QED BY <2>1, <2>2
<1>5. CASE r.kind \in {"meta", "context", "boundary", "compacted", "message"}
  <2> DEFINE e == Hashed(r)[1]
             list == <<e>>
  <2>1. Hashed(r) = list BY <1>5 DEF Exact
  <2> HIDE DEF e
  <2>2. list \in Seq({e}) OBVIOUS
  <2> HIDE DEF list
  <2>3. IsList(list) BY <2>2 DEF IsList
  <2> QED BY <2>1, <2>3
<1> QED BY <1>3, <1>4, <1>5 DEF Exact, RecordKinds

Start(file) == Seen(Fresh(file), <<>>)

(* What is read of a rollout is read of its fields.                        *)
LEMMA FieldsDecide ==
  ASSUME NEW file, NEW said, Rollout(said)
  PROVE  \E s, docs : /\ FullReads(file, said)[Len(said)] = Reading(s, docs) /\ IsState(s)
                      /\ Makes(FieldOf, Start(file), AcceptedFields(said), Seen(s, docs))
                      /\ Len(AcceptedFields(said)) \in Nat
                      /\ s.cwd = InventoryCwd(said)
<1> DEFINE n == Len(said)
           full == FullReads(file, said)
           seqs == [i \in DOMAIN said |-> Hashed(said[i])]
<1>0. n \in Nat /\ DOMAIN said = 1..n /\ seqs = [i \in 1..n |-> Hashed(said[i])] /\ n = Len(said)
  BY DEF Rollout
<1>1. full[0] = Reading(Fresh(file), <<>>) /\ Follows(full, said, 0, FALSE, n)
  BY <1>0, FullStep
<1>2. \A i \in 0..n : Sound(full[i], file) BY <1>0, FullReading
<1>3. PICK cwds : Advances(cwds, <<"cwd">>, Unset, said, 0, n) /\ InventoryCwd(said) = cwds[n]
  BY <1>0, CwdAdvances
<1>4. AcceptedFields(said) = FlattenSeq(seqs) BY DEF AcceptedFields
<1>5. Len(seqs) = n /\ \A i \in 1..n : seqs[i] = Hashed(said[i]) BY <1>0
<1> HIDE DEF n, full, seqs
<1>6. ASSUME NEW i \in 0..n, i < n, NEW x, IsList(x), NEW s, NEW docs, full[i] = Reading(s, docs),
             IsState(s), IsList(docs), Makes(FieldOf, Start(file), x, Seen(s, docs)), s.cwd = cwds[i]
      PROVE  \E t, more : /\ full[i + 1] = Reading(t, more) /\ IsState(t) /\ IsList(more)
                          /\ Makes(FieldOf, Start(file), x \o seqs[i + 1], Seen(t, more))
                          /\ IsList(x \o seqs[i + 1]) /\ t.cwd = cwds[i + 1]
  <2> DEFINE r == said[i + 1]
             t == Apply(s, r, FALSE)
             more == DocsAfter(s, r, i + 1, docs)
  <2>0. i + 1 \in 1..n BY <1>0, <1>6
  <2>1. Exact(r) /\ (r.kind = "reasoning" => IsList(r.texts)) BY <1>0, <2>0 DEF Rollout
  <2>2. full[i + 1] = Process(full[i], r, i + 1, FALSE) BY <1>1, <1>6 DEF Follows
  <2>3. seqs[i + 1] = Hashed(r) BY <1>5, <2>0
  <2>4. cwds[i + 1] = AdoptCwd(cwds[i], r)
    <3> DEFINE of == <<"cwd">>
    <3>1. of[1] = "cwd" OBVIOUS
    <3>2. cwds[i + 1] = Advance(of, cwds[i], r) BY <1>3, <1>6 DEF Advances
    <3> HIDE DEF of, r
    <3> QED BY <3>1, <3>2 DEF Advance
  <2> HIDE DEF r
  <2>5. ~Refuses(s, r, FALSE) BY DEF Refuses
  <2>6. full[i + 1] = Reading(t, more) BY <1>6, <2>2, <2>5, ProcessRecord
  <2>7. IsState(t) BY <1>6, ApplyKeeps
  <2>8. IsList(more) BY <1>6, ListAppend DEF DocsAfter
  <2>9. t.cwd = cwds[i + 1] BY <1>6, <2>4, HashedKeepsCwd
  <2>10. IsList(x \o Hashed(r)) /\ Makes(FieldOf, Start(file), x \o Hashed(r), Seen(t, more))
    <3>1. PICK T : r.kind = "reasoning" => r.texts \in Seq(T) BY <2>1 DEF IsList
    <3> QED BY <1>6, <2>1, <3>1, RecordSees
  <2> HIDE DEF t, more
  <2> QED BY <2>3, <2>6, <2>7, <2>8, <2>9, <2>10
<1>7. /\ full[0] = Reading(Fresh(file), <<>>) /\ IsState(Fresh(file)) /\ IsList(<<>>)
      /\ Makes(FieldOf, Start(file), <<>>, Seen(Fresh(file), <<>>)) /\ Fresh(file).cwd = cwds[0]
  <2>1. IsList(<<>>) BY EmptySeq DEF IsList
  <2>2. Makes(FieldOf, Start(file), <<>>, Seen(Fresh(file), <<>>)) BY MakesNothing DEF Start
  <2>3. Fresh(file).cwd = Unset BY DEF Fresh
  <2>4. cwds[0] = Unset BY <1>3 DEF Advances
  <2> QED BY <1>1, <2>1, <2>2, <2>3, <2>4, FreshIsState
<1>8. CASE n = 0
  <2>1. AcceptedFields(said) = <<>>
    <3>1. FlattenSeq(seqs) = seqs BY <1>5, <1>8 DEF FlattenSeq
    <3>2. seqs = <<>> BY <1>0, <1>8
    <3> QED BY <1>4, <3>1, <3>2
  <2>2. Len(<<>>) = 0 OBVIOUS
  <2> QED BY <1>0, <1>3, <1>7, <1>8, <2>1, <2>2 DEF full, n
<1>9. CASE n >= 1
  <2>1. PICK flat : Advances(flat, FlatOf, seqs[1], seqs, 1, n) /\ FlattenSeq(seqs) = flat[n]
    BY <1>0, <1>5, <1>9, FlatAdvances
  <2> DEFINE Holds(i) == \E s, docs : /\ full[i] = Reading(s, docs) /\ IsState(s) /\ IsList(docs)
                                      /\ Makes(FieldOf, Start(file), flat[i], Seen(s, docs))
                                      /\ IsList(flat[i]) /\ s.cwd = cwds[i]
             S == {i \in 1..n : Holds(i)}
  <2>2. 1 \in S
    <3>1. 0 \in 0..n /\ 0 < n /\ 1 \in 1..n BY <1>0, <1>9
    <3>2. \E t, more : /\ full[0 + 1] = Reading(t, more) /\ IsState(t) /\ IsList(more)
                       /\ Makes(FieldOf, Start(file), <<>> \o seqs[0 + 1], Seen(t, more))
                       /\ IsList(<<>> \o seqs[0 + 1]) /\ t.cwd = cwds[0 + 1]
      BY <1>6, <1>7, <3>1
    <3>3. IsList(seqs[1])
      <4>1. seqs[1] = Hashed(said[1]) BY <1>5, <3>1
      <4> DEFINE r == said[1]
      <4>2. Exact(r) /\ (r.kind = "reasoning" => IsList(r.texts)) BY <1>0, <3>1 DEF Rollout
      <4> HIDE DEF r
      <4>3. PICK T : r.kind = "reasoning" => r.texts \in Seq(T) BY <4>2 DEF IsList
      <4>6. IsList(Hashed(r)) BY <4>2, <4>3, HashedIsList
      <4> QED BY <4>1, <4>6 DEF r
    <3>4. <<>> \o seqs[1] = seqs[1]
      <4>1. PICK D : seqs[1] \in Seq(D) BY <3>3 DEF IsList
      <4> QED BY <4>1, ConcatEmptySeq
    <3>5. flat[1] = seqs[1] BY <2>1 DEF Advances
    <3>6. 0 + 1 = 1 OBVIOUS
    <3>7. Holds(1) BY <3>2, <3>3, <3>4, <3>5, <3>6
    <3> HIDE DEF Holds
    <3> QED BY <3>1, <3>7
  <2>3. ASSUME NEW i \in S, i < n PROVE i + 1 \in S
    <3>1. i \in 0..n /\ i + 1 \in 1..n /\ i \in 1..n BY <1>0, <2>3
    <3>2. flat[i + 1] = flat[i] \o seqs[i + 1] BY <2>1, <2>3, <3>1, FlatStep DEF Advances
    <3>3. Holds(i) OBVIOUS
    <3>4. Holds(i + 1) BY <1>6, <2>3, <3>1, <3>2, <3>3
    <3> HIDE DEF Holds
    <3> QED BY <3>1, <3>4
  <2>4. S \in SUBSET (1..n) OBVIOUS
  <2> HIDE DEF S
  <2>5. \A i \in 1..n : i \in S BY <1>0, <1>9, <2>2, <2>3, <2>4, UpTo
  <2>6. Holds(n) BY <1>0, <1>9, <2>5 DEF S
  <2>7. IsList(flat[n]) BY <2>6
  <2>8. Len(flat[n]) \in Nat
    <3>1. PICK D : flat[n] \in Seq(D) BY <2>7 DEF IsList
    <3> QED BY <3>1
  <2>9. AcceptedFields(said) = flat[n] BY <1>4, <2>1
  <2>10. InventoryCwd(said) = cwds[n] BY <1>3
  <2> QED BY <2>6, <2>8, <2>9, <2>10 DEF full, n
<1> QED BY <1>0, <1>8, <1>9

(* The session of a rollout, of what its fields decide.                    *)
SessionOf(file, v) ==
  [id |-> IF Segment(file, v) # Unset THEN Segment(file, v)
          ELSE IF v.id = Unset /\ v.next > 0 THEN file.fallback[file.form] ELSE v.id,
   first |-> v.first, latest |-> v.latest, compact |-> v.compact, reasoning |-> v.reasoning,
   cwd |-> v.cwd, model |-> v.model, started |-> v.started, ended |-> v.ended, count |-> v.next]

LEMMA CodexProjection ==
  ASSUME NEW file, NEW said, NEW s, IsState(s), NEW docs,
         FullReads(file, said)[Len(said)] = Reading(s, docs), s.cwd = InventoryCwd(said)
  PROVE  /\ ProjectionOf("codex", file, said).session = SessionOf(file, View(s))
         /\ ProjectionOf("codex", file, said).docs = Placeless(docs)
         /\ ProjectionOf("codex", file, said).outcome = "projected" <=> s.next > 0
         /\ ProjectionOf("codex", file, said)
              = [outcome |-> ProjectionOf("codex", file, said).outcome,
                 session |-> SessionOf(file, View(s)), docs |-> Placeless(docs)]
<1> DEFINE read == Reading(s, docs)
           cwd == InventoryCwd(said)
           full == FinishProjection(file, cwd, read)
           v == View(s)
           p == ProjectionOf("codex", file, said)
<1>1. ProjectFull(file, said) = full BY DEF ProjectFull, ReadFrom, FullReads
<1>2. read.state = s /\ read.docs = docs /\ read.refused = FALSE BY ReadingFields
<1>3. /\ v.id = s.id /\ v.next = s.next /\ v.first = s.first /\ v.latest = s.latest
      /\ v.compact = s.compact /\ v.reasoning = s.reasoning /\ v.cwd = s.cwd /\ v.model = s.model
      /\ v.started = s.started /\ v.ended = s.ended /\ v.segment = s.segment
  BY ViewKeeps DEF StateFields
<1>4. Segment(file, v) = Segment(file, s) BY <1>3 DEF Segment
<1>5. Checkpoint(file, s).id = IF s.id = Unset /\ s.next > 0 THEN file.fallback[file.form] ELSE s.id
  BY DEF Checkpoint, IsState, StateFields
<1>6. (IF s.cwd # Unset THEN s.cwd ELSE cwd) = s.cwd OBVIOUS
<1> HIDE DEF v, cwd, read
<1>7. full.session = [id |-> IF Segment(file, s) # Unset THEN Segment(file, s) ELSE Checkpoint(file, s).id,
                      first |-> s.first, latest |-> s.latest,
                      compact |-> s.compact, reasoning |-> s.reasoning,
                      cwd |-> IF s.cwd # Unset THEN s.cwd ELSE cwd,
                      model |-> s.model, started |-> s.started, ended |-> s.ended,
                      count |-> s.next]
  BY <1>2 DEF FinishProjection
<1>8. full.session = SessionOf(file, v)
  BY <1>3, <1>4, <1>5, <1>6, <1>7, Zenon DEF SessionOf
<1>9. full.docs = docs BY <1>2 DEF FinishProjection
<1>10. full.outcome = "projected" <=> s.next > 0
  <2>1. full.outcome = CASE read.refused -> "full_required"
                         [] ~read.refused /\ s.next > 0 -> "projected"
                         [] ~read.refused /\ s.next = 0 /\ s.filtered > 0 -> "filtered"
                         [] OTHER -> "skipped"
    BY <1>2 DEF FinishProjection
  <2>2. s.next \in Nat BY DEF IsState
  <2> HIDE DEF full
  <2> QED BY <1>2, <2>1, <2>2
<1> HIDE DEF full
<1>11. p = [outcome |-> full.outcome, session |-> full.session,
            docs |-> [i \in DOMAIN full.docs |-> [full.docs[i] EXCEPT !.at = 0]]]
  BY <1>1 DEF ProjectionOf
<1>12. [i \in DOMAIN full.docs |-> [full.docs[i] EXCEPT !.at = 0]] = Placeless(docs)
  BY <1>9 DEF Placeless
<1>13. p = [outcome |-> full.outcome, session |-> SessionOf(file, v), docs |-> Placeless(docs)]
  BY <1>8, <1>11, <1>12
<1> HIDE DEF p
<1>14. /\ p.outcome = full.outcome /\ p.session = SessionOf(file, v) /\ p.docs = Placeless(docs)
  BY <1>13
<1> QED BY <1>10, <1>13, <1>14 DEF v, p

(* Rollouts of one fingerprint.                                            *)
LEMMA CodexDecides ==
  ASSUME NEW file, NEW a, Rollout(a), NEW b, Rollout(b), AcceptedFields(a) = AcceptedFields(b),
         ProjectionOf("codex", file, a).outcome = "projected",
         ProjectionOf("codex", file, b).outcome = "projected"
  PROVE  /\ ProjectionOf("codex", file, a) = ProjectionOf("codex", file, b)
         /\ InventoryOf("codex", a) = InventoryOf("codex", b)
<1>1. PICK s, docs : /\ FullReads(file, a)[Len(a)] = Reading(s, docs) /\ IsState(s)
                     /\ Makes(FieldOf, Start(file), AcceptedFields(a), Seen(s, docs))
                     /\ Len(AcceptedFields(a)) \in Nat
                     /\ s.cwd = InventoryCwd(a)
  BY FieldsDecide
<1>2. PICK t, more : /\ FullReads(file, b)[Len(b)] = Reading(t, more) /\ IsState(t)
                     /\ Makes(FieldOf, Start(file), AcceptedFields(b), Seen(t, more))
                     /\ Len(AcceptedFields(b)) \in Nat
                     /\ t.cwd = InventoryCwd(b)
  BY FieldsDecide
<1>3. Seen(s, docs) = Seen(t, more) BY <1>1, <1>2, MakesOne
<1>4. View(s) = View(t) /\ Placeless(docs) = Placeless(more)
  <2>1. Seen(s, docs).state = View(s) /\ Seen(s, docs).docs = Placeless(docs) BY DEF Seen
  <2>2. Seen(t, more).state = View(t) /\ Seen(t, more).docs = Placeless(more) BY DEF Seen
  <2> QED BY <1>3, <2>1, <2>2
<1>5. ProjectionOf("codex", file, a) = [outcome |-> "projected", session |-> SessionOf(file, View(s)),
                                        docs |-> Placeless(docs)]
  BY <1>1, CodexProjection, Zenon
<1>6. ProjectionOf("codex", file, b) = [outcome |-> "projected", session |-> SessionOf(file, View(t)),
                                        docs |-> Placeless(more)]
  BY <1>2, CodexProjection, Zenon
<1>7. InventoryCwd(a) = InventoryCwd(b)
  <2>1. View(s).cwd = s.cwd /\ View(t).cwd = t.cwd BY <1>1, <1>2, ViewKeeps DEF StateFields
  <2> QED BY <1>1, <1>2, <1>4, <2>1
<1>8. InventoryOf("codex", a) = InventoryOf("codex", b) BY <1>7, Zenon DEF InventoryOf
<1> QED BY <1>4, <1>5, <1>6, <1>8, Zenon

LEMMA CodexCwd ==
  ASSUME NEW file, NEW said, Rollout(said)
  PROVE  ProjectionOf("codex", file, said).session.cwd = InventoryCwd(said)
<1>1. PICK s, docs : /\ FullReads(file, said)[Len(said)] = Reading(s, docs) /\ IsState(s)
                     /\ s.cwd = InventoryCwd(said)
  BY FieldsDecide
<1>2. ProjectionOf("codex", file, said).session = SessionOf(file, View(s))
  BY <1>1, CodexProjection, Zenon
<1>3. View(s).cwd = s.cwd BY <1>1, ViewKeeps DEF StateFields
<1>4. SessionOf(file, View(s)).cwd = View(s).cwd BY DEF SessionOf
<1> QED BY <1>1, <1>2, <1>3, <1>4

-----------------------------------------------------------------------------
(* What Claude Code hashes.  Where no field holds a NUL, the last NUL is   *)
(* before the last field, so that the fields are read back from the end.   *)

(* Where x, a NUL and f are in h.                                          *)
Fielded(h, x, f) ==
  /\ Len(h) = Len(x) + 1 + Len(f)
  /\ \A i \in 1..Len(x) : h[i] = x[i]
  /\ h[Len(x) + 1] = NUL
  /\ \A i \in 1..Len(f) : h[Len(x) + 1 + i] = f[i]

LEMMA HashedAt ==
  ASSUME NEW D, NUL \in D, NEW x \in Seq(D), NEW f \in Seq(D)
  PROVE  HashField(x, f) \in Seq(D) /\ Fielded(HashField(x, f), x, f)
<1> DEFINE one == <<NUL>>
           y == x \o one
           h == y \o f
<1>1. one \in Seq(D) /\ Len(one) = 1 /\ one[1] = NUL OBVIOUS
<1>2. Len(x) \in Nat /\ Len(f) \in Nat OBVIOUS
<1>3. HashField(x, f) = h BY DEF HashField
<1> HIDE DEF one
<1>4. /\ y \in Seq(D) /\ Len(y) = Len(x) + Len(one)
      /\ \A i \in 1..Len(x) + Len(one) : y[i] = IF i <= Len(x) THEN x[i] ELSE one[i - Len(x)]
  BY <1>1, ConcatProperties, Zenon
<1> HIDE DEF y
<1>5. /\ Len(y) = Len(x) + 1
      /\ \A i \in 1..Len(x) : y[i] = x[i]
      /\ y[Len(x) + 1] = NUL
  BY <1>1, <1>2, <1>4
<1>6. /\ h \in Seq(D) /\ Len(h) = Len(y) + Len(f)
      /\ \A i \in 1..Len(y) + Len(f) : h[i] = IF i <= Len(y) THEN y[i] ELSE f[i - Len(y)]
  <2>1. y \in Seq(D) BY <1>4
  <2> QED BY <2>1, ConcatProperties, Zenon
<1> HIDE DEF h
<1>7. /\ Len(h) = Len(x) + 1 + Len(f)
      /\ \A i \in 1..Len(x) : h[i] = x[i]
      /\ h[Len(x) + 1] = NUL
  BY <1>2, <1>5, <1>6
<1>8. ASSUME NEW i \in 1..Len(f) PROVE h[Len(x) + 1 + i] = f[i]
  <2> DEFINE k == Len(x) + 1 + i
  <2>1. k \in 1..Len(y) + Len(f) /\ ~(k <= Len(y)) /\ k - Len(y) = i BY <1>2, <1>5
  <2> HIDE DEF k
  <2>2. h[k] = f[i] BY <1>6, <2>1
  <2> QED BY <2>2 DEF k
<1> QED BY <1>3, <1>6, <1>7, <1>8 DEF Fielded

(* Neither hash can end its last field earlier than the other.             *)
LEMMA FieldNotLater ==
  ASSUME NEW D, NEW x \in Seq(D), NEW y \in Seq(D), NEW f \in Seq(D \ {NUL}), NEW g \in Seq(D),
         NEW h, Fielded(h, x, f), Fielded(h, y, g)
  PROVE  Len(y) <= Len(x)
<1> DEFINE i == Len(y) - Len(x)
<1>1. Len(x) \in Nat /\ Len(y) \in Nat /\ Len(f) \in Nat /\ Len(g) \in Nat OBVIOUS
<1> SUFFICES ASSUME ~(Len(y) <= Len(x)) PROVE FALSE OBVIOUS
<1>2. i \in 1..Len(f) /\ Len(x) + 1 + i = Len(y) + 1 BY <1>1 DEF Fielded
<1> HIDE DEF i
<1>3. f[i] = NUL BY <1>2 DEF Fielded
<1>4. f[i] \in D \ {NUL} BY <1>2
<1> QED BY <1>3, <1>4

LEMMA FieldCut ==
  ASSUME NEW D, NUL \in D, NEW x \in Seq(D), NEW y \in Seq(D),
         NEW f \in Seq(D \ {NUL}), NEW g \in Seq(D \ {NUL}), HashField(x, f) = HashField(y, g)
  PROVE  x = y /\ f = g
<1> DEFINE h == HashField(x, f)
<1>1. f \in Seq(D) /\ g \in Seq(D) OBVIOUS
<1>2. Len(x) \in Nat /\ Len(y) \in Nat /\ Len(f) \in Nat /\ Len(g) \in Nat BY <1>1
<1>3. Fielded(h, x, f) BY <1>1, HashedAt
<1>4. Fielded(h, y, g) BY <1>1, HashedAt
<1> HIDE DEF h
<1>5. Len(y) <= Len(x) BY <1>1, <1>3, <1>4, FieldNotLater
<1>6. Len(x) <= Len(y) BY <1>1, <1>3, <1>4, FieldNotLater
<1>7. Len(x) = Len(y) BY <1>2, <1>5, <1>6
<1>8. Len(f) = Len(g) BY <1>2, <1>3, <1>4, <1>7 DEF Fielded
<1>9. \A i \in 1..Len(x) : x[i] = y[i] BY <1>3, <1>4, <1>7 DEF Fielded
<1>10. ASSUME NEW i \in 1..Len(f) PROVE f[i] = g[i]
  <2>1. h[Len(x) + 1 + i] = f[i] BY <1>3 DEF Fielded
  <2>2. h[Len(y) + 1 + i] = g[i] BY <1>4, <1>8 DEF Fielded
  <2> QED BY <1>7, <2>1, <2>2
<1>11. x = y BY <1>7, <1>9, SeqEqual
<1>12. f = g BY <1>1, <1>8, <1>10, SeqEqual
<1> QED BY <1>11, <1>12

(* A message of Claude Code without a NUL, whose letters are of D.         *)
PlainMessage(m, D) ==
  /\ m = [kind |-> "message", role |-> m.role, text |-> m.text, time |-> m.time,
          id |-> m.id, cwd |-> m.cwd]
  /\ m.role \in Roles /\ m.time \in Nat
  /\ m.text \in Seq(D \ {NUL}) /\ m.id \in D \ {NUL} /\ m.cwd \in D \ {NUL}

Alphabet(D) == NUL \in D /\ "tick" \in D /\ Roles \subseteq D

LEMMA OneLetterTells ==
  ASSUME NEW D, NEW v \in D \ {NUL}, NEW w \in D \ {NUL}
  PROVE  /\ OneLetter(v) \in Seq(D \ {NUL})
         /\ OneLetter(v) = OneLetter(w) => v = w
<1>1. \A e \in D \ {NUL} : <<e>> \in Seq(D \ {NUL}) OBVIOUS
<1>2. <<>> \in Seq(D \ {NUL}) OBVIOUS
<1>3. OneLetter(v) \in Seq(D \ {NUL}) BY <1>1, <1>2 DEF OneLetter
<1>4. <<v>> # <<>> /\ <<w>> # <<>> /\ (<<v>> = <<w>> => v = w) OBVIOUS
<1>5. OneLetter(v) = OneLetter(w) => v = w BY <1>4 DEF OneLetter
<1> QED BY <1>3, <1>5

LEMMA TicksTell ==
  ASSUME NEW D, Alphabet(D), NEW t \in Nat, NEW u \in Nat
  PROVE  /\ Ticks(t) \in Seq(D \ {NUL})
         /\ Ticks(t) = Ticks(u) => t = u
<1>1. "tick" \in D \ {NUL} BY DEF Alphabet, NUL
<1>2. \A k \in Nat : Ticks(k) \in Seq(D \ {NUL}) /\ Len(Ticks(k)) = k BY <1>1 DEF Ticks
<1> QED BY <1>2

LEMMA MessageCut ==
  ASSUME NEW D, Alphabet(D), NEW x \in Seq(D), NEW y \in Seq(D),
         NEW m, PlainMessage(m, D), NEW n, PlainMessage(n, D)
  PROVE  /\ HashMessage(x, m) \in Seq(D) /\ HashMessage(x, m) # <<>>
         /\ HashMessage(x, m) = HashMessage(y, n) => x = y /\ m = n
<1> DEFINE F == Seq(D \ {NUL})
           x1 == HashField(x, <<m.role>>)
           x2 == HashField(x1, OneLetter(m.id))
           x3 == HashField(x2, OneLetter(m.cwd))
           x4 == HashField(x3, Ticks(m.time))
           x5 == HashField(x4, m.text)
           y1 == HashField(y, <<n.role>>)
           y2 == HashField(y1, OneLetter(n.id))
           y3 == HashField(y2, OneLetter(n.cwd))
           y4 == HashField(y3, Ticks(n.time))
           y5 == HashField(y4, n.text)
<1>1. NUL \in D BY DEF Alphabet
<1>2. <<m.role>> \in F /\ <<n.role>> \in F
  <2>1. m.role \in D \ {NUL} /\ n.role \in D \ {NUL} BY DEF PlainMessage, Alphabet, Roles, NUL
  <2> QED BY <2>1
<1>3. /\ OneLetter(m.id) \in F /\ OneLetter(m.cwd) \in F /\ OneLetter(n.id) \in F /\ OneLetter(n.cwd) \in F
      /\ OneLetter(m.id) = OneLetter(n.id) => m.id = n.id
      /\ OneLetter(m.cwd) = OneLetter(n.cwd) => m.cwd = n.cwd
  BY OneLetterTells DEF PlainMessage
<1>4. /\ Ticks(m.time) \in F /\ Ticks(n.time) \in F
      /\ Ticks(m.time) = Ticks(n.time) => m.time = n.time
  BY TicksTell DEF PlainMessage
<1>5. m.text \in F /\ n.text \in F BY DEF PlainMessage
<1>6. HashMessage(x, m) = x5 /\ HashMessage(y, n) = y5 BY Zenon DEF HashMessage
<1>7. \A f \in F : f \in Seq(D) OBVIOUS
<1> HIDE DEF F
<1>8. ASSUME NEW h \in Seq(D), NEW f \in F
      PROVE  HashField(h, f) \in Seq(D) /\ HashField(h, f) # <<>>
  <2> DEFINE all == HashField(h, f)
  <2>1. f \in Seq(D) BY <1>7
  <2>2. all \in Seq(D) /\ Fielded(all, h, f) BY <1>1, <2>1, HashedAt
  <2> HIDE DEF all
  <2>3. Len(all) = Len(h) + 1 + Len(f) /\ Len(h) \in Nat /\ Len(f) \in Nat BY <2>1, <2>2 DEF Fielded
  <2>4. Len(<<>>) = 0 OBVIOUS
  <2>5. all # <<>> BY <2>3, <2>4
  <2> QED BY <2>2, <2>5 DEF all
<1>9. /\ x1 \in Seq(D) /\ x2 \in Seq(D) /\ x3 \in Seq(D) /\ x4 \in Seq(D) /\ x5 \in Seq(D)
      /\ y1 \in Seq(D) /\ y2 \in Seq(D) /\ y3 \in Seq(D) /\ y4 \in Seq(D) /\ y5 \in Seq(D)
      /\ x5 # <<>>
  <2>1. x1 \in Seq(D) /\ y1 \in Seq(D) BY <1>2, <1>8
  <2> HIDE DEF x1, y1
  <2>2. x2 \in Seq(D) /\ y2 \in Seq(D) BY <1>3, <1>8, <2>1
  <2> HIDE DEF x2, y2
  <2>3. x3 \in Seq(D) /\ y3 \in Seq(D) BY <1>3, <1>8, <2>2
  <2> HIDE DEF x3, y3
  <2>4. x4 \in Seq(D) /\ y4 \in Seq(D) BY <1>4, <1>8, <2>3
  <2> HIDE DEF x4, y4
  <2>5. x5 \in Seq(D) /\ y5 \in Seq(D) /\ x5 # <<>> BY <1>5, <1>8, <2>4
  <2> QED BY <2>1, <2>2, <2>3, <2>4, <2>5
<1>10. \A h, k \in Seq(D), f, g \in F : HashField(h, f) = HashField(k, g) => h = k /\ f = g
  BY <1>1, FieldCut DEF F
<1>11. ASSUME x5 = y5 PROVE x = y /\ m = n
  <2>1. x4 = y4 /\ m.text = n.text
    <3> HIDE DEF x4, y4
    <3> QED BY <1>5, <1>9, <1>10, <1>11
  <2>2. x3 = y3 /\ Ticks(m.time) = Ticks(n.time)
    <3> HIDE DEF x3, y3
    <3> QED BY <1>4, <1>9, <1>10, <2>1
  <2>3. x2 = y2 /\ OneLetter(m.cwd) = OneLetter(n.cwd)
    <3> HIDE DEF x2, y2
    <3> QED BY <1>3, <1>9, <1>10, <2>2
  <2>4. x1 = y1 /\ OneLetter(m.id) = OneLetter(n.id)
    <3> HIDE DEF x1, y1
    <3> QED BY <1>3, <1>9, <1>10, <2>3
  <2>5. x = y /\ <<m.role>> = <<n.role>> BY <1>2, <1>10, <2>4
  <2>6. m.role = n.role BY <2>5
  <2> HIDE DEF x1, x2, x3, x4, x5, y1, y2, y3, y4, y5
  <2>7. m = n BY <1>3, <1>4, <2>1, <2>2, <2>3, <2>4, <2>6 DEF PlainMessage
  <2> QED BY <2>5, <2>7
<1> HIDE DEF x1, x2, x3, x4, x5, y1, y2, y3, y4, y5
<1> QED BY <1>6, <1>9, <1>11

HashOf == <<"hash">>

LEMMA HashAdvances ==
  ASSUME NEW messages, NEW n \in Nat, Len(messages) = n
  PROVE  \E made : /\ Advances(made, HashOf, <<>>, messages, 0, n)
                   /\ HashMessages(messages) = made[n]
<1> DEFINE Is(f) == f = [i \in 0..Len(messages) |->
                           IF i = 0 THEN <<>> ELSE HashMessage(f[i - 1], messages[i])]
           made == CHOOSE f : Is(f)
<1>1. \A x, e : Advance(HashOf, x, e) = HashMessage(x, e) BY DEF Advance, HashOf
<1>2. \A f : Is(f) <=> IsAdvance(f, HashOf, <<>>, messages, 0, n) BY <1>1 DEF IsAdvance
<1>3. HashMessages(messages) = made[n] BY DEF HashMessages
<1> HIDE DEF Is
<1>4. \E f : Is(f)
  <2>1. 0 \in Nat /\ n >= 0 OBVIOUS
  <2>2. PICK f : IsAdvance(f, HashOf, <<>>, messages, 0, n) BY <2>1, AdvanceExists
  <2> QED BY <1>2, <2>2
<1>5. Is(made) BY <1>4
<1> HIDE DEF made
<1>6. Advances(made, HashOf, <<>>, messages, 0, n) BY <1>2, <1>5, AdvanceStep
<1> QED BY <1>3, <1>6

(* What is hashed before each message, and of how many messages it is.     *)
Hashes(made, messages, D) ==
  /\ made[0] = <<>>
  /\ \A i \in 0..Len(messages) : made[i] \in Seq(D)
  /\ \A i \in 1..Len(messages) : made[i] = HashMessage(made[i - 1], messages[i])
  /\ \A i \in 1..Len(messages) : PlainMessage(messages[i], D)

LEMMA HashesThem ==
  ASSUME NEW D, Alphabet(D), NEW messages, Len(messages) \in Nat,
         \A i \in 1..Len(messages) : PlainMessage(messages[i], D)
  PROVE  \E made : Hashes(made, messages, D) /\ HashMessages(messages) = made[Len(messages)]
<1> DEFINE n == Len(messages)
<1>1. PICK made : Advances(made, HashOf, <<>>, messages, 0, n) /\ HashMessages(messages) = made[n]
  BY HashAdvances
<1>2. n \in Nat /\ \A i \in 1..n : PlainMessage(messages[i], D) OBVIOUS
<1> HIDE DEF n
<1>3. made[0] = <<>> BY <1>1 DEF Advances
<1>4. ASSUME NEW i \in 0..n, i < n PROVE made[i + 1] = HashMessage(made[i], messages[i + 1])
  <2>1. made[i + 1] = Advance(HashOf, made[i], messages[i + 1]) BY <1>1, <1>4 DEF Advances
  <2> QED BY <2>1 DEF Advance, HashOf
<1> DEFINE S == {i \in 0..n : made[i] \in Seq(D)}
<1>5. 0 \in S
  <2>1. made[0] \in Seq(D) BY <1>3, EmptySeq
  <2>2. 0 \in 0..n BY <1>2
  <2> QED BY <2>1, <2>2
<1>6. ASSUME NEW i \in S, i < n PROVE i + 1 \in S
  <2>1. i + 1 \in 1..n /\ i + 1 \in 0..n /\ i \in 0..n BY <1>2, <1>6
  <2>2. PlainMessage(messages[i + 1], D) /\ made[i] \in Seq(D) BY <1>2, <2>1
  <2>3. HashMessage(made[i], messages[i + 1]) \in Seq(D) BY <2>2, MessageCut
  <2>4. made[i + 1] \in Seq(D) BY <1>4, <1>6, <2>1, <2>3
  <2> QED BY <2>1, <2>4
<1>7. S \in SUBSET (0..n) OBVIOUS
<1> HIDE DEF S
<1>8. \A i \in 0..n : i \in S
  <2> DEFINE z == 0
  <2>1. n \in Nat /\ z \in Nat /\ z <= n BY <1>2
  <2>2. z \in S /\ S \in SUBSET (z..n) BY <1>5, <1>7
  <2> HIDE DEF z
  <2>3. \A i \in z..n : i \in S BY <1>6, <2>1, <2>2, UpTo
  <2> QED BY <2>3 DEF z
<1>9. \A i \in 0..n : made[i] \in Seq(D) BY <1>8 DEF S
<1>10. ASSUME NEW i \in 1..n PROVE made[i] = HashMessage(made[i - 1], messages[i])
  <2> DEFINE j == i - 1
  <2>1. j \in 0..n /\ j < n /\ j + 1 = i BY <1>2
  <2> HIDE DEF j
  <2>2. made[j + 1] = HashMessage(made[j], messages[j + 1]) BY <1>4, <2>1
  <2> QED BY <2>1, <2>2 DEF j
<1>11. Hashes(made, messages, D) BY <1>2, <1>3, <1>9, <1>10 DEF Hashes, n
<1> QED BY <1>1, <1>11 DEF n

(* Read back from the end, two hashes that are equal give the same         *)
(* messages, and no fewer of the one than of the other.                    *)
LEMMA HashesReadBack ==
  ASSUME NEW D, Alphabet(D), NEW a, NEW p \in Nat, Len(a) = p, NEW b, NEW q \in Nat, Len(b) = q,
         NEW made, Hashes(made, a, D), NEW other, Hashes(other, b, D), made[p] = other[q]
  PROVE  /\ p <= q
         /\ p = q => \A i \in 1..p : a[i] = b[i]
<1> DEFINE r == IF p <= q THEN p ELSE q
           z == 0
           Same(k) == made[p - k] = other[q - k] /\ \A i \in 0..k : i < k => a[p - i] = b[q - i]
           S == {k \in z..r : Same(k)}
<1>1. r \in Nat /\ z \in Nat /\ z <= r /\ z = 0 /\ r <= p /\ r <= q OBVIOUS
<1> HIDE DEF r, z
<1>2. z \in S BY <1>1
<1>3. ASSUME NEW k \in S, k < r PROVE k + 1 \in S
  <2> DEFINE i == p - k
             j == q - k
  <2>1. /\ k \in Nat /\ k + 1 \in z..r /\ i \in 1..p /\ j \in 1..q
        /\ i - 1 \in 0..p /\ j - 1 \in 0..q /\ i - 1 = p - (k + 1) /\ j - 1 = q - (k + 1)
    BY <1>1, <1>3
  <2>2. made[i] = other[j] /\ Same(k) OBVIOUS
  <2> HIDE DEF i, j
  <2>3. made[i] = HashMessage(made[i - 1], a[i]) /\ PlainMessage(a[i], D) /\ made[i - 1] \in Seq(D)
    BY <2>1 DEF Hashes
  <2>4. other[j] = HashMessage(other[j - 1], b[j]) /\ PlainMessage(b[j], D) /\ other[j - 1] \in Seq(D)
    BY <2>1 DEF Hashes
  <2>5. made[i - 1] = other[j - 1] /\ a[i] = b[j]
    <3>1. HashMessage(made[i - 1], a[i]) = HashMessage(other[j - 1], b[j]) BY <2>2, <2>3, <2>4
    <3>2. PlainMessage(a[i], D) /\ made[i - 1] \in Seq(D) BY <2>3
    <3>3. PlainMessage(b[j], D) /\ other[j - 1] \in Seq(D) BY <2>4
    <3> QED BY <3>1, <3>2, <3>3, MessageCut
  <2>6. ASSUME NEW l \in 0..(k + 1), l < k + 1 PROVE a[p - l] = b[q - l]
    <3>1. CASE l = k BY <2>5, <3>1 DEF i, j
    <3>2. CASE l # k
      <4>1. l \in 0..k /\ l < k BY <2>1, <2>6, <3>2
      <4> QED BY <2>2, <4>1
    <3> QED BY <3>1, <3>2
  <2>7. Same(k + 1) BY <2>1, <2>5, <2>6
  <2> HIDE DEF Same
  <2> QED BY <2>1, <2>7
<1>4. S \in SUBSET (z..r) OBVIOUS
<1> HIDE DEF S
<1>5. \A k \in z..r : k \in S BY <1>1, <1>2, <1>3, <1>4, UpTo
<1>6. Same(r) BY <1>1, <1>5 DEF S
<1>7. p <= q
  <2> SUFFICES ASSUME ~(p <= q) PROVE FALSE OBVIOUS
  <2> DEFINE i == p - q
  <2>1. r = q /\ i \in 1..p /\ q - q = 0 BY DEF r
  <2>2. made[i] = other[0] BY <1>6, <2>1
  <2> HIDE DEF i
  <2>3. made[i] = HashMessage(made[i - 1], a[i]) BY <2>1 DEF Hashes
  <2>4. other[0] = <<>> BY DEF Hashes
  <2>5. i - 1 \in 0..p BY <2>1
  <2>6. PlainMessage(a[i], D) /\ made[i - 1] \in Seq(D) BY <2>1, <2>5 DEF Hashes
  <2> HIDE DEF Same
  <2>7. HashMessage(made[i - 1], a[i]) # <<>> BY <2>6, MessageCut
  <2> QED BY <2>2, <2>3, <2>4, <2>7
<1>8. ASSUME p = q, NEW i \in 1..p PROVE a[i] = b[i]
  <2> DEFINE k == p - i
  <2>1. r = p /\ k \in 0..r /\ k < r /\ p - k = i /\ q - k = i BY <1>8 DEF r
  <2> HIDE DEF k
  <2>2. a[p - k] = b[q - k] BY <1>6, <2>1
  <2> QED BY <2>1, <2>2
<1> QED BY <1>7, <1>8

LEMMA HashDecides ==
  ASSUME NEW D, Alphabet(D), NEW T, NEW a \in Seq(T), NEW b \in Seq(T), \A m \in T : PlainMessage(m, D),
         HashMessages(a) = HashMessages(b)
  PROVE  a = b
<1> DEFINE p == Len(a)
           q == Len(b)
<1>1. p \in Nat /\ q \in Nat /\ (\A i \in 1..p : a[i] \in T) /\ (\A i \in 1..q : b[i] \in T) OBVIOUS
<1>2. (\A i \in 1..p : PlainMessage(a[i], D)) /\ (\A i \in 1..q : PlainMessage(b[i], D)) BY <1>1
<1>3. PICK made : Hashes(made, a, D) /\ HashMessages(a) = made[p] BY <1>1, <1>2, HashesThem
<1>4. PICK other : Hashes(other, b, D) /\ HashMessages(b) = other[q] BY <1>1, <1>2, HashesThem
<1>5. made[p] = other[q] BY <1>3, <1>4
<1>6. p = Len(a) /\ q = Len(b) OBVIOUS
<1> HIDE DEF p, q
<1>7. p <= q /\ (p = q => \A i \in 1..p : a[i] = b[i]) BY <1>1, <1>3, <1>4, <1>5, <1>6, HashesReadBack
<1>8. q <= p BY <1>1, <1>3, <1>4, <1>5, <1>6, HashesReadBack
<1>9. p = q BY <1>1, <1>7, <1>8
<1> QED BY <1>6, <1>7, <1>9, SeqEqual

(* A text that is joined of parts is a list of letters.                    *)
LEMMA TextIsList ==
  ASSUME NEW parts, Content(parts), NEW kinds PROVE IsList(TextOf(parts, kinds))
<1> DEFINE T == ToSet(parts)
           W == UNION {ToSet(part.text) : part \in T}
           texts == OfKind(parts, kinds)
           seqs == [i \in DOMAIN texts |-> texts[i].text]
<1>1. parts \in Seq(T) /\ \A part \in T : part.text \in Seq(ToSet(part.text)) BY DEF Content
<1>2. \A part \in T : ToSet(part.text) \subseteq W OBVIOUS
<1> HIDE DEF T, W
<1>3. \A part \in T : part.text \in Seq(W) BY <1>1, <1>2
<1>4. texts \in Seq(T) BY <1>1, OfKindIsSeq
<1> HIDE DEF texts
<1>5. seqs \in Seq(Seq(W)) BY <1>3, <1>4
<1>6. TextOf(parts, kinds) = FlattenSeq(seqs) BY DEF TextOf, texts
<1> HIDE DEF seqs
<1>7. TextOf(parts, kinds) \in Seq(W) BY <1>5, <1>6, FlatOfLists
<1> QED BY <1>7 DEF IsList

(* What Claude Code accepts are messages.                                  *)
ClaudeAccepts(m) ==
  \/ m.kind = "none"
  \/ /\ m = [kind |-> "message", role |-> m.role, text |-> m.text, time |-> m.time,
             id |-> m.id, cwd |-> m.cwd]
     /\ m.role \in Roles /\ m.time \in Nat /\ IsList(m.text)

LEMMA ClaudeMessages ==
  ASSUME NEW raw, ClaudeRecord(raw) PROVE ClaudeAccepts(AcceptClaude(raw))
<1> DEFINE text == IF ClaudeText(raw.direct) # <<>> THEN ClaudeText(raw.direct) ELSE ClaudeText(raw.content)
<1>1. IsList(text) BY TextIsList DEF ClaudeRecord, ClaudeText
<1>2. AcceptClaude(raw) = IF raw.aside THEN Nothing ELSE Said(raw.type, text, raw.time, raw.id, raw.cwd)
  BY DEF AcceptClaude
<1> HIDE DEF text
<1>3. AcceptClaude(raw) \in {Nothing, [kind |-> "message", role |-> raw.type, text |-> text,
                                      time |-> raw.time, id |-> raw.id, cwd |-> raw.cwd]}
  BY <1>2 DEF Said
<1>4. raw.type \in Roles \/ AcceptClaude(raw) = Nothing BY <1>2 DEF Said
<1>5. Nothing.kind = "none" BY DEF Nothing
<1>6. raw.time \in Nat BY DEF ClaudeRecord
<1>7. CASE AcceptClaude(raw) = Nothing BY <1>5, <1>7 DEF ClaudeAccepts
<1>8. CASE AcceptClaude(raw) # Nothing
  <2> DEFINE m == [kind |-> "message", role |-> raw.type, text |-> text,
                   time |-> raw.time, id |-> raw.id, cwd |-> raw.cwd]
  <2>1. ClaudeAccepts(m) BY <1>1, <1>4, <1>6, <1>8 DEF ClaudeAccepts
  <2> QED BY <1>3, <1>8, <2>1
<1> QED BY <1>7, <1>8

(* Transcripts of Claude Code of one hash, none of whose messages holds a  *)
(* NUL.                                                                    *)
LEMMA ClaudeDecides ==
  ASSUME NEW T, NEW a \in Seq(T), NEW b \in Seq(T),
         \A m \in T : ClaudeAccepts(m) /\ ~HoldsNul(m),
         TakenIn("claude_code", a).fields = TakenIn("claude_code", b).fields
  PROVE  /\ SameOfEachKind(a, b)
         /\ TakenIn("claude_code", a) = TakenIn("claude_code", b)
<1> DEFINE M == {m \in T : m.kind \in {"message"}}
           D == {NUL, "tick"} \cup Roles \cup {m.id : m \in M} \cup {m.cwd : m \in M}
                  \cup UNION {ToSet(m.text) : m \in M}
           source == "claude_code"
<1>1. Alphabet(D) BY DEF Alphabet
<1>2. ASSUME NEW m \in M PROVE PlainMessage(m, D)
  <2>1. /\ m = [kind |-> "message", role |-> m.role, text |-> m.text, time |-> m.time,
                id |-> m.id, cwd |-> m.cwd]
        /\ m.role \in Roles /\ m.time \in Nat /\ IsList(m.text)
    BY DEF ClaudeAccepts
  <2>2. NUL \notin {m.id, m.cwd} \cup ToSet(m.text) BY DEF HoldsNul
  <2>3. m.id \in D \ {NUL} /\ m.cwd \in D \ {NUL} /\ ToSet(m.text) \subseteq D \ {NUL} BY <2>2
  <2> HIDE DEF D
  <2>4. m.text \in Seq(ToSet(m.text))
    <3>1. PICK W : m.text \in Seq(W) BY <2>1 DEF IsList
    <3> QED BY <3>1 DEF ToSet
  <2>5. m.text \in Seq(D \ {NUL}) BY <2>3, <2>4
  <2> QED BY <2>1, <2>3, <2>5 DEF PlainMessage
<1>3. OfKind(a, {"message"}) \in Seq(M) /\ OfKind(b, {"message"}) \in Seq(M) BY OfKindOnly
<1> HIDE DEF M, D
<1>4. HashMessages(OfKind(a, {"message"})) = HashMessages(OfKind(b, {"message"}))
  <2>1. \A said : TakenIn(source, said).fields = HashMessages(OfKind(said, {"message"})) BY DEF TakenIn
  <2> QED BY <2>1
<1>5. OfKind(a, {"message"}) = OfKind(b, {"message"}) BY <1>1, <1>2, <1>3, <1>4, HashDecides
<1>6. ASSUME NEW k \in HashedKinds, k # "message"
      PROVE  OfKind(a, {k}) = <<>> /\ OfKind(b, {k}) = <<>>
  <2>1. \A m \in T : m.kind \in {"none", "message"} BY DEF ClaudeAccepts
  <2>2. \A m \in T : m.kind \notin {k} BY <1>6, <2>1 DEF HashedKinds
  <2> QED BY <2>2, OfKindNone
<1>7. SameOfEachKind(a, b) BY <1>5, <1>6 DEF SameOfEachKind
<1>8. Located(source, a) = Located(source, b) BY <1>5 DEF Located
<1>9. OfKind(a, {"message", "compaction"}) # <<>> <=> OfKind(b, {"message", "compaction"}) # <<>>
  <2>1. {"message"} \cup {"compaction"} = {"message", "compaction"} OBVIOUS
  <2>2. OfKind(a, {"compaction"}) = <<>> /\ OfKind(b, {"compaction"}) = <<>> BY <1>6 DEF HashedKinds
  <2> QED BY <1>5, <2>1, <2>2, OfKindEither
<1>10. TakenIn(source, a) = TakenIn(source, b) BY <1>5, <1>8, <1>9, Zenon DEF TakenIn
<1> QED BY <1>7, <1>10
SamplesOf(adapter) == IF adapter = "codex" THEN SampleRollouts ELSE SampleTranscripts[adapter]

KnownOf(adapter, file, raws) ==
  <<InventoryOf(adapter, Accepted(adapter, raws)),
    ProjectionOf(adapter, file, Accepted(adapter, raws))>>

LEMMA AcceptedIsRollout ==
  ASSUME NEW raws \in SampleRollouts PROVE Rollout(Accepted("codex", raws))
<1> DEFINE said == Accepted("codex", raws)
           n == Len(raws)
<1>1. raws \in Seq(ToSet(raws)) BY AdapterSamples
<1>2. n \in Nat /\ DOMAIN raws = 1..n BY <1>1
<1>3. said = [i \in 1..n |-> Classify(raws[i])] BY <1>2 DEF Accepted, Accept
<1>4. Len(said) = n BY <1>2, <1>3
<1>5. ASSUME NEW i \in 1..n, Classify(raws[i]).kind = "reasoning"
      PROVE  IsList(Classify(raws[i]).texts)
  <2>1. raws[i] \in ToSet(raws) BY <1>2 DEF ToSet
  <2>2. raws[i].type = "reasoning" /\ Classify(raws[i]).texts = raws[i].texts
    BY <1>5, ClassifyReasoning
  <2>3. raws[i].texts \in Seq(ToSet(raws[i].texts)) BY <2>1, <2>2, AdapterSamples
  <2> QED BY <2>2, <2>3 DEF IsList
<1>6. \A i \in 1..n : said[i] = Classify(raws[i]) BY <1>3
<1>7. said = [i \in 1..n |-> said[i]] BY <1>3
<1>8. \A i \in 1..n : Exact(said[i]) /\ (said[i].kind = "reasoning" => IsList(said[i].texts))
  <2> HIDE DEF said, n
  <2> QED BY <1>5, <1>6, ClassifyExact
<1> HIDE DEF said, n
<1>9. Rollout(said) BY <1>2, <1>4, <1>7, <1>8 DEF Rollout
<1> QED BY <1>9 DEF said

LEMMA KnownDecides ==
  ASSUME NEW adapter \in {"codex"} \cup DOMAIN SampleTranscripts, NEW file,
         NEW x \in SamplesOf(adapter), NEW y \in SamplesOf(adapter)
  PROVE  LET k == KnownOf(adapter, file, x)
             l == KnownOf(adapter, file, y)
         IN /\ TellsApart(adapter, Accepted(adapter, x)) /\ TellsApart(adapter, Accepted(adapter, y))
                => (k[2].outcome = "projected" /\ l[2].outcome = "projected" /\ k[1].fields = l[1].fields
                      => k = l)
            /\ k[2].outcome = "projected" => k[2].session.cwd = k[1].cwd /\ k[1].selected
            /\ adapter # "codex" /\ k[2].outcome # "projected" => ~k[1].selected
<1> DEFINE a == Accepted(adapter, x)
           b == Accepted(adapter, y)
           p == ProjectionOf(adapter, file, a)
           q == ProjectionOf(adapter, file, b)
           u == InventoryOf(adapter, a)
           v == InventoryOf(adapter, b)
           k == KnownOf(adapter, file, x)
           l == KnownOf(adapter, file, y)
           apart == TellsApart(adapter, a) /\ TellsApart(adapter, b)
<1>0. SUFFICES
        /\ apart => (p.outcome = "projected" /\ q.outcome = "projected" /\ u.fields = v.fields
                       => p = q /\ u = v)
        /\ p.outcome = "projected" => p.session.cwd = u.cwd /\ u.selected
        /\ adapter # "codex" /\ p.outcome # "projected" => ~u.selected
  <2>1. k = <<u, p>> /\ l = <<v, q>> BY DEF KnownOf
  <2> HIDE DEF u, v, p, q, k, l
  <2>2. k[1] = u /\ k[2] = p /\ l[1] = v /\ l[2] = q /\ (p = q /\ u = v => k = l) BY <2>1
  <2> HIDE DEF apart
  <2>3. SUFFICES /\ apart => (k[2].outcome = "projected" /\ l[2].outcome = "projected"
                                /\ k[1].fields = l[1].fields => k = l)
                 /\ k[2].outcome = "projected" => k[2].session.cwd = k[1].cwd /\ k[1].selected
                 /\ adapter # "codex" /\ k[2].outcome # "projected" => ~k[1].selected
    BY Zenon DEF apart, k, l, a, b
  <2> QED BY <2>2
<1>1. CASE adapter = "codex"
  <2>1. x \in SampleRollouts /\ y \in SampleRollouts BY <1>1 DEF SamplesOf
  <2>2. Rollout(a) /\ Rollout(b) BY <1>1, <2>1, AcceptedIsRollout, Zenon
  <2>3. /\ u = [selected |-> TRUE, cwd |-> InventoryCwd(a), fields |-> AcceptedFields(a)]
        /\ v = [selected |-> TRUE, cwd |-> InventoryCwd(b), fields |-> AcceptedFields(b)]
    BY <1>1, Zenon DEF InventoryOf
  <2>4. u.selected
    <3> DEFINE yes == TRUE
    <3>1. u = [selected |-> yes, cwd |-> InventoryCwd(a), fields |-> AcceptedFields(a)] BY <2>3
    <3>2. yes OBVIOUS
    <3> HIDE DEF u, yes
    <3>3. u.selected = yes BY <3>1
    <3> QED BY <3>2, <3>3
  <2>5. u.cwd = InventoryCwd(a) /\ u.fields = AcceptedFields(a) /\ v.fields = AcceptedFields(b)
    BY <2>3
  <2> HIDE DEF a, b
  <2>6. p.session.cwd = InventoryCwd(a) BY <1>1, <2>2, CodexCwd
  <2>7. p.outcome = "projected" /\ q.outcome = "projected" /\ u.fields = v.fields => p = q /\ u = v
    BY <1>1, <2>2, <2>5, CodexDecides
  <2> HIDE DEF p, q, u, v, apart
  <2> QED BY <1>1, <2>4, <2>5, <2>6, <2>7
<1>2. CASE adapter # "codex"
  <2>1. /\ adapter \in DOMAIN SampleTranscripts
        /\ x \in SampleTranscripts[adapter] /\ y \in SampleTranscripts[adapter]
    BY <1>2 DEF SamplesOf
  <2>2. x \in Seq(ToSet(x)) /\ y \in Seq(ToSet(y)) BY <2>1, AdapterSamples
  <2> DEFINE T == {Accept(adapter, raw) : raw \in ToSet(x) \cup ToSet(y)}
  <2>3. a \in Seq(T)
    <3>1. DOMAIN x = 1..Len(x) /\ Len(x) \in Nat /\ \A i \in 1..Len(x) : x[i] \in ToSet(x) BY <2>2
    <3>2. \A i \in 1..Len(x) : Accept(adapter, x[i]) \in T BY <3>1
    <3>3. a = [i \in 1..Len(x) |-> Accept(adapter, x[i])] BY <3>1 DEF Accepted
    <3> HIDE DEF T, a
    <3> QED BY <3>1, <3>2, <3>3
  <2>4. b \in Seq(T)
    <3>1. DOMAIN y = 1..Len(y) /\ Len(y) \in Nat /\ \A i \in 1..Len(y) : y[i] \in ToSet(y) BY <2>2
    <3>2. \A i \in 1..Len(y) : Accept(adapter, y[i]) \in T BY <3>1
    <3>3. b = [i \in 1..Len(y) |-> Accept(adapter, y[i])] BY <3>1 DEF Accepted
    <3> HIDE DEF T, b
    <3> QED BY <3>1, <3>2, <3>3
  <2>9. adapter = "claude_code" /\ TellsApart(adapter, a) /\ TellsApart(adapter, b)
          => \A m \in T : ClaudeAccepts(m) /\ ~HoldsNul(m)
    <3> SUFFICES ASSUME adapter = "claude_code", TellsApart(adapter, a), TellsApart(adapter, b),
                        NEW raw \in ToSet(x) \cup ToSet(y)
                 PROVE  ClaudeAccepts(Accept(adapter, raw)) /\ ~HoldsNul(Accept(adapter, raw))
      OBVIOUS
    <3>1. ClaudeRecord(raw) BY <2>1, AdapterSamples
    <3>2. Accept(adapter, raw) = AcceptClaude(raw) BY Zenon DEF Accept
    <3>3. CASE raw \in ToSet(x)
      <4>1. PICK i \in DOMAIN x : raw = x[i] BY <3>3 DEF ToSet
      <4>2. DOMAIN a = DOMAIN x /\ a[i] = Accept(adapter, raw) BY <4>1 DEF Accepted
      <4>3. ~HoldsNul(a[i]) BY <4>2 DEF TellsApart
      <4> QED BY <3>1, <3>2, <4>2, <4>3, ClaudeMessages
    <3>4. CASE raw \in ToSet(y)
      <4>1. PICK i \in DOMAIN y : raw = y[i] BY <3>4 DEF ToSet
      <4>2. DOMAIN b = DOMAIN y /\ b[i] = Accept(adapter, raw) BY <4>1 DEF Accepted
      <4>3. ~HoldsNul(b[i]) BY <4>2 DEF TellsApart
      <4> QED BY <3>1, <3>2, <4>2, <4>3, ClaudeMessages
    <3> QED BY <3>3, <3>4
  <2> HIDE DEF T, a, b
  <2>5. /\ u = TakenIn(adapter, a) /\ v = TakenIn(adapter, b)
        /\ p = Replay(adapter, file, a) /\ q = Replay(adapter, file, b)
    BY <1>2, Zenon DEF InventoryOf, ProjectionOf
  <2> HIDE DEF p, q, u, v
  <2>6. ASSUME u.fields = v.fields, TellsApart(adapter, a), TellsApart(adapter, b)
        PROVE  p = q /\ u = v
    <3>1. SameOfEachKind(a, b) /\ TakenIn(adapter, a) = TakenIn(adapter, b)
      <4>1. CASE adapter # "claude_code" BY <2>3, <2>4, <2>5, <2>6, <4>1, TakenInKinds
      <4>2. CASE adapter = "claude_code" BY <2>3, <2>4, <2>5, <2>6, <2>9, <4>2, ClaudeDecides
      <4> QED BY <4>1, <4>2
    <3> QED BY <2>5, <3>1, ReplayOfKinds
  <2>7. /\ p.outcome = "projected" <=> u.selected
        /\ u.selected \in BOOLEAN
        /\ p.session.cwd = u.cwd
    BY <2>3, <2>5, ReplayProjected
  <2>8. apart /\ u.fields = v.fields => p = q /\ u = v BY <2>6
  <2> HIDE DEF apart
  <2> QED BY <1>2, <2>7, <2>8
<1> QED BY <1>1, <1>2

(* As many as what tells them apart.                                       *)
LEMMA AsManyAsKeys ==
  ASSUME NEW S, IsFiniteSet(S), NEW keys, NEW key,
         key \in [S -> keys], \A k, l \in S : key[k] = key[l] => k = l
  PROVE  Cardinality(S) = Cardinality({key[k] : k \in S})
<1> DEFINE K == {key[k] : k \in S}
           f == [k \in S |-> key[k]]
<1>1. f \in [S -> K] OBVIOUS
<1>2. \A k, l \in S : f[k] = f[l] => k = l OBVIOUS
<1>3. \A c \in K : \E k \in S : f[k] = c OBVIOUS
<1>4. f \in Injection(S, K) BY <1>1, <1>2 DEF Injection, IsInjective
<1>5. f \in Surjection(S, K) BY <1>1, <1>3 DEF Surjection
<1>6. ExistsBijection(S, K) BY <1>4, <1>5 DEF ExistsBijection, Bijection
<1> QED BY <1>6, FS_Bijection

(* InventoryDecidesProjection, for any transcripts and files: what is      *)
(* hashed of two transcripts is the same only if one session and the same  *)
(* documents are projected, where no message of Claude Code holds a NUL.   *)
THEOREM SpecInventoryDecidesProjection == LawsSpec => []InventoryDecidesProjection
<1>1. QuestionInv => InventoryDecidesProjection
  <2> SUFFICES ASSUME QuestionInv, reader.command = "inventory"
               PROVE  LET adapter == reader.adapter
                          samples == SamplesOf(adapter)
                          known == {KnownOf(adapter, reader.file, raws) : raws \in samples}
                          indexed == {k \in known : k[2].outcome = "projected"}
                          exact == {KnownOf(adapter, reader.file, raws) :
                                      raws \in {s \in samples : TellsApart(adapter, Accepted(adapter, s))}}
                          told == {k \in exact : k[2].outcome = "projected"}
                      IN /\ Cardinality(told) = Cardinality({k[1].fields : k \in told})
                         /\ \A k \in indexed : k[2].session.cwd = k[1].cwd /\ k[1].selected
                         /\ adapter # "codex" => \A k \in known \ indexed : ~k[1].selected
    BY Zenon DEF InventoryDecidesProjection, KnownOf, SamplesOf
  <2> DEFINE adapter == reader.adapter
             file == reader.file
             samples == SamplesOf(adapter)
             known == {KnownOf(adapter, file, raws) : raws \in samples}
             indexed == {k \in known : k[2].outcome = "projected"}
             plain == {s \in samples : TellsApart(adapter, Accepted(adapter, s))}
             exact == {KnownOf(adapter, file, raws) : raws \in plain}
             told == {k \in exact : k[2].outcome = "projected"}
             fields == {k[1].fields : k \in told}
  <2>1. adapter \in {"codex"} \cup DOMAIN SampleTranscripts
    BY DEF QuestionInv, Scoped, Asked, AdapterQuestions
  <2> HIDE DEF adapter, file
  <2>2. IsFiniteSet(plain)
    <3>1. IsFiniteSet(samples) BY <2>1, AdapterSamples DEF SamplesOf
    <3>2. plain \in SUBSET samples OBVIOUS
    <3> HIDE DEF plain, samples
    <3> QED BY <3>1, <3>2, FS_Subset
  <2>3. IsFiniteSet(exact)
    <3> DEFINE f == [raws \in plain |-> KnownOf(adapter, file, raws)]
    <3> HIDE DEF plain
    <3>1. f \in [plain -> exact] /\ \A k \in exact : \E raws \in plain : f[raws] = k OBVIOUS
    <3>2. f \in Surjection(plain, exact) BY <3>1 DEF Surjection
    <3> QED BY <2>2, <3>2, FS_Surjection
  <2>4. IsFiniteSet(told)
    <3>1. told \in SUBSET exact OBVIOUS
    <3> HIDE DEF exact, told
    <3> QED BY <2>3, <3>1, FS_Subset
  <2>5. ASSUME NEW k \in exact, NEW l \in exact, k[2].outcome = "projected", l[2].outcome = "projected",
               k[1].fields = l[1].fields
        PROVE  k = l
    <3>1. PICK x \in plain : k = KnownOf(adapter, file, x) OBVIOUS
    <3>2. PICK y \in plain : l = KnownOf(adapter, file, y) OBVIOUS
    <3>3. /\ x \in samples /\ TellsApart(adapter, Accepted(adapter, x))
          /\ y \in samples /\ TellsApart(adapter, Accepted(adapter, y))
      OBVIOUS
    <3> HIDE DEF plain, exact
    <3> QED BY <2>1, <2>5, <3>1, <3>2, <3>3, KnownDecides
  <2>6. ASSUME NEW k \in known
        PROVE  /\ k[2].outcome = "projected" => k[2].session.cwd = k[1].cwd /\ k[1].selected
               /\ adapter # "codex" /\ k[2].outcome # "projected" => ~k[1].selected
    <3>1. PICK x \in samples : k = KnownOf(adapter, file, x) OBVIOUS
    <3> QED BY <2>1, <3>1, KnownDecides
  <2>7. Cardinality(told) = Cardinality(fields)
    <3> HIDE DEF exact
    <3> DEFINE key == [k \in told |-> k[1].fields]
    <3>1. key \in [told -> fields] OBVIOUS
    <3>2. \A k, l \in told : key[k] = key[l] => k = l BY <2>5
    <3>3. {key[k] : k \in told} = fields OBVIOUS
    <3> HIDE DEF key, told, fields
    <3>4. Cardinality(told) = Cardinality({key[k] : k \in told}) BY <2>4, <3>1, <3>2, AsManyAsKeys
    <3> QED BY <3>3, <3>4
  <2> HIDE DEF exact, known
  <2>8. \A k \in indexed : k[2].session.cwd = k[1].cwd /\ k[1].selected BY <2>6
  <2>9. adapter # "codex" => \A k \in known \ indexed : ~k[1].selected BY <2>6
  <2> QED BY <2>7, <2>8, <2>9 DEF adapter, file, known, exact
<1> QED BY <1>1, SpecQuestion, PTL

-----------------------------------------------------------------------------
(* Evidence.  The lists of the retrieval, which are made element by        *)
(* element, stay what they are made of.                                    *)

NewOf == <<"new">>

LEMMA NewAdvances ==
  ASSUME NEW found, NEW docs, NEW n \in Nat, Len(docs) = n
  PROVE  \E made : Advances(made, NewOf, found, docs, 0, n) /\ AppendAll(found, docs) = made[n]
<1> DEFINE Is(f) == f = [i \in 0..Len(docs) |-> IF i = 0 THEN found ELSE AppendNew(f[i - 1], docs[i])]
           made == CHOOSE f : Is(f)
<1>1. \A x, e : Advance(NewOf, x, e) = AppendNew(x, e) BY DEF Advance, NewOf
<1>2. \A f : Is(f) <=> IsAdvance(f, NewOf, found, docs, 0, n) BY <1>1 DEF IsAdvance
<1>3. AppendAll(found, docs) = made[n] BY DEF AppendAll
<1> HIDE DEF Is
<1>4. \E f : Is(f)
  <2>1. 0 \in Nat /\ n >= 0 OBVIOUS
  <2>2. PICK f : IsAdvance(f, NewOf, found, docs, 0, n) BY <2>1, AdvanceExists
  <2> QED BY <1>2, <2>2
<1>5. Is(made) BY <1>4
<1> HIDE DEF made
<1>6. Advances(made, NewOf, found, docs, 0, n) BY <1>2, <1>5, AdvanceStep
<1> QED BY <1>3, <1>6

AgainOf(spec, docs) == <<"again", spec, docs>>

LEMMA AgainStep ==
  ASSUME NEW spec, NEW docs
  PROVE  \A x, e : Advance(AgainOf(spec, docs), x, e) = RecallAgain(spec, e, docs, x)
<1> DEFINE of == AgainOf(spec, docs)
<1>1. of[1] = "again" /\ of[2] = spec /\ of[3] = docs BY DEF AgainOf
<1> HIDE DEF of
<1>2. \A x, e : Advance(of, x, e) = RecallAgain(spec, e, docs, x) BY <1>1 DEF Advance
<1> QED BY <1>2 DEF of

LEMMA AgainAdvances ==
  ASSUME NEW spec, NEW docs, NEW relaxed, NEW n \in Nat, Len(relaxed) = n
  PROVE  \E made : /\ Advances(made, AgainOf(spec, docs), <<>>, relaxed, 0, n)
                   /\ RecallWithFallback(spec, relaxed, docs)
                        = IF Recall(spec, docs) # <<>> THEN Recall(spec, docs) ELSE made[n]
<1> DEFINE of == AgainOf(spec, docs)
           Is(f) == f = [i \in 0..Len(relaxed) |->
                           IF i = 0 THEN <<>> ELSE RecallAgain(spec, relaxed[i], docs, f[i - 1])]
           made == CHOOSE f : Is(f)
<1>1. \A x, e : Advance(of, x, e) = RecallAgain(spec, e, docs, x) BY AgainStep
<1> HIDE DEF of
<1>2. \A f : Is(f) <=> IsAdvance(f, of, <<>>, relaxed, 0, n) BY <1>1 DEF IsAdvance
<1>3. RecallWithFallback(spec, relaxed, docs)
        = IF Recall(spec, docs) # <<>> THEN Recall(spec, docs) ELSE made[n]
  BY DEF RecallWithFallback
<1> HIDE DEF Is
<1>4. \E f : Is(f)
  <2>1. 0 \in Nat /\ n >= 0 OBVIOUS
  <2>2. PICK f : IsAdvance(f, of, <<>>, relaxed, 0, n) BY <2>1, AdvanceExists
  <2> QED BY <1>2, <2>2
<1>5. Is(made) BY <1>4
<1> HIDE DEF made
<1>6. Advances(made, of, <<>>, relaxed, 0, n) BY <1>2, <1>5, AdvanceStep
<1> QED BY <1>3, <1>6 DEF of

TellingOf == <<"telling">>

LEMMA TellingAdvances ==
  ASSUME NEW query, NEW n \in Nat, Len(query) = n
  PROVE  \E made : Advances(made, TellingOf, <<>>, query, 0, n) /\ Telling(query) = made[n]
<1> DEFINE Is(f) == f = [i \in 0..Len(query) |-> IF i = 0 THEN <<>> ELSE KeepTelling(f[i - 1], query[i])]
           made == CHOOSE f : Is(f)
<1>1. \A x, e : Advance(TellingOf, x, e) = KeepTelling(x, e) BY DEF Advance, TellingOf
<1>2. \A f : Is(f) <=> IsAdvance(f, TellingOf, <<>>, query, 0, n) BY <1>1 DEF IsAdvance
<1>3. Telling(query) = made[n] BY DEF Telling
<1> HIDE DEF Is
<1>4. \E f : Is(f)
  <2>1. 0 \in Nat /\ n >= 0 OBVIOUS
  <2>2. PICK f : IsAdvance(f, TellingOf, <<>>, query, 0, n) BY <2>1, AdvanceExists
  <2> QED BY <1>2, <2>2
<1>5. Is(made) BY <1>4
<1> HIDE DEF made
<1>6. Advances(made, TellingOf, <<>>, query, 0, n) BY <1>2, <1>5, AdvanceStep
<1> QED BY <1>3, <1>6

FormsOfTerms == <<"forms">>

LEMMA FormsAdvance ==
  ASSUME NEW terms, NEW n \in Nat, Len(terms) = n, NEW forms, forms = [i \in 1..n |-> FormsAt(terms, i)]
  PROVE  \E made : /\ Advances(made, FormsOfTerms, << <<>> >>, forms, 0, n)
                   /\ MorphologicalQueries(terms) = made[n]
<1> DEFINE Is(f) == f = [i \in 0..Len(terms) |->
                           IF i = 0 THEN << <<>> >> ELSE Extended(f[i - 1], FormsAt(terms, i))]
           made == CHOOSE f : Is(f)
<1>1. \A x, e : Advance(FormsOfTerms, x, e) = Extended(x, e) BY DEF Advance, FormsOfTerms
<1>2. \A f : Is(f) <=> IsAdvance(f, FormsOfTerms, << <<>> >>, forms, 0, n)
  <2> TAKE f
  <2> DEFINE a == [i \in 0..n |-> IF i = 0 THEN << <<>> >> ELSE Extended(f[i - 1], FormsAt(terms, i))]
             b == [i \in 0..n |-> IF i = 0 THEN << <<>> >> ELSE Advance(FormsOfTerms, f[i - 1], forms[i])]
  <2>1. a = b BY <1>1
  <2>2. Is(f) <=> f = a OBVIOUS
  <2>3. IsAdvance(f, FormsOfTerms, << <<>> >>, forms, 0, n) <=> f = b BY DEF IsAdvance
  <2> HIDE DEF a, b
  <2> QED BY <2>1, <2>2, <2>3
<1>3. MorphologicalQueries(terms) = made[n] BY DEF MorphologicalQueries
<1> HIDE DEF Is
<1>4. \E f : Is(f)
  <2>1. 0 \in Nat /\ n >= 0 OBVIOUS
  <2>2. PICK f : IsAdvance(f, FormsOfTerms, << <<>> >>, forms, 0, n) BY <2>1, AdvanceExists
  <2> QED BY <1>2, <2>2
<1>5. Is(made) BY <1>4
<1> HIDE DEF made
<1>6. Advances(made, FormsOfTerms, << <<>> >>, forms, 0, n) BY <1>2, <1>5, AdvanceStep
<1> QED BY <1>3, <1>6


(* Terms that tell something are terms.                                    *)
LEMMA TellingTerms ==
  ASSUME NEW T, NEW query \in Seq(T) PROVE Telling(query) \in Seq(T)
<1> DEFINE n == Len(query)
           z == 0
<1>1. n \in Nat /\ \A i \in 1..n : query[i] \in T OBVIOUS
<1>2. PICK made : Advances(made, TellingOf, <<>>, query, 0, n) /\ Telling(query) = made[n]
  BY <1>1, TellingAdvances
<1>3. z \in Nat /\ n >= z /\ z = 0 BY <1>1
<1>4. <<>> \in Seq(T) OBVIOUS
<1> HIDE DEF n, z
<1>5. ASSUME NEW x \in Seq(T), NEW i \in z..n, i < n
      PROVE  Advance(TellingOf, x, query[i + 1]) \in Seq(T)
  <2>1. Advance(TellingOf, x, query[i + 1]) = KeepTelling(x, query[i + 1])
    BY DEF Advance, TellingOf
  <2>2. query[i + 1] \in T BY <1>1, <1>3, <1>5
  <2> QED BY <2>1, <2>2 DEF KeepTelling
<1> DEFINE X == Seq(T)
           first == <<>>
<1>6. Advances(made, TellingOf, first, query, z, n) /\ first \in X BY <1>2, <1>3, <1>4
<1>7. StaysIn(TellingOf, query, z, n, X) BY <1>5 DEF StaysIn
<1> HIDE DEF X, first
<1>8. made[n] \in X BY <1>1, <1>3, <1>6, <1>7, AdvanceStays
<1> QED BY <1>2, <1>8 DEF X

(* A list that is cut short is a list of the same.                         *)
LEMMA TakenOf ==
  ASSUME NEW S, NEW seq \in Seq(S), NEW bound \in Nat PROVE Take(seq, bound) \in Seq(S)
<1>1. Len(seq) \in Nat /\ ListOf(seq, Len(seq), S) BY DEF ListOf
<1> DEFINE l == Len(seq)
           size == AtMost(l, bound)
           top == Take(seq, bound)
<1>2. l \in Nat /\ ListOf(seq, l, S) /\ size = AtMost(l, bound) /\ top = Take(seq, bound) BY <1>1
<1> HIDE DEF l, size, top
<1>3. ListOf(top, size, S) /\ size \in Nat BY <1>2, TakeFirst
<1>4. \A k \in Nat : [1..k -> S] \subseteq Seq(S) OBVIOUS
<1> QED BY <1>2, <1>3, <1>4 DEF ListOf

LEMMA ExtendedForms ==
  ASSUME NEW W, NEW prefixes \in Seq(Seq(W)), NEW forms \in Seq(W)
  PROVE  Extended(prefixes, forms) \in Seq(Seq(W))
<1> DEFINE each(p) == [f \in DOMAIN forms |-> Append(prefixes[p], forms[f])]
           all == [p \in DOMAIN prefixes |-> each(p)]
<1>1. ASSUME NEW p \in DOMAIN prefixes PROVE each(p) \in Seq(Seq(W))
  <2>1. prefixes[p] \in Seq(W) OBVIOUS
  <2>2. \A f \in DOMAIN forms : Append(prefixes[p], forms[f]) \in Seq(W) BY <2>1
  <2>3. each(p) \in [1..Len(forms) -> Seq(W)] BY <2>2
  <2>4. Len(forms) \in Nat OBVIOUS
  <2>5. \A k \in Nat : [1..k -> Seq(W)] \subseteq Seq(Seq(W)) OBVIOUS
  <2> QED BY <2>3, <2>4, <2>5
<1> HIDE DEF each
<1>2. all \in Seq(Seq(Seq(W)))
  <2>1. all \in [1..Len(prefixes) -> Seq(Seq(W))] BY <1>1
  <2>2. Len(prefixes) \in Nat OBVIOUS
  <2>3. \A k \in Nat : [1..k -> Seq(Seq(W))] \subseteq Seq(Seq(Seq(W))) OBVIOUS
  <2> QED BY <2>1, <2>2, <2>3
<1>3. Extended(prefixes, forms) = Take(FlattenSeq(all), MaxForms) BY DEF Extended, each
<1> HIDE DEF all
<1>4. FlattenSeq(all) \in Seq(Seq(W)) BY <1>2, FlatOfLists
<1>5. MaxForms \in Nat BY RetrievalLimits
<1> QED BY <1>3, <1>4, <1>5, TakenOf

(* The alternatives of a query are made of the forms of its terms.         *)
HasForms(t, W) == t.forms \in Seq(W) /\ t.lastForms \in Seq(W)

LEMMA QueriesOfForms ==
  ASSUME NEW W, NEW T, \A t \in T : HasForms(t, W), NEW terms \in Seq(T)
  PROVE  MorphologicalQueries(terms) \in Seq(Seq(W))
<1> DEFINE n == Len(terms)
           z == 0
           first == << <<>> >>
           forms == [i \in 1..n |-> FormsAt(terms, i)]
<1>1. n \in Nat /\ \A i \in 1..n : terms[i] \in T OBVIOUS
<1>2. PICK made : /\ Advances(made, FormsOfTerms, << <<>> >>, forms, 0, n)
                  /\ MorphologicalQueries(terms) = made[n]
  BY <1>1, FormsAdvance
<1>3. z \in Nat /\ n >= z /\ z = 0 BY <1>1
<1>4. first \in Seq(Seq(W))
  <2>1. <<>> \in Seq(W) OBVIOUS
  <2>2. \A S : \A x \in S : <<x>> \in Seq(S) OBVIOUS
  <2> QED BY <2>1, <2>2
<1>5. \A i \in 1..n : forms[i] \in Seq(W) BY <1>1 DEF FormsAt, HasForms
<1>6. Advances(made, FormsOfTerms, first, forms, z, n) BY <1>2
<1> HIDE DEF n, z, first, forms
<1>7. ASSUME NEW x \in Seq(Seq(W)), NEW i \in z..n, i < n
      PROVE  Advance(FormsOfTerms, x, forms[i + 1]) \in Seq(Seq(W))
  <2>1. Advance(FormsOfTerms, x, forms[i + 1]) = Extended(x, forms[i + 1])
    BY DEF Advance, FormsOfTerms
  <2>2. forms[i + 1] \in Seq(W) BY <1>1, <1>3, <1>5, <1>7
  <2> QED BY <2>1, <2>2, ExtendedForms
<1> DEFINE X == Seq(Seq(W))
<1>8. StaysIn(FormsOfTerms, forms, z, n, X) /\ first \in X BY <1>4, <1>7 DEF StaysIn
<1> HIDE DEF X
<1>9. made[n] \in X BY <1>1, <1>3, <1>6, <1>8, AdvanceStays
<1> QED BY <1>2, <1>9 DEF X

LEMMA RelaxedForms ==
  ASSUME NEW W, NEW T, \A t \in T : HasForms(t, W), NEW terms \in Seq(T)
  PROVE  RelaxedQueries(terms) \in Seq(SUBSET W)
<1> DEFINE telling == Telling(terms)
           mixed == \E i \in DOMAIN terms : terms[i].cjk
           base == IF mixed THEN telling ELSE Take(telling, RelaxedTerms)
           queries == MorphologicalQueries(base)
           sets == [i \in DOMAIN queries |-> ToSet(queries[i])]
<1>1. telling \in Seq(T) BY TellingTerms
<1>2. RelaxedTerms \in Nat BY RetrievalLimits
<1>3. RelaxedQueries(terms) = <<>> \/ RelaxedQueries(terms) = sets BY DEF RelaxedQueries
<1> HIDE DEF telling, mixed
<1>4. base \in Seq(T) BY <1>1, <1>2, TakenOf
<1> HIDE DEF base
<1>5. queries \in Seq(Seq(W)) BY <1>4, QueriesOfForms
<1> HIDE DEF queries
<1>6. \A i \in DOMAIN queries : ToSet(queries[i]) \in SUBSET W BY <1>5 DEF ToSet
<1>7. sets \in [1..Len(queries) -> SUBSET W] /\ Len(queries) \in Nat BY <1>5, <1>6
<1>8. \A k \in Nat : [1..k -> SUBSET W] \subseteq Seq(SUBSET W) OBVIOUS
<1> HIDE DEF sets
<1>9. <<>> \in Seq(SUBSET W) OBVIOUS
<1> QED BY <1>3, <1>7, <1>8, <1>9

(* The documents of a session in the order of their keys.                  *)
IndexedDocs(docs) ==
  /\ IsFiniteSet(docs) /\ \A d \in docs : IsIndexed(d)
  /\ \A d, e \in docs :
       /\ d.id = e.id /\ d.seq = e.seq => d = e
       /\ GroupKey(d) = GroupKey(e) => d.started = e.started /\ d.ended = e.ended

LEMMA RelevanceKeys ==
  ASSUME NEW docs, IndexedDocs(docs), NEW spec, spec.order = "relevance"
  PROVE  /\ \A d \in docs : RecallKey(spec, d) \in Keys(5)
         /\ \A d, e \in docs : RecallKey(spec, d) = RecallKey(spec, e) => d = e
<1>1. ASSUME NEW d \in docs
      PROVE  /\ RecallKey(spec, d) \in Keys(5)
             /\ RecallKey(spec, d)[4] = d.id /\ RecallKey(spec, d)[5] = SeqOrNone(d)
             /\ SeqOrNone(d) = IF d.seq = None THEN -1 ELSE d.seq
             /\ d.seq = None \/ d.seq \in Nat
  <2>1. d.id \in Int /\ d.bm25 \in Int /\ d.ended \in Int /\ (d.seq = None \/ d.seq \in Nat)
    BY DEF IndexedDocs, IsIndexed
  <2>2. SeqOrNone(d) \in Int BY <2>1 DEF SeqOrNone
  <2>3. Relevance(spec, d) \in Int BY <2>1 DEF Relevance
  <2> DEFINE head == <<Relevance(spec, d), -d.ended, SeqOrNone(d)>>
             key == RecallKey(spec, d)
             id == d.id
             place == SeqOrNone(d)
             m == 3
  <2>4. \A a, b, c \in Int : <<a, -b, c>> \in Keys(3) BY DEF Keys
  <2>5. head \in Keys(m) BY <2>1, <2>2, <2>3, <2>4
  <2>6. key = WithTwo(head, id, place) BY DEF RecallKey, WithTwo
  <2>7. m \in Nat /\ m + 1 = 4 /\ m + 2 = 5 OBVIOUS
  <2>8. id \in Int /\ place \in Int BY <2>1, <2>2
  <2> HIDE DEF head, key, id, place, m
  <2>9. key \in Keys(m + 2) /\ key[m + 1] = id /\ key[m + 2] = place
    BY <2>5, <2>6, <2>7, <2>8, TwoMore
  <2> QED BY <2>1, <2>7, <2>9 DEF key, id, place, SeqOrNone
<1>2. ASSUME NEW d \in docs, NEW e \in docs, RecallKey(spec, d) = RecallKey(spec, e) PROVE d = e
  <2>1. d.id = e.id /\ SeqOrNone(d) = SeqOrNone(e) BY <1>1, <1>2
  <2>2. d.seq = e.seq BY <1>1, <2>1
  <2> QED BY <2>1, <2>2 DEF IndexedDocs
<1> QED BY <1>1, <1>2

(* What asks for nothing but words of W.                                   *)
AsksFor(spec, W) ==
  /\ {"terms", "needle", "sources", "selector", "session", "order", "limit"} \subseteq DOMAIN spec
  /\ spec.order = "relevance" /\ spec.limit \in Nat /\ spec.selector = None
  /\ spec.session = None \/ spec.session.source \in spec.sources
  /\ spec.terms \subseteq W
  /\ spec.needle = None \/ (spec.needle \in W /\ spec.terms = {})

HoldsAny(docs, W) == {d \in docs : d.words \cap W # {}}

LEMMA RecallsHeld ==
  ASSUME NEW docs, IndexedDocs(docs), NEW W, NEW spec, AsksFor(spec, W)
  PROVE  Recall(spec, docs) \in Seq(HoldsAny(docs, W))
<1> DEFINE F == {d \in docs : Matches(spec, d) /\ RecallScope(spec, d)}
           key == [d \in F |-> RecallKey(spec, d)]
           list == InOrder(key)
           bound == spec.limit
           G == HoldsAny(docs, W)
<1>1. CASE spec.limit = 0 \/ (spec.terms = {} /\ spec.needle = None)
  <2>1. Recall(spec, docs) = <<>> BY <1>1, Zenon DEF Recall
  <2>2. <<>> \in Seq(G) BY EmptySeq
  <2> QED BY <2>1, <2>2
<1>2. CASE ~(spec.limit = 0 \/ (spec.terms = {} /\ spec.needle = None))
  <2>1. ~SpecRefused(spec) BY DEF SpecRefused, AsksFor
  <2>2. Recall(spec, docs)
          = Take(Sorted({d \in docs : Matches(spec, d) /\ RecallScope(spec, d)},
                        LAMBDA d : RecallKey(spec, d)), spec.limit)
    BY <1>2, <2>1 DEF Recall
  <2>3. F = {d \in docs : Matches(spec, d) /\ RecallScope(spec, d)} OBVIOUS
  <2>4. F \subseteq G
    <3> SUFFICES ASSUME NEW d \in docs, Matches(spec, d) PROVE d.words \cap W # {} BY DEF HoldsAny
    <3>1. CASE spec.needle # None
      <4>1. spec.needle \in d.words /\ spec.needle \in W BY <3>1 DEF Matches, AsksFor
      <4> QED BY <4>1
    <3>2. CASE spec.needle = None
      <4>1. spec.terms \subseteq d.words /\ spec.terms \subseteq W /\ spec.terms # {}
        BY <1>2, <3>2 DEF Matches, AsksFor
      <4> QED BY <4>1
    <3> QED BY <3>1, <3>2
  <2>5. IsFiniteSet(F) /\ F \subseteq docs BY FS_Subset DEF IndexedDocs
  <2> HIDE DEF F, G
  <2>6. Recall(spec, docs) = Take(list, bound) BY <2>2, <2>3, RecallSorted
  <2>7. Listable(key, 5) /\ DOMAIN key = F
    <3>1. spec.order = "relevance" BY DEF AsksFor
    <3>2. \A d \in F : RecallKey(spec, d) \in Keys(5) BY <2>5, <3>1, RelevanceKeys
    <3>3. \A d, e \in F : RecallKey(spec, d) = RecallKey(spec, e) => d = e
      BY <2>5, <3>1, RelevanceKeys
    <3> QED BY <2>5, <3>2, <3>3 DEF Listable
  <2> HIDE DEF key
  <2>8. Cardinality(F) \in Nat /\ list \in [1..Cardinality(F) -> F]
    <3>1. 5 \in Nat OBVIOUS
    <3> QED BY <2>7, <3>1, InOrderLists
  <2>9. list \in Seq(F)
    <3>1. \A k \in Nat : [1..k -> F] \subseteq Seq(F) OBVIOUS
    <3> HIDE DEF list
    <3> QED BY <2>8, <3>1
  <2>10. bound \in Nat BY DEF AsksFor
  <2> HIDE DEF list, bound
  <2>11. Take(list, bound) \in Seq(F) BY <2>9, <2>10, TakenOf
  <2>12. Seq(F) \subseteq Seq(G) BY <2>4
  <2> QED BY <2>6, <2>11, <2>12 DEF G
<1> QED BY <1>1, <1>2

LEMMA AppendsAll ==
  ASSUME NEW G, NEW found \in Seq(G), NEW more \in Seq(G) PROVE AppendAll(found, more) \in Seq(G)
<1> DEFINE n == Len(more)
           z == 0
           X == Seq(G)
<1>1. n \in Nat /\ \A i \in 1..n : more[i] \in G OBVIOUS
<1>2. PICK made : Advances(made, NewOf, found, more, 0, n) /\ AppendAll(found, more) = made[n]
  BY <1>1, NewAdvances
<1>3. z \in Nat /\ n >= z /\ z = 0 BY <1>1
<1> HIDE DEF n, z
<1>4. ASSUME NEW x \in Seq(G), NEW i \in z..n, i < n
      PROVE  Advance(NewOf, x, more[i + 1]) \in Seq(G)
  <2>1. Advance(NewOf, x, more[i + 1]) = AppendNew(x, more[i + 1]) BY DEF Advance, NewOf
  <2>2. more[i + 1] \in G BY <1>1, <1>3, <1>4
  <2> QED BY <2>1, <2>2 DEF AppendNew
<1>5. StaysIn(NewOf, more, z, n, X) /\ found \in X BY <1>4 DEF StaysIn
<1>6. Advances(made, NewOf, found, more, z, n) BY <1>2, <1>3
<1> HIDE DEF X
<1>7. made[n] \in X BY <1>1, <1>3, <1>5, <1>6, AdvanceStays
<1> QED BY <1>2, <1>7 DEF X

(* So does what a query is retried as, and all that is recalled holds one  *)
(* of the words that are asked for.                                        *)
LEMMA FallbackHeld ==
  ASSUME NEW docs, IndexedDocs(docs), NEW W, NEW spec, AsksFor(spec, W),
         NEW relaxed \in Seq(SUBSET W)
  PROVE  RecallWithFallback(spec, relaxed, docs) \in Seq(HoldsAny(docs, W))
<1> DEFINE n == Len(relaxed)
           z == 0
           G == HoldsAny(docs, W)
           X == Seq(G)
           of == AgainOf(spec, docs)
           first == <<>>
<1>1. n \in Nat /\ \A i \in 1..n : relaxed[i] \in SUBSET W OBVIOUS
<1>2. PICK made : /\ Advances(made, of, <<>>, relaxed, 0, n)
                  /\ RecallWithFallback(spec, relaxed, docs)
                        = IF Recall(spec, docs) # <<>> THEN Recall(spec, docs) ELSE made[n]
  BY <1>1, AgainAdvances
<1>3. z \in Nat /\ n >= z /\ z = 0 BY <1>1
<1>4. Recall(spec, docs) \in X BY RecallsHeld
<1>5. first \in X BY EmptySeq
<1>6. Advances(made, of, first, relaxed, z, n) BY <1>2
<1> HIDE DEF n, z, first, of
<1>7. ASSUME NEW x \in X, NEW t \in SUBSET W PROVE RecallAgain(spec, t, docs, x) \in X
  <2> DEFINE again == [spec EXCEPT !.terms = t, !.needle = None]
             more == Recall(again, docs)
  <2>1. AsksFor(again, W) BY DEF AsksFor
  <2>2. RecallAgain(spec, t, docs, x) = AppendAll(x, more) BY DEF RecallAgain
  <2> HIDE DEF again
  <2>3. more \in Seq(G) BY <2>1, RecallsHeld
  <2> HIDE DEF more, G
  <2> QED BY <2>2, <2>3, AppendsAll
<1> HIDE DEF X
<1>8. StaysIn(of, relaxed, z, n, X)
  <2> SUFFICES ASSUME NEW x \in X, NEW i \in z..n, i < n
               PROVE  Advance(of, x, relaxed[i + 1]) \in X
    BY DEF StaysIn
  <2>1. Advance(of, x, relaxed[i + 1]) = RecallAgain(spec, relaxed[i + 1], docs, x)
    BY AgainStep DEF of
  <2>2. relaxed[i + 1] \in SUBSET W BY <1>1, <1>3
  <2> QED BY <1>7, <2>1, <2>2
<1>9. made[n] \in X BY <1>1, <1>3, <1>5, <1>6, <1>8, AdvanceStays
<1> QED BY <1>2, <1>4, <1>9 DEF X

LEMMA IndexedRankable ==
  ASSUME NEW docs, IndexedDocs(docs), NEW cs \in Seq(docs), NEW l, l = Len(cs),
         NEW T, NEW query \in Seq(T), NEW pathLike, NEW day \in Int
  PROVE  Rankable(cs, l, query, pathLike, day)
<1>1. l \in Nat /\ DOMAIN cs = 1..l /\ \A i \in 1..l : cs[i] \in docs OBVIOUS
<1>2. \A i \in 1..l : IsIndexed(cs[i]) BY <1>1 DEF IndexedDocs
<1>3. \A i \in 1..l : IsCandidate(cs[i]) BY <1>2 DEF IsIndexed, IsCandidate
<1>4. Candidates(cs, l) BY <1>1, <1>3 DEF Candidates, IndexedDocs
<1>5. \A i \in 1..l : /\ ScoreRow(cs[i], query, pathLike) \in Int
                      /\ TitleScore(cs[i].title, query, Restates(cs[i], query, pathLike)) \in Int
                      /\ MatchedTerms(cs[i].cwdWords, query) \in Int
  BY <1>2, ScoresAreNumbers DEF IsIndexed
<1> QED BY <1>4, <1>5 DEF Rankable

(* Every result shows one of the candidates among which it was ranked.     *)
ShowsOne(r, cs, among) ==
  \E k \in among : r.seq = cs[k].seq /\ r.source = cs[k].source /\ r.native = cs[k].native

LEMMA ResultShows ==
  ASSUME NEW cs, NEW l, NEW query, NEW pathLike, NEW day,
         Rankable(cs, l, query, pathLike, day), NEW among \in SUBSET (1..l), NEW h \in among,
         NEW r, r = ResultAt(cs, among, h, query, pathLike, day)
  PROVE  ShowsOne(r, cs, among) /\ {"rank", "seq", "source", "native"} \subseteq DOMAIN r
<1> DEFINE at == OfGroup(cs, among, h)
           score == ScoreSession(cs, at, cs[h], query, pathLike, day)
           shown == DisplayRow(cs, at, query, pathLike)
           hits == Cardinality(at)
<1>1. at \in SUBSET (1..l) /\ h \in at /\ at \subseteq among BY DEF OfGroup
<1>2. PICK i \in at : shown = cs[i] BY <1>1, ShownRow
<1>5. r = ToFindResult(cs[h], shown, hits, h, score) BY DEF FindResult, ResultAt
<1> HIDE DEF at, score, shown, hits
<1>6. r = [rank |-> h, source |-> cs[i].source, native |-> cs[i].native,
           started |-> cs[h].started, ended |-> cs[h].ended, hits |-> hits,
           kind |-> cs[i].kind, seq |-> cs[i].seq, score |-> score]
  BY <1>2, <1>5, Zenon DEF ToFindResult
<1>7. r.seq = cs[i].seq /\ r.source = cs[i].source /\ r.native = cs[i].native
      /\ {"rank", "seq", "source", "native"} \subseteq DOMAIN r
  BY <1>6
<1> QED BY <1>1, <1>2, <1>7 DEF ShowsOne

ShowsEach(ranked, cs, among) ==
  \E n \in Nat : ranked = [i \in 1..n |-> ranked[i]] /\ \A i \in 1..n : ShowsOne(ranked[i], cs, among)

LEMMA RankedShow ==
  ASSUME NEW cs, NEW l, NEW query, NEW pathLike, NEW day,
         Rankable(cs, l, query, pathLike, day), NEW among \in SUBSET (1..l), NEW limit \in Nat,
         NEW ranked, ranked = RankCandidates(cs, among, query, pathLike, limit, day)
  PROVE  ShowsEach(ranked, cs, among)
<1> DEFINE n == Cardinality(Heads(cs, among))
           results == ResultsOf(cs, among, query, pathLike, day)
           size == AtMost(n, limit)
<1>1. PICK list : ListsResults(list, cs, among, query, pathLike, limit, day) BY RankingLists
<1> DEFINE taken == Take(list, limit)
<1>2. n \in Nat /\ ListOf(list, n, results) /\ ranked = Ranked(taken)
  BY <1>1 DEF ListsResults
<1>3. \A r \in results : ShowsOne(r, cs, among) /\ {"rank", "seq", "source", "native"} \subseteq DOMAIN r
  <2> SUFFICES ASSUME NEW h \in Heads(cs, among), NEW r, r = ResultAt(cs, among, h, query, pathLike, day)
               PROVE  ShowsOne(r, cs, among) /\ {"rank", "seq", "source", "native"} \subseteq DOMAIN r
    BY DEF ResultsOf
  <2>1. h \in among BY DEF Heads
  <2> QED BY <2>1, ResultShows
<1>4. size = AtMost(n, limit) /\ taken = Take(list, limit) OBVIOUS
<1> HIDE DEF n, results, size, taken
<1>5. ListOf(taken, size, results) /\ size \in Nat BY <1>2, <1>4, TakeFirst
<1>6. ranked = [i \in 1..size |-> [taken[i] EXCEPT !.rank = i]]
  BY <1>2, <1>5 DEF Ranked, ListOf
<1>7. ASSUME NEW i \in 1..size PROVE ShowsOne(ranked[i], cs, among)
  <2> DEFINE r == taken[i]
  <2>1. r \in results BY <1>5 DEF ListOf
  <2>2. ShowsOne(r, cs, among) /\ {"rank", "seq", "source", "native"} \subseteq DOMAIN r BY <1>3, <2>1
  <2>3. ranked[i] = [r EXCEPT !.rank = i] BY <1>6
  <2> HIDE DEF r
  <2>4. ranked[i].seq = r.seq /\ ranked[i].source = r.source /\ ranked[i].native = r.native
    BY <2>2, <2>3
  <2> QED BY <2>2, <2>4 DEF ShowsOne
<1>8. ranked = [i \in 1..size |-> ranked[i]]
  <2> DEFINE F(i) == [taken[i] EXCEPT !.rank = i]
  <2>1. ranked = [i \in 1..size |-> F(i)] BY <1>6
  <2> HIDE DEF F
  <2> QED BY <2>1
<1> QED BY <1>5, <1>7, <1>8 DEF ShowsEach

(* What a text asks for, blank or not.                                     *)
WordsOf(text) == IF text = Blank THEN {} ELSE FormsOf(text)

LEMMA TextForms ==
  ASSUME NEW text \in SampleTexts
  PROVE  /\ \E T : TermsOf(text) \in Seq(T) /\ \A t \in T : HasForms(t, WordsOf(text))
         /\ Analyze(text).terms \subseteq WordsOf(text)
         /\ \/ Analyze(text).needle = None
            \/ Analyze(text).needle \in WordsOf(text) /\ Analyze(text).terms = {}
<1>1. CASE text = Blank
  <2>1. TermsOf(text) = <<>> /\ Analyze(text).terms = {} /\ Analyze(text).needle = None
    BY <1>1 DEF TermsOf, Analyze
  <2>2. <<>> \in Seq({}) BY EmptySeq
  <2> QED BY <2>1, <2>2
<1>2. CASE text # Blank
  <2> DEFINE T == ToSet(text.terms)
             W == FormsOf(text)
  <2>1. /\ text.terms \in Seq(T)
        /\ \A t \in T : t.forms \in Seq(ToSet(t.forms)) /\ t.lastForms \in Seq(ToSet(t.lastForms))
    BY <1>2, EvidenceSamples
  <2>2. \A t \in T : t.word \in W /\ ToSet(t.forms) \subseteq W /\ ToSet(t.lastForms) \subseteq W
    BY DEF FormsOf
  <2>3. text.needle \in W BY DEF FormsOf
  <2>4. TermsOf(text) = text.terms /\ WordsOf(text) = W BY <1>2 DEF TermsOf, WordsOf
  <2>5. /\ Analyze(text).terms = ToSet(Words(text.terms))
        /\ Analyze(text).needle = IF text.terms = <<>> THEN text.needle ELSE None
    BY <1>2 DEF Analyze
  <2>6. ToSet(Words(text.terms)) = {text.terms[i].word : i \in DOMAIN text.terms}
    <3>1. DOMAIN Words(text.terms) = DOMAIN text.terms BY DEF Words
    <3>2. \A i \in DOMAIN text.terms : Words(text.terms)[i] = text.terms[i].word BY DEF Words
    <3> QED BY <3>1, <3>2 DEF ToSet
  <2>7. \A i \in DOMAIN text.terms : text.terms[i] \in T BY DEF ToSet
  <2>8. text.terms = <<>> => ToSet(Words(text.terms)) = {} BY <2>6
  <2> HIDE DEF T, W
  <2>9. \A t \in T : HasForms(t, W)
    <3> SUFFICES ASSUME NEW t \in T PROVE HasForms(t, W) OBVIOUS
    <3>1. \A A : A \subseteq W => Seq(A) \subseteq Seq(W) OBVIOUS
    <3> QED BY <2>1, <2>2, <3>1 DEF HasForms
  <2>10. Analyze(text).terms \subseteq W BY <2>2, <2>5, <2>6, <2>7
  <2> QED BY <2>1, <2>3, <2>4, <2>5, <2>8, <2>9, <2>10
<1> QED BY <1>1, <1>2

(* What a text is looked for by holds a form of one of its terms.          *)
LEMMA SearchHeld ==
  ASSUME NEW text \in SampleTexts, NEW docs, IndexedDocs(docs), NEW spec,
         {"terms", "needle", "sources", "selector", "session", "order", "limit"} \subseteq DOMAIN spec,
         spec.order = "relevance", spec.limit \in Nat, spec.selector = None,
         spec.session = None \/ spec.session.source \in spec.sources,
         spec.terms = Analyze(text).terms, spec.needle = Analyze(text).needle
  PROVE  RecallWithFallback(spec, RelaxedQueries(TermsOf(text)), docs)
           \in Seq(HoldsAny(docs, WordsOf(text)))
<1> DEFINE W == WordsOf(text)
           relaxed == RelaxedQueries(TermsOf(text))
<1>1. AsksFor(spec, W) BY TextForms DEF AsksFor
<1>2. PICK T : TermsOf(text) \in Seq(T) /\ \A t \in T : HasForms(t, W) BY TextForms
<1> HIDE DEF W
<1>3. relaxed \in Seq(SUBSET W) BY <1>2, RelaxedForms
<1> HIDE DEF relaxed
<1>4. RecallWithFallback(spec, relaxed, docs) \in Seq(HoldsAny(docs, W)) BY <1>1, <1>3, FallbackHeld
<1> QED BY <1>4 DEF W, relaxed

(* What is found and shown is one of the documents found.                  *)
LEMMA FoundAndShown ==
  ASSUME NEW text \in SampleTexts, NEW docs, IndexedDocs(docs), NEW G \in SUBSET docs,
         NEW found \in Seq(G), NEW among \in SUBSET (DOMAIN found), NEW pathLike,
         NEW limit \in Nat, NEW day \in Int,
         NEW ranked, ranked = RankCandidates(found, among, TermsOf(text), pathLike, limit, day)
  PROVE  ShowsEach(ranked, found, among)
<1> DEFINE l == Len(found)
           query == TermsOf(text)
<1>1. PICK T : query \in Seq(T) BY TextForms
<1>2. found \in Seq(docs)
  <2>1. Seq(G) \subseteq Seq(docs) OBVIOUS
  <2> QED BY <2>1
<1>3. DOMAIN found = 1..l /\ l = Len(found) OBVIOUS
<1> HIDE DEF query, l
<1>4. Rankable(found, l, query, pathLike, day) BY <1>1, <1>2, <1>3, IndexedRankable
<1>5. among \in SUBSET (1..l) BY <1>3
<1>6. ranked = RankCandidates(found, among, query, pathLike, limit, day) BY DEF query
<1> QED BY <1>4, <1>5, <1>6, RankedShow

(* The anchor of a read is a message that holds a form.                    *)
LEMMA AnchorHeld ==
  ASSUME NEW text \in SampleTexts, NEW docs, IndexedDocs(docs), NEW session, NEW native,
         NEW source, session = [source |-> source, native |-> native],
         NEW read, read = [kind |-> "range", seq |-> None, query |-> text],
         NEW anchor, anchor = ReadAnchor(read, session, docs, 50, 0), ~IsError(anchor)
  PROVE  \E d \in HoldsAny(docs, WordsOf(text)) : d.kind = "message" /\ d.seq = anchor.seq
<1> DEFINE a == Analyze(text)
           spec == [SpecOf(a, session.source, "relevance", 50) EXCEPT !.session = session]
           found == RecallWithFallback(spec, RelaxedQueries(TermsOf(text)), docs)
           messages == {i \in DOMAIN found : found[i].kind = "message"}
           pathLike == a.pathLike
           limit == 1
           day == 0
           best == RankCandidates(found, messages, TermsOf(text), pathLike, limit, day)
           G == HoldsAny(docs, WordsOf(text))
<1>1. anchor = ResolveReadAnchor(None, text, IF text = Blank \/ best = <<>> THEN None ELSE best[1])
  BY DEF ReadAnchor
<1>2. /\ {"terms", "needle", "sources", "selector", "session", "order", "limit"} \subseteq DOMAIN spec
      /\ spec.order = "relevance" /\ spec.limit = 50 /\ spec.selector = None
      /\ spec.session = session /\ spec.sources = {session.source}
      /\ spec.terms = a.terms /\ spec.needle = a.needle
  BY DEF SpecOf
<1>3. session.source \in {session.source} /\ 50 \in Nat /\ limit \in Nat /\ day \in Int
      /\ messages \in SUBSET (DOMAIN found)
  OBVIOUS
<1>4. G \in SUBSET docs /\ \A d \in docs : d.kind = "message" => d.seq # None
  <2>1. \A d \in docs : d.kind = "message" => d.seq \in Nat BY DEF IndexedDocs, IsIndexed
  <2> QED BY <2>1, QuerySamples DEF HoldsAny
<1> HIDE DEF spec
<1>5. found \in Seq(G) BY <1>2, <1>3, SearchHeld
<1>6. \A i \in messages : found[i] \in G /\ found[i].kind = "message" BY <1>5
<1> HIDE DEF found, messages, pathLike, limit, day, G, a
<1> DEFINE ranked == best
<1>7. ranked = RankCandidates(found, messages, TermsOf(text), pathLike, limit, day) OBVIOUS
<1> HIDE DEF best, ranked
<1>8. ShowsEach(ranked, found, messages) BY <1>3, <1>4, <1>5, <1>7, FoundAndShown
<1>9. ranked = best BY DEF ranked
<1>10. text # Blank /\ best # <<>> /\ anchor = [seq |-> best[1].seq]
  <2>1. text # Blank /\ best # <<>> BY <1>1 DEF ResolveReadAnchor, IsError
  <2> QED BY <1>1, <2>1 DEF ResolveReadAnchor, IsError
<1>11. PICK n \in Nat : /\ best = [i \in 1..n |-> best[i]]
                        /\ \A i \in 1..n : ShowsOne(best[i], found, messages)
  BY <1>8, <1>9 DEF ShowsEach
<1>12. 1 \in 1..n
  <2>1. n # 0
    <3> SUFFICES ASSUME n = 0 PROVE FALSE OBVIOUS
    <3>1. [i \in 1..0 |-> best[i]] = <<>> OBVIOUS
    <3> QED BY <1>10, <1>11, <3>1
  <2> QED BY <2>1
<1>13. PICK k \in messages : best[1].seq = found[k].seq BY <1>11, <1>12 DEF ShowsOne
<1>14. anchor.seq = found[k].seq BY <1>10, <1>13
<1> QED BY <1>6, <1>14 DEF G

(* EvidenceIsReadable, for any documents and texts.                        *)
THEOREM SpecEvidenceIsReadable == LawsSpec => []EvidenceIsReadable
<1>1. QuestionInv => EvidenceIsReadable
  <2> DEFINE docs == reader.docs
             text == reader.text
             args == [query |-> text, excluded |-> {}, sort |-> "relevance", limit |-> 1, day |-> 0]
             results == FindSource(args, Codex, None, docs, {}, {}).results
             a == Analyze(text)
             limit == 1
             day == 0
             spec == [SpecOf(a, Codex, "relevance", CandidateLimit(limit, "relevance")) EXCEPT
                        !.selector = None, !.excluded = ResolveExcluded({}, Codex, {})]
             found == RecallWithFallback(spec, RelaxedQueries(TermsOf(text)), docs)
             pathLike == a.pathLike
             G == HoldsAny(docs, WordsOf(text))
  <2> SUFFICES ASSUME QuestionInv, reader.command = "evidence", NEW i \in DOMAIN results,
                      NEW r, r = results[i], NEW anchor,
                      anchor = ReadAnchor(EvidenceRead(r, text),
                                          [source |-> r.source, native |-> r.native], docs, 50, 0)
               PROVE  IF IsError(anchor) THEN r.seq = None
                      ELSE \E d \in docs : /\ d.kind = "message" /\ d.seq = anchor.seq
                                           /\ d.words \cap FormsOf(text) # {}
    BY Zenon DEF EvidenceIsReadable
  <2>1. docs \in SampleDocs /\ text \in SampleTexts
    BY DEF QuestionInv, Scoped, Asked, AdapterQuestions
  <2>2. IndexedDocs(docs) BY <2>1, EvidenceSamples DEF IndexedDocs
  <2>3. results = RankCandidates(found, DOMAIN found, TermsOf(text), pathLike, limit, day)
    BY DEF FindSource, RankForSort
  <2>4. /\ {"terms", "needle", "sources", "selector", "session", "order", "limit"} \subseteq DOMAIN spec
        /\ spec.order = "relevance" /\ spec.limit = CandidateLimit(limit, "relevance")
        /\ spec.selector = None /\ spec.session = None
        /\ spec.terms = a.terms /\ spec.needle = a.needle
    BY DEF SpecOf
  <2>5. limit \in Nat /\ day \in Int OBVIOUS
  <2> HIDE DEF docs, text, results, spec, limit, day
  <2>6. spec.limit \in Nat BY <2>4, <2>5, CandidatesAreNumbered
  <2>7. found \in Seq(G) BY <2>1, <2>2, <2>4, <2>6, SearchHeld
  <2>8. G \in SUBSET docs /\ \A d \in G : /\ d.words \cap WordsOf(text) # {}
                                          /\ d.seq # None => d.kind = "message" /\ [seq |-> d.seq] # Refused
    BY <2>2 DEF HoldsAny, IndexedDocs, IsIndexed
  <2>9. \A k \in DOMAIN found : found[k] \in G BY <2>7
  <2> DEFINE all == DOMAIN found
  <2>10. all \in SUBSET (DOMAIN found)
         /\ results = RankCandidates(found, all, TermsOf(text), pathLike, limit, day)
    BY <2>3
  <2> HIDE DEF found, pathLike, a, G, all
  <2>11. ShowsEach(results, found, all)
    BY <2>1, <2>2, <2>5, <2>7, <2>8, <2>10, FoundAndShown
  <2>12. PICK n \in Nat : /\ results = [j \in 1..n |-> results[j]]
                          /\ \A j \in 1..n : ShowsOne(results[j], found, all)
    BY <2>11 DEF ShowsEach
  <2>13. i \in 1..n BY <2>12
  <2>14. PICK k \in all : r.seq = found[k].seq BY <2>12, <2>13 DEF ShowsOne
  <2>15. found[k] \in G BY <2>9 DEF all
  <2>16. text # Blank BY <2>8, <2>15 DEF WordsOf
  <2>17. WordsOf(text) = FormsOf(text) BY <2>16 DEF WordsOf
  <2>18. CASE r.seq # None
    <3> DEFINE read == EvidenceRead(r, text)
    <3>1. read.seq = r.seq /\ read.query = text BY <2>18 DEF EvidenceRead
    <3>2. anchor = [seq |-> r.seq]
      <4>1. \A session, hit : ResolveReadAnchor(read.seq, read.query, hit) = [seq |-> r.seq]
        BY <2>18, <3>1 DEF ResolveReadAnchor
      <4> HIDE DEF read
      <4>2. anchor = ReadAnchor(read, [source |-> r.source, native |-> r.native], docs, 50, 0) BY DEF read
      <4> QED BY <4>1, <4>2 DEF ReadAnchor
    <3>3. ~IsError(anchor) BY <2>8, <2>14, <2>15, <2>18, <3>2 DEF IsError
    <3>4. anchor.seq = found[k].seq BY <2>14, <3>2
    <3> QED BY <2>8, <2>14, <2>15, <2>17, <2>18, <3>3, <3>4
  <2>19. CASE r.seq = None /\ ~IsError(anchor)
    <3> DEFINE read == [kind |-> "range", seq |-> None, query |-> text]
               source == r.source
               native == r.native
               session == [source |-> source, native |-> native]
    <3>1. EvidenceRead(r, text) = read BY <2>16, <2>19 DEF EvidenceRead
    <3>2. anchor = ReadAnchor(read, session, docs, 50, 0) BY <3>1
    <3>3. session = [source |-> source, native |-> native]
          /\ read = [kind |-> "range", seq |-> None, query |-> text]
      OBVIOUS
    <3> HIDE DEF read, source, native, session
    <3>4. \E d \in HoldsAny(docs, WordsOf(text)) : d.kind = "message" /\ d.seq = anchor.seq
      BY <2>1, <2>2, <2>19, <3>2, <3>3, AnchorHeld
    <3> QED BY <2>8, <2>17, <2>19, <3>4 DEF G
  <2>20. CASE r.seq = None /\ IsError(anchor) BY <2>20
  <2> QED BY <2>18, <2>19, <2>20
<1> QED BY <1>1, SpecQuestion, PTL
=============================================================================
