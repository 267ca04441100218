----------------------------- MODULE MCReadPath -----------------------------
(***************************************************************************)
(* ReadPath and QueryLaws on a small instance.                             *)
(***************************************************************************)
EXTENDS QueryLaws

MCSources == {"codex", "pi"}
MCNotUtf8 == {"bad"}
MCDefaultRoots == [s \in MCSources |-> <<"home", s>>]
MCCaseFold ==
  [c \in {"home", "codex", "pi", "sub", "s1", "s2", "s3"} |-> c] @@ ("Codex" :> "codex")
MCNameOrder == ("codex" :> 1) @@ ("pi" :> 2) @@ ("s1" :> 1) @@ ("s2" :> 2) @@ ("s3" :> 3)

MCRoot == <<"home", "codex">>
MCPaths == {<<"home", "codex", "s1">>, <<"home", "codex", "sub", "s2">>}
MCDateOf == [p \in MCPaths |-> IF Len(p) = 3 THEN 1 ELSE None]
MCScopes == {All("codex", MCRoot),
             Select("cwd", "codex", MCRoot, "here", None, None)}
MCFound == {[p \in MCPaths |-> None],
            [p \in MCPaths |-> IF Len(p) = 3 THEN "here" ELSE "there"]}
MCTerm(word, other, stop) ==
  [word |-> word, ascii |-> TRUE, stop |-> stop, cjk |-> FALSE,
   forms |-> <<word, other>>, lastForms |-> <<word, other>>]
MCText(terms) == [terms |-> terms, needle |-> None, spaced |-> FALSE, pathToken |-> FALSE]
MCFindArgs == [query |-> MCText(<<MCTerm("w", "ws", FALSE)>>), excluded |-> {},
               sort |-> "relevance", limit |-> 10, day |-> 0]

-----------------------------------------------------------------------------
MCRoots == {<<"codex", MCRoot>>, <<"codex", MCRoot \o <<"sub">>>>, <<"pi", <<"home", "pi">>>>}
MCRanges == {<<a, b>> \in (1..3) \X (1..3) : a <= b}
MCSampleScopes ==
  UNION {{All(r[1], r[2])}
           \cup {Select("cwd", r[1], r[2], c, None, None) : c \in {"here", "there"}}
           \cup {Select("date_range", r[1], r[2], None, d[1], d[2]) : d \in MCRanges}
           \cup {Select("cwd_date_range", r[1], r[2], c, d[1], d[2]) :
                   c \in {"here", "there"}, d \in MCRanges} : r \in MCRoots}

MCSampleFiles ==
  [source  : MCSources, date : {None, 1, 2, 3}, cwd : {"here", "there"}, content : {<<>>},
   path    : MCPaths \cup {<<"home", "Codex", "s1">>, <<"home", "pi", "s1">>}]

MCSays(x) == [pad |-> FALSE, is |-> x]
MCSub == [absolute |-> TRUE, parts |-> <<"home", "codex", "sub">>]
MCUp == [absolute |-> FALSE, parts |-> <<"..", "pi", ".", "bad">>]
MCRaw(kind, source, root) ==
  [kind |-> kind, source |-> source, root |-> root, cwd |-> MCSays("here"),
   from |-> MCSays(1), to |-> MCSays(BadDate)]
MCSampleFinds ==
  [source   : {None} \cup {MCSays(s) : s \in {"codex", "pi", "all", "unknown"}},
   selector : {None, Blank, MCRaw("all", None, None), MCRaw("cwd", "pi", MCSays(MCSub)),
               MCRaw("date_range", "codex", None), MCRaw("all", "unknown", None)},
   root     : {None, MCSub, MCUp},
   cwd      : {None, "here", "bad"}]

MCResult(native, rank, ended, score) ==
  [rank |-> rank, source |-> "codex", native |-> native, started |-> 0, ended |-> ended,
   hits |-> 1, kind |-> "message", seq |-> 0, score |-> score]
MCSampleLists ==
  {<<>>}
    \cup {<<MCResult("s1", 1, e, s)>> : e, s \in 1..2}
    \cup {<<MCResult("s1", 1, e[1], e[2]), MCResult("s2", 2, e[3], e[4])>> :
            e \in (1..2) \X (1..2) \X (1..2) \X (1..2)}

MCDoc(native, id, kind, seq, time, words) ==
  [id |-> id, source |-> "codex", native |-> native, uuid |-> native, path |-> MCRoot,
   cwd |-> "here", date |-> 0, started |-> time, ended |-> time, kind |-> kind, seq |-> seq,
   role |-> IF kind = "message" THEN "user" ELSE None, bm25 |-> 0, words |-> words,
   tokens |-> <<>>, args |-> FALSE, title |-> <<>>, cwdWords |-> {}]
MCSampleCandidates ==
  {[i \in DOMAIN names |-> MCDoc(names[i], i, "message", i, time[names[i]], {})] :
     names \in UNION {[1..n -> {"s1", "s2", "s3"}] : n \in {3, 4}},
     time \in [{"s1", "s2", "s3"} -> 1..3]}

MCWords == SUBSET {"w", "ws", "v"}
MCSampleDocs ==
  {{MCDoc("s1", 1, "message", 0, 0, m[1]), MCDoc("s1", 2, "message", 1, 0, m[2]),
    MCDoc("s1", 3, "session", None, 0, m[3])} : m \in MCWords \X MCWords \X MCWords}
MCSampleTexts ==
  {MCText(<<MCTerm("w", "ws", FALSE)>>),
   MCText(<<MCTerm("w", "ws", FALSE), MCTerm("v", "v", FALSE)>>),
   MCText(<<MCTerm("w", "ws", FALSE), MCTerm("v", "v", TRUE)>>),
   [MCText(<<>>) EXCEPT !.needle = "w"]}

-----------------------------------------------------------------------------
MCMeta(id, cwd, history) ==
  [type |-> "session_meta", time |-> 1, id |-> id, cwd |-> cwd, history |-> history]
MCContext(cwd, turn) ==
  [type |-> "turn_context", time |-> 1, model |-> "m", cwd |-> cwd, turn |-> turn]
MCEvent(event, text, time) == [type |-> "event_msg", time |-> time, event |-> event, text |-> text]
MCItem(text, says) == [type |-> "text", text |-> text, says |-> says]
MCResponse(role, kinds, items) ==
  [type |-> "response_item", time |-> 2, role |-> role, kinds |-> kinds, items |-> items]

(* The same message in both encodings, once with injected context.         *)
MCTalk ==
  {MCEvent("user_message", <<"a">>, 3),
   MCResponse("user", "absent", <<MCItem(<<"<env>", "x">>, ""), MCItem(<<"a">>, "")>>),
   MCEvent("turn", <<>>, 1), MCContext("", "t1"), MCContext("", "t2")}
MCOther ==
  {MCEvent("agent_message", <<"a">>, 1),
   MCResponse("user", "listed", <<MCItem(<<"a">>, "user.text"), MCItem(<<"b">>, "")>>),
   MCMeta("u1", "here", FALSE), MCMeta("u1", "", TRUE), MCMeta("u2", "there", TRUE),
   MCContext("there", ""), MCResponse("user", "malformed", <<MCItem(<<"a">>, "user.text")>>),
   MCEvent("user_message", <<"judge", "a">>, 1),
   MCResponse("assistant", "absent", <<MCItem(<<"a">>, "")>>),
   [type |-> "compacted", time |-> 1, text |-> <<"c">>],
   [type |-> "reasoning", time |-> 1, texts |-> <<<<"c">>, <<"d">>>>]}
MCSampleRollouts ==
  UNION {[1..n -> MCTalk \cup MCOther] : n \in 0..3} \cup [1..4 -> MCTalk]
MCRollout(uuid, trailing) ==
  [uuid |-> uuid, trailing |-> trailing, stem |-> "stem", parent |-> "dir", form |-> "plain",
   fallback |-> [plain |-> "stem-1", zst |-> "stem-2"]]
MCSampleNames == {MCRollout("u1", "u1"), MCRollout("u1", "u3"), MCRollout("", "")}

MCPart(text) == [kind |-> "text", text |-> text]
MCString(text) == [kind |-> "string", text |-> text]
MCDirect(text) == <<[kind |-> "direct", text |-> text]>>
MCTool == [kind |-> "tool", text |-> <<"x">>]
MCClaude(type, aside, content, time, id, cwd) ==
  [type |-> type, aside |-> aside, direct |-> <<>>, content |-> content, time |-> time,
   id |-> id, cwd |-> cwd]

(* One message that is hashed like the two messages a and b.               *)
MCAsTwo == <<"a", NUL, "user", NUL, NUL, NUL, NUL, "b">>
MCSession(id, cwd, time) == [type |-> "session", id |-> id, cwd |-> cwd, time |-> time]
MCPi(role, content, time, nested) ==
  [type |-> "message", role |-> role, content |-> content, time |-> time, nested |-> nested]
MCDsh(type, is, content, time) ==
  [type |-> type, role |-> is, source |-> is, content |-> content, time |-> time]
MCTranscripts(raws) == UNION {[1..n -> raws] : n \in 0..3}
MCSampleTranscripts ==
  [claude_code |-> MCTranscripts(
     {MCClaude("user", FALSE, <<MCPart(<<"a">>)>>, 2, "u1", ""),
      MCClaude("user", FALSE, <<MCPart(<<"b">>), MCTool, MCString(<<"x">>)>>, 1, "u2", "here"),
      [MCClaude("user", FALSE, <<MCPart(<<"x">>)>>, 0, "", "") EXCEPT !.direct = MCDirect(<<"a">>)],
      MCClaude("user", FALSE, MCDirect(<<"b">>), 0, "", ""),
      MCClaude("assistant", FALSE, MCDirect(<<"b">>), 0, "", ""),
      MCClaude("user", FALSE, MCDirect(<<"b">>), 1, "", ""),
      MCClaude("user", FALSE, MCDirect(<<"b">>), 0, "u2", ""),
      MCClaude("user", FALSE, MCDirect(<<"b">>), 0, "", "there"),
      MCClaude("user", FALSE, MCDirect(MCAsTwo), 0, "", ""),
      MCClaude("user", FALSE, MCDirect(<<"a", "user", "b">>), 0, "", ""),
      MCClaude("assistant", FALSE, <<MCTool>>, 1, "u1", "there"),
      MCClaude("assistant", FALSE, <<MCPart(<<"a">>)>>, 0, "", "there"),
      MCClaude("user", TRUE, <<MCPart(<<"a">>)>>, 3, "u2", "there")}),
   pi |-> MCTranscripts(
     {MCSession("u1", "here", 1), MCSession("", "there", 3), MCSession("u2", "", 1),
      MCPi("user", <<MCPart(<<"a">>)>>, 0, 2), MCPi("assistant", <<MCPart(<<"b">>), MCString(<<"a">>)>>, 2, 0),
      MCPi("assistant", MCDirect(<<"b">>), 2, 0),
      MCPi("tool", <<MCPart(<<"b">>)>>, 2, 0), [type |-> "model_change", model |-> "m"],
      [type |-> "compaction", text |-> <<"c">>, time |-> 4]}),
   dsh |-> MCTranscripts(
     {MCSession("", "here", 1), MCSession("u1", "there", 3),
      [type |-> "session/title", text |-> <<"t">>], [type |-> "session/title", text |-> <<"u">>],
      [type |-> "request/header", model |-> "m"],
      MCDsh("user/message", "user", <<MCPart(<<"a">>)>>, 1),
      MCDsh("user/message", "system", <<MCPart(<<"b">>)>>, 1),
      MCDsh("user/message", "user", MCDirect(<<"b">>), 1),
      MCDsh("assistant/message", "assistant", <<MCPart(<<"b">>)>>, 2),
      MCDsh("assistant/message", "assistant", <<MCPart(<<"b">>)>>, 0)})]

=============================================================================
