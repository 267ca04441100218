---------------------------- MODULE ReplayAdapters ----------------------------
(***************************************************************************)
(* The adapters that read a transcript anew each time: Claude Code, Pi and *)
(* DSH (src/src/sources/claude_code.rs, pi.rs, dsh.rs).  Raw records and   *)
(* texts are those of CodexAdapter; a content is a list of parts           *)
(* [kind, text]: "direct" when the content is a string, and in an array    *)
(* "string" of a string and otherwise the type of the object.              *)
(***************************************************************************)
EXTENDS CodexAdapter

KeepKind(kept, r, kinds) == IF r.kind \in kinds THEN Append(kept, r) ELSE kept

OfKind(said, kinds) ==
  LET chosen[n \in 0..Len(said)] ==
        IF n = 0 THEN <<>> ELSE KeepKind(chosen[n - 1], said[n], kinds)
  IN chosen[Len(said)]

(* text_from_content, of the kinds of parts that an adapter reads.         *)
TextOf(parts, kinds) ==
  LET texts == OfKind(parts, kinds) IN FlattenSeq([i \in DOMAIN texts |-> texts[i].text])

ClaudeText(parts) == TextOf(parts, {"direct", "text"})
PiText(parts)     == TextOf(parts, {"direct", "string", "text"})
DshText(parts)    == TextOf(parts, {"text"})

Said(role, text, time, id, cwd) ==
  IF role \notin Roles \/ text = <<>> THEN Nothing
  ELSE [kind |-> "message", role |-> role, text |-> text, time |-> time, id |-> id, cwd |-> cwd]

(* Claude Code: a record is a message, unless it is meta or of a sidechain.*)
AcceptClaude(raw) ==
  IF raw.aside THEN Nothing
  ELSE Said(raw.type,
            IF ClaudeText(raw.direct) # <<>> THEN ClaudeText(raw.direct) ELSE ClaudeText(raw.content),
            raw.time, raw.id, raw.cwd)

(* Pi: sessions, model changes, messages and compactions.                  *)
AcceptPi(raw) ==
  CASE raw.type = "session" /\ raw.cwd # Unset /\ raw.time # 0 ->
         [kind |-> "session", id |-> raw.id, cwd |-> raw.cwd, time |-> raw.time]
    [] raw.type = "model_change" /\ raw.model # Unset -> [kind |-> "model", model |-> raw.model]
    [] raw.type = "message" ->
         Said(raw.role, PiText(raw.content), IF raw.time # 0 THEN raw.time ELSE raw.nested, Unset, Unset)
    [] raw.type = "compaction" /\ raw.text # <<>> ->
         [kind |-> "compaction", text |-> raw.text, time |-> raw.time]
    [] OTHER -> Nothing

(* DSH: messages have a time, and a user's one is really the user's.       *)
AcceptDsh(raw) ==
  CASE raw.type = "session" /\ raw.cwd # Unset /\ raw.time # 0 ->
         [kind |-> "session", id |-> raw.id, cwd |-> raw.cwd, time |-> raw.time]
    [] raw.type = "session/title" /\ raw.text # <<>> -> [kind |-> "title", text |-> raw.text]
    [] raw.type = "request/header" /\ raw.model # Unset -> [kind |-> "model", model |-> raw.model]
    [] raw.type = "user/message" /\ raw.source = "user" /\ raw.time # 0 ->
         Said("user", DshText(raw.content), raw.time, Unset, Unset)
    [] raw.type = "assistant/message" /\ raw.role = "assistant" /\ raw.time # 0 ->
         Said("assistant", DshText(raw.content), raw.time, Unset, Unset)
    [] OTHER -> Nothing

-----------------------------------------------------------------------------
FirstSet(values, empty) ==
  LET set == SelectSeq(values, LAMBDA v : v # empty) IN IF set = <<>> THEN empty ELSE Head(set)

LastSet(values, empty) == FirstSet(Reverse(values), empty)

Ids(said) == [i \in DOMAIN said |-> said[i].id]
CwdsSaid(said) == [i \in DOMAIN said |-> said[i].cwd]
Times(said) == {said[i].time : i \in DOMAIN said} \ {0}

(* time_range; without any time it is decided by the path.                 *)
TimeRange(said) ==
  LET times == Times(said) IN
  IF times = {} THEN <<0, 0>>
  ELSE <<CHOOSE t \in times : \A u \in times : t <= u, CHOOSE t \in times : \A u \in times : u <= t>>

Documents(messages) ==
  [i \in DOMAIN messages |->
     [seq |-> i - 1, role |-> messages[i].role, text |-> messages[i].text, time |-> messages[i].time]]

(* build_session_summary: the first and the last message of each role.     *)
Summary(messages) ==
  [r \in Roles |->
     LET own == SelectSeq(messages, LAMBDA m : m.role = r) IN
     IF own = <<>> THEN <<>> ELSE <<own[1].text, Last(own).text>>]

FirstText(messages) ==
  FirstSet([i \in DOMAIN messages |->
              IF messages[i].role = "user" THEN messages[i].text ELSE <<>>], <<>>)

-----------------------------------------------------------------------------
(* The inventory of a transcript, and the session it projects to.          *)

(* Claude Code hashes a NUL and a field, field after field and message     *)
(* after message, so that nothing but the NULs says where a field ends.    *)
(* An id and a cwd are one letter each, and a time so many ticks.          *)
NUL == "NUL"
HashField(hashed, field) == hashed \o <<NUL>> \o field
OneLetter(v) == IF v = Unset THEN <<>> ELSE <<v>>
Ticks(time) == [i \in 1..time |-> "tick"]

HashMessage(hashed, m) ==
  LET named == HashField(HashField(hashed, <<m.role>>), OneLetter(m.id))
      dated == HashField(HashField(named, OneLetter(m.cwd)), Ticks(m.time))
  IN HashField(dated, m.text)

HashMessages(messages) ==
  LET hashed[n \in 0..Len(messages)] ==
        IF n = 0 THEN <<>> ELSE HashMessage(hashed[n - 1], messages[n])
  IN hashed[Len(messages)]

(* The records the cwd of a file, and its date, may be taken from.         *)
Located(source, said) ==
  IF source = "claude_code" THEN OfKind(said, {"message"}) ELSE OfKind(said, {"session"})

(* Pi and DSH hash every field behind its length, so that the hash is of   *)
(* the fields themselves, which are all of what was accepted.              *)
TakenIn(source, said) ==
  [selected |-> OfKind(said, {"message", "compaction"}) # <<>>,
   cwd      |-> FirstSet(CwdsSaid(Located(source, said)), Unset),
   fields   |-> IF source = "claude_code" THEN HashMessages(OfKind(said, {"message"}))
                ELSE OfKind(said, {"session", "model", "title", "message", "compaction"})]

(* file.uuid is the name of a Claude Code file that is a uuid, and         *)
(* file.parent the directory a DSH file is in.                             *)
SessionName(source, file, said) ==
  LET told == FirstSet(Ids(Located(source, said)), Unset) IN
  CASE source = "claude_code" /\ file.uuid # Unset -> file.uuid
    [] source = "claude_code" /\ file.uuid = Unset /\ told # Unset -> told
    [] source # "claude_code" /\ told # Unset -> told
    [] source = "dsh" /\ told = Unset /\ file.parent # Unset -> file.parent
    [] OTHER -> file.fallback[file.form]

Title(said) ==
  LET titles == OfKind(said, {"title"})
      asked == FirstText(OfKind(said, {"message"}))
      compacted == OfKind(said, {"compaction"})
  IN CASE titles # <<>> -> Last(titles).text
       [] titles = <<>> /\ asked # <<>> -> asked
       [] titles = <<>> /\ asked = <<>> /\ compacted # <<>> -> Head(compacted).text
       [] OTHER -> <<>>

Replay(source, file, said) ==
  LET messages == OfKind(said, {"message"})
      sessions == OfKind(said, {"session"})
      compacted == OfKind(said, {"compaction"})
      compact == [i \in DOMAIN compacted |-> compacted[i].text]
      models == OfKind(said, {"model"})
      dated == messages \o compacted \o SubSeq(sessions, 1, IF sessions = <<>> THEN 0 ELSE 1)
  IN [outcome |-> IF messages = <<>> /\ compact = <<>> THEN "skipped" ELSE "projected",
      docs    |-> Documents(messages),
      session |-> [id |-> SessionName(source, file, said), title |-> Title(said),
                   summary |-> Summary(messages), compact |-> compact,
                   cwd |-> FirstSet(CwdsSaid(Located(source, said)), Unset),
                   model |-> LastSet([i \in DOMAIN models |-> models[i].model], Unset),
                   times |-> TimeRange(dated)]]

=============================================================================
