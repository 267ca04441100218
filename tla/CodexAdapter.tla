----------------------------- MODULE CodexAdapter -----------------------------
(***************************************************************************)
(* How the records of a Codex rollout become a session and its documents,  *)
(* in one reading or continued from a checkpoint, and what the inventory   *)
(* takes of the same records (src/src/sources/codex.rs).  SourceFiles says *)
(* which bytes a projection may read; this module says what they mean.     *)
(*                                                                         *)
(* A raw record is [type, time, ...] with the fields its type has.  A text *)
(* is the sequence of its lines; Unset, <<>> and 0 stand for what is       *)
(* missing.  A file is [uuid, trailing, stem, fallback, form]: the first   *)
(* and the last uuid of its name, its name without the suffix of its       *)
(* storage form, what a digest of its path would name it in each form, and *)
(* its form.                                                               *)
(***************************************************************************)
EXTENDS Integers, Sequences, SequencesExt, FiniteSets

CONSTANTS
  Internal,   \* first lines of prompts that assess another agent
  Injected,   \* lines that begin context put into a user's turn
  MaxUnique   \* how many different texts fill 4000 characters

ASSUME CodexConstants == MaxUnique \in Nat \ {0}

Roles == {"user", "assistant"}

Unset == ""

(* rollout_twin: the same rollout, compressed once it is idle.             *)
Twin(file) == [file EXCEPT !.form = IF @ = "plain" THEN "zst" ELSE "plain"]

-----------------------------------------------------------------------------
(* What a raw record says, if anything.                                    *)

Nothing == [kind |-> "none"]

(* An internal prompt is counted; its text goes nowhere.                   *)
Conversation(role, text, time, origin) ==
  IF Head(text) \in Internal THEN [kind |-> "filtered"]
  ELSE [kind |-> "message", role |-> role, text |-> text, time |-> time, origin |-> origin]

(* item.says is its entry in content_item_kinds, kinds whether there is    *)
(* such a list.                                                            *)
IsSaid(role, kinds, item) ==
  /\ item.type = "text" /\ item.text # <<>>
  /\ role = "user" =>
       IF item.says # Unset THEN item.says = "user.text"
       ELSE kinds = "absent" /\ Head(item.text) \notin Injected

ResponseItem(raw) ==
  LET said == SelectSeq(raw.items, LAMBDA item : IsSaid(raw.role, raw.kinds, item)) IN
  IF raw.role \notin Roles \/ raw.kinds = "malformed" \/ said = <<>> THEN Nothing
  ELSE Conversation(raw.role, FlattenSeq([i \in DOMAIN said |-> said[i].text]), raw.time, "response")

EventRole == [user_message |-> "user", agent_message |-> "assistant"]

Event(raw) ==
  IF raw.event = "turn" THEN [kind |-> "boundary"]
  ELSE IF raw.event \notin DOMAIN EventRole \/ raw.text = <<>> THEN Nothing
  ELSE Conversation(EventRole[raw.event], raw.text, raw.time, "event")

Classify(raw) ==
  IF raw.time = 0 THEN Nothing ELSE
  CASE raw.type = "session_meta" /\ <<raw.id, raw.cwd>> # <<Unset, Unset>> ->
         [kind |-> "meta", id |-> raw.id, cwd |-> raw.cwd, segment |-> raw.history]
    [] raw.type = "turn_context" /\ <<raw.model, raw.cwd, raw.turn>> # <<Unset, Unset, Unset>> ->
         [kind |-> "context", model |-> raw.model, cwd |-> raw.cwd, turn |-> raw.turn]
    [] raw.type = "compacted" /\ raw.text # <<>> -> [kind |-> "compacted", text |-> raw.text]
    [] raw.type = "reasoning" /\ raw.texts # <<>> -> [kind |-> "reasoning", texts |-> raw.texts]
    [] raw.type = "response_item" -> ResponseItem(raw)
    [] raw.type = "event_msg" -> Event(raw)
    [] OTHER -> Nothing

-----------------------------------------------------------------------------
(* The inventory: the cwd a file is selected by, and what its accepted     *)
(* fingerprint is the digest of.                                           *)

AdoptCwd(cwd, r) ==
  CASE r.kind = "meta" /\ r.cwd # Unset -> r.cwd
    [] r.kind = "context" /\ cwd = Unset -> r.cwd
    [] OTHER -> cwd

InventoryCwd(said) ==
  LET adopted[n \in 0..Len(said)] ==
        IF n = 0 THEN Unset ELSE AdoptCwd(adopted[n - 1], said[n])
  IN adopted[Len(said)]

(* Mutant: a turn that begins by its context only is not hashed.           *)
HashedWithoutTurns(r) ==
  CASE r.kind = "meta" -> <<<<"session_meta", r.id, r.cwd, r.segment>>>>
    [] r.kind = "context" -> <<<<"turn_context", r.model, r.cwd>>>>
    [] r.kind = "boundary" -> <<<<"turn_boundary">>>>
    [] r.kind = "compacted" -> <<<<"compacted", r.text>>>>
    [] r.kind = "reasoning" -> [i \in DOMAIN r.texts |-> <<"reasoning", r.texts[i]>>]
    [] r.kind = "message" -> <<<<"message", r.role, r.time, r.text, r.origin>>>>
    [] OTHER -> <<>>

Hashed(r) ==
  CASE r.kind = "meta" -> <<<<"session_meta", r.id, r.cwd, r.segment>>>>
    [] r.kind = "context" -> <<<<"turn_context", r.model, r.cwd, r.turn>>>>
    [] r.kind = "boundary" -> <<<<"turn_boundary">>>>
    [] r.kind = "compacted" -> <<<<"compacted", r.text>>>>
    [] r.kind = "reasoning" -> [i \in DOMAIN r.texts |-> <<"reasoning", r.texts[i]>>]
    [] r.kind = "message" -> <<<<"message", r.role, r.time, r.text, r.origin>>>>
    [] OTHER -> <<>>

AcceptedFields(said) == FlattenSeq([i \in DOMAIN said |-> Hashed(said[i])])

-----------------------------------------------------------------------------
(* The reducer.                                                            *)

NoEntry  == [seq |-> -1, text |-> <<>>]
NoMirror == [role |-> Unset, text |-> <<>>, origin |-> Unset]

Fresh(file) ==
  [id |-> file.uuid, cwd |-> Unset, model |-> Unset, next |-> 0, filtered |-> 0, segment |-> FALSE,
   turn |-> Unset, mirror |-> NoMirror, first |-> [r \in Roles |-> NoEntry],
   latest |-> [r \in Roles |-> NoEntry], compact |-> <<>>, reasoning |-> <<>>,
   started |-> 0, ended |-> 0]

PushUnique(parts, text) ==
  IF Len(parts) >= MaxUnique \/ text \in ToSet(parts) THEN parts ELSE Append(parts, text)

PushAll(parts, texts) ==
  LET pushed[n \in 0..Len(texts)] ==
        IF n = 0 THEN parts ELSE PushUnique(pushed[n - 1], texts[n])
  IN pushed[Len(texts)]

(* Mutant: a message that is repeated in one encoding is a mirror.         *)
MirrorsText(s, m) == s.mirror.role = m.role /\ s.mirror.text = m.text

(* The message before it, said in the other encoding.                      *)
Mirrors(s, m) ==
  s.mirror.role = m.role /\ s.mirror.text = m.text /\ s.mirror.origin # m.origin

Observe(s, m) ==
  LET entry == [seq |-> s.next, text |-> m.text] IN
  [s EXCEPT !.next = @ + 1,
            !.mirror = [role |-> m.role, text |-> m.text, origin |-> m.origin],
            !.first[m.role] = IF @ = NoEntry THEN entry ELSE @,
            !.latest[m.role] = entry,
            !.started = IF @ = 0 \/ m.time < @ THEN m.time ELSE @,
            !.ended = IF m.time > @ THEN m.time ELSE @]

Meta(s, r, delta) ==
  [s EXCEPT !.id = IF r.id # Unset /\ (@ = Unset \/ (r.segment /\ ~delta)) THEN r.id ELSE @,
            !.segment = @ \/ r.segment,
            !.cwd = IF r.cwd # Unset THEN r.cwd ELSE @]

Context(s, r) ==
  [s EXCEPT !.mirror = IF r.turn # Unset /\ s.turn \notin {Unset, r.turn} THEN NoMirror ELSE @,
            !.turn = IF r.turn # Unset THEN r.turn ELSE @,
            !.model = IF r.model # Unset THEN r.model ELSE @,
            !.cwd = IF @ = Unset THEN r.cwd ELSE @]

(* A delta that meets another base session gives up.                       *)
Refuses(s, r, delta) ==
  r.kind = "meta" /\ delta /\ r.id # Unset /\ s.id \notin {Unset, r.id}

Shown(s, r) == r.kind = "message" /\ ~Mirrors(s, r)

Follow(s, r) ==
  CASE r.kind = "context" -> Context(s, r)
    [] r.kind = "boundary" -> [s EXCEPT !.mirror = NoMirror, !.turn = Unset]
    [] r.kind = "compacted" ->
         [s EXCEPT !.mirror = NoMirror, !.compact = PushUnique(s.compact, r.text)]
    [] r.kind = "reasoning" -> [s EXCEPT !.reasoning = PushAll(s.reasoning, r.texts)]
    [] r.kind = "filtered" -> [s EXCEPT !.filtered = s.filtered + 1]
    [] Shown(s, r) -> Observe(s, r)
    [] r.kind = "message" /\ ~Shown(s, r) -> [s EXCEPT !.mirror = NoMirror]
    [] OTHER -> s

Apply(s, r, delta) == IF r.kind = "meta" THEN Meta(s, r, delta) ELSE Follow(s, r)

Document(s, r, at) ==
  [seq |-> s.next, role |-> r.role, text |-> r.text, time |-> r.time, at |-> at]

(* One record.                                                             *)
Process(read, r, at, delta) ==
  LET s == read.state IN
  IF read.refused \/ Refuses(s, r, delta)
  THEN [state |-> s, docs |-> read.docs, refused |-> TRUE]
  ELSE [state |-> Apply(s, r, delta),
        docs |-> IF Shown(s, r) THEN Append(read.docs, Document(s, r, at)) ELSE read.docs,
        refused |-> FALSE]

(* The records from one position on: what was read up to each of them.     *)
ProcessEach(state, said, from, delta) ==
  LET read[i \in from..Len(said)] ==
        IF i = from THEN [state |-> state, docs |-> <<>>, refused |-> FALSE]
        ELSE Process(read[i - 1], said[i], i, delta)
  IN read

ReadFrom(state, said, from, delta) == ProcessEach(state, said, from, delta)[Len(said)]

-----------------------------------------------------------------------------
(* Mutant: only a rollout that declares its base is a segment.             *)
SegmentDeclared(file, s) ==
  CASE s.segment /\ file.trailing \notin {Unset, s.id} -> file.trailing
    [] s.segment /\ file.trailing \in {Unset, s.id} -> file.stem
    [] OTHER -> Unset

(* The name of a continuation, which shares the id of what it continues.   *)
Segment(file, s) ==
  CASE file.trailing \notin {Unset, s.id} -> file.trailing
    [] s.segment /\ file.trailing \in {Unset, s.id} -> file.stem
    [] OTHER -> Unset

(* Mutant: the pairing of mirrors begins anew with each sync.              *)
CheckpointWithoutMirror(file, s) ==
  [s EXCEPT !.id = IF @ = Unset /\ s.next > 0 THEN file.fallback[file.form] ELSE @, !.mirror = NoMirror]

(* The state that is stored with the cursor.                               *)
Checkpoint(file, s) == [s EXCEPT !.id = IF @ = Unset /\ s.next > 0 THEN file.fallback[file.form] ELSE @]

FinishProjection(file, cwd, read) ==
  LET s == read.state
      kept == Checkpoint(file, s)
      segment == Segment(file, s)
  IN [outcome    |-> CASE read.refused -> "full_required"
                       [] ~read.refused /\ s.next > 0 -> "projected"
                       [] ~read.refused /\ s.next = 0 /\ s.filtered > 0 -> "filtered"
                       [] OTHER -> "skipped",
      checkpoint |-> kept,
      docs       |-> read.docs,
      session    |-> [id |-> IF segment # Unset THEN segment ELSE kept.id,
                      first |-> s.first, latest |-> s.latest,
                      compact |-> s.compact, reasoning |-> s.reasoning,
                      cwd |-> IF s.cwd # Unset THEN s.cwd ELSE cwd,
                      model |-> s.model, started |-> s.started, ended |-> s.ended,
                      count |-> s.next]]

ProjectFull(file, said) ==
  FinishProjection(file, InventoryCwd(said), ReadFrom(Fresh(file), said, 0, FALSE))

(* A compressed rollout is never continued.                                *)
ProjectDelta(file, said, from, checkpoint) ==
  FinishProjection(file, InventoryCwd(said),
    IF file.form = "zst" THEN [state |-> checkpoint, docs |-> <<>>, refused |-> TRUE]
    ELSE ReadFrom(checkpoint, said, from, TRUE))

=============================================================================
