----------------------------- MODULE AdapterLaws ------------------------------
(***************************************************************************)
(* What the source adapters promise about the transcripts they read, asked *)
(* of every sample of bounded sets.  SyncEngine, which knows a record only *)
(* as a value, builds on it: a delta is a full replay, and equal accepted  *)
(* fingerprints are equal sessions.                                        *)
(***************************************************************************)
EXTENDS ReadPath, ReplayAdapters

CONSTANTS
  SampleRollouts,     \* sequences of raw Codex records
  SampleNames,        \* Codex files
  SampleTranscripts   \* [adapters that replay -> sequences of raw records]

(* A raw record of Claude Code has a time, or 0, and contents of texts.    *)
Content(parts) ==
  parts \in Seq(ToSet(parts)) /\ \A part \in ToSet(parts) : part.text \in Seq(ToSet(part.text))
ClaudeRecord(raw) == raw.time \in Nat /\ Content(raw.direct) /\ Content(raw.content)

(* The first and the last uuid of a name are there together, and a digest  *)
(* is a name.                                                              *)
ASSUME AdapterSamples ==
  /\ IsFiniteSet(SampleRollouts)
  /\ \A raws \in SampleRollouts :
       /\ raws \in Seq(ToSet(raws))
       /\ \A raw \in ToSet(raws) : raw.type = "reasoning" => raw.texts \in Seq(ToSet(raw.texts))
  /\ \A adapter \in DOMAIN SampleTranscripts :
       /\ IsFiniteSet(SampleTranscripts[adapter])
       /\ \A raws \in SampleTranscripts[adapter] : raws \in Seq(ToSet(raws))
       /\ adapter = "claude_code" =>
            \A raws \in SampleTranscripts[adapter] : \A raw \in ToSet(raws) : ClaudeRecord(raw)
  /\ \A file \in SampleNames :
       /\ {"uuid", "trailing", "stem", "fallback", "form"} \subseteq DOMAIN file
       /\ file.uuid = Unset => file.trailing = Unset
       /\ file.fallback[file.form] # Unset

AdapterQuestions ==
  [command : {"rollout"}, records : SampleRollouts, file : SampleNames]
    \cup [command : {"inventory"}, adapter : {"codex"} \cup DOMAIN SampleTranscripts, file : SampleNames]

Accept(adapter, raw) ==
  CASE adapter = "codex" -> Classify(raw)
    [] adapter = "claude_code" -> AcceptClaude(raw)
    [] adapter = "pi" -> AcceptPi(raw)
    [] adapter = "dsh" -> AcceptDsh(raw)

Accepted(adapter, raws) == [i \in DOMAIN raws |-> Accept(adapter, raws[i])]

-----------------------------------------------------------------------------
(* A rollout that is continued from any checkpoint gives what one reading  *)
(* of it gives: session, documents and the next checkpoint; or the delta   *)
(* is refused (codex.rs process_record, which treats session_meta          *)
(* differently in a delta; docs/SOURCE_CONTRACTS.md:92).                   *)
DeltaIsFullReplay ==
  reader.command = "rollout" =>
    LET file == reader.file
        said == Accepted("codex", reader.records)
        full == ProjectFull(file, said)
    IN \A k \in DOMAIN said :
         LET before == ProjectFull(file, SubSeq(said, 1, k))
             delta == ProjectDelta(file, said, k, before.checkpoint)
         IN delta.outcome # "full_required" =>
              /\ delta.outcome = full.outcome /\ delta.session = full.session
              /\ delta.checkpoint = full.checkpoint
              /\ before.docs \o delta.docs = full.docs

(* A session that is indexed keeps its name when its rollout grows, which  *)
(* apply_staged (sync/mod.rs:1146) insists on for the whole transaction,   *)
(* and when it is compressed or restored; but for a base that is declared  *)
(* only later in a file with one uuid, and for a rollout without any id.   *)
DeclaredLate(file, said, k, checkpoint) ==
  /\ file.trailing \in {Unset, checkpoint.id} /\ ~checkpoint.segment
  /\ \E i \in k+1..Len(said) : said[i].kind = "meta" /\ said[i].segment

KeepsItsName ==
  reader.command = "rollout" =>
    LET file == reader.file
        said == Accepted("codex", reader.records)
        full == ProjectFull(file, said)
        twin == ProjectFull(Twin(file), said)
    IN /\ \A k \in DOMAIN said :
            LET before == ProjectFull(file, SubSeq(said, 1, k))
                delta == ProjectDelta(file, said, k, before.checkpoint)
            IN before.outcome = "projected" /\ delta.outcome = "projected"
                 => \/ delta.session.id = before.session.id
                    \/ DeclaredLate(file, said, k, before.checkpoint)
       /\ full.checkpoint.id # file.fallback[file.form]
            => twin.session = full.session /\ twin.docs = full.docs

(* A message is left out exactly when the message before it is the same in *)
(* the other encoding and is itself shown, with no turn or compaction in   *)
(* between; so nothing that was said twice is lost (codex.rs:128,          *)
(* docs/SOURCE_CONTRACTS.md:73).                                           *)
TurnBefore(said, k) ==
  LET ended == {i \in 1..k-1 : said[i].kind = "boundary"}
      named == {i \in 1..k-1 : /\ said[i].kind = "context" /\ said[i].turn # Unset
                               /\ \A j \in ended : j < i}
  IN IF named = {} THEN Unset ELSE said[CHOOSE i \in named : \A j \in named : j <= i].turn

Parts(said, k) ==
  \/ said[k].kind \in {"boundary", "compacted"}
  \/ /\ said[k].kind = "context" /\ said[k].turn # Unset
     /\ TurnBefore(said, k) \notin {Unset, said[k].turn}

SaidTwice(said, i, j) ==
  /\ <<said[i].role, said[i].text>> = <<said[j].role, said[j].text>>
  /\ said[i].origin # said[j].origin
  /\ \A k \in i+1..j-1 : ~Parts(said, k)

MirrorPairsOnce ==
  reader.command = "rollout" =>
    LET said == Accepted("codex", reader.records)
        docs == ProjectFull(reader.file, said).docs
        shown == {docs[i].at : i \in DOMAIN docs}
        messages == {i \in DOMAIN said : said[i].kind = "message"}
        Previous(j) == {i \in messages : i < j /\ \A k \in messages : k <= i \/ k >= j}
    IN \A j \in messages :
         j \in shown <=> \A i \in Previous(j) : ~SaidTwice(said, i, j) \/ i \notin shown

(* The inventory decides the projection: transcripts of one accepted       *)
(* fingerprint have one session and the same documents, so that a proof of *)
(* fingerprints is one of contents, but for messages of Claude Code that   *)
(* hold a NUL, which ends a field there; a session is stored under the cwd *)
(* its file is selected by; and the transcripts that are left out are those*)
(* without a session (catalog.rs accepted_metadata against project).       *)
HoldsNul(m) == m.kind = "message" /\ NUL \in {m.id, m.cwd} \cup ToSet(m.text)

TellsApart(adapter, said) ==
  adapter = "claude_code" => \A i \in DOMAIN said : ~HoldsNul(said[i])

InventoryOf(adapter, said) ==
  IF adapter = "codex"
  THEN [selected |-> TRUE, cwd |-> InventoryCwd(said), fields |-> AcceptedFields(said)]
  ELSE TakenIn(adapter, said)

ProjectionOf(adapter, file, said) ==
  IF adapter # "codex" THEN Replay(adapter, file, said)
  ELSE LET full == ProjectFull(file, said) IN
       [outcome |-> full.outcome, session |-> full.session,
        docs |-> [i \in DOMAIN full.docs |-> [full.docs[i] EXCEPT !.at = 0]]]

InventoryDecidesProjection ==
  reader.command = "inventory" =>
    LET adapter == reader.adapter
        samples == IF adapter = "codex" THEN SampleRollouts ELSE SampleTranscripts[adapter]
        Known(raws) ==
          LET said == Accepted(adapter, raws) IN
          <<InventoryOf(adapter, said), ProjectionOf(adapter, reader.file, said)>>
        known == {Known(raws) : raws \in samples}
        indexed == {k \in known : k[2].outcome = "projected"}
        exact == {Known(raws) : raws \in {s \in samples : TellsApart(adapter, Accepted(adapter, s))}}
        told == {k \in exact : k[2].outcome = "projected"}
    IN /\ Cardinality(told) = Cardinality({k[1].fields : k \in told})
       /\ \A k \in indexed : k[2].session.cwd = k[1].cwd /\ k[1].selected
       /\ adapter # "codex" => \A k \in known \ indexed : ~k[1].selected

=============================================================================
