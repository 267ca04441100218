------------------------------ MODULE SourceFiles ------------------------------
(***************************************************************************)
(* Raw transcript files as the source adapters see them: what one stat,    *)
(* one accepted-metadata read, one digest and one bounded projection of a  *)
(* file return (src/src/sources/{mod,catalog,jsonl,codex}.rs).             *)
(*                                                                         *)
(* A file is a sequence of records.  Each record counts two bytes, its     *)
(* text and its newline, so that a byte count can end on a record boundary *)
(* (even) or in front of the newline (odd).  tail says that the last       *)
(* record has no newline yet.  Every write gives the file a new mtime.     *)
(***************************************************************************)
EXTENDS Naturals, Sequences

CONSTANTS
  None,     \* no value: no file, no session, no proof
  Sids,     \* native session ids
  Records,  \* accepted message records
  Codex     \* TRUE for the Codex adapter, FALSE for Claude Code, Pi, DSH

NoSid  == None
NoFile == None

Least(m, n) == IF m <= n THEN m ELSE n

Bytes(c) == 2 * Len(c.recs) - (IF c.tail THEN 1 ELSE 0)

(* FileStamp                                                               *)
Stat(c) == [mt |-> c.mt, ino |-> c.ino, size |-> Bytes(c)]

(* The bytes [0, n) of a file, standing for their SHA-256.                 *)
Prefix(c, n) ==
  [sid |-> IF n = 0 THEN NoSid ELSE c.sid,
   recs |-> SubSeq(c.recs, 1, (n + 1) \div 2),
   size |-> n]

(* Mutant: an unterminated record advances the cursor.                     *)
UnsafeBytes(c, limit) == 2 * ((Least(limit, Bytes(c)) + 1) \div 2)

(* The bytes up to the last newline within a read limit: safe_offset.      *)
SafeBytes(c, limit) == 2 * (Least(limit, Bytes(c)) \div 2)

(* fingerprint_prefix(path, n) = digest: the file is there, is long enough *)
(* and starts with these bytes.                                            *)
PrefixMatches(c, n, digest) ==
  c # NoFile /\ n <= Bytes(c) /\ Prefix(c, n) = digest

(* The accepted fingerprint covers accepted records and the session id,    *)
(* not raw bytes: a final record without newline counts, a newline does    *)
(* not (scan_json_records at captured EOF).                                *)
Accepted(c) ==
  [sid |-> IF c.recs = <<>> THEN NoSid ELSE c.sid, recs |-> c.recs]

(* Adapters other than Codex leave a file without accepted records out.    *)
Selects(c) == Codex \/ c.recs # <<>>

-----------------------------------------------------------------------------
(* One projection of a file up to limit bytes.  checkpoint is the stored   *)
(* cursor or NoFile; entry is the file as snapshot A saw it.               *)

(* Mutant: a delta that does not look at the file it continues.            *)
CanDeltaUnproven(c, entry, checkpoint) ==
  /\ Codex
  /\ checkpoint # NoFile
  /\ checkpoint.indexed <= SafeBytes(c, entry.stat.size)

(* project_delta: same inode, a cursor within the limit and on a line      *)
(* boundary, and an unchanged prefix; anything else needs a full replay.   *)
CanDelta(c, entry, checkpoint) ==
  /\ Codex
  /\ checkpoint # NoFile
  /\ checkpoint.stat.ino = entry.stat.ino
  /\ checkpoint.stat.ino = c.ino
  /\ checkpoint.indexed <= SafeBytes(c, entry.stat.size)
  /\ Prefix(c, checkpoint.indexed) = checkpoint.boundary

(* What the reader proves about the bytes it took, and the documents they  *)
(* hold.  from is 0 for a full replay and the cursor for a delta.          *)
Projection(c, f, entry, mode, from) ==
  LET limit == entry.stat.size
      safe  == SafeBytes(c, limit)
      all   == Prefix(c, safe)
  IN [path     |-> f,
      mode     |-> mode,
      opened   |-> Stat(c),
      read     |-> Least(limit, Bytes(c)),
      indexed  |-> safe,
      boundary |-> all,
      head     |-> Prefix(c, Least(limit, Bytes(c))),
      sid      |-> all.sid,
      docs     |-> SubSeq(all.recs, from \div 2 + 1, Len(all.recs)),
      fate     |-> "staged"]

Project(c, f, entry, checkpoint) ==
  IF CanDelta(c, entry, checkpoint)
  THEN Projection(c, f, entry, "delta", checkpoint.indexed)
  ELSE Projection(c, f, entry, "full", 0)

=============================================================================
