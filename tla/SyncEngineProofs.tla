--------------------------- MODULE SyncEngineProofs ---------------------------
(***************************************************************************)
(* What holds of SyncEngine for every set of paths, sessions and records,  *)
(* any number of agents' steps and of runs.                                *)
(***************************************************************************)
EXTENDS SyncEngine, SequenceTheorems, FiniteSetTheorems, TLAPS

-----------------------------------------------------------------------------
(* What one read of a file returns.                                        *)

(* A file that can be there: one without a newline at its end has records. *)
Ended(c) == c.tail => c.recs # <<>>

LEMMA BytesOfFile ==
  ASSUME NEW c \in RawFile, Ended(c)
  PROVE  /\ Len(c.recs) \in Nat
         /\ Bytes(c) \in Nat
         /\ \A n \in 0..Bytes(c) : (n + 1) \div 2 \in 0..Len(c.recs)
<1>1. c.recs \in Seq(Records) /\ c.tail \in BOOLEAN
  BY DEF RawFile
<1>2. Len(c.recs) \in Nat /\ (c.recs # <<>> => Len(c.recs) > 0)
  BY <1>1, EmptySeq, LenProperties
<1>3. Bytes(c) \in Nat /\ Bytes(c) <= 2 * Len(c.recs)
  <2>1. CASE c.tail
    BY <1>1, <1>2, <2>1 DEF Bytes, Ended
  <2>2. CASE ~c.tail
    BY <1>1, <1>2, <2>2 DEF Bytes, Ended
  <2> QED BY <2>1, <2>2
<1> QED BY <1>2, <1>3

LEMMA HalfOfEven ==
  \A m, n \in Nat : m % 2 = 0 /\ n % 2 = 0 /\ m <= n =>
    /\ (m + 1) \div 2 = m \div 2 /\ (n + 1) \div 2 = n \div 2
    /\ m \div 2 \in Nat /\ n \div 2 \in Nat /\ m \div 2 <= n \div 2
OBVIOUS

(* The first k of a sequence's elements.                                   *)
LEMMA FirstOf ==
  ASSUME NEW S, NEW s \in Seq(S), NEW k \in 0..Len(s)
  PROVE  SubSeq(s, 1, k) \in Seq(S) /\ Len(SubSeq(s, 1, k)) = k
<1>1. Len(s) \in Nat /\ \A i \in 1..k : s[i] \in S
  BY LenProperties, ElementOfSeq
<1>2. SubSeq(s, 1, k) \in Seq(S) /\ Len(SubSeq(s, 1, k)) = IF 1 <= k THEN k - 1 + 1 ELSE 0
  BY <1>1, SubSeqProperties
<1> QED BY <1>1, <1>2

(* The first records of the first records.                                 *)
LEMMA FirstOfFirst ==
  ASSUME NEW S, NEW s \in Seq(S), NEW k \in 0..Len(s), NEW j \in 0..k
  PROVE  SubSeq(SubSeq(s, 1, k), 1, j) = SubSeq(s, 1, j)
<1>1. Len(s) \in Nat /\ \A i \in 1..k : s[i] \in S
  BY LenProperties, ElementOfSeq
<1>2. /\ SubSeq(s, 1, k) \in Seq(S) /\ Len(SubSeq(s, 1, k)) = k
      /\ \A i \in 1..k : SubSeq(s, 1, k)[i] = s[i]
  <2>1. \A i \in 1..k - 1 + 1 : SubSeq(s, 1, k)[i] = s[1 + i - 1]
    BY <1>1, SubSeqProperties
  <2> QED BY <1>1, <2>1, FirstOf
<1>3. /\ SubSeq(s, 1, j) \in Seq(S) /\ Len(SubSeq(s, 1, j)) = j
      /\ \A i \in 1..j : SubSeq(s, 1, j)[i] = s[i]
  <2>1. \A i \in 1..j - 1 + 1 : SubSeq(s, 1, j)[i] = s[1 + i - 1]
    BY <1>1, SubSeqProperties
  <2>2. j \in 0..Len(s)
    BY <1>1
  <2> QED BY <1>1, <2>1, <2>2, FirstOf
<1>4. /\ SubSeq(SubSeq(s, 1, k), 1, j) \in Seq(S) /\ Len(SubSeq(SubSeq(s, 1, k), 1, j)) = j
      /\ \A i \in 1..j : SubSeq(SubSeq(s, 1, k), 1, j)[i] = SubSeq(s, 1, k)[i]
  <2>1. \A i \in 1..j : SubSeq(s, 1, k)[i] \in S
    BY <1>1, <1>2
  <2>2. \A i \in 1..j - 1 + 1 : SubSeq(SubSeq(s, 1, k), 1, j)[i] = SubSeq(s, 1, k)[1 + i - 1]
    BY <2>1, SubSeqProperties
  <2> QED BY <1>1, <1>2, <2>2, FirstOf
<1>5. \A i \in 1..j : SubSeq(SubSeq(s, 1, k), 1, j)[i] = SubSeq(s, 1, j)[i]
  BY <1>1, <1>2, <1>3, <1>4
<1> QED BY <1>3, <1>4, <1>5, SeqEqual

(* The digest of the first n bytes.                                        *)
LEMMA PrefixOfFile ==
  ASSUME NEW c \in RawFile, Ended(c), NEW n \in 0..Bytes(c)
  PROVE  /\ Prefix(c, n) \in Digests
         /\ Prefix(c, n).sid = IF n = 0 THEN NoSid ELSE c.sid
         /\ Prefix(c, n).recs = SubSeq(c.recs, 1, (n + 1) \div 2)
         /\ Len(Prefix(c, n).recs) = (n + 1) \div 2
<1>1. c.recs \in Seq(Records) /\ c.sid \in Sids
  BY DEF RawFile
<1>2. (n + 1) \div 2 \in 0..Len(c.recs) /\ n \in Nat
  BY BytesOfFile
<1> QED BY <1>1, <1>2, FirstOf DEF Prefix, Digests

LEMMA StatOfFile ==
  ASSUME NEW c \in RawFile, Ended(c)
  PROVE  Stat(c) \in Stats
BY BytesOfFile DEF Stat, Stats, RawFile

(* The read limit cuts a file behind a newline.                            *)
LEMMA SafeBytesOfFile ==
  ASSUME NEW c \in RawFile, Ended(c), NEW limit \in Nat
  PROVE  /\ SafeBytes(c, limit) \in 0..Bytes(c)
         /\ SafeBytes(c, limit) <= limit
         /\ SafeBytes(c, limit) % 2 = 0
         /\ Least(limit, Bytes(c)) \in 0..Bytes(c)
<1>1. Least(limit, Bytes(c)) \in 0..Bytes(c) /\ Least(limit, Bytes(c)) <= limit
  BY BytesOfFile DEF Least
<1> QED BY <1>1, BytesOfFile DEF SafeBytes

(* A cursor that describes a prefix of complete records of one session.    *)
CursorOK(c) ==
  /\ c.indexed <= c.stat.size /\ c.indexed % 2 = 0
  /\ c.sid = c.boundary.sid
  /\ c.sid = NoSid => c.boundary.recs = <<>>

(* A projection that continues, or replaces, what the cursor describes.    *)
Anchored(st, entry, checkpoint) ==
  /\ st.indexed <= entry.stat.size /\ st.indexed % 2 = 0
  /\ st.sid = st.boundary.sid
  /\ st.sid = NoSid <=> st.boundary.recs = <<>>
  /\ st.mode = "full" => st.docs = st.boundary.recs
  /\ st.mode = "delta" => /\ checkpoint # NoFile
                          /\ checkpoint.sid \in {NoSid, st.sid}
                          /\ st.boundary.recs = checkpoint.boundary.recs \o st.docs

(* The records that complete after the first n bytes.                      *)
RecordsPast(recs, n) == SubSeq(recs, n \div 2 + 1, Len(recs))

(* What every projection proves about the bytes it took.                   *)
LEMMA ProjectionOfFile ==
  ASSUME NEW c \in RawFile, Ended(c), NEW f \in Files, NEW entry \in Entry,
         NEW mode \in {"full", "delta"},
         NEW from \in 0..SafeBytes(c, entry.stat.size)
  PROVE  LET st == Projection(c, f, entry, mode, from)
             safe == SafeBytes(c, entry.stat.size)
         IN /\ st \in Staging
            /\ st.path = f /\ st.mode = mode /\ st.fate = "staged"
            /\ st.indexed = safe /\ safe <= entry.stat.size /\ safe % 2 = 0
            /\ st.boundary = Prefix(c, safe)
            /\ st.sid = st.boundary.sid
            /\ st.sid = NoSid <=> st.boundary.recs = <<>>
            /\ st.docs = RecordsPast(st.boundary.recs, from)
<1> DEFINE safe == SafeBytes(c, entry.stat.size)
           all == Prefix(c, safe)
           st == Projection(c, f, entry, mode, from)
<1>1. entry.stat \in Stats /\ entry.stat.size \in Nat
  BY DEF Entry, Stats
<1>2. safe \in 0..Bytes(c) /\ safe <= entry.stat.size /\ safe % 2 = 0 /\ Bytes(c) \in Nat
      /\ Least(entry.stat.size, Bytes(c)) \in 0..Bytes(c)
  BY <1>1, SafeBytesOfFile, BytesOfFile
<1>3. all \in Digests /\ Len(all.recs) = (safe + 1) \div 2
      /\ all.sid = IF safe = 0 THEN NoSid ELSE c.sid
  BY <1>2, PrefixOfFile
<1>4. Prefix(c, Least(entry.stat.size, Bytes(c))) \in Digests
  BY <1>2, PrefixOfFile
<1>5. SubSeq(all.recs, from \div 2 + 1, Len(all.recs)) \in Seq(Records)
  <2>1. all.recs \in Seq(Records) /\ Len(all.recs) \in Nat
    BY <1>3, LenProperties DEF Digests
  <2>2. \A i \in (from \div 2 + 1)..Len(all.recs) : all.recs[i] \in Records
    BY <1>2, <2>1, ElementOfSeq
  <2>3. from \div 2 + 1 \in Int
    BY <1>2
  <2> QED BY <2>1, <2>2, <2>3, SubSeqProperties
<1>6. Least(entry.stat.size, Bytes(c)) \in Nat /\ safe \in Nat
  BY <1>2
<1>7. all.sid = NoSid <=> all.recs = <<>>
  <2>1. c.sid # NoSid
    BY ConstantsOK DEF RawFile
  <2>2. all.recs \in Seq(Records)
    BY <1>3 DEF Digests
  <2>3. all.recs = <<>> <=> Len(all.recs) = 0
    BY <2>2, EmptySeq
  <2> QED BY <1>2, <1>3, <2>1, <2>3
<1>8. st = [path |-> f, mode |-> mode, opened |-> Stat(c),
            read |-> Least(entry.stat.size, Bytes(c)), indexed |-> safe, boundary |-> all,
            head |-> Prefix(c, Least(entry.stat.size, Bytes(c))), sid |-> all.sid,
            docs |-> SubSeq(all.recs, from \div 2 + 1, Len(all.recs)), fate |-> "staged"]
  BY DEF Projection
<1>9. all.sid \in Sids \union {NoSid}
  BY <1>3 DEF Digests
<1>10. st \in Staging
  BY <1>3, <1>4, <1>5, <1>6, <1>8, <1>9, StatOfFile DEF Staging
<1> HIDE DEF safe, all, st
<1>11. /\ st.path = f /\ st.mode = mode /\ st.fate = "staged" /\ st.indexed = safe
       /\ st.boundary = all /\ st.sid = all.sid
       /\ st.docs = RecordsPast(all.recs, from)
  BY <1>8 DEF RecordsPast
<1>12. safe <= entry.stat.size /\ safe % 2 = 0
  BY <1>2 DEF safe
<1>13. /\ st.boundary = all /\ st.sid = st.boundary.sid
       /\ st.sid = NoSid <=> st.boundary.recs = <<>>
       /\ st.docs = RecordsPast(st.boundary.recs, from)
  BY <1>7, <1>11
<1> QED BY <1>10, <1>11, <1>12, <1>13 DEF safe, all, st

LEMMA ProjectAnchored ==
  ASSUME NEW c \in RawFile, Ended(c), NEW f \in Files, NEW entry \in Entry,
         NEW checkpoint \in Cursor \union {NoFile},
         checkpoint # NoFile => CursorOK(checkpoint)
  PROVE  LET st == Project(c, f, entry, checkpoint)
         IN /\ st \in Staging /\ st.path = f /\ st.fate = "staged"
            /\ Anchored(st, entry, checkpoint)
<1> DEFINE safe == SafeBytes(c, entry.stat.size)
<1>1. safe \in 0..Bytes(c) /\ Bytes(c) \in Nat /\ safe % 2 = 0
  BY SafeBytesOfFile, BytesOfFile DEF Entry, Stats
<1>2. CASE ~CanDelta(c, entry, checkpoint)
  <2> DEFINE st == Projection(c, f, entry, "full", 0)
  <2>1. 0 \in 0..safe
    BY <1>1
  <2>2. /\ st \in Staging /\ st.path = f /\ st.fate = "staged" /\ st.mode = "full"
        /\ st.indexed <= entry.stat.size /\ st.indexed % 2 = 0 /\ st.sid = st.boundary.sid
        /\ st.sid = NoSid <=> st.boundary.recs = <<>>
        /\ st.docs = RecordsPast(st.boundary.recs, 0)
    BY <2>1, ProjectionOfFile
  <2>3. st.boundary.recs \in Seq(Records)
    BY <2>2 DEF Staging, Digests
  <2>4. st.docs = st.boundary.recs
    <3>1. 0 \div 2 + 1 = 1
      OBVIOUS
    <3>2. st.docs = SubSeq(st.boundary.recs, 1, Len(st.boundary.recs))
      BY <2>2, <3>1 DEF RecordsPast
    <3> QED BY <2>3, <3>2, SubSeqFull
  <2>5. Project(c, f, entry, checkpoint) = st
    BY <1>2 DEF Project
  <2> HIDE DEF st
  <2> QED BY <2>2, <2>4, <2>5 DEF Anchored
<1>3. CASE CanDelta(c, entry, checkpoint)
  <2> DEFINE from == checkpoint.indexed
             st == Projection(c, f, entry, "delta", from)
  <2>1. /\ checkpoint \in Cursor /\ checkpoint # NoFile /\ from <= safe
        /\ Prefix(c, from) = checkpoint.boundary /\ from \in Nat /\ from % 2 = 0
    BY <1>3 DEF CanDelta, CursorOK, Cursor
  <2>2. from \in 0..safe /\ from \in 0..Bytes(c)
    BY <1>1, <2>1
  <2>3. /\ st \in Staging /\ st.path = f /\ st.fate = "staged" /\ st.mode = "delta"
        /\ st.indexed <= entry.stat.size /\ st.indexed % 2 = 0 /\ st.sid = st.boundary.sid
        /\ st.sid = NoSid <=> st.boundary.recs = <<>>
        /\ st.boundary = Prefix(c, safe)
        /\ st.docs = RecordsPast(st.boundary.recs, from)
    BY <2>2, ProjectionOfFile
  <2> DEFINE j == from \div 2
             k == safe \div 2
             recs == st.boundary.recs
  <2>4. (from + 1) \div 2 = j /\ (safe + 1) \div 2 = k /\ j \in 0..k /\ k \in 0..Len(c.recs)
    <3>1. (safe + 1) \div 2 \in 0..Len(c.recs)
      BY <1>1, BytesOfFile
    <3>2. from \in Nat /\ safe \in Nat /\ from <= safe /\ from % 2 = 0 /\ safe % 2 = 0
      BY <1>1, <2>1
    <3> HIDE DEF from, safe
    <3>3. (from + 1) \div 2 = j /\ (safe + 1) \div 2 = k /\ j <= k /\ j \in Nat /\ k \in Nat
      BY <3>2, HalfOfEven
    <3> QED BY <3>1, <3>3
  <2>5. c.recs \in Seq(Records) /\ Len(c.recs) \in Nat
    BY BytesOfFile DEF RawFile
  <2>6. recs = SubSeq(c.recs, 1, k) /\ Len(recs) = k /\ recs \in Seq(Records)
    BY <1>1, <2>3, <2>4, PrefixOfFile DEF Digests
  <2>7. checkpoint.boundary.recs = SubSeq(c.recs, 1, j)
    BY <2>1, <2>2, <2>4, PrefixOfFile
  <2>8. SubSeq(recs, 1, j) = SubSeq(c.recs, 1, j)
    BY <2>4, <2>5, <2>6, FirstOfFirst
  <2>9. SubSeq(recs, 1, j) \o SubSeq(recs, j + 1, k) = SubSeq(recs, 1, k)
    <3>1. 1 \in 1..Len(recs) + 1 /\ j \in 1 - 1..Len(recs) /\ k \in j..Len(recs)
      BY <2>4, <2>6
    <3> HIDE DEF j, k, recs
    <3> QED BY <2>6, <3>1, ConcatAdjacentSubSeq
  <2>10. recs = checkpoint.boundary.recs \o st.docs
    <3>1. st.docs = SubSeq(recs, j + 1, k)
      BY <2>3, <2>6 DEF RecordsPast
    <3> HIDE DEF j, k, recs, st
    <3> QED BY <2>6, <2>7, <2>8, <2>9, <3>1, SubSeqFull
  <2>11. Project(c, f, entry, checkpoint) = st
    BY <1>3 DEF Project
  <2>12. checkpoint.sid \in {NoSid, st.sid}
    <3>1. checkpoint.sid = Prefix(c, from).sid /\ st.sid = Prefix(c, safe).sid
      BY <2>1, <2>3 DEF CursorOK
    <3>2. from = 0 \/ safe # 0
      BY <1>1, <2>1
    <3> QED BY <1>1, <2>2, <3>1, <3>2, PrefixOfFile
  <2> HIDE DEF st
  <2> QED BY <2>1, <2>3, <2>10, <2>11, <2>12 DEF Anchored
<1> QED BY <1>2, <1>3

-----------------------------------------------------------------------------
(* The shape of every variable, and what the rest of a run relies on.      *)

WorldOK ==
  /\ raw \in [Files -> RawFile \union {NoFile}]
  /\ writes \in Nat
  /\ \A f \in Files : raw[f] # NoFile => Ended(raw[f])

SessType(x) == x \in [Sids -> Row \union {NoSession}]
CurType(x)  == /\ x \in [Files -> Cursor \union {NoFile}]
               /\ \A f \in Files : x[f] # NoFile => CursorOK(x[f])

IndexOK ==
  /\ SessType(sess) /\ CurType(cur)
  /\ cov = NoProof \/ \E F \in SUBSET Files : cov \in [F -> Accs]

Steps  == {"scan", "project", "stage", "moves", "selector", "index"}
Kinds  == {"stable", "appendOnly", "deferred", "rejected", NoVerdict}
Moves  == [new : Files, old : Files]

ControlOK ==
  /\ pc \in Phases
  /\ req \in Requests \union {NoRequest}
  /\ pc = "idle" <=> req = NoRequest
  /\ errors \subseteq Steps
  /\ stale \subseteq Moves
  /\ kind \in Kinds

ScanOK ==
  /\ before \in [Files -> Entry \union {NoFile}]
  /\ after \in [Files -> Entry \union {NoFile}]
  /\ todo \subseteq Files
  /\ pending = NoFile \/ pending \in [path : Files, stat : Stats]

(* A restamped cursor is the stored one with the stamp of snapshot A.      *)
Restamps(r) ==
  /\ r.path \in Files /\ r.cursor \in Cursor
  /\ cur[r.path] # NoFile
  /\ r.cursor = [cur[r.path] EXCEPT !.stat = before[r.path].stat]
  /\ r.cursor.stat.size = cur[r.path].stat.size

RefreshOK == \A r \in refreshes : Restamps(r)

(* Each file is staged once, from the snapshot and the cursor of this run. *)
StageOK ==
  /\ stage \in Seq(Staging)
  /\ \A i \in DOMAIN stage :
       LET st == stage[i]
       IN before[st.path] # NoFile /\ Anchored(st, before[st.path], cur[st.path])
  /\ \A i, j \in DOMAIN stage : stage[i].path = stage[j].path => i = j

QueueOK ==
  /\ pc \in {"idle", "scanA"} => stage = <<>> /\ refreshes = {}
  /\ pc = "project" => \A f \in todo : /\ before[f] # NoFile
                                       /\ \A i \in DOMAIN stage : stage[i].path # f

TxShape(x) == x = [sess |-> x.sess, cur |-> x.cur] /\ SessType(x.sess) /\ CurType(x.cur)

TxOK ==
  /\ pc \in {"apply", "commit"} <=> tx # NoTx
  /\ tx # NoTx => TxShape(tx)

EngineInv == /\ WorldOK /\ IndexOK /\ ControlOK /\ ScanOK
             /\ RefreshOK /\ StageOK /\ QueueOK /\ TxOK

LEMMA EngineInvType == EngineInv => TypeOK
BY DEF EngineInv, WorldOK, IndexOK, ControlOK, ScanOK, RefreshOK, StageOK, QueueOK, TxOK,
       TypeOK, TxShape, SessType, CurType, CursorOK, Steps, Kinds, Moves, Restamps

LEMMA NoneIsNothing ==
  /\ \A v \in RawFile : v # NoFile /\ v # None
  /\ \A v \in Entry : v # NoFile
  /\ \A v \in Cursor : v # NoFile
  /\ \A v \in Row : v # NoSession
  /\ \A v \in [path : Files, stat : Stats] : v # NoFile
  /\ \A v \in Requests : v # NoRequest
  /\ \A x, y : SessType(x) /\ CurType(y) => [sess |-> x, cur |-> y] # NoTx
<1>1. \A v \in Requests : v # NoRequest
  BY NoneAssumption, ConstantsOK DEF NoRequest
<1>2. ASSUME NEW x, NEW y, SessType(x), CurType(y) PROVE [sess |-> x, cur |-> y] # NoTx
  BY <1>2, NoneAssumption DEF SessType, CurType, NoTx, NoSession, NoFile
<1> QED BY <1>1, <1>2, NoneAssumption DEF NoFile, NoSession

LEMMA InitEngine == Init => EngineInv
<1> SUFFICES ASSUME Init PROVE EngineInv OBVIOUS
<1>1. WorldOK /\ IndexOK /\ ControlOK /\ TxOK
  BY DEF Init, WorldOK, IndexOK, ControlOK, TxOK, TxShape, SessType, CurType, Phases, Kinds
<1>2. ScanOK /\ RefreshOK /\ QueueOK
  BY DEF Init, ScanOK, RefreshOK, QueueOK, NoSnapshot
<1>3. StageOK
  BY EmptySeq DEF Init, StageOK
<1> QED BY <1>1, <1>2, <1>3 DEF EngineInv

(* What a part of the invariant rests on.                                  *)
LEMMA WorldFrame == WorldOK /\ UNCHANGED world => WorldOK'
BY DEF WorldOK, world

LEMMA IndexFrame == IndexOK /\ UNCHANGED index => IndexOK'
BY DEF IndexOK, index, SessType, CurType

LEMMA ControlFrame ==
  ControlOK /\ UNCHANGED <<pc, req, errors, stale, kind>> => ControlOK'
BY DEF ControlOK

LEMMA ScanFrame == ScanOK /\ UNCHANGED <<before, after, todo, pending>> => ScanOK'
BY DEF ScanOK

LEMMA RefreshFrame == RefreshOK /\ UNCHANGED <<refreshes, cur, before>> => RefreshOK'
BY DEF RefreshOK, Restamps

LEMMA StageFrame == StageOK /\ UNCHANGED <<stage, cur, before>> => StageOK'
BY DEF StageOK

LEMMA TxFrame == TxOK /\ UNCHANGED <<pc, tx>> => TxOK'
BY DEF TxOK, TxShape, SessType, CurType

LEMMA QueueFrame == QueueOK /\ UNCHANGED <<pc, stage, refreshes, todo, before>> => QueueOK'
BY DEF QueueOK

(* A step of the agents leaves index and run alone.                        *)
LEMMA WorldStep ==
  ASSUME EngineInv, UNCHANGED <<index, run>>, WorldOK'
  PROVE  EngineInv'
<1>1. UNCHANGED <<sess, cur, cov, pc, req, before, after, todo, pending, errors, refreshes,
                  stage, stale, kind, tx>>
  BY DEF index, run
<1> QED BY <1>1, IndexFrame, ControlFrame, ScanFrame, RefreshFrame, StageFrame, TxFrame,
           QueueFrame DEF EngineInv, index

LEMMA WriteStep ==
  ASSUME WorldOK, NEW f \in Files, NEW c \in RawFile \union {NoFile},
         c # NoFile => Ended(c), Write(f, c)
  PROVE  WorldOK'
BY DEF WorldOK, Write

LEMMA AgentWorld == WorldOK /\ AgentStep => WorldOK'
<1> SUFFICES ASSUME WorldOK, AgentStep PROVE WorldOK' OBVIOUS
<1>1. \A f \in Files : raw[f] # NoFile => raw[f] \in RawFile
  BY DEF WorldOK
<1>2. writes + 1 \in Nat
  BY DEF WorldOK
<1>3. ASSUME NEW f \in Files, NEW t \in BOOLEAN, AppendRecord(f, t) PROVE WorldOK'
  <2>1. PICK r \in Records :
          /\ raw[f] # NoFile
          /\ Write(f, [raw[f] EXCEPT !.recs = Append(@, r), !.mt = writes + 1, !.tail = t])
    BY <1>3 DEF AppendRecord
  <2> DEFINE c == [raw[f] EXCEPT !.recs = Append(@, r), !.mt = writes + 1, !.tail = t]
  <2>2. Append(raw[f].recs, r) \in Seq(Records) /\ Append(raw[f].recs, r) # <<>>
    BY <1>1, <2>1, AppendProperties DEF RawFile
  <2>3. c \in RawFile /\ Ended(c)
    BY <1>1, <1>2, <2>1, <2>2 DEF RawFile, Ended
  <2> HIDE DEF c
  <2> QED BY <2>1, <2>3, WriteStep DEF c
<1>4. ASSUME NEW f \in Files, TerminateRecord(f) PROVE WorldOK'
  <2> DEFINE c == [raw[f] EXCEPT !.mt = writes + 1, !.tail = FALSE]
  <2>1. raw[f] # NoFile /\ Write(f, c)
    BY <1>4 DEF TerminateRecord
  <2>2. c \in RawFile /\ Ended(c)
    BY <1>1, <1>2, <2>1 DEF RawFile, Ended
  <2> QED BY <2>1, <2>2, WriteStep
<1>5. ASSUME NEW f \in Files, NEW s \in Sids, NEW rs \in Seq(Records)
      PROVE  /\ NewFile(s, rs) \in RawFile /\ Ended(NewFile(s, rs))
             /\ raw[f] # NoFile => /\ [NewFile(s, rs) EXCEPT !.ino = raw[f].ino] \in RawFile
                                   /\ Ended([NewFile(s, rs) EXCEPT !.ino = raw[f].ino])
  BY <1>1, <1>2, <1>5 DEF NewFile, RawFile, Ended
<1>6. \A f \in Files : Carries[f] \subseteq Sids
  BY ConstantsOK
<1>7. <<>> \in Seq(Records) /\ \A r \in Records : <<r>> \in Seq(Records)
  BY EmptySeq
<1>8. ASSUME NEW f \in Files, RewriteFile(f) \/ ReplaceFile(f) \/ CreateFile(f) PROVE WorldOK'
  BY <1>5, <1>6, <1>7, <1>8, WriteStep DEF RewriteFile, ReplaceFile, CreateFile
<1>9. ASSUME NEW f \in Files, RemoveFile(f) PROVE WorldOK'
  BY <1>9, WriteStep DEF RemoveFile
<1>10. ASSUME NEW f \in Files, RenameFile(f) PROVE WorldOK'
  BY <1>10 DEF RenameFile, WorldOK
<1>11. ASSUME NEW f \in Files, TouchFile(f) PROVE WorldOK'
  <2> DEFINE c == [raw[f] EXCEPT !.mt = writes + 1]
  <2>1. raw[f] # NoFile /\ Write(f, c)
    BY <1>11 DEF TouchFile
  <2>2. c \in RawFile /\ Ended(c)
    BY <1>1, <1>2, <2>1 DEF WorldOK, RawFile, Ended
  <2> QED BY <2>1, <2>2, WriteStep
<1> QED BY <1>3, <1>4, <1>8, <1>9, <1>10, <1>11 DEF AgentStep

(* Every run ends with nothing of it left.                                 *)
LEMMA ResetStep ==
  ASSUME EngineInv, ResetRun, UNCHANGED world, IndexOK'
  PROVE  EngineInv'
<1>1. WorldOK'
  BY WorldFrame DEF EngineInv
<1>2. ControlOK' /\ TxOK' /\ QueueOK'
  BY DEF ResetRun, ControlOK, TxOK, QueueOK, Phases, Kinds
<1>3. ScanOK' /\ RefreshOK'
  BY DEF ResetRun, ScanOK, RefreshOK, NoSnapshot
<1>4. StageOK'
  BY EmptySeq DEF ResetRun, StageOK
<1> QED BY <1>1, <1>2, <1>3, <1>4 DEF EngineInv

LEMMA FailStep == EngineInv /\ FailSync => EngineInv'
<1> SUFFICES ASSUME EngineInv, FailSync PROVE EngineInv' OBVIOUS
<1>1. IndexOK'
  BY DEF FailSync, EngineInv, IndexOK, SessType, CurType
<1> QED BY <1>1, ResetStep DEF FailSync

LEMMA CrashStep == EngineInv /\ Crash => EngineInv'
<1> SUFFICES ASSUME EngineInv, Crash PROVE EngineInv' OBVIOUS
<1>1. IndexOK' /\ UNCHANGED world
  BY IndexFrame DEF Crash, EngineInv
<1> QED BY <1>1, ResetStep DEF Crash

LEMMA BeginStep == \A r \in Requests : EngineInv /\ Begin(r) => EngineInv'
<1> SUFFICES ASSUME NEW r \in Requests, EngineInv, Begin(r) PROVE EngineInv' OBVIOUS
<1>1. UNCHANGED <<world, index, sess, cur, before, after, pending, errors, refreshes, stage,
                  stale, kind, tx>>
      /\ pc = "idle" /\ pc' = "scanA" /\ req' = r /\ todo' = Present
  BY DEF Begin, index
<1>2. WorldOK' /\ IndexOK' /\ RefreshOK' /\ StageOK'
  BY <1>1, WorldFrame, IndexFrame, RefreshFrame, StageFrame DEF EngineInv
<1>3. ControlOK'
  BY <1>1, NoneIsNothing DEF EngineInv, ControlOK, Phases
<1>4. ScanOK'
  BY <1>1 DEF EngineInv, ScanOK, Present
<1>5. QueueOK' /\ TxOK'
  BY <1>1 DEF EngineInv, QueueOK, TxOK, TxShape, SessType, CurType
<1> QED BY <1>2, <1>3, <1>4, <1>5 DEF EngineInv

LEMMA ScanStatStep == \A f \in Files : EngineInv /\ ScanStat(f) => EngineInv'
<1> SUFFICES ASSUME NEW f \in Files, EngineInv, ScanStat(f) PROVE EngineInv' OBVIOUS
<1>1. UNCHANGED <<world, index, sess, cur, pc, req, before, after, refreshes, stage, stale,
                  kind, tx>>
      /\ pc \in {"scanA", "scanB"} /\ todo' = todo \ {f} /\ errors' \subseteq errors \union {"scan"}
  BY DEF ScanStat, index
<1>2. WorldOK' /\ IndexOK' /\ RefreshOK' /\ StageOK' /\ TxOK'
  BY <1>1, WorldFrame, IndexFrame, RefreshFrame, StageFrame, TxFrame DEF EngineInv
<1>3. ControlOK' /\ QueueOK'
  BY <1>1 DEF EngineInv, ControlOK, QueueOK, Steps
<1>4. ScanOK'
  <2>1. pending' = pending \/ (raw[f] # NoFile /\ pending' = [path |-> f, stat |-> Stat(raw[f])])
    BY DEF ScanStat
  <2>2. raw[f] # NoFile => Stat(raw[f]) \in Stats
    BY StatOfFile DEF EngineInv, WorldOK
  <2> QED BY <1>1, <2>1, <2>2 DEF EngineInv, ScanOK
<1> QED BY <1>2, <1>3, <1>4 DEF EngineInv

LEMMA AcceptedOfFile == \A c \in RawFile : Accepted(c) \in Accs
BY EmptySeq DEF RawFile, Accepted, Accs

LEMMA ScanReadStep == EngineInv /\ ScanRead => EngineInv'
<1> SUFFICES ASSUME EngineInv, ScanRead PROVE EngineInv' OBVIOUS
<1> DEFINE f      == pending.path
           cached == Cached(f)
           hit    == cached # NoFile /\ cached.stat = pending.stat
           entry  == IF hit THEN [stat |-> pending.stat, acc |-> cached.acc]
                     ELSE IF raw[f] # NoFile /\ Selects(raw[f])
                     THEN [stat |-> pending.stat, acc |-> Accepted(raw[f])]
                     ELSE NoFile
<1>1. UNCHANGED <<world, index, sess, cur, pc, req, todo, refreshes, stage, stale, kind, tx>>
      /\ pending' = NoFile /\ errors' \subseteq errors \union {"scan"}
  BY DEF ScanRead, index
<1>2. f \in Files /\ pending.stat \in Stats
  BY DEF ScanRead, EngineInv, ScanOK
<1>3. entry \in Entry \union {NoFile}
  <2>1. cached # NoFile => cached.acc \in Accs
    BY <1>2 DEF Cached, EngineInv, IndexOK, CurType, ScanOK, Cursor, Entry
  <2>2. raw[f] # NoFile => Accepted(raw[f]) \in Accs
    BY <1>2, AcceptedOfFile DEF EngineInv, WorldOK
  <2> HIDE DEF f, cached
  <2> QED BY <1>2, <2>1, <2>2 DEF Entry
<1>4. \/ pc = "scanA" /\ before' = [before EXCEPT ![f] = entry] /\ after' = after
      \/ pc # "scanA" /\ after' = [after EXCEPT ![f] = entry] /\ before' = before
  BY DEF ScanRead
<1> HIDE DEF f, entry
<1>5. WorldOK' /\ IndexOK' /\ TxOK'
  BY <1>1, WorldFrame, IndexFrame, TxFrame DEF EngineInv
<1>6. ControlOK' /\ ScanOK'
  BY <1>1, <1>2, <1>3, <1>4 DEF EngineInv, ControlOK, ScanOK, Steps
<1>7. CASE pc = "scanA"
  <2>1. stage = <<>> /\ refreshes = {}
    BY <1>7 DEF EngineInv, QueueOK
  <2>2. RefreshOK' /\ StageOK' /\ QueueOK'
    BY <1>1, <1>7, <2>1, EmptySeq DEF RefreshOK, StageOK, QueueOK
  <2> QED BY <1>5, <1>6, <2>2 DEF EngineInv
<1>8. CASE pc # "scanA"
  <2>1. RefreshOK' /\ StageOK' /\ QueueOK'
    BY <1>1, <1>4, <1>8, RefreshFrame, StageFrame, QueueFrame DEF EngineInv
  <2> QED BY <1>5, <1>6, <2>1 DEF EngineInv
<1> QED BY <1>7, <1>8

LEMMA PlanStep == EngineInv /\ PlanProjection => EngineInv'
<1> SUFFICES ASSUME EngineInv, PlanProjection PROVE EngineInv' OBVIOUS
<1> DEFINE changed == {f \in Selected(before) : ~Unchanged(f)}
           touched == {f \in changed : SameBytes(f)}
<1>1. UNCHANGED <<world, index, sess, cur, req, before, after, pending, errors, stage, stale,
                  kind, tx>>
      /\ pc = "scanA" /\ pc' = "project" /\ todo' = changed \ touched
      /\ refreshes' = {[path |-> f, cursor |-> [cur[f] EXCEPT !.stat = before[f].stat]] :
                         f \in touched}
  BY DEF PlanProjection, PhaseDone, index
<1>2. changed \subseteq Files /\ \A f \in changed : before[f] # NoFile
  BY DEF Selected, EngineInv, ScanOK
<1>3. WorldOK' /\ IndexOK' /\ StageOK'
  BY <1>1, WorldFrame, IndexFrame, StageFrame DEF EngineInv
<1>4. ControlOK' /\ ScanOK'
  BY <1>1, <1>2 DEF EngineInv, ControlOK, ScanOK, Phases
<1>5. RefreshOK'
  <2>1. ASSUME NEW f \in touched PROVE
          Restamps([path |-> f, cursor |-> [cur[f] EXCEPT !.stat = before[f].stat]])
    <3>1. cur[f] # NoFile /\ cur[f].stat.size = before[f].stat.size /\ f \in Files
      BY <1>2, <2>1 DEF SameBytes
    <3>2. cur[f] \in Cursor /\ before[f] \in Entry
      BY <1>2, <2>1, <3>1 DEF EngineInv, IndexOK, CurType, ScanOK
    <3>3. [cur[f] EXCEPT !.stat = before[f].stat] \in Cursor
          /\ [cur[f] EXCEPT !.stat = before[f].stat].stat = before[f].stat
      BY <3>2 DEF Cursor, Entry
    <3> QED BY <3>1, <3>3 DEF Restamps
  <2> HIDE DEF touched
  <2> QED BY <1>1, <2>1 DEF RefreshOK, Restamps
<1>6. QueueOK'
  BY <1>1, <1>2 DEF EngineInv, QueueOK
<1>7. TxOK'
  BY <1>1 DEF EngineInv, TxOK, TxShape, SessType, CurType
<1> QED BY <1>3, <1>4, <1>5, <1>6, <1>7 DEF EngineInv

(* A projection goes to the end of the stage.                              *)
LEMMA ProjectFileStep == \A f \in Files : EngineInv /\ ProjectFile(f) => EngineInv'
<1> SUFFICES ASSUME NEW f \in Files, EngineInv, ProjectFile(f) PROVE EngineInv' OBVIOUS
<1>1. UNCHANGED <<world, index, sess, cur, pc, req, before, after, pending, refreshes, stale,
                  kind, tx>>
      /\ pc = "project" /\ f \in todo /\ todo' = todo \ {f}
      /\ errors' \subseteq errors \union {"project"}
  BY DEF ProjectFile, index
<1>2. WorldOK' /\ IndexOK' /\ RefreshOK' /\ TxOK'
  BY <1>1, WorldFrame, IndexFrame, RefreshFrame, TxFrame DEF EngineInv
<1>3. ControlOK' /\ ScanOK'
  BY <1>1 DEF EngineInv, ControlOK, ScanOK, Steps
<1>4. CASE stage' = stage
  <2>1. StageOK' /\ QueueOK'
    BY <1>1, <1>4, StageFrame DEF EngineInv, QueueOK
  <2> QED BY <1>2, <1>3, <2>1 DEF EngineInv
<1>5. CASE raw[f] # NoFile /\ stage' = Append(stage, Project(raw[f], f, before[f], cur[f]))
  <2> DEFINE st == Project(raw[f], f, before[f], cur[f])
  <2>1. before[f] # NoFile /\ \A i \in DOMAIN stage : stage[i].path # f
    BY <1>1 DEF EngineInv, QueueOK
  <2>2. st \in Staging /\ st.path = f /\ Anchored(st, before[f], cur[f])
    <3>1. raw[f] \in RawFile /\ Ended(raw[f]) /\ before[f] \in Entry
          /\ cur[f] \in Cursor \union {NoFile} /\ (cur[f] # NoFile => CursorOK(cur[f]))
      BY <1>5, <2>1 DEF EngineInv, WorldOK, ScanOK, IndexOK, CurType
    <3> QED BY <3>1, ProjectAnchored
  <2> HIDE DEF st
  <2>3. stage \in Seq(Staging) /\ stage' = Append(stage, st)
    BY <1>5 DEF st, EngineInv, StageOK
  <2>4. /\ stage' \in Seq(Staging) /\ DOMAIN stage' = 1..Len(stage) + 1
        /\ DOMAIN stage = 1..Len(stage) /\ Len(stage) \in Nat
        /\ \A i \in 1..Len(stage) : stage'[i] = stage[i]
        /\ stage'[Len(stage) + 1] = st
    BY <2>2, <2>3, AppendProperties, LenProperties
  <2>5. StageOK'
    BY <1>1, <2>1, <2>2, <2>4 DEF EngineInv, StageOK
  <2>6. QueueOK'
    BY <1>1, <2>2, <2>4 DEF EngineInv, QueueOK
  <2> QED BY <1>2, <1>3, <2>5, <2>6 DEF EngineInv
<1> QED BY <1>4, <1>5 DEF ProjectFile

LEMMA RescanStep == EngineInv /\ Rescan => EngineInv'
<1> SUFFICES ASSUME EngineInv, Rescan PROVE EngineInv' OBVIOUS
<1>1. UNCHANGED <<world, index, sess, cur, req, before, after, pending, errors, refreshes,
                  stage, stale, kind, tx>>
      /\ pc = "project" /\ pc' = "scanB" /\ todo' = Present
  BY DEF Rescan, PhaseDone, index
<1>2. WorldOK' /\ IndexOK' /\ RefreshOK' /\ StageOK'
  BY <1>1, WorldFrame, IndexFrame, RefreshFrame, StageFrame DEF EngineInv
<1>3. ControlOK' /\ ScanOK' /\ QueueOK'
  BY <1>1 DEF EngineInv, ControlOK, ScanOK, QueueOK, Phases, Present
<1>4. TxOK'
  BY <1>1 DEF EngineInv, TxOK, TxShape, SessType, CurType
<1> QED BY <1>2, <1>3, <1>4 DEF EngineInv

(* Some projections get another fate, and nothing else about them changes. *)
Demotes(why) ==
  /\ DOMAIN stage' = DOMAIN stage
  /\ stage' = [i \in DOMAIN stage |-> stage'[i]]
  /\ \A i \in DOMAIN stage : stage'[i] \in {stage[i], [stage[i] EXCEPT !.fate = why]}

LEMMA DemotedEntry ==
  ASSUME NEW why \in {"invalid", "duplicate", "deferred"}, StageOK, Demotes(why),
         NEW i \in DOMAIN stage
  PROVE  /\ stage[i] \in Staging /\ stage'[i] \in Staging
         /\ stage'[i].path = stage[i].path /\ stage'[i].sid = stage[i].sid
         /\ stage'[i].boundary = stage[i].boundary /\ stage'[i].indexed = stage[i].indexed
         /\ stage'[i].docs = stage[i].docs /\ stage'[i].mode = stage[i].mode
         /\ stage'[i].fate = "staged" => stage'[i] = stage[i]
<1>1. stage[i] \in Staging
  BY LenProperties, ElementOfSeq DEF StageOK
<1> QED BY <1>1 DEF Demotes, Staging

LEMMA DemoteStage ==
  ASSUME NEW why \in {"invalid", "duplicate", "deferred"}, StageOK, Demotes(why),
         UNCHANGED <<cur, before>>
  PROVE  StageOK'
<1>1. stage \in Seq(Staging) /\ Len(stage) \in Nat /\ DOMAIN stage = 1..Len(stage)
  BY LenProperties DEF StageOK
<1>2. stage' \in Seq(Staging)
  <2>1. stage' \in [1..Len(stage) -> Staging]
    BY <1>1, DemotedEntry DEF Demotes
  <2> QED BY <1>1, <2>1, SeqDef
<1>3. DOMAIN stage' = DOMAIN stage
  BY DEF Demotes
<1>4. ASSUME NEW i \in DOMAIN stage
      PROVE  /\ before'[stage'[i].path] # NoFile
             /\ Anchored(stage'[i], before'[stage'[i].path], cur'[stage'[i].path])
  <2>1. before[stage[i].path] # NoFile
        /\ Anchored(stage[i], before[stage[i].path], cur[stage[i].path])
    BY <1>4 DEF StageOK
  <2> QED BY <1>4, <2>1, DemotedEntry DEF Anchored
<1>5. \A i, j \in DOMAIN stage : stage'[i].path = stage'[j].path => i = j
  BY DemotedEntry DEF StageOK
<1> QED BY <1>2, <1>3, <1>4, <1>5 DEF StageOK

(* The steps of the judgement.                                             *)
LEMMA JudgeStep ==
  ASSUME EngineInv, NEW why \in {"invalid", "duplicate", "deferred"}, Demotes(why),
         pc \notin {"idle", "apply", "commit"},
         pc' \in {"resolve", "classify", "open"},
         UNCHANGED <<world, index, req, before, after, todo, pending, tx>>,
         errors' \subseteq errors \union Steps, stale' \subseteq Moves, kind' \in Kinds,
         refreshes' \subseteq refreshes
  PROVE  EngineInv'
<1>1. UNCHANGED <<sess, cur>>
  BY DEF index
<1>2. WorldOK' /\ IndexOK' /\ ScanOK'
  BY WorldFrame, IndexFrame, ScanFrame DEF EngineInv
<1>3. StageOK'
  BY <1>1, DemoteStage DEF EngineInv
<1>4. RefreshOK'
  BY <1>1 DEF EngineInv, RefreshOK, Restamps
<1>5. ControlOK' /\ QueueOK'
  BY DEF EngineInv, ControlOK, QueueOK, Phases
<1>6. TxOK'
  BY DEF EngineInv, TxOK
<1> QED BY <1>2, <1>3, <1>4, <1>5, <1>6 DEF EngineInv

LEMMA ClassifyKinds ==
  \A b, a, projected, proven :
    Classify(b, a, projected, proven).kind \in {"stable", "appendOnly", "deferred", "rejected"}
BY DEF Classify

LEMMA ValidateStep ==
  ASSUME EngineInv, Validate
  PROVE  EngineInv' /\ Demotes("invalid")
<1>1. Demotes("invalid")
  BY DEF Validate, Refuse, Demotes
<1>2. UNCHANGED <<world, index, req, before, after, todo, pending, refreshes, stale, kind, tx>>
      /\ pc = "scanB" /\ pc' = "resolve" /\ errors' \subseteq errors \union {"stage"}
  BY DEF Validate, PhaseDone
<1> QED BY <1>1, <1>2, JudgeStep DEF EngineInv, ControlOK, Steps

(* What a staged projection is made of.                                    *)
LEMMA StagedEntry ==
  ASSUME StageOK, NEW i \in DOMAIN stage
  PROVE  stage[i] \in Staging /\ stage[i].path \in Files
<1>1. stage[i] \in Staging
  BY LenProperties, ElementOfSeq DEF StageOK
<1> QED BY <1>1 DEF Staging

LEMMA ResolveStep ==
  ASSUME EngineInv, ResolveMoves
  PROVE  EngineInv' /\ Demotes("duplicate")
<1>1. Demotes("duplicate")
  BY DEF ResolveMoves, Refuse, Demotes
<1>2. UNCHANGED <<world, index, req, before, after, todo, pending, refreshes, kind, tx>>
      /\ pc = "resolve" /\ pc' = "classify" /\ errors' \subseteq errors \union {"moves"}
  BY DEF ResolveMoves, PhaseDone
<1>3. stale' \subseteq Moves
  BY StagedEntry DEF ResolveMoves, Candidates, Bindings, Moves, EngineInv
<1> QED BY <1>1, <1>2, <1>3, JudgeStep DEF EngineInv, ControlOK, Steps

LEMMA ClassifyStep ==
  ASSUME EngineInv, ClassifySnapshots
  PROVE  EngineInv' /\ Demotes("deferred")
<1>1. Demotes("deferred")
  BY DEF ClassifySnapshots, Refuse, Demotes
<1>2. UNCHANGED <<world, index, req, before, after, todo, pending, stale, tx>>
      /\ pc = "classify" /\ pc' = "open" /\ errors' \subseteq errors \union {"selector"}
      /\ refreshes' \subseteq refreshes
  BY DEF ClassifySnapshots, PhaseDone
<1>3. kind' \in Kinds
  BY ClassifyKinds DEF ClassifySnapshots, Kinds
<1> QED BY <1>1, <1>2, <1>3, JudgeStep DEF EngineInv, ControlOK, Steps

(* The statements of the transaction, on any state of the two tables.      *)
LEMMA DropSessionsShape ==
  ASSUME NEW x, TxShape(x), NEW S
  PROVE  TxShape(DropSessions(x, S))
BY DEF TxShape, SessType, CurType, DropSessions

LEMMA DropCursorsShape ==
  ASSUME NEW x, TxShape(x), NEW F
  PROVE  TxShape(DropCursors(x, F)) /\ DropCursors(x, F).sess = x.sess
<1>1. x = [sess |-> x.sess, cur |-> x.cur]
  BY DEF TxShape
<1>2. DropCursors(x, F) =
        [sess |-> x.sess, cur |-> [f \in Files |-> IF f \in F THEN NoFile ELSE x.cur[f]]]
  BY <1>1 DEF DropCursors
<1> QED BY <1>2 DEF TxShape, SessType, CurType

LEMMA CursorOfShape ==
  ASSUME ScanOK, NEW st \in Staging, before[st.path] # NoFile,
         Anchored(st, before[st.path], cur[st.path]), NEW sid, sid = st.sid
  PROVE  CursorOf(st, sid) \in Cursor /\ CursorOK(CursorOf(st, sid))
<1>1. before[st.path] \in Entry /\ st.path \in Files
  BY DEF ScanOK, Staging
<1> QED BY <1>1 DEF CursorOf, Cursor, CursorOK, Anchored, Staging, Entry

LEMMA PutSessionShape ==
  ASSUME NEW x, TxShape(x), ScanOK, NEW st \in Staging, before[st.path] # NoFile,
         Anchored(st, before[st.path], cur[st.path]), NEW ms \in Seq(Records)
  PROVE  TxShape(PutSession(x, st, ms))
<1>1. CursorOf(st, st.sid) \in Cursor /\ CursorOK(CursorOf(st, st.sid))
  BY CursorOfShape
<1>2. [path |-> st.path, msgs |-> ms] \in Row
  BY DEF Row, Staging
<1> QED BY <1>1, <1>2 DEF TxShape, SessType, CurType, PutSession

LEMMA OpenStep == EngineInv /\ OpenTransaction => EngineInv'
<1> SUFFICES ASSUME EngineInv, OpenTransaction PROVE EngineInv' OBVIOUS
<1> DEFINE kept == DropCursors([sess |-> sess, cur |-> cur], Abandoned)
           Restamped(f) == {r \in refreshes : r.path = f}
           now == [f \in Files |-> IF Restamped(f) = {} THEN kept.cur[f]
                                   ELSE (CHOOSE r \in Restamped(f) : TRUE).cursor]
<1>1. UNCHANGED <<world, index, sess, cur, req, before, after, todo, pending, errors, refreshes,
                  stage, stale, kind>>
      /\ pc = "open" /\ pc' = "apply" /\ tx' = [kept EXCEPT !.cur = now]
  BY DEF OpenTransaction, PhaseDone, index
<1>2. WorldOK' /\ IndexOK' /\ ScanOK' /\ RefreshOK' /\ StageOK'
  BY <1>1, WorldFrame, IndexFrame, ScanFrame, RefreshFrame, StageFrame DEF EngineInv
<1>3. ControlOK' /\ QueueOK'
  BY <1>1 DEF EngineInv, ControlOK, QueueOK, Phases
<1>4. TxShape(kept)
  <2>1. TxShape([sess |-> sess, cur |-> cur])
    BY DEF TxShape, EngineInv, IndexOK
  <2> QED BY <2>1, DropCursorsShape
<1>5. \A f \in Files : now[f] # NoFile => now[f] \in Cursor /\ CursorOK(now[f])
  <2> SUFFICES ASSUME NEW f \in Files, now[f] # NoFile
               PROVE  now[f] \in Cursor /\ CursorOK(now[f])
    OBVIOUS
  <2>1. CASE Restamped(f) = {}
    BY <1>4, <2>1 DEF TxShape, CurType
  <2>2. CASE Restamped(f) # {}
    <3> DEFINE r == CHOOSE r \in Restamped(f) : TRUE
    <3>1. r \in refreshes /\ now[f] = r.cursor
      BY <2>2
    <3> HIDE DEF r, now
    <3>2. Restamps(r)
      BY <3>1 DEF EngineInv, RefreshOK
    <3>3. cur[r.path] \in Cursor /\ CursorOK(cur[r.path])
      BY <3>2 DEF Restamps, EngineInv, IndexOK, CurType
    <3> QED BY <3>1, <3>2, <3>3 DEF Restamps, CursorOK, Cursor
  <2> QED BY <2>1, <2>2
<1>6. TxShape(tx') /\ tx' # NoTx
  <2> HIDE DEF kept
  <2>1. tx' = [sess |-> kept.sess, cur |-> now] /\ SessType(kept.sess)
    BY <1>1, <1>4 DEF TxShape
  <2>2. CurType(now)
    BY <1>5 DEF CurType
  <2> HIDE DEF now
  <2>3. TxShape(tx')
    BY <2>1, <2>2 DEF TxShape
  <2> QED BY <2>1, <2>2, <2>3, NoneIsNothing
<1>7. TxOK'
  BY <1>1, <1>6 DEF TxOK, TxShape
<1> QED BY <1>2, <1>3, <1>7 DEF EngineInv

(* The rest of the stage.                                                  *)
LEMMA TailOfStage ==
  ASSUME StageOK, stage # <<>>
  PROVE  /\ Head(stage) = stage[1] /\ 1 \in DOMAIN stage
         /\ Tail(stage) \in Seq(Staging)
         /\ DOMAIN Tail(stage) = 1..Len(stage) - 1 /\ DOMAIN stage = 1..Len(stage)
         /\ Len(stage) \in Nat \ {0}
         /\ \A i \in DOMAIN Tail(stage) : i + 1 \in DOMAIN stage /\ Tail(stage)[i] = stage[i + 1]
<1>1. stage \in Seq(Staging)
  BY DEF StageOK
<1>2. Len(stage) \in Nat \ {0} /\ DOMAIN stage = 1..Len(stage)
  BY <1>1, EmptySeq, LenProperties
<1>3. /\ Tail(stage) \in Seq(Staging) /\ Len(Tail(stage)) = Len(stage) - 1
      /\ \A i \in 1..Len(Tail(stage)) : Tail(stage)[i] = stage[i + 1]
  BY <1>1, HeadTailProperties
<1>4. DOMAIN Tail(stage) = 1..Len(stage) - 1
  BY <1>3, LenProperties
<1> QED BY <1>1, <1>2, <1>3, <1>4

LEMMA ApplyNextStep ==
  ASSUME EngineInv, NEW ok, NEW newTx, ApplyNext(ok, newTx), ok => TxShape(newTx)
  PROVE  EngineInv'
<1>1. UNCHANGED <<world, index, sess, cur, pc, req, before, after, todo, pending, refreshes,
                  stale, kind>>
      /\ pc = "apply" /\ stage # <<>> /\ stage' = Tail(stage)
  BY DEF ApplyNext, PhaseDone, index
<1>2. WorldOK' /\ IndexOK' /\ ScanOK' /\ RefreshOK'
  BY <1>1, WorldFrame, IndexFrame, ScanFrame, RefreshFrame DEF EngineInv
<1>3. ControlOK' /\ QueueOK'
  BY <1>1 DEF ApplyNext, EngineInv, ControlOK, QueueOK, Steps
<1>4. StageOK'
  <2>1. StageOK
    BY DEF EngineInv
  <2> HIDE DEF EngineInv
  <2>2. stage' \in Seq(Staging)
    BY <1>1, <2>1, TailOfStage DEF StageOK
  <2>3. \A i \in DOMAIN stage' : i + 1 \in DOMAIN stage /\ stage'[i] = stage[i + 1] /\ i \in Int
    BY <1>1, <2>1, TailOfStage
  <2> QED BY <1>1, <2>1, <2>2, <2>3 DEF StageOK
<1>5. TxOK'
  <2>1. tx # NoTx /\ TxShape(tx)
    BY <1>1 DEF EngineInv, TxOK
  <2>2. tx' # NoTx /\ TxShape(tx')
    <3>1. CASE ok
      <4>1. tx' = newTx /\ TxShape(newTx)
        BY <3>1 DEF ApplyNext
      <4>2. newTx # NoTx
        BY <4>1, NoneIsNothing DEF TxShape
      <4> QED BY <4>1, <4>2 DEF TxShape
    <3>2. CASE ~ok
      BY <2>1, <3>2 DEF ApplyNext
    <3> QED BY <3>1, <3>2
  <2> QED BY <1>1, <2>2 DEF TxOK
<1> QED BY <1>2, <1>3, <1>4, <1>5 DEF EngineInv

(* The first of the stage, as the transaction sees it.                     *)
LEMMA HeadOfStage ==
  ASSUME EngineInv, PhaseDone("apply"), stage # <<>>
  PROVE  /\ Head(stage) \in Staging /\ Head(stage).path \in Files
         /\ before[Head(stage).path] # NoFile
         /\ Anchored(Head(stage), before[Head(stage).path], cur[Head(stage).path])
         /\ TxShape(tx) /\ ScanOK
<1>1. Head(stage) = stage[1] /\ 1 \in DOMAIN stage
  BY TailOfStage DEF EngineInv
<1>2. TxShape(tx) /\ ScanOK
  BY DEF EngineInv, TxOK, PhaseDone
<1> QED BY <1>1, <1>2, StagedEntry DEF EngineInv, StageOK

LEMMA ApplyStep == EngineInv /\ Apply => EngineInv'
<1> SUFFICES ASSUME EngineInv, Apply PROVE EngineInv' OBVIOUS
<1> DEFINE st == Head(stage)
<1>1. stage # <<>> /\ PhaseDone("apply")
  BY DEF Apply, ApplyRefused, ApplyEmpty, ApplyFull, ApplyDelta, ApplyNext
<1>2. /\ st \in Staging /\ st.path \in Files /\ before[st.path] # NoFile
      /\ Anchored(st, before[st.path], cur[st.path]) /\ TxShape(tx) /\ ScanOK
      /\ st.docs \in Seq(Records) /\ st.sid \in Sids \union {NoSid}
  BY <1>1, HeadOfStage DEF Staging
<1> HIDE DEF st
<1>3. CASE ApplyRefused
  BY <1>2, <1>3, ApplyNextStep DEF ApplyRefused
<1>4. CASE ApplyEmpty
  <2> DEFINE x == DropSessions(tx, SessionsAt(tx, st.path))
             y == [x EXCEPT !.cur[st.path] = CursorOf(st, NoSid)]
  <2>1. st.boundary.recs = <<>> /\ ApplyNext(TRUE, y)
    BY <1>4 DEF ApplyEmpty, st
  <2>2. CursorOf(st, NoSid) \in Cursor /\ CursorOK(CursorOf(st, NoSid))
    <3>1. st.sid = NoSid
      BY <1>2, <2>1 DEF Anchored
    <3> QED BY <1>2, <3>1, CursorOfShape
  <2>3. TxShape(x)
    BY <1>2, DropSessionsShape
  <2>4. TxShape(y)
    <3> HIDE DEF x
    <3> QED BY <1>2, <2>2, <2>3 DEF TxShape, CurType
  <2> QED BY <2>1, <2>4, ApplyNextStep
<1>5. CASE ApplyFull
  <2> DEFINE prior == cur[st.path]
             x == IF prior # NoFile /\ prior.sid \notin {NoSid, st.sid}
                  THEN DropSessions(tx, SessionsAt(tx, st.path)) ELSE tx
  <2>1. ApplyNext(~Conflict(x, st), PutSession(x, st, st.docs))
    BY <1>5 DEF ApplyFull, st
  <2>2. TxShape(x)
    BY <1>2, DropSessionsShape
  <2>3. TxShape(PutSession(x, st, st.docs))
    <3> HIDE DEF x
    <3> QED BY <1>2, <2>2, PutSessionShape
  <2> QED BY <2>1, <2>3, ApplyNextStep
<1>6. CASE ApplyDelta
  <2> DEFINE prior == cur[st.path]
             first == prior.sid = NoSid /\ NextSeq(prior) = 0
             row   == tx.sess[st.sid]
             base  == IF first \/ row = NoSession THEN <<>> ELSE row.msgs
             fits  == first \/ (/\ prior.sid = st.sid
                                /\ row # NoSession
                                /\ Len(base) = NextSeq(prior))
  <2>1. ApplyNext(fits /\ ~Conflict(tx, st), PutSession(tx, st, base \o st.docs))
        /\ st.boundary.recs # <<>>
    BY <1>6 DEF ApplyDelta, st
  <2>2. st.sid \in Sids
    BY <1>2, <2>1 DEF Anchored
  <2>3. base \in Seq(Records)
    BY <1>2, <2>2, EmptySeq DEF TxShape, SessType, Row
  <2>4. TxShape(PutSession(tx, st, base \o st.docs))
    <3> HIDE DEF base
    <3>1. base \o st.docs \in Seq(Records)
      BY <1>2, <2>3, ConcatProperties
    <3> QED BY <1>2, <3>1, PutSessionShape
  <2> HIDE DEF fits, base
  <2> QED BY <2>1, <2>4, ApplyNextStep
<1> QED BY <1>3, <1>4, <1>5, <1>6 DEF Apply

LEMMA PrunedShape ==
  ASSUME NEW x, TxShape(x)
  PROVE  TxShape(Pruned(x))
BY DropSessionsShape, DropCursorsShape DEF Pruned

LEMMA PruneStep == EngineInv /\ Prune => EngineInv'
<1> SUFFICES ASSUME EngineInv, Prune PROVE EngineInv' OBVIOUS
<1>1. UNCHANGED <<world, index, sess, cur, req, before, after, todo, pending, errors, refreshes,
                  stage, stale, kind>>
      /\ pc = "apply" /\ pc' = "commit" /\ tx' \in {tx, Pruned(tx)}
  BY DEF Prune, PhaseDone, index
<1>2. WorldOK' /\ IndexOK' /\ ScanOK' /\ RefreshOK' /\ StageOK'
  BY <1>1, WorldFrame, IndexFrame, ScanFrame, RefreshFrame, StageFrame DEF EngineInv
<1>3. ControlOK' /\ QueueOK'
  BY <1>1 DEF EngineInv, ControlOK, QueueOK, Phases
<1>4. TxOK'
  <2>1. TxShape(tx)
    BY <1>1 DEF EngineInv, TxOK
  <2>2. TxShape(tx')
    BY <1>1, <2>1, PrunedShape DEF TxShape
  <2> QED BY <1>1, <2>2, NoneIsNothing DEF TxOK, TxShape
<1> QED BY <1>2, <1>3, <1>4 DEF EngineInv

LEMMA CommitStep == EngineInv /\ Commit => EngineInv'
<1> SUFFICES ASSUME EngineInv, Commit PROVE EngineInv' OBVIOUS
<1>1. CASE CursorsFit(tx)
  <2>1. sess' = tx.sess /\ cur' = tx.cur /\ cov' = Proof /\ ResetRun /\ UNCHANGED world
    BY <1>1 DEF Commit
  <2>2. TxShape(tx)
    BY DEF Commit, PhaseDone, EngineInv, TxOK
  <2>3. Proof = NoProof \/ Proof \in [Selected(before) -> Accs]
    BY DEF Proof, Selected, EngineInv, ScanOK, Entry
  <2>4. Selected(before) \in SUBSET Files
    BY DEF Selected, EngineInv, ScanOK
  <2>5. IndexOK'
    BY <2>1, <2>2, <2>3, <2>4 DEF IndexOK, TxShape, SessType, CurType
  <2> QED BY <2>1, <2>5, ResetStep
<1>2. CASE ~CursorsFit(tx)
  BY <1>2, FailStep DEF Commit
<1> QED BY <1>1, <1>2

LEMMA StutterStep == EngineInv /\ UNCHANGED vars => EngineInv'
BY WorldFrame, IndexFrame, ControlFrame, ScanFrame, RefreshFrame, StageFrame, TxFrame,
   QueueFrame DEF vars, run, index, EngineInv

LEMMA NextEngine == EngineInv /\ [Next]_vars => EngineInv'
<1> SUFFICES ASSUME EngineInv, [Next]_vars PROVE EngineInv' OBVIOUS
<1>1. CASE AgentStep
  BY <1>1, AgentWorld, WorldStep DEF AgentStep, EngineInv
<1>2. CASE \E r \in Requests : Begin(r)
  BY <1>2, BeginStep
<1>3. CASE SyncStep
  <2>1. CASE Scan
    BY <2>1, ScanStatStep, ScanReadStep DEF Scan
  <2>2. CASE ProjectOne
    BY <2>2, ProjectFileStep DEF ProjectOne
  <2>3. CASE GiveUp
    BY <2>3, FailStep DEF GiveUp
  <2> QED BY <1>3, <2>1, <2>2, <2>3, PlanStep, RescanStep, ValidateStep, ResolveStep,
             ClassifyStep, OpenStep, ApplyStep, PruneStep, CommitStep DEF SyncStep
<1>4. CASE IoError
  BY <1>4, FailStep DEF IoError
<1>5. CASE Crash
  BY <1>5, CrashStep
<1>6. CASE UNCHANGED vars
  BY <1>6, StutterStep
<1> QED BY <1>1, <1>2, <1>3, <1>4, <1>5, <1>6 DEF Next

LEMMA SpecEngine == Spec => []EngineInv
BY InitEngine, NextEngine, PTL DEF Spec

(* Every variable keeps its shape, a cursor ends within its file, and an   *)
(* idle engine holds nothing of a run.                                     *)
THEOREM SpecTypeOK == Spec => []TypeOK
BY SpecEngine, EngineInvType, PTL

-----------------------------------------------------------------------------
(* Every cursor that names a session describes it, and no two sessions     *)
(* share a file.  x is [sess, cur].                                        *)
Described(x) ==
  \A f \in Files :
    x.cur[f] # NoFile /\ x.cur[f].sid # NoSid =>
      x.sess[x.cur[f].sid] = [path |-> f, msgs |-> x.cur[f].boundary.recs]

OneEach(x) ==
  \A s, t \in Sids :
    /\ x.sess[s] # NoSession /\ x.sess[t] # NoSession
    /\ x.sess[s].path = x.sess[t].path
    => s = t

Consistent(x) == Described(x) /\ OneEach(x)

Now == [sess |-> sess, cur |-> cur]

(* Staged, with a session to write.                                        *)
Writes(i) == stage[i].fate = "staged" /\ stage[i].boundary.recs # <<>>

Distinct == \A i, j \in DOMAIN stage :
              Writes(i) /\ Writes(j) /\ stage[i].sid = stage[j].sid => i = j

(* Once the moves are resolved no two projections write one session, and   *)
(* every other path that the index has for it is to be left.               *)
MovesOK ==
  pc \in {"classify", "open"} =>
    /\ Distinct
    /\ \A i \in DOMAIN stage :
         Writes(i) => \A f \in Bindings(stage[i].sid) \ {stage[i].path} :
                        [new |-> stage[i].path, old |-> f] \in stale

(* In the transaction nobody but its own path names a session that is yet  *)
(* to be written, and it is as it was, or gone.                            *)
ApplyOK ==
  pc = "apply" =>
    /\ Distinct
    /\ \A i \in DOMAIN stage :
         Writes(i) =>
           /\ \A g \in Files \ {stage[i].path} :
                tx.cur[g] # NoFile => tx.cur[g].sid # stage[i].sid
           /\ tx.sess[stage[i].sid] \in {sess[stage[i].sid], NoSession}

ReplayInv == /\ EngineInv
             /\ Consistent(Now)
             /\ MovesOK /\ ApplyOK
             /\ tx # NoTx => Consistent(tx)

(* y has nothing that x does not have.                                     *)
Fewer(x, y) ==
  /\ \A s \in Sids : y.sess[s] \in {x.sess[s], NoSession}
  /\ \A f \in Files : y.cur[f] \in {x.cur[f], NoFile}

LEMMA DropSessionsConsistent ==
  ASSUME NEW x, TxShape(x), Consistent(x), NEW S
  PROVE  Consistent(DropSessions(x, S)) /\ Fewer(x, DropSessions(x, S))
<1> DEFINE y == DropSessions(x, S)
<1>1. /\ \A s \in Sids : y.sess[s] = IF s \in S THEN NoSession ELSE x.sess[s]
      /\ \A f \in Files : y.cur[f] = IF x.cur[f] # NoFile /\ x.cur[f].sid \in S
                                     THEN NoFile ELSE x.cur[f]
  BY DEF DropSessions
<1> HIDE DEF y
<1>2. Fewer(x, y)
  BY <1>1 DEF Fewer
<1>3. Described(y)
  <2> SUFFICES ASSUME NEW f \in Files, y.cur[f] # NoFile, y.cur[f].sid # NoSid
               PROVE  y.sess[y.cur[f].sid] = [path |-> f, msgs |-> y.cur[f].boundary.recs]
    BY DEF Described
  <2>1. y.cur[f] = x.cur[f] /\ y.cur[f].sid \notin S /\ y.cur[f].sid \in Sids
    BY <1>1 DEF TxShape, CurType, Cursor
  <2>2. x.sess[x.cur[f].sid] = [path |-> f, msgs |-> x.cur[f].boundary.recs]
    BY <2>1 DEF Consistent, Described
  <2> QED BY <1>1, <2>1, <2>2
<1>4. OneEach(y)
  BY <1>1 DEF Consistent, OneEach
<1> QED BY <1>2, <1>3, <1>4 DEF Consistent, y

LEMMA DropCursorsConsistent ==
  ASSUME NEW x, TxShape(x), Consistent(x), NEW F
  PROVE  Consistent(DropCursors(x, F)) /\ Fewer(x, DropCursors(x, F))
<1> DEFINE y == DropCursors(x, F)
<1>1. /\ y.sess = x.sess
      /\ \A f \in Files : y.cur[f] = IF f \in F THEN NoFile ELSE x.cur[f]
  <2>1. y.sess = x.sess /\ x = [sess |-> x.sess, cur |-> x.cur]
    BY DropCursorsShape DEF TxShape
  <2>2. y.cur = [f \in Files |-> IF f \in F THEN NoFile ELSE x.cur[f]]
    BY <2>1 DEF DropCursors
  <2> QED BY <2>1, <2>2
<1> HIDE DEF y
<1> QED BY <1>1 DEF Fewer, Consistent, Described, OneEach, y

(* Writing a session leaves the tables consistent when its path is free of *)
(* others and its name stands at no other path.                            *)
LEMMA PutConsistent ==
  ASSUME NEW x, TxShape(x), Consistent(x), NEW st \in Staging, st.sid \in Sids,
         st.sid = st.boundary.sid, ~Conflict(x, st),
         \A g \in Files \ {st.path} : x.cur[g] # NoFile => x.cur[g].sid # st.sid,
         NEW ms, ms = st.boundary.recs
  PROVE  Consistent(PutSession(x, st, ms))
<1> DEFINE y == PutSession(x, st, ms)
           p == st.path
<1>0. p \in Files
  BY DEF Staging
<1>1. /\ \A s \in Sids : y.sess[s] = IF s = st.sid THEN [path |-> p, msgs |-> ms] ELSE x.sess[s]
      /\ \A f \in Files : y.cur[f] = IF f = p THEN CursorOf(st, st.sid) ELSE x.cur[f]
  BY <1>0 DEF PutSession, TxShape, SessType, CurType
<1>2. CursorOf(st, st.sid).sid = st.sid /\ CursorOf(st, st.sid).boundary = st.boundary
  BY DEF CursorOf
<1> HIDE DEF y
<1>3. Described(y)
  <2> SUFFICES ASSUME NEW f \in Files, y.cur[f] # NoFile, y.cur[f].sid # NoSid
               PROVE  y.sess[y.cur[f].sid] = [path |-> f, msgs |-> y.cur[f].boundary.recs]
    BY DEF Described
  <2>1. CASE f = p
    BY <1>1, <1>2, <2>1
  <2>2. CASE f # p
    <3>1. y.cur[f] = x.cur[f] /\ x.cur[f].sid # st.sid /\ x.cur[f].sid \in Sids
      BY <1>1, <2>2 DEF TxShape, CurType, Cursor
    <3>2. x.sess[x.cur[f].sid] = [path |-> f, msgs |-> x.cur[f].boundary.recs]
      BY <3>1 DEF Consistent, Described
    <3> QED BY <1>1, <3>1, <3>2
  <2> QED BY <2>1, <2>2
<1>4. OneEach(y)
  <2>1. \A s \in Sids : x.sess[s] # NoSession /\ x.sess[s].path = p => s = st.sid
    BY DEF Conflict, SessionsAt
  <2>2. [path |-> p, msgs |-> ms].path = p
    OBVIOUS
  <2> HIDE DEF p
  <2> QED BY <1>1, <2>1, <2>2 DEF Consistent, OneEach
<1> QED BY <1>3, <1>4 DEF Consistent, y

(* The steps that come before the transaction leave both tables alone, and *)
(* a demoted projection writes nothing.                                    *)
LEMMA QuietConsistent ==
  ASSUME ReplayInv, EngineInv', UNCHANGED <<sess, cur>>, MovesOK',
         pc' \notin {"apply", "commit"}
  PROVE  ReplayInv'
BY DEF ReplayInv, ApplyOK, Consistent, Described, OneEach, Now, EngineInv, TxOK

LEMMA FrameConsistent ==
  ASSUME ReplayInv, EngineInv', UNCHANGED <<sess, cur, pc, stage, stale, tx>>
  PROVE  ReplayInv'
BY DEF ReplayInv, MovesOK, ApplyOK, Distinct, Writes, Bindings, Consistent, Described,
       OneEach, Now

LEMMA ResetConsistent ==
  ASSUME ReplayInv, EngineInv', ResetRun, UNCHANGED <<sess, cur>>
  PROVE  ReplayInv'
BY QuietConsistent DEF ResetRun, MovesOK

LEMMA FailConsistent == ReplayInv /\ EngineInv' /\ FailSync => ReplayInv'
BY ResetConsistent DEF FailSync

(* What Duplicate refuses, and what it leaves.                             *)
LEMMA ResolveConsistent == ReplayInv /\ EngineInv' /\ ResolveMoves => ReplayInv'
<1> SUFFICES ASSUME ReplayInv, EngineInv', ResolveMoves PROVE ReplayInv' OBVIOUS
<1>1. UNCHANGED <<sess, cur>> /\ pc' = "classify" /\ StageOK /\ Demotes("duplicate")
  BY ResolveStep DEF ResolveMoves, index, ReplayInv, EngineInv
<1>2. \A i \in DOMAIN stage :
        stage'[i] = IF Duplicate(stage[i]) THEN [stage[i] EXCEPT !.fate = "duplicate"]
                    ELSE stage[i]
  BY DEF ResolveMoves, Refuse
<1>3. DOMAIN stage' = DOMAIN stage
  BY <1>1 DEF Demotes
<1>4. ASSUME NEW i \in DOMAIN stage, Writes(i)'
      PROVE  /\ stage'[i] = stage[i] /\ Writes(i) /\ ~Duplicate(stage[i])
             /\ stage[i] \in Candidates
  <2>1. stage'[i].fate = "staged" /\ stage'[i].boundary.recs # <<>>
    BY <1>4 DEF Writes
  <2>2. stage'[i] = stage[i]
    BY <1>1, <1>4, <2>1, DemotedEntry
  <2>3. ~Duplicate(stage[i])
    <3>1. stage[i] \in Staging
      BY <1>1, StagedEntry
    <3>2. [stage[i] EXCEPT !.fate = "duplicate"].fate = "duplicate"
      BY <3>1 DEF Staging
    <3> QED BY <1>2, <2>1, <3>2
  <2> QED BY <2>1, <2>2, <2>3 DEF Writes, Candidates
<1>5. Distinct'
  <2> SUFFICES ASSUME NEW i \in DOMAIN stage, NEW j \in DOMAIN stage, Writes(i)', Writes(j)',
                      stage'[i].sid = stage'[j].sid
               PROVE  i = j
    BY <1>3 DEF Distinct
  <2>1. /\ stage[i] \in Candidates /\ stage[j] \in Candidates /\ ~Duplicate(stage[i])
        /\ stage[i].sid = stage[j].sid
    BY <1>4
  <2>2. stage[i].path = stage[j].path
    BY <2>1 DEF Duplicate
  <2> QED BY <1>1, <2>2 DEF StageOK
<1>6. ASSUME NEW i \in DOMAIN stage, Writes(i)',
             NEW f \in Files \ {stage'[i].path},
             \/ sess'[stage'[i].sid] # NoSession /\ sess'[stage'[i].sid].path = f
             \/ cur'[f] # NoFile /\ cur'[f].sid = stage'[i].sid
      PROVE  [new |-> stage'[i].path, old |-> f] \in stale'
  <2>1. stage'[i] = stage[i] /\ stage[i] \in Candidates /\ ~Duplicate(stage[i])
    BY <1>4, <1>6
  <2>2. f \in Bindings(stage[i].sid) \ {stage[i].path}
    BY <1>1, <1>6, <2>1 DEF Bindings
  <2> QED BY <2>1, <2>2 DEF ResolveMoves
<1>7. MovesOK'
  <2>1. DOMAIN stage' = DOMAIN stage
    BY <1>3
  <2> QED BY <2>1, <1>5, <1>6 DEF MovesOK, Bindings
<1> QED BY <1>1, <1>7, QuietConsistent

LEMMA ClassifyConsistent == ReplayInv /\ EngineInv' /\ ClassifySnapshots => ReplayInv'
<1> SUFFICES ASSUME ReplayInv, EngineInv', ClassifySnapshots PROVE ReplayInv' OBVIOUS
<1>1. /\ UNCHANGED <<sess, cur, stale>> /\ pc = "classify" /\ pc' = "open" /\ StageOK
      /\ Demotes("deferred")
  BY ClassifyStep DEF ClassifySnapshots, PhaseDone, index, ReplayInv, EngineInv
<1>2. DOMAIN stage' = DOMAIN stage
  BY <1>1 DEF Demotes
<1>3. \A i \in DOMAIN stage : Writes(i)' => Writes(i) /\ stage'[i] = stage[i]
  BY <1>1, DemotedEntry DEF Writes
<1>4. MovesOK'
  BY <1>1, <1>2, <1>3 DEF ReplayInv, MovesOK, Distinct, Bindings
<1> QED BY <1>1, <1>4, QuietConsistent

(* The cursors that moved sessions left are dropped; with no revival the   *)
(* restamped ones are at other paths and name the sessions they named.     *)
LEMMA OpenConsistent == ReplayInv /\ EngineInv' /\ ~Revives /\ OpenTransaction => ReplayInv'
<1> SUFFICES ASSUME ReplayInv, EngineInv', ~Revives, OpenTransaction PROVE ReplayInv' OBVIOUS
<1> DEFINE kept == DropCursors(Now, Abandoned)
           Restamped(f) == {r \in refreshes : r.path = f}
           now == [f \in Files |-> IF Restamped(f) = {} THEN kept.cur[f]
                                   ELSE (CHOOSE r \in Restamped(f) : TRUE).cursor]
<1>1. /\ UNCHANGED <<sess, cur, stage, stale>> /\ pc = "open" /\ pc' = "apply"
      /\ tx' = [kept EXCEPT !.cur = now]
  BY DEF OpenTransaction, PhaseDone, index, Now
<1>2. TxShape(Now) /\ Consistent(Now) /\ Now.sess = sess /\ Now.cur = cur
  BY DEF ReplayInv, EngineInv, IndexOK, TxShape, Now
<1>3. /\ kept.sess = sess
      /\ \A f \in Files : kept.cur[f] = IF f \in Abandoned THEN NoFile ELSE cur[f]
      /\ kept = [sess |-> kept.sess, cur |-> kept.cur]
  <2>1. kept.sess = sess /\ TxShape(kept)
    BY <1>2, DropCursorsShape
  <2>2. Now = [sess |-> sess, cur |-> cur]
    BY DEF Now
  <2>3. kept.cur = [f \in Files |-> IF f \in Abandoned THEN NoFile ELSE cur[f]]
    BY <2>2 DEF DropCursors
  <2> QED BY <2>1, <2>3 DEF TxShape
<1> HIDE DEF kept
<1>4. ASSUME NEW f \in Files, now[f] # NoFile
      PROVE  /\ cur[f] # NoFile /\ f \notin Abandoned
             /\ now[f].sid = cur[f].sid /\ now[f].boundary = cur[f].boundary
  <2>1. CASE Restamped(f) = {}
    BY <1>3, <1>4, <2>1
  <2>2. CASE Restamped(f) # {}
    <3> DEFINE r == CHOOSE r \in Restamped(f) : TRUE
    <3>1. r \in refreshes /\ r.path = f /\ now[f] = r.cursor
      BY <2>2
    <3> HIDE DEF r, now
    <3>2. Restamps(r) /\ f \notin Abandoned
      BY <1>1, <3>1 DEF Revives, ReplayInv, EngineInv, RefreshOK
    <3>3. cur[f] # NoFile /\ r.cursor = [cur[f] EXCEPT !.stat = before[f].stat]
      BY <3>1, <3>2 DEF Restamps
    <3>4. cur[f] \in Cursor
      BY <3>3 DEF ReplayInv, EngineInv, IndexOK, CurType
    <3>5. r.cursor.sid = cur[f].sid /\ r.cursor.boundary = cur[f].boundary
      BY <3>3, <3>4 DEF Cursor
    <3> QED BY <3>1, <3>2, <3>3, <3>5
  <2> QED BY <2>1, <2>2
<1>5. tx'.sess = sess /\ tx'.cur = now
  BY <1>1, <1>3
<1> HIDE DEF now
<1>6. Consistent(tx')
  BY <1>2, <1>4, <1>5 DEF Consistent, Described, OneEach
<1>7. Distinct'
  BY <1>1 DEF ReplayInv, MovesOK, Distinct, Writes
<1>8. ASSUME NEW i \in DOMAIN stage, Writes(i), NEW g \in Files \ {stage[i].path},
             tx'.cur[g] # NoFile
      PROVE  tx'.cur[g].sid # stage[i].sid
  <2>1. cur[g] # NoFile /\ g \notin Abandoned /\ tx'.cur[g].sid = cur[g].sid
    BY <1>4, <1>5, <1>8
  <2>2. SUFFICES ASSUME cur[g].sid = stage[i].sid PROVE FALSE
    BY <2>1
  <2>3. g \in Bindings(stage[i].sid)
    BY <2>1, <2>2 DEF Bindings
  <2>4. [new |-> stage[i].path, old |-> g] \in stale
    BY <1>1, <1>8, <2>3 DEF ReplayInv, MovesOK
  <2>5. g \in Abandoned
    <3>1. [new |-> stage[i].path, old |-> g].new = stage[i].path
          /\ [new |-> stage[i].path, old |-> g].old = g /\ stage[i].fate = "staged"
      BY <1>8 DEF Writes
    <3> QED BY <2>4, <3>1 DEF Abandoned
  <2> QED BY <2>1, <2>5
<1>9. ApplyOK'
  BY <1>1, <1>5, <1>7, <1>8 DEF ApplyOK, Writes
<1>10. MovesOK' /\ Consistent(Now)'
  BY <1>1, <1>2 DEF MovesOK, Consistent, Described, OneEach, Now
<1> QED BY <1>6, <1>9, <1>10 DEF ReplayInv

(* Writing the head of the stage leaves the rest as it was found, if only  *)
(* the head's session is written and the rest at most loses rows.          *)
OnlyWrites(y, s) ==
  /\ \A t \in Sids \ {s} : y.sess[t] \in {tx.sess[t], NoSession}
  /\ \A f \in Files : y.cur[f] \in {tx.cur[f], NoFile} \/ y.cur[f].sid \in {s, NoSid}

LEMMA WrittenHasSession ==
  ASSUME EngineInv, NEW i \in DOMAIN stage, Writes(i)
  PROVE  stage[i].sid \in Sids /\ stage[i] \in Staging
BY StagedEntry DEF EngineInv, StageOK, Writes, Anchored, Staging

LEMMA ApplyNextConsistent ==
  ASSUME ReplayInv, EngineInv', NEW ok, NEW newTx, ApplyNext(ok, newTx),
         ok => /\ Consistent(newTx)
               /\ OnlyWrites(newTx, IF Writes(1) THEN stage[1].sid ELSE NoSid)
  PROVE  ReplayInv'
<1>1. /\ UNCHANGED <<sess, cur>> /\ pc = "apply" /\ pc' = "apply" /\ stage # <<>>
      /\ stage' = Tail(stage) /\ EngineInv /\ StageOK /\ tx # NoTx
  BY DEF ApplyNext, PhaseDone, index, ReplayInv, EngineInv, TxOK
<1>2. /\ 1 \in DOMAIN stage
      /\ \A i \in DOMAIN stage' : /\ i + 1 \in DOMAIN stage /\ stage'[i] = stage[i + 1]
                                  /\ i + 1 # 1 /\ i \in Int
  BY <1>1, TailOfStage
<1>3. \A i \in DOMAIN stage' : Writes(i)' => Writes(i + 1)
  BY <1>2 DEF Writes
<1>4. Distinct /\ Consistent(Now) /\ Consistent(tx)
  BY <1>1 DEF ReplayInv, ApplyOK
<1>5. Distinct'
  <2> SUFFICES ASSUME NEW i \in DOMAIN stage', NEW j \in DOMAIN stage', Writes(i)', Writes(j)',
                      stage'[i].sid = stage'[j].sid
               PROVE  i = j
    BY DEF Distinct
  <2>1. i + 1 = j + 1
    BY <1>2, <1>3, <1>4 DEF Distinct
  <2> QED BY <1>2, <2>1
<1>6. ASSUME NEW i \in DOMAIN stage', Writes(i)'
      PROVE  /\ \A g \in Files \ {stage'[i].path} :
                  tx'.cur[g] # NoFile => tx'.cur[g].sid # stage'[i].sid
             /\ tx'.sess[stage'[i].sid] \in {sess'[stage'[i].sid], NoSession}
  <2> DEFINE s == stage[i + 1].sid
  <2>1. stage'[i] = stage[i + 1] /\ Writes(i + 1) /\ i + 1 \in DOMAIN stage /\ i + 1 # 1
    BY <1>2, <1>3, <1>6
  <2>2. s \in Sids /\ s # NoSid
    BY <1>1, <2>1, WrittenHasSession, ConstantsOK
  <2>3. /\ \A g \in Files \ {stage[i + 1].path} : tx.cur[g] # NoFile => tx.cur[g].sid # s
        /\ tx.sess[s] \in {sess[s], NoSession}
    BY <1>1, <2>1 DEF ReplayInv, ApplyOK
  <2>4. CASE ok
    <3>1. tx' = newTx
      BY <2>4 DEF ApplyNext
    <3>2. s # (IF Writes(1) THEN stage[1].sid ELSE NoSid)
      BY <1>2, <1>4, <2>1, <2>2 DEF Distinct
    <3>3. OnlyWrites(newTx, IF Writes(1) THEN stage[1].sid ELSE NoSid)
      BY <2>4
    <3> QED BY <1>1, <2>1, <2>2, <2>3, <3>1, <3>2, <3>3 DEF OnlyWrites
  <2>5. CASE ~ok
    BY <1>1, <2>1, <2>3, <2>5 DEF ApplyNext
  <2> QED BY <2>4, <2>5
<1>7. ApplyOK' /\ MovesOK'
  BY <1>1, <1>5, <1>6 DEF ApplyOK, MovesOK
<1>8. Consistent(tx')
  BY <1>4 DEF ApplyNext
<1>9. Consistent(Now)'
  BY <1>1, <1>4 DEF Consistent, Described, OneEach, Now
<1>10. Consistent(tx)'
  BY <1>8 DEF Consistent, Described, OneEach
<1> QED BY <1>7, <1>9, <1>10 DEF ReplayInv

(* What the transaction knows of the projection that it writes next.       *)
LEMMA HeadWrites ==
  ASSUME ReplayInv, PhaseDone("apply"), stage # <<>>,
         Head(stage).fate = "staged", Head(stage).boundary.recs # <<>>
  PROVE  LET st == Head(stage)
         IN /\ Writes(1) /\ st = stage[1]
            /\ st \in Staging /\ st.path \in Files
            /\ Anchored(st, before[st.path], cur[st.path])
            /\ st.sid \in Sids /\ st.sid = st.boundary.sid
            /\ \A g \in Files \ {st.path} : tx.cur[g] # NoFile => tx.cur[g].sid # st.sid
            /\ tx.sess[st.sid] \in {sess[st.sid], NoSession}
            /\ TxShape(tx) /\ Consistent(tx) /\ Consistent(Now)
<1>1. EngineInv /\ StageOK /\ pc = "apply" /\ tx # NoTx
  BY DEF ReplayInv, EngineInv, PhaseDone, TxOK
<1>2. Head(stage) = stage[1] /\ 1 \in DOMAIN stage
  BY <1>1, TailOfStage
<1>3. Writes(1)
  BY <1>2 DEF Writes
<1>4. stage[1].sid \in Sids
  BY <1>1, <1>2, <1>3, WrittenHasSession
<1>5. /\ Head(stage) \in Staging /\ Head(stage).path \in Files
      /\ Anchored(Head(stage), before[Head(stage).path], cur[Head(stage).path])
      /\ TxShape(tx)
  BY <1>1, HeadOfStage
<1>6. Consistent(tx) /\ Consistent(Now)
  BY <1>1 DEF ReplayInv
<1>7. /\ \A g \in Files \ {stage[1].path} : tx.cur[g] # NoFile => tx.cur[g].sid # stage[1].sid
      /\ tx.sess[stage[1].sid] \in {sess[stage[1].sid], NoSession}
  BY <1>1, <1>2, <1>3 DEF ReplayInv, ApplyOK
<1>8. Head(stage).sid = Head(stage).boundary.sid
  BY <1>5 DEF Anchored
<1> QED BY <1>2, <1>3, <1>4, <1>5, <1>6, <1>7, <1>8

LEMMA PutOnlyWrites ==
  ASSUME NEW x, TxShape(x), TxShape(tx), Fewer(tx, x), NEW st \in Staging, NEW ms
  PROVE  OnlyWrites(PutSession(x, st, ms), st.sid)
<1>1. CursorOf(st, st.sid).sid = st.sid
  BY DEF CursorOf
<1> QED BY <1>1 DEF Fewer, OnlyWrites, PutSession, TxShape, SessType, CurType

LEMMA ApplyRefusedConsistent == ReplayInv /\ EngineInv' /\ ApplyRefused => ReplayInv'
<1> SUFFICES ASSUME ReplayInv, EngineInv', ApplyRefused PROVE ReplayInv' OBVIOUS
<1>1. ApplyNext(TRUE, tx) /\ tx # NoTx
  BY DEF ApplyRefused, ApplyNext, PhaseDone, ReplayInv, EngineInv, TxOK
<1>2. Consistent(tx)
  BY <1>1 DEF ReplayInv
<1>3. OnlyWrites(tx, IF Writes(1) THEN stage[1].sid ELSE NoSid)
  BY DEF OnlyWrites
<1> QED BY <1>1, <1>2, <1>3, ApplyNextConsistent

(* A file without messages drops the session at its path.                  *)
LEMMA ApplyEmptyConsistent == ReplayInv /\ EngineInv' /\ ApplyEmpty => ReplayInv'
<1> SUFFICES ASSUME ReplayInv, EngineInv', ApplyEmpty PROVE ReplayInv' OBVIOUS
<1> DEFINE st == Head(stage)
           x == DropSessions(tx, SessionsAt(tx, st.path))
           y == [x EXCEPT !.cur[st.path] = CursorOf(st, NoSid)]
<1>1. ApplyNext(TRUE, y) /\ PhaseDone("apply") /\ stage # <<>>
  BY DEF ApplyEmpty, ApplyNext
<1>2. TxShape(tx) /\ Consistent(tx) /\ st.path \in Files
  BY <1>1, HeadOfStage DEF ReplayInv, EngineInv, TxOK, PhaseDone
<1> HIDE DEF st
<1>3. Consistent(x) /\ Fewer(tx, x) /\ TxShape(x)
  BY <1>2, DropSessionsConsistent, DropSessionsShape
<1> HIDE DEF x
<1>4. /\ y.sess = x.sess
      /\ \A f \in Files : y.cur[f] = IF f = st.path THEN CursorOf(st, NoSid) ELSE x.cur[f]
  BY <1>2, <1>3 DEF TxShape, CurType
<1>5. CursorOf(st, NoSid).sid = NoSid
  BY DEF CursorOf
<1> HIDE DEF y
<1>6. Consistent(y)
  BY <1>3, <1>4, <1>5 DEF Consistent, Described, OneEach
<1>7. \A s : OnlyWrites(y, s)
  BY <1>3, <1>4, <1>5 DEF OnlyWrites, Fewer
<1> QED BY <1>1, <1>6, <1>7, ApplyNextConsistent

LEMMA ApplyFullConsistent == ReplayInv /\ EngineInv' /\ ApplyFull => ReplayInv'
<1> SUFFICES ASSUME ReplayInv, EngineInv', ApplyFull PROVE ReplayInv' OBVIOUS
<1> DEFINE st == Head(stage)
           prior == cur[st.path]
           x == IF prior # NoFile /\ prior.sid \notin {NoSid, st.sid}
                THEN DropSessions(tx, SessionsAt(tx, st.path)) ELSE tx
           y == PutSession(x, st, st.docs)
<1>1. /\ ApplyNext(~Conflict(x, st), y) /\ PhaseDone("apply") /\ stage # <<>>
      /\ st.fate = "staged" /\ st.boundary.recs # <<>> /\ st.mode = "full"
  BY DEF ApplyFull, ApplyNext
<1>2. /\ Writes(1) /\ st = stage[1] /\ st \in Staging /\ st.path \in Files
      /\ st.sid \in Sids /\ st.sid = st.boundary.sid /\ st.docs = st.boundary.recs
      /\ \A g \in Files \ {st.path} : tx.cur[g] # NoFile => tx.cur[g].sid # st.sid
      /\ TxShape(tx) /\ Consistent(tx)
  BY <1>1, HeadWrites DEF Anchored
<1> HIDE DEF st
<1>3. Consistent(x) /\ Fewer(tx, x) /\ TxShape(x)
  <2>1. Fewer(tx, tx)
    BY DEF Fewer
  <2> QED BY <1>2, <2>1, DropSessionsConsistent, DropSessionsShape
<1> HIDE DEF x
<1>4. \A g \in Files \ {st.path} : x.cur[g] # NoFile => x.cur[g].sid # st.sid
  BY <1>2, <1>3 DEF Fewer
<1>5. ~Conflict(x, st) => Consistent(y)
  BY <1>2, <1>3, <1>4, PutConsistent
<1>6. OnlyWrites(y, IF Writes(1) THEN stage[1].sid ELSE NoSid)
  BY <1>2, <1>3, PutOnlyWrites
<1> HIDE DEF y
<1> QED BY <1>1, <1>5, <1>6, ApplyNextConsistent

(* A delta is appended to the messages that its cursor describes.          *)
LEMMA DeltaContinues ==
  ASSUME ReplayInv, PhaseDone("apply"), stage # <<>>, Head(stage).fate = "staged",
         Head(stage).boundary.recs # <<>>, Head(stage).mode = "delta"
  PROVE  LET st    == Head(stage)
             prior == cur[st.path]
             first == prior.sid = NoSid /\ NextSeq(prior) = 0
             row   == tx.sess[st.sid]
             base  == IF first \/ row = NoSession THEN <<>> ELSE row.msgs
         IN (first \/ (/\ prior.sid = st.sid
                       /\ row # NoSession
                       /\ Len(base) = NextSeq(prior)))
              => base \o st.docs = st.boundary.recs
<1> DEFINE st == Head(stage)
           prior == cur[st.path]
           first == prior.sid = NoSid /\ NextSeq(prior) = 0
           row   == tx.sess[st.sid]
           base  == IF first \/ row = NoSession THEN <<>> ELSE row.msgs
           fits  == first \/ (/\ prior.sid = st.sid
                              /\ row # NoSession
                              /\ Len(base) = NextSeq(prior))
<1> SUFFICES ASSUME fits PROVE base \o st.docs = st.boundary.recs
  OBVIOUS
<1>1. /\ st.path \in Files /\ st.sid \in Sids
      /\ prior # NoFile /\ st.boundary.recs = prior.boundary.recs \o st.docs
      /\ row \in {sess[st.sid], NoSession}
      /\ Consistent(Now)
  BY HeadWrites DEF Anchored
<1> HIDE DEF st
<1>2. prior.boundary.recs \in Seq(Records) /\ st.sid # NoSid
  BY <1>1, ConstantsOK DEF ReplayInv, EngineInv, IndexOK, CurType, Cursor, Digests
<1>3. CASE first
  <2>1. prior.boundary.recs = <<>>
    BY <1>2, <1>3, EmptySeq DEF NextSeq
  <2> QED BY <1>1, <1>3, <2>1
<1>4. CASE ~first
  <2>1. prior.sid = st.sid /\ row # NoSession /\ base = row.msgs
    BY <1>4
  <2>2. row = sess[st.sid] /\ Now.cur[st.path] = prior /\ Now.sess = sess
    BY <1>1, <2>1 DEF Now
  <2>3. row = [path |-> st.path, msgs |-> prior.boundary.recs]
    BY <1>1, <1>2, <2>1, <2>2 DEF Consistent, Described
  <2>4. base = prior.boundary.recs
    BY <2>1, <2>3
  <2> QED BY <1>1, <2>4
<1> QED BY <1>3, <1>4

LEMMA ApplyDeltaConsistent == ReplayInv /\ EngineInv' /\ ApplyDelta => ReplayInv'
<1> SUFFICES ASSUME ReplayInv, EngineInv', ApplyDelta PROVE ReplayInv' OBVIOUS
<1> DEFINE st == Head(stage)
           prior == cur[st.path]
           first == prior.sid = NoSid /\ NextSeq(prior) = 0
           row   == tx.sess[st.sid]
           base  == IF first \/ row = NoSession THEN <<>> ELSE row.msgs
           fits  == first \/ (/\ prior.sid = st.sid
                              /\ row # NoSession
                              /\ Len(base) = NextSeq(prior))
           y == PutSession(tx, st, base \o st.docs)
<1>1. /\ ApplyNext(fits /\ ~Conflict(tx, st), y) /\ PhaseDone("apply") /\ stage # <<>>
      /\ st.fate = "staged" /\ st.boundary.recs # <<>> /\ st.mode = "delta"
  BY DEF ApplyDelta, ApplyNext
<1>2. /\ Writes(1) /\ st = stage[1] /\ st \in Staging /\ st.path \in Files
      /\ st.sid \in Sids /\ st.sid = st.boundary.sid
      /\ \A g \in Files \ {st.path} : tx.cur[g] # NoFile => tx.cur[g].sid # st.sid
      /\ TxShape(tx) /\ Consistent(tx)
  BY <1>1, HeadWrites DEF Anchored
<1>3. fits => base \o st.docs = st.boundary.recs
  BY <1>1, DeltaContinues
<1> HIDE DEF st, fits, base, prior, row
<1>4. fits /\ ~Conflict(tx, st) => Consistent(y)
  BY <1>2, <1>3, PutConsistent
<1>5. OnlyWrites(y, IF Writes(1) THEN stage[1].sid ELSE NoSid)
  <2>1. Fewer(tx, tx)
    BY DEF Fewer
  <2> QED BY <1>2, <2>1, PutOnlyWrites
<1> HIDE DEF y
<1> QED BY <1>1, <1>4, <1>5, ApplyNextConsistent

LEMMA PruneConsistent == ReplayInv /\ EngineInv' /\ Prune => ReplayInv'
<1> SUFFICES ASSUME ReplayInv, EngineInv', Prune PROVE ReplayInv' OBVIOUS
<1>1. /\ UNCHANGED <<sess, cur>> /\ pc' = "commit" /\ tx' \in {tx, Pruned(tx)}
      /\ TxShape(tx) /\ Consistent(tx) /\ Consistent(Now)
  BY DEF Prune, PhaseDone, index, ReplayInv, EngineInv, TxOK
<1>2. Consistent(Pruned(tx))
  BY <1>1, DropSessionsConsistent, DropSessionsShape, DropCursorsConsistent DEF Pruned
<1>3. Consistent(tx') /\ Consistent(Now)'
  BY <1>1, <1>2 DEF Consistent, Described, OneEach, Now
<1>4. Consistent(tx)'
  BY <1>3 DEF Consistent, Described, OneEach
<1> QED BY <1>1, <1>3, <1>4 DEF ReplayInv, MovesOK, ApplyOK

LEMMA CommitConsistent == ReplayInv /\ EngineInv' /\ Commit => ReplayInv'
<1> SUFFICES ASSUME ReplayInv, EngineInv', Commit PROVE ReplayInv' OBVIOUS
<1>1. CASE CursorsFit(tx)
  <2>1. sess' = tx.sess /\ cur' = tx.cur /\ pc' = "idle" /\ tx' = NoTx
    BY <1>1 DEF Commit, ResetRun
  <2>2. Consistent(tx)
    BY DEF Commit, PhaseDone, ReplayInv, EngineInv, TxOK
  <2>3. Consistent(Now)'
    BY <2>1, <2>2 DEF Consistent, Described, OneEach, Now
  <2> QED BY <2>1, <2>3 DEF ReplayInv, MovesOK, ApplyOK
<1>2. CASE ~CursorsFit(tx)
  BY <1>2, FailConsistent DEF Commit
<1> QED BY <1>1, <1>2

LEMMA NextConsistent == ReplayInv /\ ~Revives /\ [Next]_vars => ReplayInv'
<1> SUFFICES ASSUME ReplayInv, ~Revives, [Next]_vars PROVE ReplayInv' OBVIOUS
<1>1. EngineInv'
  BY NextEngine DEF ReplayInv
<1>2. CASE AgentStep \/ UNCHANGED vars
  BY <1>1, <1>2, FrameConsistent DEF AgentStep, vars, index, run
<1>3. CASE \E r \in Requests : Begin(r)
  BY <1>1, <1>3, QuietConsistent DEF Begin, index, MovesOK
<1>4. CASE SyncStep
  <2>1. CASE Scan
    BY <1>1, <2>1, FrameConsistent DEF Scan, ScanRead, ScanStat, index
  <2>2. CASE ProjectOne
    BY <1>1, <2>2, QuietConsistent DEF ProjectOne, ProjectFile, index, MovesOK
  <2>3. CASE PlanProjection \/ Rescan \/ Validate
    BY <1>1, <2>3, QuietConsistent DEF PlanProjection, Rescan, Validate, index, MovesOK
  <2>4. CASE GiveUp
    BY <1>1, <2>4, FailConsistent DEF GiveUp
  <2>5. CASE Apply
    BY <1>1, <2>5, ApplyRefusedConsistent, ApplyEmptyConsistent, ApplyFullConsistent,
       ApplyDeltaConsistent DEF Apply
  <2> QED BY <1>1, <1>4, <2>1, <2>2, <2>3, <2>4, <2>5, ResolveConsistent, ClassifyConsistent,
             OpenConsistent, PruneConsistent, CommitConsistent DEF SyncStep
<1>5. CASE IoError
  BY <1>1, <1>5, FailConsistent DEF IoError
<1>6. CASE Crash
  BY <1>1, <1>6, ResetConsistent DEF Crash, index
<1> QED BY <1>2, <1>3, <1>4, <1>5, <1>6 DEF Next

LEMMA InitConsistent == Init => ReplayInv
<1> SUFFICES ASSUME Init PROVE ReplayInv OBVIOUS
<1>1. EngineInv
  BY InitEngine
<1>2. Consistent(Now)
  BY DEF Init, Consistent, Described, OneEach, Now
<1> QED BY <1>1, <1>2 DEF Init, ReplayInv, MovesOK, ApplyOK

LEMMA SpecConsistent == Spec /\ []~Revives => []ReplayInv
BY InitConsistent, NextConsistent, PTL DEF Spec

LEMMA ConsistentIsFullReplay == ReplayInv => IncrementalIsFullReplay
<1> SUFFICES ASSUME ReplayInv PROVE IncrementalIsFullReplay OBVIOUS
<1>1. Now.sess = sess /\ Now.cur = cur /\ Consistent(Now) /\ CurType(cur)
  BY DEF Now, ReplayInv, EngineInv, IndexOK
<1>2. ASSUME NEW f \in Files, cur[f] # NoFile
      PROVE  /\ cur[f].sid = cur[f].boundary.sid
             /\ cur[f].sid # NoSid =>
                  sess[cur[f].sid] = [path |-> f, msgs |-> cur[f].boundary.recs]
  BY <1>1, <1>2 DEF Consistent, Described, CurType, CursorOK
<1>3. ASSUME NEW f \in Files
      PROVE  Cardinality(SessionsAt(Now, f)) <= 1
  <2>1. CASE SessionsAt(Now, f) = {}
    BY <2>1, FS_EmptySet
  <2>2. CASE SessionsAt(Now, f) # {}
    <3>1. PICK s \in SessionsAt(Now, f) : TRUE
      BY <2>2
    <3>2. SessionsAt(Now, f) = {s}
      BY <1>1, <3>1 DEF SessionsAt, Consistent, OneEach
    <3> QED BY <3>2, FS_Singleton
  <2> QED BY <2>1, <2>2
<1> QED BY <1>1, <1>2, <1>3 DEF IncrementalIsFullReplay, IndexConsistent, Now

LEMMA ConsistentIsOneSource == ReplayInv => OneSourceFile
<1> SUFFICES ASSUME ReplayInv, NEW f \in Files, NEW g \in Files,
                    cur[f] # NoFile, cur[g] # NoFile, cur[f].sid = cur[g].sid,
                    cur[f].sid # NoSid
             PROVE  f = g
  BY DEF OneSourceFile
<1>1. /\ sess[cur[f].sid] = [path |-> f, msgs |-> cur[f].boundary.recs]
      /\ sess[cur[g].sid] = [path |-> g, msgs |-> cur[g].boundary.recs]
  BY DEF ReplayInv, Consistent, Described, Now
<1> QED BY <1>1

(* After any deltas, replacements, moves, prunes, failures and crashes the *)
(* index holds for every cursor that names a session what a full replay of *)
(* the bytes behind the cursor would store, and no two sessions share a    *)
(* file - as long as no restamp revives a cursor that a move abandons,     *)
(* which the code does not exclude.                                        *)
THEOREM SpecIncrementalIsFullReplay ==
  Spec /\ []~Revives => []IncrementalIsFullReplay
BY SpecConsistent, ConsistentIsFullReplay, PTL

(* Under the same condition a session has one source file: its move leaves *)
(* no cursor behind.                                                       *)
THEOREM SpecOneSourceFile == Spec /\ []~Revives => []OneSourceFile
BY SpecConsistent, ConsistentIsOneSource, PTL

-----------------------------------------------------------------------------
(* What the transaction has done to the rows so far: a session it wrote is *)
(* at a path that is no longer to be written, and one it dropped was at    *)
(* such a path, in the hot snapshot unless it was pruned.                  *)
Settled(p) == \A i \in DOMAIN stage : stage[i].path # p

TouchedOK ==
  pc \in {"apply", "commit"} =>
    \A s \in Sids :
      \/ tx.sess[s] = sess[s]
      \/ tx.sess[s] # NoSession /\ Settled(tx.sess[s].path)
      \/ /\ tx.sess[s] = NoSession
         /\ sess[s] # NoSession =>
              /\ Settled(sess[s].path)
              /\ before[sess[s].path] = NoFile => pc = "commit" /\ req.prune

TouchInv == EngineInv /\ TouchedOK /\ (pc = "commit" => stage = <<>>)

(* A projection writes its own path, or drops the sessions at that path.   *)
Touches(x, y, p) ==
  \A s \in Sids :
    \/ y.sess[s] = x.sess[s]
    \/ y.sess[s] # NoSession /\ y.sess[s].path = p
    \/ y.sess[s] = NoSession /\ x.sess[s] # NoSession /\ x.sess[s].path = p

LEMMA PutTouches ==
  ASSUME NEW x, TxShape(x), NEW y, TxShape(y), NEW st \in Staging, NEW ms \in Seq(Records),
         y \in {x, DropSessions(x, SessionsAt(x, st.path))}
  PROVE  Touches(x, y, st.path) /\ Touches(x, PutSession(y, st, ms), st.path)
<1>1. Touches(x, y, st.path)
  BY DEF Touches, DropSessions, SessionsAt
<1>2. [path |-> st.path, msgs |-> ms] \in Row
  BY DEF Row, Staging
<1>3. [path |-> st.path, msgs |-> ms] # NoSession
  BY <1>2, NoneAssumption DEF NoSession
<1>4. \A s \in Sids : PutSession(y, st, ms).sess[s] \in {y.sess[s], [path |-> st.path, msgs |-> ms]}
  BY DEF PutSession, TxShape, SessType
<1>5. Touches(x, PutSession(y, st, ms), st.path)
  BY <1>1, <1>3, <1>4 DEF Touches
<1> QED BY <1>1, <1>5

LEMMA ApplyTouches ==
  ASSUME EngineInv, Apply
  PROVE  /\ pc = "apply" /\ pc' = "apply" /\ stage # <<>> /\ stage' = Tail(stage)
         /\ UNCHANGED <<sess, cur, before, req>>
         /\ Touches(tx, tx', Head(stage).path)
<1>1. PhaseDone("apply") /\ stage # <<>>
  BY DEF Apply, ApplyRefused, ApplyEmpty, ApplyFull, ApplyDelta, ApplyNext
<1>2. /\ pc = "apply" /\ pc' = "apply" /\ stage' = Tail(stage)
      /\ UNCHANGED <<sess, cur, before, req>>
  BY DEF Apply, ApplyRefused, ApplyEmpty, ApplyFull, ApplyDelta, ApplyNext, PhaseDone, index
<1> DEFINE st == Head(stage)
           d  == DropSessions(tx, SessionsAt(tx, st.path))
<1>3. /\ st \in Staging /\ st.path \in Files /\ TxShape(tx) /\ st.docs \in Seq(Records)
      /\ Anchored(st, before[st.path], cur[st.path]) /\ st.sid \in Sids \union {NoSid}
  BY <1>1, HeadOfStage DEF Staging
<1>4. TxShape(d)
  BY <1>3, DropSessionsShape
<1>5. Touches(tx, tx, st.path)
  BY DEF Touches
<1> HIDE DEF st, d
<1>6. CASE ApplyRefused
  <2>1. tx' = tx
    BY <1>6 DEF ApplyRefused, ApplyNext
  <2> QED BY <1>1, <1>2, <1>5, <2>1 DEF Touches, st
<1>7. CASE ApplyEmpty
  <2> DEFINE y == [d EXCEPT !.cur[st.path] = CursorOf(st, NoSid)]
  <2>1. tx' = y
    BY <1>7 DEF ApplyEmpty, ApplyNext, st, d
  <2>2. y.sess = d.sess
    BY <1>4 DEF TxShape
  <2>3. Touches(tx, d, st.path)
    BY <1>3, <1>4, PutTouches DEF d
  <2> QED BY <1>2, <1>1, <2>1, <2>2, <2>3 DEF Touches, st
<1>8. CASE ApplyFull
  <2>1. PICK x \in {tx, d} : tx' \in {tx, PutSession(x, st, st.docs)}
    BY <1>8 DEF ApplyFull, ApplyNext, st, d
  <2>2. Touches(tx, PutSession(x, st, st.docs), st.path)
    BY <1>3, <1>4, PutTouches DEF d
  <2> QED BY <1>1, <1>2, <1>5, <2>1, <2>2 DEF st
<1>9. CASE ApplyDelta
  <2> DEFINE prior == cur[st.path]
             first == prior.sid = NoSid /\ NextSeq(prior) = 0
             row   == tx.sess[st.sid]
             base  == IF first \/ row = NoSession THEN <<>> ELSE row.msgs
  <2>1. tx' \in {tx, PutSession(tx, st, base \o st.docs)} /\ st.boundary.recs # <<>>
    BY <1>9 DEF ApplyDelta, ApplyNext, st
  <2>2. st.sid \in Sids
    BY <1>3, <2>1 DEF Anchored
  <2>3. base \in Seq(Records)
    BY <1>3, <2>2, EmptySeq DEF TxShape, SessType, Row
  <2> HIDE DEF base
  <2>4. base \o st.docs \in Seq(Records)
    BY <1>3, <2>3, ConcatProperties
  <2>5. Touches(tx, PutSession(tx, st, base \o st.docs), st.path)
    BY <1>3, <2>4, PutTouches
  <2> QED BY <1>1, <1>2, <1>5, <2>1, <2>5 DEF st
<1> QED BY <1>1, <1>2, <1>6, <1>7, <1>8, <1>9 DEF Apply, st

LEMMA ApplyTouched == TouchInv /\ EngineInv' /\ Apply => TouchInv'
<1> SUFFICES ASSUME TouchInv, EngineInv', Apply PROVE TouchInv' OBVIOUS
<1> DEFINE p == Head(stage).path
<1>1. /\ pc = "apply" /\ pc' = "apply" /\ stage # <<>> /\ stage' = Tail(stage)
      /\ UNCHANGED <<sess, cur, before, req>> /\ Touches(tx, tx', p) /\ StageOK
  BY ApplyTouches DEF TouchInv, EngineInv
<1>2. /\ 1 \in DOMAIN stage /\ p = stage[1].path /\ before[p] # NoFile
      /\ \A i \in DOMAIN stage' : /\ i + 1 \in DOMAIN stage /\ stage'[i] = stage[i + 1]
                                  /\ i + 1 # 1
  BY <1>1, TailOfStage DEF StageOK
<1> DEFINE Done(q) == \A i \in DOMAIN stage' : stage'[i].path # q
<1> HIDE DEF p
<1>3. Done(p) /\ ~Settled(p)
  BY <1>1, <1>2 DEF StageOK, Settled
<1>4. \A q : Settled(q) => Done(q)
  BY <1>2 DEF Settled
<1>5. TouchedOK'
  <2> SUFFICES ASSUME NEW s \in Sids
               PROVE  \/ tx'.sess[s] = sess[s]
                      \/ tx'.sess[s] # NoSession /\ Done(tx'.sess[s].path)
                      \/ /\ tx'.sess[s] = NoSession
                         /\ sess[s] # NoSession =>
                              Done(sess[s].path) /\ before[sess[s].path] # NoFile
    BY <1>1 DEF TouchedOK, Settled
  <2>1. \/ tx.sess[s] = sess[s]
        \/ tx.sess[s] # NoSession /\ Settled(tx.sess[s].path)
        \/ /\ tx.sess[s] = NoSession
           /\ sess[s] # NoSession => Settled(sess[s].path) /\ before[sess[s].path] # NoFile
    BY <1>1 DEF TouchInv, TouchedOK
  <2> HIDE DEF Done
  <2>2. CASE tx'.sess[s] = tx.sess[s]
    BY <1>4, <2>1, <2>2
  <2>3. CASE tx'.sess[s] # NoSession /\ tx'.sess[s].path = p
    BY <1>3, <2>3
  <2>4. CASE tx'.sess[s] = NoSession /\ tx.sess[s] # NoSession /\ tx.sess[s].path = p
    <3>1. tx.sess[s] = sess[s]
      BY <1>3, <2>1, <2>4
    <3> QED BY <1>2, <1>3, <2>4, <3>1
  <2> QED BY <1>1, <2>2, <2>3, <2>4 DEF Touches
<1> QED BY <1>1, <1>5 DEF TouchInv

LEMMA OpenTables ==
  ASSUME EngineInv, OpenTransaction
  PROVE  /\ UNCHANGED <<sess, cur, stage, stale>> /\ pc' = "apply" /\ tx'.sess = sess
         /\ \A f \in Files : cur[f] # NoFile /\ f \notin Abandoned =>
              tx'.cur[f] # NoFile /\ tx'.cur[f].sid = cur[f].sid
<1> DEFINE kept == DropCursors(Now, Abandoned)
           Restamped(f) == {r \in refreshes : r.path = f}
           now == [f \in Files |-> IF Restamped(f) = {} THEN kept.cur[f]
                                   ELSE (CHOOSE r \in Restamped(f) : TRUE).cursor]
<1>1. UNCHANGED <<sess, cur, stage, stale>> /\ pc' = "apply" /\ tx' = [kept EXCEPT !.cur = now]
  BY DEF OpenTransaction, index, Now
<1>2. TxShape(Now) /\ Now.sess = sess /\ Now.cur = cur
  BY DEF EngineInv, IndexOK, TxShape, Now
<1>3. TxShape(kept) /\ kept.sess = sess
      /\ \A f \in Files : kept.cur[f] = IF f \in Abandoned THEN NoFile ELSE cur[f]
  <2>1. kept.sess = sess /\ TxShape(kept)
    BY <1>2, DropCursorsShape
  <2>2. kept.cur = [f \in Files |-> IF f \in Abandoned THEN NoFile ELSE cur[f]]
    BY DEF DropCursors, Now
  <2> QED BY <2>1, <2>2
<1> HIDE DEF kept
<1>4. tx'.sess = sess /\ tx'.cur = now
  BY <1>1, <1>3 DEF TxShape
<1>5. ASSUME NEW f \in Files, cur[f] # NoFile, f \notin Abandoned
      PROVE  now[f] # NoFile /\ now[f].sid = cur[f].sid
  <2>1. CASE Restamped(f) = {}
    BY <1>3, <1>5, <2>1
  <2>2. CASE Restamped(f) # {}
    <3> DEFINE r == CHOOSE r \in Restamped(f) : TRUE
    <3>1. r \in refreshes /\ r.path = f /\ now[f] = r.cursor
      BY <2>2
    <3> HIDE DEF r, now
    <3>2. Restamps(r) /\ cur[f] \in Cursor
      BY <1>5, <3>1 DEF EngineInv, RefreshOK, IndexOK, CurType
    <3>3. r.cursor \in Cursor /\ r.cursor.sid = cur[f].sid
      BY <3>1, <3>2 DEF Restamps, Cursor
    <3> QED BY <3>1, <3>3, NoneIsNothing
  <2> QED BY <2>1, <2>2
<1> QED BY <1>1, <1>4, <1>5

LEMMA ResetTouched ==
  ASSUME EngineInv', ResetRun
  PROVE  TouchInv'
BY DEF ResetRun, TouchInv, TouchedOK

LEMMA PrunedRows ==
  ASSUME TxShape(tx)
  PROVE  \A s \in Sids : Pruned(tx).sess[s] \in {tx.sess[s], NoSession}
<1> DEFINE S == {s \in Sids : /\ tx.sess[s] # NoSession
                              /\ tx.sess[s].path \notin Selected(before)
                              /\ s \notin ColdIds}
<1>1. /\ TxShape(DropSessions(tx, S))
      /\ \A s \in Sids : DropSessions(tx, S).sess[s] \in {tx.sess[s], NoSession}
  BY DropSessionsShape DEF DropSessions
<1>2. Pruned(tx).sess = DropSessions(tx, S).sess
  BY <1>1, DropCursorsShape DEF Pruned
<1> QED BY <1>1, <1>2

LEMMA PruneTouched == TouchInv /\ EngineInv' /\ Prune => TouchInv'
<1> SUFFICES ASSUME TouchInv, EngineInv', Prune PROVE TouchInv' OBVIOUS
<1>1. /\ UNCHANGED <<sess, before, req, stage>> /\ pc = "apply" /\ pc' = "commit"
      /\ stage = <<>> /\ tx' = IF MayPrune THEN Pruned(tx) ELSE tx
  BY DEF Prune, PhaseDone, index
<1>2. \A q : Settled(q)
  <2>1. stage \in Seq(Staging) /\ Len(stage) = 0
    BY <1>1, EmptySeq DEF TouchInv, EngineInv, StageOK
  <2> QED BY <2>1, LenProperties DEF Settled
<1>3. \A s \in Sids : Pruned(tx).sess[s] \in {tx.sess[s], NoSession}
  <2>1. TxShape(tx)
    BY <1>1 DEF TouchInv, EngineInv, TxOK
  <2> QED BY <2>1, PrunedRows
<1>4. ASSUME NEW s \in Sids
      PROVE  \/ tx'.sess[s] = sess[s]
             \/ tx'.sess[s] # NoSession
             \/ /\ tx'.sess[s] = NoSession
                /\ sess[s] # NoSession /\ before[sess[s].path] = NoFile => req.prune
  BY <1>1, <1>3 DEF TouchInv, TouchedOK, MayPrune
<1>5. TouchedOK'
  BY <1>1, <1>2, <1>4 DEF TouchedOK, Settled
<1> QED BY <1>1, <1>5 DEF TouchInv

LEMMA NextTouched == TouchInv /\ [Next]_vars => TouchInv'
<1> SUFFICES ASSUME TouchInv, [Next]_vars PROVE TouchInv' OBVIOUS
<1>1. EngineInv'
  BY NextEngine DEF TouchInv
<1>2. CASE AgentStep \/ UNCHANGED vars
  BY <1>1, <1>2 DEF AgentStep, vars, index, run, TouchInv, TouchedOK, Settled
<1>3. CASE \E r \in Requests : Begin(r)
  BY <1>1, <1>3 DEF Begin, TouchInv, TouchedOK
<1>4. CASE SyncStep
  <2>1. CASE Scan
    BY <1>1, <2>1 DEF Scan, ScanRead, ScanStat, index, TouchInv, EngineInv, TxOK, ControlOK,
                      TouchedOK, Settled
  <2>2. CASE ProjectOne \/ PlanProjection \/ Rescan \/ Validate \/ ResolveMoves
               \/ ClassifySnapshots
    BY <1>1, <2>2 DEF ProjectOne, ProjectFile, PlanProjection, Rescan, Validate, ResolveMoves,
                      ClassifySnapshots, TouchInv, TouchedOK
  <2>3. CASE OpenTransaction
    BY <1>1, <2>3, OpenTables DEF TouchInv, TouchedOK
  <2>4. CASE Commit
    BY <1>1, <2>4, ResetTouched DEF Commit, FailSync
  <2>5. CASE GiveUp
    BY <1>1, <2>5, ResetTouched DEF GiveUp, FailSync
  <2> QED BY <1>1, <1>4, <2>1, <2>2, <2>3, <2>4, <2>5, ApplyTouched, PruneTouched DEF SyncStep
<1>5. CASE IoError \/ Crash
  BY <1>1, <1>5, ResetTouched DEF IoError, Crash, FailSync
<1> QED BY <1>2, <1>3, <1>4, <1>5 DEF Next

LEMMA SpecTouched == Spec => []TouchInv
<1>1. Init => TouchInv
  BY InitEngine DEF Init, TouchInv, TouchedOK
<1> QED BY <1>1, NextTouched, PTL DEF Spec

(* Without --prune the index keeps a session whose file is gone: a row     *)
(* disappears at a commit only when its path was written over, or when the *)
(* request asked for it.                                                   *)
THEOREM SpecKeepsHistory == Spec => KeepsHistory
<1> DEFINE Keeps == \A s \in Sids : /\ sess[s] # NoSession /\ sess'[s] = NoSession
                                    /\ before[sess[s].path] = NoFile
                                    => req.prune
<1>1. TouchInv /\ [Next]_vars => [Keeps]_vars
  <2> SUFFICES ASSUME TouchInv, [Next]_vars, NEW s \in Sids, sess[s] # NoSession,
                      sess'[s] = NoSession, before[sess[s].path] = NoFile
               PROVE  req.prune
    OBVIOUS
  <2>1. CASE Commit
    <3>1. sess' = tx.sess \/ sess' = sess
      BY <2>1 DEF Commit, FailSync
    <3> QED BY <2>1, <3>1 DEF Commit, PhaseDone, TouchInv, TouchedOK
  <2>2. CASE ~Commit
    <3>1. sess' = sess
      BY <2>2 DEF Next, AgentStep, Begin, SyncStep, Scan, ScanRead, ScanStat, PlanProjection,
                  ProjectOne, ProjectFile, Rescan, Validate, ResolveMoves, ClassifySnapshots,
                  OpenTransaction, Apply, ApplyRefused, ApplyEmpty, ApplyFull, ApplyDelta,
                  ApplyNext, Prune, GiveUp, IoError, Crash, FailSync, index, vars
    <3> QED BY <3>1
  <2> QED BY <2>1, <2>2
<1> QED BY <1>1, SpecTouched, PTL DEF Spec, KeepsHistory

-----------------------------------------------------------------------------
(* Why the guards inside the transaction do not fire: each row has the     *)
(* cursor of its file, so a projection finds at its path what its cursor   *)
(* names.  A row that a prune spares for the sake of a cold root loses its *)
(* cursor, and so this needs prunes or cold roots to be absent.            *)
RowHolds(x, s) == /\ x.cur[x.sess[s].path] # NoFile
                  /\ x.cur[x.sess[s].path].sid = s

RowsOK == \A s \in Sids : sess[s] # NoSession => RowHolds(Now, s)

LeftOK ==
  pc \in {"classify", "open"} =>
    \A m \in stale : \E i \in DOMAIN stage : /\ stage[i].path = m.new
                                             /\ stage[i].boundary.recs # <<>>
                                             /\ m.old \in Bindings(stage[i].sid)

(* The transaction may have dropped the cursor of a session that moves.    *)
TxRowsOK ==
  pc \in {"apply", "commit"} =>
    \A s \in Sids : tx.sess[s] # NoSession =>
      \/ RowHolds(tx, s)
      \/ \E i \in DOMAIN stage : Writes(i) /\ stage[i].sid = s

NeverInv == /\ ReplayInv /\ TouchInv
            /\ RowsOK /\ LeftOK /\ TxRowsOK
            /\ "index" \notin errors

NoColdRowKept == ColdIds = {} \/ \A r \in Requests : ~r.prune

LEMMA NeverFrame ==
  ASSUME NeverInv, ReplayInv', TouchInv', UNCHANGED <<sess, cur>>, LeftOK',
         pc' \notin {"apply", "commit"}, "index" \notin errors'
  PROVE  NeverInv'
BY DEF NeverInv, RowsOK, RowHolds, Now, TxRowsOK

LEMMA NeverReset ==
  ASSUME NeverInv, ReplayInv', TouchInv', UNCHANGED <<sess, cur>>, ResetRun
  PROVE  NeverInv'
BY NeverFrame DEF ResetRun, LeftOK

(* A session at the path of a projection that is yet to be written is the  *)
(* one that its cursor names.                                              *)
LEMMA NoStranger ==
  ASSUME NeverInv, PhaseDone("apply"), stage # <<>>,
         NEW t \in Sids, tx.sess[t] # NoSession, tx.sess[t].path = Head(stage).path
  PROVE  cur[Head(stage).path] # NoFile /\ cur[Head(stage).path].sid = t
<1>1. Head(stage) = stage[1] /\ 1 \in DOMAIN stage /\ pc = "apply"
  BY TailOfStage DEF NeverInv, TouchInv, EngineInv, PhaseDone
<1>2. tx.sess[t] = sess[t]
  BY <1>1 DEF NeverInv, TouchInv, TouchedOK, Settled
<1> QED BY <1>1, <1>2 DEF NeverInv, RowsOK, RowHolds, Now

LEMMA FullFits ==
  ASSUME NeverInv, PhaseDone("apply"), stage # <<>>, NEW x,
         x = IF /\ cur[Head(stage).path] # NoFile
                /\ cur[Head(stage).path].sid \notin {NoSid, Head(stage).sid}
             THEN DropSessions(tx, SessionsAt(tx, Head(stage).path)) ELSE tx
  PROVE  ~Conflict(x, Head(stage))
<1> DEFINE st == Head(stage)
<1> SUFFICES ASSUME NEW t \in SessionsAt(x, st.path), t # st.sid PROVE FALSE
  BY DEF Conflict
<1>1. t \in Sids /\ x.sess[t] # NoSession /\ x.sess[t].path = st.path
  BY DEF SessionsAt
<1>2. x.sess[t] = tx.sess[t]
  BY <1>1 DEF DropSessions
<1>3. cur[st.path] # NoFile /\ cur[st.path].sid = t
  BY <1>1, <1>2, NoStranger
<1>4. t \in SessionsAt(tx, st.path)
  BY <1>1, <1>2 DEF SessionsAt
<1>5. t # NoSid
  BY <1>1, ConstantsOK
<1> QED BY <1>1, <1>3, <1>4, <1>5 DEF DropSessions

LEMMA DeltaFits ==
  ASSUME NeverInv, PhaseDone("apply"), stage # <<>>, Head(stage).mode = "delta",
         Head(stage).fate = "staged", Head(stage).boundary.recs # <<>>
  PROVE  LET st    == Head(stage)
             prior == cur[st.path]
             first == prior.sid = NoSid /\ NextSeq(prior) = 0
             row   == tx.sess[st.sid]
             base  == IF first \/ row = NoSession THEN <<>> ELSE row.msgs
         IN /\ first \/ (/\ prior.sid = st.sid
                         /\ row # NoSession
                         /\ Len(base) = NextSeq(prior))
            /\ ~Conflict(tx, st)
<1> DEFINE st    == Head(stage)
           prior == cur[st.path]
           first == prior.sid = NoSid /\ NextSeq(prior) = 0
           row   == tx.sess[st.sid]
           base  == IF first \/ row = NoSession THEN <<>> ELSE row.msgs
<1>0. ReplayInv /\ EngineInv /\ TouchInv /\ pc = "apply"
  BY DEF NeverInv, ReplayInv, PhaseDone
<1>1. /\ st = stage[1] /\ 1 \in DOMAIN stage /\ st.path \in Files /\ st.sid \in Sids
      /\ prior # NoFile /\ prior.sid \in {NoSid, st.sid}
      /\ row \in {sess[st.sid], NoSession} /\ Consistent(Now)
  BY <1>0, HeadWrites, TailOfStage DEF Anchored, EngineInv
<1>2. prior \in Cursor /\ CursorOK(prior) /\ st.sid # NoSid
  BY <1>0, <1>1, ConstantsOK DEF EngineInv, IndexOK, CurType
<1> HIDE DEF st
<1>3. ~Conflict(tx, st)
  <2> SUFFICES ASSUME NEW t \in SessionsAt(tx, st.path), t # st.sid PROVE FALSE
    BY DEF Conflict
  <2>1. prior.sid = t /\ t # NoSid
    BY NoStranger, ConstantsOK DEF SessionsAt, st
  <2> QED BY <1>1, <2>1
<1>4. CASE prior.sid = NoSid
  <2>1. NextSeq(prior) = 0
    BY <1>2, <1>4, EmptySeq DEF NextSeq, CursorOK
  <2> QED BY <1>3, <1>4, <2>1 DEF st
<1>5. CASE prior.sid = st.sid
  <2>1. sess[st.sid] = [path |-> st.path, msgs |-> prior.boundary.recs]
    BY <1>1, <1>2, <1>5 DEF Consistent, Described, Now
  <2>2. sess[st.sid] # NoSession
    BY <1>0, <1>1, <2>1, NoneIsNothing DEF EngineInv, IndexOK, SessType, Row, CurType, Cursor,
                                           Digests
  <2>3. row # NoSession
    BY <1>0, <1>1, <2>1, <2>2 DEF TouchInv, TouchedOK, Settled
  <2>4. row.msgs = prior.boundary.recs /\ ~first
    BY <1>1, <1>2, <1>5, <2>1, <2>3
  <2> QED BY <1>3, <1>5, <2>3, <2>4 DEF NextSeq, st
<1> QED BY <1>1, <1>4, <1>5

(* Rows keep their cursors through the statements of the transaction.      *)
LEMMA DropRow ==
  ASSUME NEW x, TxShape(x), NEW S, NEW s \in Sids,
         DropSessions(x, S).sess[s] # NoSession, RowHolds(x, s)
  PROVE  RowHolds(DropSessions(x, S), s)
<1>1. s \notin S /\ x.sess[s] # NoSession /\ DropSessions(x, S).sess[s] = x.sess[s]
  BY DEF DropSessions
<1>2. x.sess[s].path \in Files
  BY <1>1 DEF TxShape, SessType, Row
<1> QED BY <1>1, <1>2 DEF DropSessions, RowHolds

LEMMA PutRow ==
  ASSUME NEW x, TxShape(x), NEW st \in Staging, NEW ms, ~Conflict(x, st), st.sid \in Sids,
         CursorOf(st, st.sid) # NoFile, NEW s \in Sids, PutSession(x, st, ms).sess[s] # NoSession
  PROVE  /\ s = st.sid \/ RowHolds(x, s) => RowHolds(PutSession(x, st, ms), s)
         /\ s # st.sid => x.sess[s] # NoSession
<1> DEFINE y == PutSession(x, st, ms)
<1>1. /\ \A t \in Sids : y.sess[t] = IF t = st.sid THEN [path |-> st.path, msgs |-> ms]
                                     ELSE x.sess[t]
      /\ \A f \in Files : y.cur[f] = IF f = st.path THEN CursorOf(st, st.sid) ELSE x.cur[f]
  BY DEF PutSession, TxShape, SessType, CurType
<1>2. CursorOf(st, st.sid).sid = st.sid /\ st.path \in Files
  BY DEF CursorOf, Staging
<1> HIDE DEF y
<1>3. CASE s = st.sid
  <2>1. y.sess[s].path = st.path /\ y.cur[st.path] = CursorOf(st, st.sid)
    BY <1>1, <1>2, <1>3
  <2> QED BY <1>2, <1>3, <2>1 DEF RowHolds, y
<1>4. CASE s # st.sid
  <2>1. y.sess[s] = x.sess[s] /\ x.sess[s] # NoSession
    BY <1>1, <1>4 DEF y
  <2>2. x.sess[s].path \in Files /\ x.sess[s].path # st.path
    BY <1>4, <2>1 DEF TxShape, SessType, Row, Conflict, SessionsAt
  <2> QED BY <1>1, <1>4, <2>1, <2>2 DEF RowHolds, y
<1> QED BY <1>3, <1>4

(* Applying one projection: its guards hold, and every row has its cursor  *)
(* or a projection that is still to come.                                  *)
Remaining(s) == \E i \in DOMAIN stage : i # 1 /\ Writes(i) /\ stage[i].sid = s

LEMMA RemainingAfter ==
  ASSUME NeverInv, stage # <<>>, stage' = Tail(stage), NEW s, Remaining(s)
  PROVE  \E i \in DOMAIN stage' : Writes(i)' /\ stage'[i].sid = s
<1>1. PICK i \in DOMAIN stage : i # 1 /\ Writes(i) /\ stage[i].sid = s
  BY DEF Remaining
<1>2. i - 1 \in DOMAIN stage' /\ stage'[i - 1] = stage[i]
  <2>1. /\ DOMAIN stage = 1..Len(stage) /\ DOMAIN Tail(stage) = 1..Len(stage) - 1
        /\ Len(stage) \in Nat
        /\ \A j \in DOMAIN Tail(stage) : Tail(stage)[j] = stage[j + 1]
    BY TailOfStage DEF NeverInv, TouchInv, EngineInv
  <2>2. i - 1 \in 1..Len(stage) - 1 /\ (i - 1) + 1 = i
    BY <1>1, <2>1
  <2> QED BY <2>1, <2>2
<1> QED BY <1>1, <1>2 DEF Writes

LEMMA TxRowsBefore ==
  ASSUME NeverInv, PhaseDone("apply"), stage # <<>>, NEW s \in Sids, tx.sess[s] # NoSession
  PROVE  \/ RowHolds(tx, s) \/ Remaining(s)
         \/ Writes(1) /\ s = stage[1].sid
BY DEF NeverInv, TxRowsOK, PhaseDone, Remaining

LEMMA ApplyNever == NeverInv /\ ReplayInv' /\ TouchInv' /\ Apply => NeverInv'
<1> SUFFICES ASSUME NeverInv, ReplayInv', TouchInv', Apply PROVE NeverInv' OBVIOUS
<1> DEFINE st == Head(stage)
           d  == DropSessions(tx, SessionsAt(tx, st.path))
<1>1. PhaseDone("apply") /\ pc = "apply" /\ pc' = "apply" /\ stage # <<>>
      /\ stage' = Tail(stage) /\ UNCHANGED <<sess, cur>>
  BY DEF Apply, ApplyRefused, ApplyEmpty, ApplyFull, ApplyDelta, ApplyNext, PhaseDone, index
<1>2. /\ ReplayInv /\ EngineInv /\ st = stage[1] /\ st \in Staging /\ st.path \in Files
      /\ TxShape(tx) /\ Anchored(st, before[st.path], cur[st.path]) /\ before[st.path] # NoFile
      /\ "index" \notin errors /\ ScanOK
  BY <1>1, HeadOfStage, TailOfStage DEF NeverInv, ReplayInv, EngineInv
<1>3. TxShape(d)
  BY <1>2, DropSessionsShape
<1>4. ASSUME st.fate = "staged", st.boundary.recs # <<>>
      PROVE  Writes(1) /\ st.sid \in Sids /\ CursorOf(st, st.sid) # NoFile
  BY <1>1, <1>2, <1>4, HeadWrites, CursorOfShape, NoneIsNothing
<1> HIDE DEF st, d
<1>5. SUFFICES /\ "index" \notin errors'
               /\ \A s \in Sids : tx'.sess[s] # NoSession => RowHolds(tx', s) \/ Remaining(s)
  <2>1. TxRowsOK'
    BY <1>1, <1>5, RemainingAfter DEF TxRowsOK, RowHolds
  <2> QED BY <1>1, <1>5, <2>1 DEF NeverInv, RowsOK, RowHolds, Now, LeftOK
<1>6. CASE ApplyRefused
  <2>1. tx' = tx /\ errors' = errors /\ ~Writes(1)
    BY <1>2, <1>6 DEF ApplyRefused, ApplyNext, Writes, st
  <2> QED BY <1>1, <1>2, <2>1, TxRowsBefore
<1>7. CASE ApplyEmpty
  <2> DEFINE y == [d EXCEPT !.cur[st.path] = CursorOf(st, NoSid)]
  <2>1. tx' = y /\ errors' = errors /\ ~Writes(1)
    BY <1>2, <1>7 DEF ApplyEmpty, ApplyNext, Writes, st, d
  <2>2. /\ y.sess = d.sess
        /\ \A f \in Files : f # st.path => y.cur[f] = d.cur[f]
    BY <1>2, <1>3 DEF TxShape, CurType
  <2> HIDE DEF y
  <2> SUFFICES ASSUME NEW s \in Sids, y.sess[s] # NoSession
               PROVE  RowHolds(y, s) \/ Remaining(s)
    BY <1>2, <2>1
  <2>3. d.sess[s] = tx.sess[s] /\ tx.sess[s] # NoSession /\ tx.sess[s].path # st.path
    BY <2>2 DEF d, DropSessions, SessionsAt
  <2>4. tx.sess[s].path \in Files
    BY <1>2, <2>3 DEF TxShape, SessType, Row
  <2>5. RowHolds(tx, s) \/ Remaining(s)
    BY <1>1, <2>1, <2>3, TxRowsBefore
  <2>6. RowHolds(tx, s) => RowHolds(d, s)
    BY <1>2, <2>2, DropRow DEF d
  <2> QED BY <2>2, <2>3, <2>4, <2>5, <2>6 DEF RowHolds
<1>8. CASE ApplyFull
  <2> DEFINE x == IF cur[st.path] # NoFile /\ cur[st.path].sid \notin {NoSid, st.sid}
                  THEN d ELSE tx
  <2>1. /\ ApplyNext(~Conflict(x, st), PutSession(x, st, st.docs))
        /\ st.fate = "staged" /\ st.boundary.recs # <<>>
    BY <1>8 DEF ApplyFull, st, d
  <2>2. ~Conflict(x, st)
    BY <1>1, FullFits DEF st, d
  <2>3. tx' = PutSession(x, st, st.docs) /\ errors' = errors
    BY <2>1, <2>2 DEF ApplyNext
  <2>4. TxShape(x) /\ x \in {tx, d}
    BY <1>2, <1>3
  <2> HIDE DEF x
  <2> SUFFICES ASSUME NEW s \in Sids, tx'.sess[s] # NoSession
               PROVE  RowHolds(tx', s) \/ Remaining(s)
    BY <1>2, <2>3
  <2>5. /\ s = st.sid \/ RowHolds(x, s) => RowHolds(tx', s)
        /\ s # st.sid => x.sess[s] # NoSession
    BY <1>2, <1>4, <2>1, <2>2, <2>3, <2>4, PutRow
  <2>6. CASE s # st.sid
    <3>1. tx.sess[s] # NoSession
      BY <2>4, <2>5, <2>6 DEF d, DropSessions
    <3>2. RowHolds(tx, s) \/ Remaining(s)
      BY <1>1, <1>2, <2>6, <3>1, TxRowsBefore
    <3>3. RowHolds(tx, s) => RowHolds(x, s)
      BY <1>2, <2>4, <2>5, <2>6, DropRow DEF d
    <3> QED BY <2>5, <3>2, <3>3
  <2> QED BY <2>5, <2>6
<1>9. CASE ApplyDelta
  <2> DEFINE prior == cur[st.path]
             first == prior.sid = NoSid /\ NextSeq(prior) = 0
             row   == tx.sess[st.sid]
             base  == IF first \/ row = NoSession THEN <<>> ELSE row.msgs
             fits  == first \/ (/\ prior.sid = st.sid
                                /\ row # NoSession
                                /\ Len(base) = NextSeq(prior))
  <2>1. /\ ApplyNext(fits /\ ~Conflict(tx, st), PutSession(tx, st, base \o st.docs))
        /\ st.fate = "staged" /\ st.boundary.recs # <<>> /\ st.mode = "delta"
    BY <1>9 DEF ApplyDelta, st
  <2>2. fits /\ ~Conflict(tx, st)
    BY <1>1, <2>1, DeltaFits DEF st
  <2> HIDE DEF fits, base
  <2>3. tx' = PutSession(tx, st, base \o st.docs) /\ errors' = errors
    BY <2>1, <2>2 DEF ApplyNext
  <2> SUFFICES ASSUME NEW s \in Sids, tx'.sess[s] # NoSession
               PROVE  RowHolds(tx', s) \/ Remaining(s)
    BY <1>2, <2>3
  <2>4. /\ s = st.sid \/ RowHolds(tx, s) => RowHolds(tx', s)
        /\ s # st.sid => tx.sess[s] # NoSession
    BY <1>2, <1>4, <2>1, <2>2, <2>3, PutRow
  <2>5. CASE s # st.sid
    BY <1>1, <1>2, <2>4, <2>5, TxRowsBefore
  <2> QED BY <2>4, <2>5
<1> QED BY <1>6, <1>7, <1>8, <1>9 DEF Apply

(* A dropped cursor was that of a session which is about to be written.    *)
LEMMA OpenNever == NeverInv /\ ReplayInv' /\ TouchInv' /\ OpenTransaction => NeverInv'
<1> SUFFICES ASSUME NeverInv, ReplayInv', TouchInv', OpenTransaction PROVE NeverInv' OBVIOUS
<1>1. /\ UNCHANGED <<sess, cur, stage, stale, errors>> /\ pc = "open" /\ pc' = "apply"
      /\ tx'.sess = sess
      /\ \A f \in Files : cur[f] # NoFile /\ f \notin Abandoned =>
           tx'.cur[f] # NoFile /\ tx'.cur[f].sid = cur[f].sid
      /\ EngineInv /\ Consistent(Now) /\ StageOK /\ SessType(sess)
  BY OpenTables DEF OpenTransaction, PhaseDone, NeverInv, ReplayInv, EngineInv, IndexOK
<1>2. ASSUME NEW s \in Sids, sess[s] # NoSession, sess[s].path \in Abandoned
      PROVE  \E i \in DOMAIN stage : Writes(i) /\ stage[i].sid = s
  <2> DEFINE p == sess[s].path
  <2>1. PICK m \in stale : m.old = p /\ \E i \in DOMAIN stage : /\ stage[i].path = m.new
                                                              /\ stage[i].fate = "staged"
    BY <1>2 DEF Abandoned
  <2>2. PICK i \in DOMAIN stage : /\ stage[i].path = m.new /\ stage[i].boundary.recs # <<>>
                                  /\ m.old \in Bindings(stage[i].sid)
    BY <1>1, <2>1 DEF NeverInv, LeftOK
  <2>3. Writes(i)
    BY <1>1, <2>1, <2>2 DEF Writes, StageOK
  <2>4. stage[i].sid \in Sids
    BY <1>1, <2>3, WrittenHasSession
  <2>5. cur[p] # NoFile /\ cur[p].sid = s
    BY <1>2 DEF NeverInv, RowsOK, RowHolds, Now
  <2>6. stage[i].sid = s
    <3>1. CASE cur[p].sid = stage[i].sid
      BY <2>5, <3>1
    <3>2. CASE sess[stage[i].sid] # NoSession /\ sess[stage[i].sid].path = p
      BY <1>1, <1>2, <2>4, <3>2 DEF Consistent, OneEach, Now
    <3> QED BY <2>1, <2>2, <3>1, <3>2 DEF Bindings
  <2> QED BY <2>3, <2>6
<1>3. ASSUME NEW s \in Sids, tx'.sess[s] # NoSession
      PROVE  RowHolds(tx', s) \/ \E i \in DOMAIN stage : Writes(i) /\ stage[i].sid = s
  <2>1. sess[s] # NoSession /\ sess[s].path \in Files
    BY <1>1, <1>3 DEF SessType, Row
  <2>2. cur[sess[s].path] # NoFile /\ cur[sess[s].path].sid = s
    BY <2>1 DEF NeverInv, RowsOK, RowHolds, Now
  <2> QED BY <1>1, <1>2, <2>1, <2>2 DEF RowHolds
<1>4. TxRowsOK'
  BY <1>1, <1>3 DEF TxRowsOK, RowHolds, Writes
<1> QED BY <1>1, <1>4 DEF NeverInv, RowsOK, RowHolds, Now, LeftOK

LEMMA ResolveNever == NeverInv /\ ReplayInv' /\ TouchInv' /\ ResolveMoves => NeverInv'
<1> SUFFICES ASSUME NeverInv, ReplayInv', TouchInv', ResolveMoves PROVE NeverInv' OBVIOUS
<1>1. /\ UNCHANGED <<sess, cur>> /\ pc' = "classify" /\ errors' \subseteq errors \union {"moves"}
      /\ StageOK /\ Demotes("duplicate")
  BY ResolveStep DEF ResolveMoves, index, NeverInv, ReplayInv, EngineInv
<1>2. ASSUME NEW m \in stale'
      PROVE  \E i \in DOMAIN stage' : /\ stage'[i].path = m.new
                                      /\ stage'[i].boundary.recs # <<>>
                                      /\ m.old \in Bindings(stage'[i].sid)
  <2>1. PICK st \in Candidates : \E f \in Bindings(st.sid) : m = [new |-> st.path, old |-> f]
    BY <1>2 DEF ResolveMoves
  <2>2. PICK i \in DOMAIN stage : stage[i] = st /\ st.boundary.recs # <<>>
    BY <2>1 DEF Candidates
  <2>3. i \in DOMAIN stage' /\ stage'[i].path = st.path /\ stage'[i].boundary = st.boundary
        /\ stage'[i].sid = st.sid
    BY <1>1, <2>2, DemotedEntry DEF Demotes
  <2> QED BY <2>1, <2>2, <2>3
<1>3. LeftOK'
  BY <1>1, <1>2 DEF LeftOK, Bindings
<1> QED BY <1>1, <1>3, NeverFrame DEF NeverInv

LEMMA ClassifyNever == NeverInv /\ ReplayInv' /\ TouchInv' /\ ClassifySnapshots => NeverInv'
<1> SUFFICES ASSUME NeverInv, ReplayInv', TouchInv', ClassifySnapshots PROVE NeverInv' OBVIOUS
<1>1. /\ UNCHANGED <<sess, cur, stale>> /\ pc = "classify" /\ pc' = "open"
      /\ errors' \subseteq errors \union {"selector"} /\ StageOK /\ Demotes("deferred")
  BY ClassifyStep DEF ClassifySnapshots, PhaseDone, index, NeverInv, ReplayInv, EngineInv
<1>2. ASSUME NEW m \in stale
      PROVE  \E i \in DOMAIN stage' : /\ stage'[i].path = m.new
                                      /\ stage'[i].boundary.recs # <<>>
                                      /\ m.old \in Bindings(stage'[i].sid)
  <2>1. PICK i \in DOMAIN stage : /\ stage[i].path = m.new /\ stage[i].boundary.recs # <<>>
                                  /\ m.old \in Bindings(stage[i].sid)
    BY <1>1, <1>2 DEF NeverInv, LeftOK
  <2>2. i \in DOMAIN stage' /\ stage'[i].path = stage[i].path
        /\ stage'[i].boundary = stage[i].boundary /\ stage'[i].sid = stage[i].sid
    BY <1>1, DemotedEntry DEF Demotes
  <2> QED BY <2>1, <2>2
<1>3. LeftOK'
  BY <1>1, <1>2 DEF LeftOK, Bindings
<1> QED BY <1>1, <1>3, NeverFrame DEF NeverInv

(* A prune takes rows together with their cursors when no row is cold.     *)
LEMMA PruneNever ==
  NoColdRowKept /\ NeverInv /\ ReplayInv' /\ TouchInv' /\ Prune => NeverInv'
<1> SUFFICES ASSUME NoColdRowKept, NeverInv, ReplayInv', TouchInv', Prune
             PROVE  NeverInv'
  OBVIOUS
<1>1. /\ UNCHANGED <<sess, cur, stage, errors>> /\ pc = "apply" /\ pc' = "commit"
      /\ stage = <<>> /\ tx' = IF MayPrune THEN Pruned(tx) ELSE tx
      /\ TxShape(tx) /\ req \in Requests
  BY DEF Prune, PhaseDone, index, NeverInv, ReplayInv, EngineInv, TxOK, ControlOK
<1>2. DOMAIN stage = {}
  BY <1>1, EmptySeq, LenProperties DEF NeverInv, ReplayInv, EngineInv, StageOK
<1>3. \A s \in Sids : tx.sess[s] # NoSession => RowHolds(tx, s)
  BY <1>1, <1>2 DEF NeverInv, TxRowsOK
<1>4. ASSUME MayPrune, NEW s \in Sids, Pruned(tx).sess[s] # NoSession
      PROVE  RowHolds(Pruned(tx), s)
  <2> DEFINE hot == Selected(before)
             gone == {t \in Sids : /\ tx.sess[t] # NoSession /\ tx.sess[t].path \notin hot
                                   /\ t \notin ColdIds}
             F == {f \in Files : cur[f] # NoFile} \ hot
             y == DropSessions(tx, gone)
  <2>1. ColdIds = {}
    BY <1>1, <1>4 DEF NoColdRowKept, MayPrune
  <2>2. Pruned(tx) = DropCursors(y, F) /\ TxShape(y)
    BY <1>1, DropSessionsShape DEF Pruned
  <2>3. Pruned(tx).sess = y.sess
    BY <2>2, DropCursorsShape
  <2>4. y.sess[s] = tx.sess[s] /\ tx.sess[s] # NoSession /\ s \notin gone
    BY <1>4, <2>3 DEF DropSessions
  <2>5. tx.sess[s].path \in hot /\ tx.sess[s].path \in Files /\ tx.sess[s].path \notin F
    BY <1>1, <2>1, <2>4 DEF TxShape, SessType, Row
  <2> HIDE DEF y, F, gone
  <2>6. RowHolds(y, s)
    BY <1>1, <1>3, <1>4, <2>3, <2>4, DropRow DEF y
  <2>7. Pruned(tx).cur[tx.sess[s].path] = y.cur[tx.sess[s].path]
    <3>1. y = [sess |-> y.sess, cur |-> y.cur]
      BY <2>2 DEF TxShape
    <3>2. DropCursors(y, F).cur = [f \in Files |-> IF f \in F THEN NoFile ELSE y.cur[f]]
      BY <3>1 DEF DropCursors
    <3> QED BY <2>2, <2>5, <3>2
  <2> QED BY <2>3, <2>4, <2>6, <2>7 DEF RowHolds
<1>5. \A s \in Sids : tx'.sess[s] # NoSession => RowHolds(tx', s)
  BY <1>1, <1>3, <1>4
<1>6. TxRowsOK'
  BY <1>1, <1>5 DEF TxRowsOK, RowHolds
<1> QED BY <1>1, <1>6 DEF NeverInv, RowsOK, RowHolds, Now, LeftOK

(* What the check before the commit looks for is what the invariant says.  *)
LEMMA ReplayFits == ReplayInv /\ pc = "commit" => CursorsFit(tx)
<1> SUFFICES ASSUME ReplayInv, pc = "commit", NEW f \in Files,
                    tx.cur[f] # NoFile, tx.cur[f].sid # NoSid
             PROVE  /\ tx.sess[tx.cur[f].sid] # NoSession
                    /\ NextSeq(tx.cur[f]) = Len(tx.sess[tx.cur[f].sid].msgs)
  BY DEF CursorsFit
<1>1. TxShape(tx) /\ Consistent(tx)
  BY DEF ReplayInv, EngineInv, TxOK
<1>2. tx.cur[f] \in Cursor
  BY <1>1 DEF TxShape, CurType
<1>3. tx.sess[tx.cur[f].sid] = [path |-> f, msgs |-> tx.cur[f].boundary.recs]
  BY <1>1 DEF Consistent, Described
<1>4. [path |-> f, msgs |-> tx.cur[f].boundary.recs] \in Row
  BY <1>2 DEF Row, Cursor, Digests
<1> QED BY <1>3, <1>4, NoneIsNothing DEF NextSeq

LEMMA CommitNever == NeverInv /\ ReplayInv' /\ TouchInv' /\ Commit => NeverInv'
<1> SUFFICES ASSUME NeverInv, ReplayInv', TouchInv', Commit PROVE NeverInv' OBVIOUS
<1>1. CASE CursorsFit(tx)
  <2>1. sess' = tx.sess /\ cur' = tx.cur /\ ResetRun /\ pc = "commit"
    BY <1>1 DEF Commit, PhaseDone
  <2>2. DOMAIN stage = {}
    <3>1. stage = <<>>
      BY <2>1 DEF NeverInv, TouchInv
    <3> QED BY <3>1, EmptySeq, LenProperties DEF NeverInv, ReplayInv, EngineInv, StageOK
  <2>3. RowsOK'
    BY <2>1, <2>2 DEF NeverInv, TxRowsOK, RowsOK, RowHolds, Now
  <2> QED BY <2>1, <2>3 DEF NeverInv, ResetRun, LeftOK, TxRowsOK
<1>2. CASE ~CursorsFit(tx)
  BY <1>2, NeverReset DEF Commit, FailSync
<1> QED BY <1>1, <1>2

LEMMA NeverSame ==
  ASSUME NeverInv, ReplayInv', TouchInv', UNCHANGED <<sess, cur, pc, stage, stale, tx>>,
         "index" \notin errors'
  PROVE  NeverInv'
<1>1. RowsOK'
  BY DEF NeverInv, RowsOK, RowHolds, Now
<1>2. LeftOK'
  BY DEF NeverInv, LeftOK, Bindings
<1>3. TxRowsOK'
  BY DEF NeverInv, TxRowsOK, RowHolds, Writes
<1> QED BY <1>1, <1>2, <1>3 DEF NeverInv

LEMMA NextNever == NoColdRowKept /\ NeverInv /\ ~Revives /\ [Next]_vars => NeverInv'
<1> SUFFICES ASSUME NoColdRowKept, NeverInv, ~Revives, [Next]_vars PROVE NeverInv' OBVIOUS
<1>1. ReplayInv' /\ TouchInv'
  BY NextConsistent, NextTouched DEF NeverInv
<1>2. CASE AgentStep \/ UNCHANGED vars
  <2>1. UNCHANGED <<sess, cur, pc, stage, stale, tx, errors>>
    BY <1>2 DEF AgentStep, vars, index, run
  <2> QED BY <1>1, <2>1, NeverSame DEF NeverInv
<1>3. CASE \E r \in Requests : Begin(r)
  BY <1>1, <1>3, NeverFrame DEF Begin, index, LeftOK, NeverInv
<1>4. CASE SyncStep
  <2>1. CASE Scan
    <3>1. UNCHANGED <<sess, cur, pc, stage, stale, tx>> /\ errors' \subseteq errors \union {"scan"}
      BY <2>1 DEF Scan, ScanRead, ScanStat, index
    <3> QED BY <1>1, <3>1, NeverSame DEF NeverInv
  <2>2. CASE ProjectOne \/ PlanProjection \/ Rescan \/ Validate
    <3>1. /\ UNCHANGED <<sess, cur>> /\ errors' \subseteq errors \union {"project", "stage"}
          /\ pc' \notin {"classify", "open", "apply", "commit"}
      BY <2>2 DEF ProjectOne, ProjectFile, PlanProjection, Rescan, Validate, index
    <3> QED BY <1>1, <3>1, NeverFrame DEF LeftOK, NeverInv
  <2>3. CASE GiveUp
    BY <1>1, <2>3, NeverReset DEF GiveUp, FailSync
  <2> QED BY <1>1, <1>4, <2>1, <2>2, <2>3, ResolveNever, ClassifyNever, OpenNever, ApplyNever,
             PruneNever, CommitNever DEF SyncStep
<1>5. CASE IoError \/ Crash
  BY <1>1, <1>5, NeverReset DEF IoError, Crash, FailSync, index
<1> QED BY <1>2, <1>3, <1>4, <1>5 DEF Next

LEMMA InitNever == Init => NeverInv
<1> SUFFICES ASSUME Init PROVE NeverInv OBVIOUS
<1>1. ReplayInv /\ TouchInv
  BY InitConsistent, InitEngine DEF Init, TouchInv, TouchedOK
<1> QED BY <1>1 DEF Init, NeverInv, RowsOK, RowHolds, Now, LeftOK, TxRowsOK

(* Best effort skips only the file that is bad: whatever would make the    *)
(* transaction fail (a conflict of owners, a delta that does not fit, a    *)
(* cursor that disagrees with its session) is refused file by file before  *)
(* it opens.  It takes that no restamp revives an abandoned cursor, and    *)
(* that no prune spares a row for a cold root, which costs it its cursor.  *)
THEOREM SpecTransactionNeverFails ==
  ASSUME NoColdRowKept
  PROVE  Spec /\ []~Revives => []TransactionNeverFails
<1>1. NeverInv => TransactionNeverFails
  BY ReplayFits DEF NeverInv, TransactionNeverFails
<1>2. NeverInv /\ ~Revives /\ [Next]_vars => NeverInv'
  BY NextNever
<1> QED BY <1>1, <1>2, InitNever, PTL DEF Spec

-----------------------------------------------------------------------------
(* The sync implements the index that is replayed in full: each step maps  *)
(* to one of ReplayIndex, or changes nothing that it speaks of.            *)

Listed == Selected(before) \cup Listing

LEMMA PromisedInit == Init => Promised!Init
<1> SUFFICES ASSUME Init PROVE Promised!Init OBVIOUS
<1>1. Selected(before) = {} BY DEF Init, Selected, NoSnapshot
<1>2. Listing = {} /\ Rewritten = {} BY DEF Init, Listing, Rewritten
<1>3. DOMAIN stage = {} BY EmptySeq DEF Init
<1>4. Replayed = {} BY <1>3 DEF Replayed, Candidates
<1> QED BY <1>1, <1>2, <1>4 DEF Init, Promised!Init, NoSession, NoProof, NoRequest

(* What the promise speaks of, and nothing else.                           *)
LEMMA PromisedFrame ==
  ASSUME UNCHANGED <<sess, cov, req>>, Listed' = Listed, Replayed' = Replayed,
         Rewritten' = Rewritten
  PROVE  Promised!Next
BY DEF Promised!Next, Promised!Agents, Promised!sync, Listed

LEMMA PromisedDiscard ==
  ASSUME req # NoRequest, UNCHANGED <<raw, sess, cov, req>>, Listed' \subseteq Listed,
         Replayed' \subseteq Replayed, Rewritten' \subseteq Rewritten \cup Replayed
  PROVE  Promised!Next
BY DEF Promised!Next, Promised!Discard, Listed, NoRequest

LEMMA StageSays ==
  /\ UNCHANGED stage => Replayed' = Replayed
  /\ UNCHANGED <<tx, sess>> => Rewritten' = Rewritten
  /\ UNCHANGED <<before, pc, pending>> => Listed' = Listed
  /\ UNCHANGED <<before, pending>> /\ pending = NoFile => Listed' = Listed
  /\ UNCHANGED before /\ pc # "scanA" /\ pc' # "scanA" => Listed' = Listed
BY DEF Replayed, Candidates, Rewritten, Listed, Listing


(* A file is looked at in the scans only.                                  *)
PendingOK == pending # NoFile => pc \in {"scanA", "scanB"}

LEMMA NextPending == PendingOK /\ [Next]_vars => PendingOK'
<1> SUFFICES ASSUME PendingOK, [Next]_vars PROVE PendingOK' OBVIOUS
<1>1. ASSUME pending' \in {pending, NoFile}, pc' = pc PROVE PendingOK'
  BY <1>1 DEF PendingOK
<1>2. ASSUME pending' = NoFile PROVE PendingOK'
  BY <1>2 DEF PendingOK
<1>3. CASE AgentStep \/ UNCHANGED vars
  BY <1>1, <1>3 DEF AgentStep, vars, run
<1>4. CASE \E r \in Requests : Begin(r)
  BY <1>4 DEF Begin, PendingOK
<1>5. CASE Scan
  BY <1>5 DEF Scan, ScanStat, ScanRead, PendingOK
<1>6. CASE ProjectOne \/ Apply
  BY <1>1, <1>6 DEF ProjectOne, ProjectFile, Apply, ApplyRefused, ApplyEmpty, ApplyFull,
                    ApplyDelta, ApplyNext
<1>7. CASE \/ PlanProjection \/ Rescan \/ Validate \/ ResolveMoves \/ ClassifySnapshots
           \/ OpenTransaction \/ Prune
  BY <1>2, <1>7 DEF PlanProjection, Rescan, Validate, ResolveMoves, ClassifySnapshots,
                    OpenTransaction, Prune, PhaseDone
<1>8. CASE GiveUp \/ Commit \/ IoError \/ Crash
  BY <1>2, <1>8 DEF GiveUp, Commit, IoError, Crash, FailSync, ResetRun
<1> QED BY <1>3, <1>4, <1>5, <1>6, <1>7, <1>8 DEF Next, SyncStep

LEMMA PromisedScan == EngineInv /\ PendingOK /\ Scan => Promised!Next
<1> SUFFICES ASSUME EngineInv, PendingOK, Scan PROVE Promised!Next OBVIOUS
<1>1. /\ UNCHANGED <<raw, sess, cov, req, stage, tx, pc>>
      /\ pc \in {"scanA", "scanB"} /\ req # NoRequest
  <2>1. pc \in {"scanA", "scanB"}
    BY DEF Scan, ScanStat, ScanRead, PendingOK
  <2> QED BY <2>1 DEF Scan, ScanStat, ScanRead, world, index, EngineInv, ControlOK
<1>2. Replayed' = Replayed /\ Rewritten' = Rewritten
  BY <1>1, StageSays
<1>3. CASE pc # "scanA"
  <2>1. UNCHANGED before BY <1>3 DEF Scan, ScanStat, ScanRead
  <2>2. Listed' = Listed BY <1>1, <1>3, <2>1, StageSays
  <2> QED BY <1>1, <1>2, <2>2, PromisedFrame
<1>4. ASSUME pc = "scanA", NEW f \in Files, ScanStat(f) PROVE Promised!Next
  <2>1. UNCHANGED before /\ pending = NoFile BY <1>4 DEF ScanStat
  <2>2. CASE raw[f] = NoFile
    <3>1. Listed' = Listed BY <1>1, <1>4, <2>1, <2>2, StageSays DEF ScanStat
    <3> QED BY <1>1, <1>2, <3>1, PromisedFrame
  <2>3. CASE raw[f] # NoFile
    <3>1. pending' = [path |-> f, stat |-> Stat(raw[f])] BY <1>4, <2>3 DEF ScanStat
    <3>2. Stat(raw[f]) \in Stats BY <2>3, StatOfFile DEF EngineInv, WorldOK
    <3>3. pending' # NoFile BY <3>1, <3>2, NoneIsNothing
    <3>4. Listing = {} /\ Listing' = {f} BY <1>1, <1>4, <2>1, <3>1, <3>3 DEF Listing
    <3>5. Listed' = Listed \cup {f} BY <2>1, <3>4 DEF Listed
    <3>6. Promised!List(f)
      BY <1>1, <1>2, <2>3, <3>5 DEF Promised!List, Listed, NoFile, NoRequest
    <3> QED BY <3>6 DEF Promised!Next
  <2> QED BY <2>2, <2>3
<1>5. ASSUME pc = "scanA", ScanRead PROVE Promised!Next
  <2> DEFINE f == pending.path
  <2>1. pending # NoFile /\ pending' = NoFile /\ f \in Files BY <1>5 DEF ScanRead, EngineInv, ScanOK
  <2>2. PICK entry : before' = [before EXCEPT ![f] = entry] BY <1>5 DEF ScanRead
  <2>3. before \in [Files -> Entry \union {NoFile}] BY DEF EngineInv, ScanOK
  <2>4. Selected(before') \subseteq Selected(before) \cup {f} BY <2>1, <2>2, <2>3 DEF Selected
  <2>5. Listing = {f} /\ Listing' = {} BY <1>5, <2>1 DEF Listing
  <2>6. Listed' \subseteq Listed BY <2>4, <2>5 DEF Listed, Selected
  <2> QED BY <1>1, <1>2, <2>6, PromisedDiscard
<1> QED BY <1>1, <1>3, <1>4, <1>5 DEF Scan

(* The records that a projection takes are complete ones.                  *)
LEMMA ProjectsReplay ==
  ASSUME NEW c \in RawFile, Ended(c), NEW f \in Files, NEW entry \in Entry, NEW checkpoint,
         raw[f] = c
  PROVE  LET st == Project(c, f, entry, checkpoint)
         IN st.boundary.recs # <<>> =>
              [path |-> f, sid |-> st.sid, msgs |-> st.boundary.recs] \in Promised!Replays(f)
<1> DEFINE safe == SafeBytes(c, entry.stat.size)
           k == safe \div 2
           st == Project(c, f, entry, checkpoint)
<1>1. st.boundary = Prefix(c, safe) /\ st.sid = Prefix(c, safe).sid
  BY DEF Project, Projection
<1>2. safe \in 0..Bytes(c) /\ safe % 2 = 0 /\ Bytes(c) \in Nat
  BY SafeBytesOfFile, BytesOfFile DEF Entry, Stats
<1> HIDE DEF safe, st
<1>3. k \in Nat /\ safe = 2 * k /\ (safe + 1) \div 2 = k
  BY <1>2
<1>4. c.recs \in Seq(Records) /\ Len(c.recs) \in Nat /\ c.tail \in BOOLEAN
  BY LenProperties DEF RawFile
<1>5. k <= Len(c.recs) - (IF c.tail THEN 1 ELSE 0)
  <2>1. 2 * k <= 2 * Len(c.recs) - (IF c.tail THEN 1 ELSE 0) BY <1>2, <1>3 DEF Bytes
  <2> HIDE DEF k
  <2>2. CASE c.tail BY <1>3, <1>4, <2>1, <2>2
  <2>3. CASE ~c.tail BY <1>3, <1>4, <2>1, <2>3
  <2> QED BY <2>2, <2>3
<1> HIDE DEF k
<1>6. Prefix(c, safe).recs = SubSeq(c.recs, 1, k) BY <1>3 DEF Prefix
<1>7. ASSUME Prefix(c, safe).recs # <<>> PROVE k >= 1 /\ Prefix(c, safe).sid = c.sid
  <2>1. k # 0
    <3>1. k = 0 => SubSeq(c.recs, 1, k) = <<>> BY <1>3, SubSeqEmpty
    <3> QED BY <1>6, <1>7, <3>1
  <2>2. safe # 0 BY <1>3, <2>1
  <2> QED BY <1>3, <2>1, <2>2 DEF Prefix
<1>8. ASSUME Prefix(c, safe).recs # <<>>
      PROVE  [path |-> f, sid |-> st.sid, msgs |-> st.boundary.recs] \in Promised!Replays(f)
  <2>1. k \in 1..(Len(c.recs) - (IF c.tail THEN 1 ELSE 0)) BY <1>3, <1>4, <1>5, <1>7, <1>8
  <2>2. st.sid = c.sid /\ st.boundary.recs = SubSeq(c.recs, 1, k) BY <1>1, <1>6, <1>7, <1>8
  <2> QED BY <2>1, <2>2 DEF Promised!Replays
<1> QED BY <1>1, <1>8 DEF st

LEMMA PromisedProject == EngineInv /\ ProjectOne => Promised!Next
<1> SUFFICES ASSUME EngineInv, NEW f \in Files, ProjectFile(f) PROVE Promised!Next
  BY DEF ProjectOne
<1>1. /\ UNCHANGED <<raw, sess, cov, req, before, tx, pc, pending>>
      /\ pc = "project" /\ f \in todo /\ req # NoRequest
  BY DEF ProjectFile, world, index, EngineInv, ControlOK
<1>2. Listed' = Listed /\ Rewritten' = Rewritten
  BY <1>1, StageSays
<1>3. CASE stage' = stage
  <2>1. Replayed' = Replayed BY <1>3, StageSays
  <2> QED BY <1>1, <1>2, <2>1, PromisedFrame
<1>4. CASE raw[f] # NoFile /\ stage' = Append(stage, Project(raw[f], f, before[f], cur[f]))
  <2> DEFINE st == Project(raw[f], f, before[f], cur[f])
             replay == [path |-> st.path, sid |-> st.sid, msgs |-> st.boundary.recs]
  <2>1. /\ raw[f] \in RawFile /\ Ended(raw[f]) /\ before[f] \in Entry
        /\ cur[f] \in Cursor \union {NoFile} /\ (cur[f] # NoFile => CursorOK(cur[f]))
    BY <1>1, <1>4 DEF EngineInv, WorldOK, ScanOK, IndexOK, CurType, QueueOK
  <2>2. st \in Staging /\ st.path = f /\ st.fate = "staged" BY <2>1, ProjectAnchored
  <2>3. st.boundary.recs # <<>> => replay \in Promised!Replays(f) BY <2>1, <2>2, ProjectsReplay
  <2> HIDE DEF st
  <2>4. stage \in Seq(Staging) /\ stage' = Append(stage, st) BY <1>4 DEF st, EngineInv, StageOK
  <2>5. {stage'[i] : i \in DOMAIN stage'} = {stage[i] : i \in DOMAIN stage} \cup {st}
    <3>1. /\ DOMAIN stage' = 1..Len(stage) + 1
          /\ DOMAIN stage = 1..Len(stage) /\ Len(stage) \in Nat
          /\ \A i \in 1..Len(stage) : stage'[i] = stage[i]
          /\ stage'[Len(stage) + 1] = st
      BY <2>2, <2>4, AppendProperties, LenProperties
    <3> QED BY <3>1
  <2>6. CASE st.boundary.recs = <<>>
    <3>1. Replayed' = Replayed BY <2>5, <2>6 DEF Replayed, Candidates
    <3> QED BY <1>1, <1>2, <3>1, PromisedFrame
  <2>7. CASE st.boundary.recs # <<>>
    <3>1. Candidates' = Candidates \cup {st} BY <2>2, <2>5, <2>7 DEF Candidates
    <3>2. Replayed' = Replayed \cup {replay} BY <3>1 DEF Replayed
    <3>3. (Replayed \cup Rewritten)' = (Replayed \cup Rewritten) \cup {replay} BY <1>2, <3>2
    <3> HIDE DEF replay
    <3>4. Promised!Read(f)
      BY <1>1, <1>2, <1>4, <2>3, <2>7, <3>3 DEF Promised!Read, Listed, NoFile, NoRequest
    <3> QED BY <3>4 DEF Promised!Next
  <2> QED BY <2>6, <2>7
<1> QED BY <1>3, <1>4 DEF ProjectFile

(* The judgement only ever takes back.                                     *)
LEMMA PromisedJudge ==
  EngineInv /\ (Validate \/ ResolveMoves \/ ClassifySnapshots) => Promised!Next
<1> SUFFICES ASSUME EngineInv, Validate \/ ResolveMoves \/ ClassifySnapshots
             PROVE  Promised!Next
  OBVIOUS
<1>1. PICK why \in {"invalid", "duplicate", "deferred"} : Demotes(why)
  BY ValidateStep, ResolveStep, ClassifyStep
<1>2. /\ UNCHANGED <<raw, sess, cov, req, before, pending, tx>>
      /\ pc # "scanA" /\ pc' # "scanA" /\ req # NoRequest
  BY DEF Validate, ResolveMoves, ClassifySnapshots, PhaseDone, world, index, EngineInv, ControlOK
<1>3. Listed' = Listed /\ Rewritten' = Rewritten
  BY <1>2, StageSays
<1>4. Replayed' \subseteq Replayed
  <2>1. \A i \in DOMAIN stage : stage'[i].fate = "staged" => stage'[i] = stage[i]
    BY <1>1, DemotedEntry DEF EngineInv
  <2>2. DOMAIN stage' = DOMAIN stage BY <1>1 DEF Demotes
  <2>3. Candidates' \subseteq Candidates BY <2>1, <2>2 DEF Candidates
  <2> QED BY <2>3 DEF Replayed
<1> QED BY <1>2, <1>3, <1>4, PromisedDiscard

LEMMA PromisedQuiet ==
  EngineInv /\ (PlanProjection \/ Rescan \/ OpenTransaction) => Promised!Next
<1> SUFFICES ASSUME EngineInv, PlanProjection \/ Rescan \/ OpenTransaction
             PROVE  Promised!Next
  OBVIOUS
<1>1. UNCHANGED <<raw, sess, cov, req, before, pending, stage>> /\ pending = NoFile
  BY DEF PlanProjection, Rescan, OpenTransaction, PhaseDone, world, index
<1>2. Listed' = Listed /\ Replayed' = Replayed
  BY <1>1, StageSays
<1>3. Rewritten' = Rewritten
  <2>1. CASE OpenTransaction
    <3>1. tx = NoTx BY <2>1 DEF OpenTransaction, PhaseDone, EngineInv, TxOK
    <3>2. tx'.sess = sess BY <2>1, OpenTables
    <3>3. Rewritten' = {} BY <1>1, <3>2 DEF Rewritten
    <3> QED BY <3>1, <3>3 DEF Rewritten
  <2>2. CASE PlanProjection \/ Rescan
    BY <1>1, <2>2, StageSays DEF PlanProjection, Rescan
  <2> QED BY <2>1, <2>2
<1> QED BY <1>1, <1>2, <1>3, PromisedFrame


(* y has the rows of the transaction, or none, or what a replay gives.     *)
Publishes(y) ==
  \A s \in Sids :
    \/ y.sess[s] \in {tx.sess[s], NoSession}
    \/ \E st \in Candidates :
         s = st.sid /\ y.sess[s] = [path |-> st.path, msgs |-> st.boundary.recs]

LEMMA PutPublishes ==
  ASSUME NEW x, TxShape(x), \A s \in Sids : x.sess[s] \in {tx.sess[s], NoSession},
         NEW st \in Candidates, NEW ms, ms = st.boundary.recs
  PROVE  Publishes(PutSession(x, st, ms))
<1>1. \A s \in Sids : \/ PutSession(x, st, ms).sess[s] = x.sess[s]
                      \/ /\ s = st.sid
                         /\ PutSession(x, st, ms).sess[s] = [path |-> st.path, msgs |-> ms]
  BY DEF PutSession, TxShape, SessType
<1> QED BY <1>1 DEF Publishes

(* What is written is a replay, also where the index has the beginning of  *)
(* it already: a delta is appended to what its cursor describes.           *)
LEMMA ApplyPublishes == ReplayInv /\ Apply => Publishes(tx')
<1> SUFFICES ASSUME ReplayInv, Apply PROVE Publishes(tx') OBVIOUS
<1> DEFINE st == Head(stage)
           prior == cur[st.path]
           d == DropSessions(tx, SessionsAt(tx, st.path))
<1>1. PhaseDone("apply") /\ stage # <<>>
  BY DEF Apply, ApplyRefused, ApplyEmpty, ApplyFull, ApplyDelta, ApplyNext
<1>2. TxShape(tx) /\ st = stage[1] /\ 1 \in DOMAIN stage
  BY <1>1, HeadOfStage, TailOfStage DEF ReplayInv, EngineInv
<1>3. TxShape(d) /\ \A s \in Sids : d.sess[s] \in {tx.sess[s], NoSession}
  <2>1. TxShape(d) BY <1>2, DropSessionsShape
  <2>2. \A s \in Sids : d.sess[s] \in {tx.sess[s], NoSession} BY DEF DropSessions
  <2> QED BY <2>1, <2>2
<1> HIDE DEF d
<1>4. Publishes(tx) BY DEF Publishes
<1>5. CASE ApplyRefused
  <2>1. tx' = tx BY <1>5 DEF ApplyRefused, ApplyNext
  <2> QED BY <1>4, <2>1 DEF Publishes
<1>6. CASE ApplyEmpty
  <2>1. tx' = [d EXCEPT !.cur[st.path] = CursorOf(st, NoSid)]
    BY <1>6 DEF ApplyEmpty, ApplyNext, d
  <2>2. tx'.sess = d.sess BY <1>3, <2>1 DEF TxShape
  <2> QED BY <1>3, <2>2 DEF Publishes
<1>7. ASSUME st.fate = "staged", st.boundary.recs # <<>> PROVE st \in Candidates
  BY <1>2, <1>7 DEF Candidates
<1>8. CASE ApplyFull
  <2>1. PICK x \in {tx, d} : tx' \in {tx, PutSession(x, st, st.docs)}
    BY <1>8 DEF ApplyFull, ApplyNext, d
  <2>2. st.fate = "staged" /\ st.boundary.recs # <<>> /\ st.mode = "full"
    BY <1>8 DEF ApplyFull
  <2>3. st.docs = st.boundary.recs BY <1>1, <2>2, HeadWrites DEF Anchored
  <2> HIDE DEF st
  <2>4. Publishes(PutSession(x, st, st.docs))
    BY <1>2, <1>3, <1>7, <2>1, <2>2, <2>3, PutPublishes
  <2> QED BY <1>4, <2>1, <2>4
<1>9. CASE ApplyDelta
  <2> DEFINE first == prior.sid = NoSid /\ NextSeq(prior) = 0
             row   == tx.sess[st.sid]
             base  == IF first \/ row = NoSession THEN <<>> ELSE row.msgs
             fits  == first \/ (/\ prior.sid = st.sid
                                /\ row # NoSession
                                /\ Len(base) = NextSeq(prior))
  <2>1. /\ st.fate = "staged" /\ st.boundary.recs # <<>> /\ st.mode = "delta"
        /\ ApplyNext(fits /\ ~Conflict(tx, st), PutSession(tx, st, base \o st.docs))
    BY <1>9 DEF ApplyDelta
  <2>2. fits => base \o st.docs = st.boundary.recs
    BY <1>1, <2>1, DeltaContinues
  <2> HIDE DEF st
  <2> HIDE DEF fits, base, prior, row
  <2>3. fits => Publishes(PutSession(tx, st, base \o st.docs))
    <3>1. \A s \in Sids : tx.sess[s] \in {tx.sess[s], NoSession} OBVIOUS
    <3> QED BY <1>2, <1>7, <2>1, <2>2, <3>1, PutPublishes
  <2>4. tx' = tx \/ (fits /\ tx' = PutSession(tx, st, base \o st.docs))
    BY <2>1 DEF ApplyNext
  <2> QED BY <1>4, <2>3, <2>4
<1> QED BY <1>5, <1>6, <1>8, <1>9 DEF Apply

LEMMA PromisedApply == ReplayInv /\ Apply => Promised!Next
<1> SUFFICES ASSUME ReplayInv, Apply PROVE Promised!Next OBVIOUS
<1>1. Publishes(tx') BY ApplyPublishes
<1>2. /\ pc = "apply" /\ pc' = "apply" /\ stage # <<>> /\ stage' = Tail(stage)
      /\ UNCHANGED <<sess, cur, before, req>> /\ StageOK /\ tx # NoTx
  BY ApplyTouches DEF ReplayInv, EngineInv, TxOK
<1>3. UNCHANGED <<raw, cov, pending>> /\ req # NoRequest
  BY <1>2 DEF Apply, ApplyRefused, ApplyEmpty, ApplyFull, ApplyDelta, ApplyNext, world, index,
              ReplayInv, EngineInv, ControlOK
<1>4. Listed' = Listed BY <1>2, <1>3, StageSays
<1>5. Candidates' \subseteq Candidates
  <2>1. \A i \in DOMAIN stage' : i + 1 \in DOMAIN stage /\ stage'[i] = stage[i + 1]
    BY <1>2, TailOfStage
  <2> QED BY <2>1 DEF Candidates
<1>6. Replayed' \subseteq Replayed BY <1>5 DEF Replayed
<1>7. Rewritten' \subseteq Rewritten \cup Replayed
  <2> SUFFICES ASSUME NEW s \in Sids, tx'.sess[s] # NoSession, tx'.sess[s] # sess[s]
               PROVE  [path |-> tx'.sess[s].path, sid |-> s, msgs |-> tx'.sess[s].msgs]
                        \in Rewritten \cup Replayed
    BY <1>2 DEF Rewritten
  <2>1. CASE tx'.sess[s] = tx.sess[s] BY <1>2, <2>1 DEF Rewritten
  <2>2. CASE \E st \in Candidates :
               s = st.sid /\ tx'.sess[s] = [path |-> st.path, msgs |-> st.boundary.recs]
    BY <2>2 DEF Replayed
  <2> QED BY <1>1, <2>1, <2>2 DEF Publishes
<1> QED BY <1>2, <1>3, <1>4, <1>6, <1>7, PromisedDiscard


LEMMA PromisedPrune == EngineInv /\ Prune => Promised!Next
<1> SUFFICES ASSUME EngineInv, Prune PROVE Promised!Next OBVIOUS
<1>1. /\ UNCHANGED <<raw, sess, cov, req, before, pending, stage>> /\ pending = NoFile
      /\ req # NoRequest /\ tx # NoTx /\ tx' = IF MayPrune THEN Pruned(tx) ELSE tx
  BY DEF Prune, PhaseDone, world, index, EngineInv, TxOK, ControlOK
<1>2. Listed' = Listed /\ Replayed' = Replayed
  BY <1>1, StageSays
<1>3. TxShape(tx) BY <1>1 DEF EngineInv, TxOK
<1>4. \A s \in Sids : tx'.sess[s] \in {tx.sess[s], NoSession} BY <1>1, <1>3, PrunedRows
<1>5. Rewritten' \subseteq Rewritten BY <1>1, <1>4 DEF Rewritten
<1> QED BY <1>1, <1>2, <1>5, PromisedDiscard

(* A run ends with nothing left to publish.                                *)
LEMMA PromisedEnded == ResetRun => Promised!Ended
<1> SUFFICES ASSUME ResetRun PROVE Promised!Ended OBVIOUS
<1>1. Selected(before') = {} BY DEF ResetRun, Selected, NoSnapshot
<1>2. Listing' = {} /\ Rewritten' = {} BY DEF ResetRun, Listing, Rewritten
<1>3. DOMAIN stage' = {} BY EmptySeq DEF ResetRun
<1>4. Replayed' = {} BY <1>3 DEF Replayed, Candidates
<1> QED BY <1>1, <1>2, <1>4 DEF ResetRun, Promised!Ended, NoRequest, Selected

LEMMA PromisedAbandon ==
  ASSUME EngineInv, pc # "idle", ResetRun, UNCHANGED <<raw, sess>>, cov' \in {cov, NoProof}
  PROVE  Promised!Next
<1>1. Promised!Ended BY PromisedEnded
<1>2. req # NoRequest BY DEF EngineInv, ControlOK
<1> QED BY <1>1, <1>2 DEF Promised!Next, Promised!Abandon, NoRequest

(* What is published is whole: each row is as it was, a replay, or gone.   *)
LEMMA PromisedCommit == ReplayInv /\ TouchInv /\ Commit => Promised!Next
<1> SUFFICES ASSUME ReplayInv, TouchInv, Commit PROVE Promised!Next OBVIOUS
<1>1. EngineInv /\ pc = "commit" /\ req # NoRequest /\ tx # NoTx /\ TxShape(tx)
  BY DEF Commit, PhaseDone, ReplayInv, EngineInv, TxOK, ControlOK
<1>2. CASE ~CursorsFit(tx)
  <2>1. ResetRun /\ UNCHANGED <<raw, sess>> /\ cov' = NoProof
    BY <1>2 DEF Commit, FailSync, world
  <2> QED BY <1>1, <2>1, PromisedAbandon
<1>3. CASE CursorsFit(tx)
  <2>1. ResetRun /\ UNCHANGED raw /\ sess' = tx.sess /\ cov' = Proof
    BY <1>3 DEF Commit, world
  <2>2. Promised!Ended BY <2>1, PromisedEnded
  <2>3. ASSUME NEW s \in Sids PROVE sess'[s] = sess[s] \/ Promised!Written(s) \/ Promised!Dropped(s)
    <3>1. CASE sess'[s] \notin {NoSession, sess[s]}
      <4>1. [path |-> sess'[s].path, sid |-> s, msgs |-> sess'[s].msgs] \in Rewritten
        BY <1>1, <2>1, <3>1 DEF Rewritten
      <4> QED BY <3>1, <4>1 DEF Promised!Written, NoSession
    <3>2. CASE sess'[s] = NoSession /\ sess[s] # NoSession
      <4>1. before[sess[s].path] = NoFile => req.prune
        BY <1>1, <2>1, <3>2 DEF TouchInv, TouchedOK
      <4>2. sess[s].path \in DOMAIN before
        BY <1>1, <3>2 DEF EngineInv, IndexOK, SessType, ScanOK, Row
      <4>3. sess[s].path \in Listed \/ req.prune BY <4>1, <4>2 DEF Listed, Selected
      <4> QED BY <3>2, <4>3 DEF Promised!Dropped, Listed, NoSession
    <3> QED BY <3>1, <3>2
  <2>4. ASSUME NEW s \in Sids, NEW t \in Sids, sess'[s] # None, sess'[t] # None,
               sess'[s].path = sess'[t].path
        PROVE  s = t
    BY <1>1, <2>1, <2>4 DEF ReplayInv, Consistent, OneEach, NoSession
  <2>5. cov' # NoProof => req.strict BY <2>1 DEF Proof
  <2>6. Promised!Publish
    BY <1>1, <2>1, <2>2, <2>3, <2>4, <2>5 DEF Promised!Publish, NoRequest
  <2> QED BY <2>6 DEF Promised!Next
<1> QED BY <1>2, <1>3

LEMMA PromisedStep ==
  ReplayInv /\ TouchInv /\ PendingOK /\ [Next]_vars => [Promised!Next]_(Promised!vars)
<1> SUFFICES ASSUME ReplayInv, TouchInv, PendingOK, [Next]_vars PROVE Promised!Next
  OBVIOUS
<1>1. EngineInv BY DEF ReplayInv
<1>2. CASE AgentStep \/ UNCHANGED vars
  <2>1. UNCHANGED <<sess, cov, req, before, pc, pending, stage, tx>>
    BY <1>2 DEF AgentStep, vars, index, run
  <2>2. Listed' = Listed /\ Replayed' = Replayed /\ Rewritten' = Rewritten
    BY <2>1, StageSays
  <2> QED BY <2>1, <2>2, PromisedFrame
<1>3. ASSUME NEW r \in Requests, Begin(r) PROVE Promised!Next
  <2>1. /\ UNCHANGED <<raw, sess, cov, before, pending, stage, tx>> /\ pc = "idle"
        /\ req = NoRequest /\ req' # NoRequest /\ pending = NoFile
    BY <1>1, <1>3, NoneIsNothing DEF Begin, world, index, EngineInv, ControlOK, PendingOK
  <2>2. Listed' = Listed /\ Replayed' = Replayed /\ Rewritten' = Rewritten
    BY <2>1, StageSays
  <2>3. Promised!Start BY <2>1, <2>2 DEF Promised!Start, Listed, NoRequest
  <2> QED BY <2>3 DEF Promised!Next
<1>4. CASE GiveUp \/ IoError \/ Crash
  <2>1. pc # "idle" /\ ResetRun /\ UNCHANGED <<raw, sess>> /\ cov' \in {cov, NoProof}
    BY <1>4 DEF GiveUp, IoError, Crash, FailSync, world, index
  <2> QED BY <1>1, <2>1, PromisedAbandon
<1>5. CASE SyncStep
  BY <1>1, <1>4, <1>5, PromisedScan, PromisedProject, PromisedJudge, PromisedQuiet,
     PromisedApply, PromisedPrune, PromisedCommit DEF SyncStep
<1> QED BY <1>2, <1>3, <1>4, <1>5 DEF Next

(* Whatever syncs leave out because it is known, continue from a cursor,   *)
(* restamp, move or give up: those who search the index see one that is    *)
(* replayed in full, whole sessions at a time and one sync at a time - as  *)
(* long as no restamp revives a cursor (see SpecIncrementalIsFullReplay).  *)
THEOREM SpecImplementsReplayIndex == Spec /\ []~Revives => ImplementsReplayIndex
<1>1. Init => PendingOK BY DEF Init, PendingOK
<1>2. Spec => []PendingOK BY <1>1, NextPending, PTL DEF Spec
<1> QED
  BY <1>2, SpecConsistent, SpecTouched, PromisedInit, PromisedStep, PTL
     DEF Spec, ImplementsReplayIndex, Promised!Spec

=============================================================================
