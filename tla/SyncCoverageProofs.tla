-------------------------- MODULE SyncCoverageProofs --------------------------
(***************************************************************************)
(* Fresh coverage means searchable: what SyncEngine guarantees of a root   *)
(* whose files only grow, come, go and are replaced, each path for         *)
(* sessions of its own, and are not written between a stat and its read.   *)
(* And that a copy takes no session away from an untouched original,       *)
(* whatever the agents write or rename.                                    *)
(***************************************************************************)
EXTENDS SyncEngineProofs

CalmWorld ==
  /\ WorldOps \subseteq {"append", "create", "replace", "remove", "touch"}
  /\ ~TornScan
  /\ \A f, g \in Files : f # g => Carries[f] \intersect Carries[g] = {}

-----------------------------------------------------------------------------
(* What was seen of a file.  r is the state of the files, n the clock.     *)

CalmRaw(r, n) ==
  \A f \in Files : r[f] # NoFile =>
    /\ ~r[f].tail /\ r[f].sid \in Carries[f] /\ r[f].ino <= n

(* At f there was a file with e.stat, and it held e.acc: whatever bears    *)
(* that inode still starts with the same records.                          *)
Known(r, n, f, e) ==
  /\ e.stat.ino <= n
  /\ e.stat.size = 2 * Len(e.acc.recs)
  /\ IF e.acc.recs = <<>> THEN e.acc.sid = NoSid ELSE e.acc.sid \in Carries[f]
  /\ r[f] # NoFile /\ r[f].ino = e.stat.ino =>
       /\ Len(e.acc.recs) <= Len(r[f].recs)
       /\ SubSeq(r[f].recs, 1, Len(e.acc.recs)) = e.acc.recs
       /\ e.acc.recs # <<>> => e.acc.sid = r[f].sid

(* A cursor stands for what its snapshot accepted.                         *)
Stands(r, n, f, c) ==
  Known(r, n, f, c) /\ c.boundary.recs = c.acc.recs /\ c.sid = c.acc.sid

Standing(r, n, x) ==
  /\ \A f \in Files : x.cur[f] # NoFile => Stands(r, n, f, x.cur[f])
  /\ \A s \in Sids : x.sess[s] # NoSession => s \in Carries[x.sess[s].path]

(* A projection holds what the snapshot b accepted.                        *)
AsSeen(st, b) ==
  st.boundary.recs = b[st.path].acc.recs /\ st.sid = b[st.path].acc.sid

(* A step of the agents: one file grows, is touched, is new or is gone.    *)
Grows(c, d) == /\ d # NoFile /\ c.ino = d.ino /\ c.sid = d.sid
               /\ c.recs = d.recs \/ \E r \in Records : c.recs = Append(d.recs, r)

LEMMA CalmStep ==
  ASSUME CalmWorld, WorldOK, CalmRaw(raw, writes), AgentStep
  PROVE  /\ UNCHANGED <<index, run>> /\ pending = NoFile /\ writes' = writes + 1
         /\ \E f \in Files, c \in RawFile \union {NoFile} :
              /\ raw' = [raw EXCEPT ![f] = c]
              /\ c # NoFile => /\ ~c.tail /\ c.sid \in Carries[f]
                               /\ c.ino = writes + 1 \/ Grows(c, raw[f])
<1>1. UNCHANGED <<index, run>> /\ pending = NoFile
  BY DEF AgentStep, CalmWorld
<1>2. PICK f \in Files :
        \/ AppendRecord(f, FALSE) \/ ReplaceFile(f) \/ CreateFile(f) \/ RemoveFile(f)
        \/ TouchFile(f)
  BY DEF AgentStep, CalmWorld
<1>3. raw[f] # NoFile => /\ raw[f] \in RawFile /\ ~raw[f].tail /\ raw[f].sid \in Carries[f]
  BY DEF WorldOK, CalmRaw
<1>4. writes + 1 \in Nat /\ Carries[f] \subseteq Sids
  BY ConstantsOK DEF WorldOK
<1> DEFINE Fits(c) == c # NoFile => /\ ~c.tail /\ c.sid \in Carries[f]
                                    /\ c.ino = writes + 1 \/ Grows(c, raw[f])
<1> HIDE DEF Fits
<1>5. SUFFICES \E c \in RawFile \union {NoFile} : Write(f, c) /\ Fits(c)
  BY <1>1 DEF Write, Fits
<1>6. CASE AppendRecord(f, FALSE)
  <2>0. PICK t \in BOOLEAN : t = FALSE /\ AppendRecord(f, t)
    BY <1>6
  <2>1. PICK r \in Records :
          /\ raw[f] # NoFile
          /\ Write(f, [raw[f] EXCEPT !.recs = Append(@, r), !.mt = writes + 1, !.tail = t])
    BY <2>0, Zenon DEF AppendRecord
  <2> DEFINE c == [raw[f] EXCEPT !.recs = Append(@, r), !.mt = writes + 1, !.tail = t]
  <2>2. c \in RawFile
    BY <1>3, <1>4, <2>1, AppendProperties DEF RawFile
  <2>3. /\ c.tail = FALSE /\ c.ino = raw[f].ino /\ c.sid = raw[f].sid
        /\ c.recs = Append(raw[f].recs, r)
    BY <1>3, <2>0, <2>1 DEF RawFile
  <2> HIDE DEF c
  <2>4. Fits(c)
    BY <1>3, <2>1, <2>3 DEF Fits, Grows
  <2> QED BY <2>1, <2>2, <2>4 DEF c
<1>7. CASE ReplaceFile(f) \/ CreateFile(f)
  <2>1. PICK s \in Carries[f], rs \in Seq(Records) : Write(f, NewFile(s, rs))
    <3>1. <<>> \in Seq(Records) /\ \A r \in Records : <<r>> \in Seq(Records)
      BY EmptySeq
    <3> QED BY <1>7, <3>1 DEF ReplaceFile, CreateFile
  <2>2. NewFile(s, rs) \in RawFile /\ Fits(NewFile(s, rs))
    BY <1>4, <2>1 DEF NewFile, RawFile, Fits
  <2> QED BY <2>1, <2>2
<1>8. CASE RemoveFile(f)
  BY <1>8 DEF RemoveFile, Fits
<1>9. CASE TouchFile(f)
  <2> DEFINE c == [raw[f] EXCEPT !.mt = writes + 1]
  <2>1. raw[f] # NoFile /\ Write(f, c)
    BY <1>9 DEF TouchFile
  <2>2. /\ c \in RawFile /\ c.ino = raw[f].ino /\ c.sid = raw[f].sid /\ c.recs = raw[f].recs
        /\ c.tail = raw[f].tail
    BY <1>3, <1>4, <2>1 DEF RawFile
  <2> HIDE DEF c
  <2>3. Fits(c)
    BY <1>3, <2>1, <2>2 DEF Fits, Grows
  <2> QED BY <2>1, <2>2, <2>3
<1> QED BY <1>2, <1>6, <1>7, <1>8, <1>9

(* The first records stay what they were when one is appended.             *)
LEMMA FirstOfAppend ==
  ASSUME NEW S, NEW s \in Seq(S), NEW r \in S, NEW k \in Nat, k <= Len(s)
  PROVE  k <= Len(Append(s, r)) /\ SubSeq(Append(s, r), 1, k) = SubSeq(s, 1, k)
<1>1. /\ Len(s) \in Nat /\ Append(s, r) \in Seq(S) /\ Len(Append(s, r)) = Len(s) + 1
      /\ \A i \in 1..Len(s) : Append(s, r)[i] = s[i]
  BY AppendProperties, LenProperties
<1>2. /\ \A i \in 1..k : s[i] \in S /\ Append(s, r)[i] = s[i]
  BY <1>1, ElementOfSeq
<1>3. /\ SubSeq(s, 1, k) \in Seq(S) /\ Len(SubSeq(s, 1, k)) = k
      /\ SubSeq(Append(s, r), 1, k) \in Seq(S) /\ Len(SubSeq(Append(s, r), 1, k)) = k
  BY <1>1, FirstOf
<1>4. /\ \A i \in 1..k - 1 + 1 : SubSeq(s, 1, k)[i] = s[1 + i - 1]
      /\ \A i \in 1..k - 1 + 1 : SubSeq(Append(s, r), 1, k)[i] = Append(s, r)[1 + i - 1]
  BY <1>1, <1>2, SubSeqProperties
<1>5. \A i \in 1..k : SubSeq(Append(s, r), 1, k)[i] = SubSeq(s, 1, k)[i]
  BY <1>1, <1>2, <1>4
<1> QED BY <1>1, <1>3, <1>5, SeqEqual

LEMMA CalmStepRaw ==
  ASSUME CalmWorld, WorldOK, CalmRaw(raw, writes), AgentStep
  PROVE  CalmRaw(raw', writes')
BY CalmStep DEF CalmRaw, Grows, WorldOK, RawFile

LEMMA CalmStepKnown ==
  ASSUME CalmWorld, WorldOK, CalmRaw(raw, writes), AgentStep, NEW f \in Files,
         NEW e, e.stat \in Stats, e.acc \in Accs, Known(raw, writes, f, e)
  PROVE  Known(raw', writes', f, e)
<1>1. PICK g \in Files, c \in RawFile \union {NoFile} :
        /\ raw' = [raw EXCEPT ![g] = c]
        /\ c # NoFile => /\ ~c.tail /\ c.sid \in Carries[g]
                         /\ c.ino = writes + 1 \/ Grows(c, raw[g])
  BY CalmStep
<1>2. writes \in Nat /\ writes' = writes + 1 /\ e.stat.ino \in Nat /\ e.acc.recs \in Seq(Records)
      /\ Len(e.acc.recs) \in Nat
  BY CalmStep, LenProperties DEF WorldOK, Stats, Accs
<1>3. CASE raw'[f] = raw[f]
  BY <1>2, <1>3 DEF Known
<1>4. CASE raw'[f] # raw[f]
  <2>1. g = f /\ raw'[f] = c
    BY <1>1, <1>4 DEF WorldOK
  <2>2. CASE c = NoFile \/ c.ino = writes + 1
    BY <1>2, <2>1, <2>2 DEF Known
  <2>3. CASE c # NoFile /\ Grows(c, raw[f])
    <3>1. raw[f] \in RawFile /\ raw[f].recs \in Seq(Records) /\ raw[f] # NoFile
      BY <2>3 DEF WorldOK, RawFile, Grows
    <3>2. Len(e.acc.recs) <= Len(raw[f].recs) =>
            /\ Len(e.acc.recs) <= Len(c.recs)
            /\ SubSeq(c.recs, 1, Len(e.acc.recs)) = SubSeq(raw[f].recs, 1, Len(e.acc.recs))
      <4>1. CASE c.recs = raw[f].recs
        BY <4>1, <1>2, <3>1, LenProperties
      <4>2. ASSUME NEW r \in Records, c.recs = Append(raw[f].recs, r),
                   Len(e.acc.recs) <= Len(raw[f].recs)
            PROVE  /\ Len(e.acc.recs) <= Len(c.recs)
                   /\ SubSeq(c.recs, 1, Len(e.acc.recs)) = SubSeq(raw[f].recs, 1, Len(e.acc.recs))
        BY <1>2, <3>1, <4>2, FirstOfAppend
      <4> QED BY <2>3, <4>1, <4>2 DEF Grows
    <3>3. e.stat.ino <= writes'
      BY <1>2 DEF Known
    <3> QED BY <2>1, <2>3, <3>1, <3>2, <3>3 DEF Known, Grows
  <2> QED BY <1>1, <2>1, <2>2, <2>3
<1> QED BY <1>3, <1>4

-----------------------------------------------------------------------------
(* What one read of a file adds to it.                                     *)

LEMMA CalmBytes ==
  ASSUME NEW c \in RawFile, ~c.tail
  PROVE  Bytes(c) = 2 * Len(c.recs) /\ Len(c.recs) \in Nat /\ c.recs \in Seq(Records)
BY LenProperties DEF Bytes, RawFile

LEMMA AcceptedKnown ==
  ASSUME WorldOK, CalmRaw(raw, writes), NEW f \in Files, raw[f] # NoFile,
         NEW e, e.stat = Stat(raw[f]), e.acc = Accepted(raw[f])
  PROVE  Known(raw, writes, f, e)
<1>1. /\ raw[f] \in RawFile /\ ~raw[f].tail /\ raw[f].sid \in Carries[f]
      /\ raw[f].ino <= writes
  BY DEF WorldOK, CalmRaw
<1>2. SubSeq(raw[f].recs, 1, Len(raw[f].recs)) = raw[f].recs
  BY <1>1, CalmBytes, SubSeqFull
<1> QED BY <1>1, <1>2, CalmBytes DEF Known, Stat, Accepted

LEMMA KnownIsAccepted ==
  ASSUME WorldOK, CalmRaw(raw, writes), NEW f \in Files, raw[f] # NoFile,
         NEW e, e.acc \in Accs, Known(raw, writes, f, e), e.stat = Stat(raw[f])
  PROVE  e.acc = Accepted(raw[f])
<1>1. raw[f] \in RawFile /\ ~raw[f].tail
  BY DEF WorldOK, CalmRaw
<1>2. e.stat.ino = raw[f].ino /\ e.stat.size = 2 * Len(raw[f].recs)
  BY <1>1, CalmBytes DEF Stat
<1>3. e.acc.recs \in Seq(Records) /\ Len(e.acc.recs) \in Nat
  BY LenProperties DEF Accs
<1>4. Len(e.acc.recs) = Len(raw[f].recs)
  BY <1>1, <1>2, <1>3, CalmBytes DEF Known
<1>5. e.acc.recs = raw[f].recs
  BY <1>1, <1>2, <1>4, CalmBytes, SubSeqFull DEF Known
<1>6. e.acc.sid = IF raw[f].recs = <<>> THEN NoSid ELSE raw[f].sid
  BY <1>2, <1>5 DEF Known
<1>7. e.acc = [sid |-> e.acc.sid, recs |-> e.acc.recs]
  BY DEF Accs
<1> QED BY <1>5, <1>6, <1>7 DEF Accepted

(* A projection of the file that the snapshot saw, whatever grew since.    *)
LEMMA ProjectedAsSeen ==
  ASSUME NEW f \in Files, WorldOK, CalmRaw(raw, writes), raw[f] # NoFile,
         NEW b, b[f] \in Entry, Known(raw, writes, f, b[f]), raw[f].ino = b[f].stat.ino,
         NEW checkpoint
  PROVE  AsSeen(Project(raw[f], f, b[f], checkpoint), b)
<1> DEFINE c == raw[f]
           e == b[f]
           k == Len(e.acc.recs)
           st == Project(c, f, e, checkpoint)
<1>1. /\ c \in RawFile /\ ~c.tail /\ e.acc.recs \in Seq(Records)
      /\ e.acc.sid \in Sids \union {NoSid} /\ k \in Nat
  BY LenProperties DEF WorldOK, CalmRaw, Entry, Accs
<1>2. /\ e.stat.size = 2 * k /\ k <= Len(c.recs) /\ SubSeq(c.recs, 1, k) = e.acc.recs
      /\ e.acc.recs # <<>> => e.acc.sid = c.sid
      /\ e.acc.recs = <<>> => e.acc.sid = NoSid
  BY DEF Known
<1>3. Bytes(c) = 2 * Len(c.recs) /\ Len(c.recs) \in Nat
  BY <1>1, CalmBytes
<1> HIDE DEF c, k
<1>4. SafeBytes(c, e.stat.size) = 2 * k
  <2>1. Least(2 * k, Bytes(c)) = 2 * k
    BY <1>1, <1>2, <1>3 DEF Least
  <2>2. 2 * ((2 * k) \div 2) = 2 * k
    BY <1>1
  <2> QED BY <1>2, <2>1, <2>2 DEF SafeBytes
<1>5. st.boundary = Prefix(c, 2 * k) /\ st.sid = st.boundary.sid /\ st.path = f
  BY <1>4 DEF Project, Projection, c
<1>6. Prefix(c, 2 * k).recs = e.acc.recs
  <2>1. (2 * k + 1) \div 2 = k
    BY <1>1
  <2> QED BY <1>2, <2>1 DEF Prefix
<1>7. Prefix(c, 2 * k).sid = e.acc.sid
  <2>1. 2 * k = 0 <=> e.acc.recs = <<>>
    BY <1>1, EmptySeq DEF k
  <2> QED BY <1>2, <2>1 DEF Prefix
<1> QED BY <1>5, <1>6, <1>7 DEF AsSeen, c

-----------------------------------------------------------------------------
(* The variables agree with what was seen.                                 *)

PendingSeen == pending # NoFile => /\ raw[pending.path] # NoFile
                                   /\ pending.stat = Stat(raw[pending.path])

BeforeSeen == \A f \in Files : before[f] # NoFile => Known(raw, writes, f, before[f])

RefreshSeen == \A r \in refreshes : /\ before[r.path] # NoFile
                                    /\ r.cursor.acc = before[r.path].acc

StageSeen == \A i \in DOMAIN stage : AsSeen(stage[i], before)

SeenOK ==
  /\ CalmRaw(raw, writes) /\ PendingSeen /\ BeforeSeen /\ RefreshSeen /\ StageSeen
  /\ Standing(raw, writes, Now)
  /\ tx # NoTx => Standing(raw, writes, tx)
  /\ stale = {}

SeenInv == EngineInv /\ SeenOK

LEMMA SeenAgent == CalmWorld /\ SeenInv /\ EngineInv' /\ AgentStep => SeenInv'
<1> SUFFICES ASSUME CalmWorld, SeenInv, EngineInv', AgentStep PROVE SeenInv' OBVIOUS
<1>1. /\ WorldOK /\ CalmRaw(raw, writes) /\ pending = NoFile
      /\ UNCHANGED <<sess, cur, before, pending, refreshes, stage, stale, tx>>
      /\ CalmRaw(raw', writes')
  BY CalmStep, CalmStepRaw DEF SeenInv, SeenOK, EngineInv, index, run
<1>2. ASSUME NEW x, CurType(x.cur), Standing(raw, writes, x)
      PROVE  Standing(raw', writes', x)
  BY <1>1, <1>2, CalmStepKnown DEF Standing, Stands, CurType, Cursor
<1>3. Standing(raw', writes', Now)
  BY <1>2 DEF SeenInv, SeenOK, EngineInv, IndexOK, Now
<1>4. tx # NoTx => Standing(raw', writes', tx)
  BY <1>2 DEF SeenInv, SeenOK, EngineInv, TxOK, TxShape
<1>5. ASSUME NEW f \in Files, before[f] # NoFile
      PROVE  Known(raw', writes', f, before[f])
  <2>1. before[f].stat \in Stats /\ before[f].acc \in Accs
    BY <1>5 DEF SeenInv, EngineInv, ScanOK, Entry
  <2> QED BY <1>1, <1>5, <2>1, CalmStepKnown DEF SeenInv, SeenOK, BeforeSeen
<1>6. Standing(raw', writes', Now')
  BY <1>1, <1>3 DEF Now
<1> QED BY <1>1, <1>4, <1>5, <1>6 DEF SeenInv, SeenOK, PendingSeen, BeforeSeen, RefreshSeen,
                                      StageSeen, AsSeen

(* A step of the sync that leaves index and snapshot alone.                *)
LEMMA SeenQuiet ==
  ASSUME SeenInv, EngineInv', UNCHANGED <<raw, writes, sess, cur>>, PendingSeen', BeforeSeen',
         RefreshSeen', StageSeen', stale' = {}, tx' = NoTx \/ tx' = tx
  PROVE  SeenInv'
<1>1. Now' = Now
  BY DEF Now
<1> QED BY <1>1 DEF SeenInv, SeenOK

LEMMA SeenReset == SeenInv /\ EngineInv' /\ ResetRun /\ UNCHANGED <<world, sess, cur>> => SeenInv'
<1> SUFFICES ASSUME SeenInv, EngineInv', ResetRun, UNCHANGED <<world, sess, cur>>
             PROVE  SeenInv'
  OBVIOUS
<1>1. PendingSeen' /\ BeforeSeen' /\ RefreshSeen' /\ stale' = {} /\ tx' = NoTx
  BY DEF ResetRun, PendingSeen, BeforeSeen, RefreshSeen, NoSnapshot
<1>2. StageSeen'
  BY EmptySeq, LenProperties DEF ResetRun, StageSeen
<1> QED BY <1>1, <1>2, SeenQuiet DEF world

LEMMA SeenScanRead == SeenInv /\ EngineInv' /\ ScanRead => SeenInv'
<1> SUFFICES ASSUME SeenInv, EngineInv', ScanRead PROVE SeenInv' OBVIOUS
<1>1. /\ UNCHANGED <<raw, writes, sess, cur, pc, refreshes, stage, stale, tx>>
      /\ pending' = NoFile /\ EngineInv
  BY DEF ScanRead, index, world, SeenInv
<1>2. CASE pc # "scanA"
  <2>1. before' = before
    BY <1>2 DEF ScanRead
  <2> QED BY <1>1, <2>1, SeenQuiet DEF SeenInv, SeenOK, PendingSeen, BeforeSeen, RefreshSeen,
                                       StageSeen, AsSeen
<1>3. CASE pc = "scanA"
  <2> DEFINE f      == pending.path
             cached == cur[f]
             hit    == cached # NoFile /\ cached.stat = pending.stat
             entry  == IF hit THEN [stat |-> pending.stat, acc |-> cached.acc]
                       ELSE IF raw[f] # NoFile /\ Selects(raw[f])
                       THEN [stat |-> pending.stat, acc |-> Accepted(raw[f])]
                       ELSE NoFile
  <2>1. before' = [before EXCEPT ![f] = entry]
    BY <1>3 DEF ScanRead, Cached
  <2>2. f \in Files /\ raw[f] # NoFile /\ pending.stat = Stat(raw[f])
    BY DEF ScanRead, SeenInv, SeenOK, PendingSeen, EngineInv, ScanOK
  <2>3. ASSUME entry # NoFile PROVE Known(raw, writes, f, entry)
    <3>1. CASE hit
      <4>1. entry.stat = cached.stat /\ entry.acc = cached.acc
        BY <3>1
      <4>2. Known(raw, writes, f, cached)
        BY <2>2, <3>1 DEF SeenInv, SeenOK, Standing, Stands, Now
      <4> HIDE DEF entry
      <4> QED BY <4>1, <4>2 DEF Known
    <3>2. CASE ~hit
      <4>1. entry.stat = Stat(raw[f]) /\ entry.acc = Accepted(raw[f])
        BY <2>2, <2>3, <3>2
      <4> HIDE DEF entry
      <4> QED BY <1>1, <2>2, <4>1, AcceptedKnown DEF SeenInv, SeenOK, EngineInv
    <3> QED BY <3>1, <3>2
  <2> HIDE DEF entry
  <2>4. BeforeSeen'
    BY <1>1, <2>1, <2>2, <2>3 DEF SeenInv, SeenOK, BeforeSeen, EngineInv, ScanOK
  <2>5. stage = <<>> /\ refreshes = {}
    BY <1>1, <1>3 DEF EngineInv, QueueOK
  <2>6. StageSeen' /\ RefreshSeen' /\ PendingSeen'
    BY <1>1, <2>5, EmptySeq, LenProperties DEF StageSeen, RefreshSeen, PendingSeen
  <2> QED BY <1>1, <2>4, <2>6, SeenQuiet DEF SeenInv, SeenOK
<1> QED BY <1>2, <1>3

LEMMA SeenPlan == SeenInv /\ EngineInv' /\ PlanProjection => SeenInv'
<1> SUFFICES ASSUME SeenInv, EngineInv', PlanProjection PROVE SeenInv' OBVIOUS
<1>1. UNCHANGED <<raw, writes, sess, cur, before, pending, stage, stale, tx>>
  BY DEF PlanProjection, index, world
<1>2. ASSUME NEW r \in refreshes' PROVE before[r.path] # NoFile /\ r.cursor.acc = before[r.path].acc
  <2>1. PICK f \in Selected(before) :
          /\ SameBytes(f)
          /\ r = [path |-> f, cursor |-> [cur[f] EXCEPT !.stat = before[f].stat]]
    BY <1>2 DEF PlanProjection
  <2>2. f \in Files /\ before[f] # NoFile /\ cur[f] # NoFile /\ cur[f].acc = before[f].acc
    BY <2>1 DEF Selected, SameBytes, SeenInv, EngineInv, ScanOK
  <2>3. cur[f] \in Cursor
    BY <2>2 DEF SeenInv, EngineInv, IndexOK, CurType
  <2> QED BY <2>1, <2>2, <2>3 DEF Cursor
<1>3. RefreshSeen'
  BY <1>1, <1>2 DEF RefreshSeen
<1> QED BY <1>1, <1>3, SeenQuiet DEF SeenInv, SeenOK, PendingSeen, BeforeSeen, StageSeen, AsSeen

LEMMA SeenProject == \A f \in Files : SeenInv /\ EngineInv' /\ ProjectFile(f) => SeenInv'
<1> SUFFICES ASSUME NEW f \in Files, SeenInv, EngineInv', ProjectFile(f) PROVE SeenInv'
  OBVIOUS
<1>1. /\ UNCHANGED <<raw, writes, sess, cur, before, pending, refreshes, stale, tx>>
      /\ pc = "project" /\ f \in todo
  BY DEF ProjectFile, index, world
<1>2. CASE stage' = stage
  BY <1>1, <1>2, SeenQuiet DEF SeenInv, SeenOK, PendingSeen, BeforeSeen, RefreshSeen, StageSeen,
                               AsSeen
<1>3. CASE /\ raw[f] # NoFile /\ raw[f].ino = before[f].stat.ino
           /\ stage' = Append(stage, Project(raw[f], f, before[f], cur[f]))
  <2> DEFINE st == Project(raw[f], f, before[f], cur[f])
  <2>1. before[f] # NoFile /\ before[f] \in Entry
    BY <1>1 DEF SeenInv, EngineInv, QueueOK, ScanOK
  <2>2. AsSeen(st, before)
    BY <1>3, <2>1, ProjectedAsSeen DEF SeenInv, SeenOK, EngineInv, BeforeSeen
  <2>3. st \in Staging
    BY <1>3, <2>1, ProjectAnchored DEF SeenInv, EngineInv, WorldOK, IndexOK, CurType
  <2> HIDE DEF st
  <2>4. StageSeen'
    <3>1. stage \in Seq(Staging) /\ stage' = Append(stage, st)
      BY <1>3 DEF st, SeenInv, EngineInv, StageOK
    <3>2. \A i \in DOMAIN stage' : stage'[i] = st \/ (i \in DOMAIN stage /\ stage'[i] = stage[i])
      BY <2>3, <3>1, AppendProperties, LenProperties
    <3> QED BY <1>1, <2>2, <3>2 DEF SeenInv, SeenOK, StageSeen, AsSeen
  <2> QED BY <1>1, <2>4, SeenQuiet DEF SeenInv, SeenOK, PendingSeen, BeforeSeen, RefreshSeen
<1> QED BY <1>2, <1>3 DEF ProjectFile

LEMMA SeenDemotes ==
  ASSUME SeenInv, EngineInv', NEW why \in {"invalid", "duplicate", "deferred"}, Demotes(why),
         UNCHANGED <<raw, writes, sess, cur, before, pending, tx>>,
         refreshes' \subseteq refreshes, stale' = {}
  PROVE  SeenInv'
<1>1. StageSeen'
  BY DemotedEntry DEF SeenInv, SeenOK, EngineInv, StageSeen, AsSeen, Demotes
<1> QED BY <1>1, SeenQuiet DEF SeenInv, SeenOK, PendingSeen, BeforeSeen, RefreshSeen

(* No session is found at another path.                                    *)
LEMMA SeenAtHome ==
  ASSUME CalmWorld, SeenInv, NEW st \in Candidates
  PROVE  Bindings(st.sid) \subseteq {st.path} /\ st.sid \in Carries[st.path]
<1>1. PICK i \in DOMAIN stage : stage[i] = st /\ st.boundary.recs # <<>>
  BY DEF Candidates
<1>2. AsSeen(st, before) /\ st.path \in Files /\ before[st.path] # NoFile
  BY <1>1, StagedEntry DEF SeenInv, SeenOK, StageSeen, EngineInv, StageOK
<1>3. st.sid \in Carries[st.path]
  BY <1>1, <1>2 DEF SeenInv, SeenOK, BeforeSeen, Known, AsSeen
<1>4. st.sid \in Sids /\ st.sid # NoSid
  BY <1>2, <1>3, ConstantsOK
<1>5. ASSUME NEW f \in Bindings(st.sid) PROVE f \in Files /\ st.sid \in Carries[f]
  <2>1. CASE sess[st.sid] # NoSession /\ sess[st.sid].path = f
    BY <1>4, <1>5, <2>1 DEF SeenInv, SeenOK, Standing, Now, Bindings
  <2>2. CASE cur[f] # NoFile /\ cur[f].sid = st.sid
    BY <1>4, <1>5, <2>2 DEF SeenInv, SeenOK, Standing, Stands, Known, Now, Bindings
  <2> QED BY <1>5, <2>1, <2>2 DEF Bindings
<1> QED BY <1>2, <1>3, <1>5 DEF CalmWorld

LEMMA SeenJudge ==
  CalmWorld /\ SeenInv /\ EngineInv' /\ (Validate \/ ResolveMoves \/ ClassifySnapshots)
  => SeenInv'
<1>1. ASSUME SeenInv, EngineInv', Validate PROVE SeenInv'
  BY <1>1, ValidateStep, SeenDemotes DEF Validate, index, world, SeenInv, SeenOK
<1>2. ASSUME CalmWorld, SeenInv, EngineInv', ResolveMoves PROVE SeenInv'
  <2>1. stale' = {}
    BY <1>2, SeenAtHome DEF ResolveMoves
  <2> QED BY <1>2, <2>1, ResolveStep, SeenDemotes DEF ResolveMoves, index, world, SeenInv
<1>3. ASSUME SeenInv, EngineInv', ClassifySnapshots PROVE SeenInv'
  BY <1>3, ClassifyStep, SeenDemotes DEF ClassifySnapshots, index, world, SeenInv, SeenOK
<1> QED BY <1>1, <1>2, <1>3

(* What the transaction writes for one projection.                         *)
LEMMA ApplyWrites ==
  ASSUME EngineInv, Apply
  PROVE  LET st == Head(stage)
         IN \/ tx' = tx /\ ("index" \in errors' \/ st.fate # "staged")
            \/ /\ \A f \in Files : IF f = st.path THEN tx'.cur[f] = CursorOf(st, st.sid)
                                   ELSE tx'.cur[f] \in {tx.cur[f], NoFile}
               /\ \A s \in Sids : s = st.sid \/ tx'.sess[s] \in {tx.sess[s], NoSession}
<1> DEFINE st == Head(stage)
           d  == DropSessions(tx, SessionsAt(tx, st.path))
           Wrote(y) == /\ \A f \in Files : IF f = st.path THEN y.cur[f] = CursorOf(st, st.sid)
                                           ELSE y.cur[f] \in {tx.cur[f], NoFile}
                       /\ \A s \in Sids : s = st.sid \/ y.sess[s] \in {tx.sess[s], NoSession}
<1>1. PhaseDone("apply") /\ stage # <<>>
  BY DEF Apply, ApplyRefused, ApplyEmpty, ApplyFull, ApplyDelta, ApplyNext
<1>2. /\ st \in Staging /\ st.path \in Files /\ TxShape(tx) /\ TxShape(d)
      /\ Anchored(st, before[st.path], cur[st.path])
  BY <1>1, HeadOfStage, DropSessionsShape
<1> HIDE DEF st
<1>3. /\ \A f \in Files : d.cur[f] \in {tx.cur[f], NoFile}
      /\ \A s \in Sids : d.sess[s] \in {tx.sess[s], NoSession}
  BY DEF DropSessions
<1> HIDE DEF d
<1>4. ASSUME NEW x \in {tx, d}, NEW ms PROVE Wrote(PutSession(x, st, ms))
  BY <1>2, <1>3, <1>4 DEF PutSession, TxShape, SessType, CurType
<1> SUFFICES (tx' = tx /\ ("index" \in errors' \/ st.fate # "staged")) \/ Wrote(tx')
  BY DEF st
<1> HIDE DEF Wrote
<1>5. CASE ApplyRefused
  BY <1>5 DEF ApplyRefused, ApplyNext, st
<1>6. CASE ApplyEmpty
  <2> DEFINE y == [d EXCEPT !.cur[st.path] = CursorOf(st, NoSid)]
  <2>1. tx' = y /\ st.boundary.recs = <<>>
    BY <1>6 DEF ApplyEmpty, ApplyNext, st, d
  <2>2. st.sid = NoSid
    BY <1>2, <2>1 DEF Anchored
  <2>3. /\ y.sess = d.sess
        /\ \A f \in Files : y.cur[f] = IF f = st.path THEN CursorOf(st, NoSid) ELSE d.cur[f]
    BY <1>2 DEF TxShape, CurType
  <2> HIDE DEF y
  <2> QED BY <1>3, <2>1, <2>2, <2>3 DEF Wrote
<1>7. CASE ApplyFull
  <2>1. PICK x \in {tx, d}, ok \in BOOLEAN : ApplyNext(ok, PutSession(x, st, st.docs))
    BY <1>7 DEF ApplyFull, Conflict, st, d
  <2>2. tx' = PutSession(x, st, st.docs) \/ (tx' = tx /\ "index" \in errors')
    BY <2>1 DEF ApplyNext
  <2> QED BY <1>4, <2>2
<1>8. CASE ApplyDelta
  <2>1. PICK ms : \E ok \in BOOLEAN : ApplyNext(ok, PutSession(tx, st, ms))
    BY <1>8 DEF ApplyDelta, Conflict, st
  <2>2. tx' = PutSession(tx, st, ms) \/ (tx' = tx /\ "index" \in errors')
    BY <2>1 DEF ApplyNext
  <2> QED BY <1>4, <2>2
<1> QED BY <1>5, <1>6, <1>7, <1>8 DEF Apply

(* What it begins with.                                                    *)
LEMMA OpenWrites ==
  ASSUME EngineInv, OpenTransaction
  PROVE  /\ tx'.sess = sess
         /\ \A f \in Files : tx'.cur[f] # NoFile =>
              \/ tx'.cur[f] = cur[f]
              \/ \E r \in refreshes : r.path = f /\ tx'.cur[f] = r.cursor
<1> DEFINE kept == DropCursors(Now, Abandoned)
           Restamped(f) == {r \in refreshes : r.path = f}
           now == [f \in Files |-> IF Restamped(f) = {} THEN kept.cur[f]
                                   ELSE (CHOOSE r \in Restamped(f) : TRUE).cursor]
<1>1. tx' = [kept EXCEPT !.cur = now]
  BY DEF OpenTransaction, Now
<1>2. TxShape(kept) /\ kept.sess = sess
  <2>1. TxShape(Now) /\ Now.sess = sess
    BY DEF EngineInv, IndexOK, TxShape, Now
  <2> QED BY <2>1, DropCursorsShape
<1>3. \A f \in Files : kept.cur[f] \in {cur[f], NoFile}
  BY DEF DropCursors, Now
<1> HIDE DEF kept
<1>4. ASSUME NEW f \in Files, now[f] # NoFile
      PROVE  now[f] = cur[f] \/ \E r \in refreshes : r.path = f /\ now[f] = r.cursor
  <2>1. CASE Restamped(f) = {}
    BY <1>3, <1>4, <2>1
  <2>2. CASE Restamped(f) # {}
    <3> DEFINE r == CHOOSE r \in Restamped(f) : TRUE
    <3>1. r \in Restamped(f)
      BY <2>2
    <3>2. now[f] = r.cursor
      BY <2>2
    <3> HIDE DEF r, now
    <3> QED BY <3>1, <3>2
  <2> QED BY <2>1, <2>2
<1>5. tx'.sess = sess /\ tx'.cur = now
  BY <1>1, <1>2 DEF TxShape
<1> QED BY <1>4, <1>5

LEMMA SeenTx ==
  ASSUME SeenInv, EngineInv', UNCHANGED <<raw, writes, sess, cur, before, pending, refreshes,
                                          stale>>,
         StageSeen', Standing(raw, writes, tx')
  PROVE  SeenInv'
<1>1. Now' = Now
  BY DEF Now
<1> QED BY <1>1 DEF SeenInv, SeenOK, PendingSeen, BeforeSeen, RefreshSeen

LEMMA SeenOpen == SeenInv /\ EngineInv' /\ OpenTransaction => SeenInv'
<1> SUFFICES ASSUME SeenInv, EngineInv', OpenTransaction PROVE SeenInv' OBVIOUS
<1>1. UNCHANGED <<raw, writes, sess, cur, before, pending, refreshes, stage, stale>>
  BY DEF OpenTransaction, index, world
<1>2. tx'.sess = sess
  BY OpenWrites DEF SeenInv
<1>3. ASSUME NEW f \in Files, tx'.cur[f] # NoFile PROVE Stands(raw, writes, f, tx'.cur[f])
  <2>1. CASE tx'.cur[f] = cur[f]
    BY <1>3, <2>1 DEF SeenInv, SeenOK, Standing, Now
  <2>2. ASSUME NEW r \in refreshes, r.path = f, tx'.cur[f] = r.cursor
        PROVE  Stands(raw, writes, f, tx'.cur[f])
    <3>1. /\ Restamps(r) /\ before[f] # NoFile /\ r.cursor.acc = before[f].acc
          /\ Known(raw, writes, f, before[f])
      BY <2>2 DEF SeenInv, SeenOK, RefreshSeen, BeforeSeen, EngineInv, RefreshOK
    <3>2. cur[f] \in Cursor /\ Stands(raw, writes, f, cur[f])
      BY <2>2, <3>1 DEF Restamps, SeenInv, SeenOK, Standing, Now, EngineInv, IndexOK, CurType
    <3>3. r.cursor = [cur[f] EXCEPT !.stat = before[f].stat]
      BY <2>2, <3>1 DEF Restamps
    <3>4. /\ r.cursor.stat = before[f].stat /\ r.cursor.acc = cur[f].acc
          /\ r.cursor.boundary = cur[f].boundary /\ r.cursor.sid = cur[f].sid
      BY <3>2, <3>3 DEF Cursor
    <3>5. Known(raw, writes, f, r.cursor)
      BY <3>1, <3>4 DEF Known
    <3> QED BY <2>2, <3>2, <3>4, <3>5 DEF Stands
  <2> QED BY <1>3, <2>1, <2>2, OpenWrites DEF SeenInv
<1>4. Standing(raw, writes, tx')
  BY <1>2, <1>3 DEF SeenInv, SeenOK, Standing, Now
<1> QED BY <1>1, <1>4, SeenTx DEF SeenInv, SeenOK, StageSeen, AsSeen

LEMMA SeenApply == SeenInv /\ EngineInv' /\ Apply => SeenInv'
<1> SUFFICES ASSUME SeenInv, EngineInv', Apply PROVE SeenInv' OBVIOUS
<1> DEFINE st == Head(stage)
<1>1. /\ UNCHANGED <<raw, writes, sess, cur, before, pending, refreshes, stale>>
      /\ stage' = Tail(stage) /\ PhaseDone("apply") /\ stage # <<>> /\ EngineInv
  BY DEF Apply, ApplyRefused, ApplyEmpty, ApplyFull, ApplyDelta, ApplyNext, index, world, SeenInv
<1>2. st = stage[1] /\ 1 \in DOMAIN stage /\ st.path \in Files /\ before[st.path] # NoFile
  BY <1>1, HeadOfStage, TailOfStage DEF EngineInv
<1>3. StageSeen'
  BY <1>1, TailOfStage DEF SeenInv, SeenOK, EngineInv, StageSeen, AsSeen
<1>4. Touches(tx, tx', st.path) /\ tx # NoTx /\ Standing(raw, writes, tx)
  BY <1>1, ApplyTouches DEF SeenInv, SeenOK, EngineInv, TxOK, PhaseDone
<1>5. AsSeen(st, before) /\ Known(raw, writes, st.path, before[st.path])
  BY <1>2 DEF SeenInv, SeenOK, StageSeen, BeforeSeen
<1> HIDE DEF st
<1>6. Stands(raw, writes, st.path, CursorOf(st, st.sid))
  BY <1>5 DEF CursorOf, Stands, Known, AsSeen
<1>7. ASSUME /\ \A f \in Files : IF f = st.path THEN tx'.cur[f] = CursorOf(st, st.sid)
                                 ELSE tx'.cur[f] \in {tx.cur[f], NoFile}
             /\ \A s \in Sids : s = st.sid \/ tx'.sess[s] \in {tx.sess[s], NoSession}
      PROVE  Standing(raw, writes, tx')
  <2>1. \A f \in Files : tx'.cur[f] # NoFile => Stands(raw, writes, f, tx'.cur[f])
    BY <1>4, <1>6, <1>7 DEF Standing
  <2>2. ASSUME NEW s \in Sids, tx'.sess[s] # NoSession PROVE s \in Carries[tx'.sess[s].path]
    <3>1. CASE tx'.sess[s] = tx.sess[s]
      BY <1>4, <2>2, <3>1 DEF Standing
    <3>2. CASE tx'.sess[s] # tx.sess[s]
      <4>1. s = st.sid /\ tx'.sess[s].path = st.path
        BY <1>4, <1>7, <2>2, <3>2 DEF Touches
      <4>2. s # NoSid
        BY ConstantsOK
      <4> QED BY <1>5, <4>1, <4>2 DEF AsSeen, Known
    <3> QED BY <3>1, <3>2
  <2> QED BY <2>1, <2>2 DEF Standing
<1>8. Standing(raw, writes, tx')
  BY <1>4, <1>7, <1>1, ApplyWrites DEF st
<1> QED BY <1>1, <1>3, <1>8, SeenTx

LEMMA PrunedFewer ==
  ASSUME NEW x, TxShape(x)
  PROVE  Fewer(x, Pruned(x))
<1> DEFINE S == {s \in Sids : /\ x.sess[s] # NoSession
                              /\ x.sess[s].path \notin Selected(before)
                              /\ s \notin ColdIds}
           F == {f \in Files : cur[f] # NoFile} \ Selected(before)
           y == DropSessions(x, S)
<1>1. TxShape(y) /\ Fewer(x, y)
  BY DropSessionsShape DEF DropSessions, Fewer
<1>2. Pruned(x) = DropCursors(y, F)
  BY DEF Pruned
<1> HIDE DEF y, F
<1>3. DropCursors(y, F).sess = y.sess
      /\ \A f \in Files : DropCursors(y, F).cur[f] \in {y.cur[f], NoFile}
  <2>1. y = [sess |-> y.sess, cur |-> y.cur]
    BY <1>1 DEF TxShape
  <2>2. DropCursors(y, F).cur = [f \in Files |-> IF f \in F THEN NoFile ELSE y.cur[f]]
    BY <2>1 DEF DropCursors
  <2> QED BY <1>1, <2>2, DropCursorsShape
<1> QED BY <1>1, <1>2, <1>3 DEF Fewer

LEMMA SeenPrune == SeenInv /\ EngineInv' /\ Prune => SeenInv'
<1> SUFFICES ASSUME SeenInv, EngineInv', Prune PROVE SeenInv' OBVIOUS
<1>1. /\ UNCHANGED <<raw, writes, sess, cur, before, pending, refreshes, stage, stale>>
      /\ tx' \in {tx, Pruned(tx)} /\ TxShape(tx) /\ Standing(raw, writes, tx)
  BY DEF Prune, PhaseDone, index, world, SeenInv, SeenOK, EngineInv, TxOK
<1>2. Standing(raw, writes, tx')
  <2>1. Fewer(tx, Pruned(tx))
    BY <1>1, PrunedFewer
  <2> QED BY <1>1, <2>1 DEF Fewer, Standing
<1> QED BY <1>1, <1>2, SeenTx DEF SeenInv, SeenOK, StageSeen, AsSeen

LEMMA SeenCommit == SeenInv /\ EngineInv' /\ Commit => SeenInv'
<1> SUFFICES ASSUME SeenInv, EngineInv', Commit PROVE SeenInv' OBVIOUS
<1>1. CASE CursorsFit(tx)
  <2>1. sess' = tx.sess /\ cur' = tx.cur /\ ResetRun /\ UNCHANGED world
    BY <1>1 DEF Commit
  <2>2. Standing(raw, writes, tx)
    BY DEF Commit, PhaseDone, SeenInv, SeenOK, EngineInv, TxOK
  <2>3. Now' = [sess |-> tx.sess, cur |-> tx.cur]
    BY <2>1 DEF Now
  <2>4. Standing(raw', writes', Now')
    BY <2>1, <2>2, <2>3 DEF Standing, world
  <2>5. PendingSeen' /\ BeforeSeen' /\ RefreshSeen' /\ stale' = {} /\ tx' = NoTx
    BY <2>1 DEF ResetRun, PendingSeen, BeforeSeen, RefreshSeen, NoSnapshot
  <2>6. StageSeen'
    BY <2>1, EmptySeq, LenProperties DEF ResetRun, StageSeen
  <2>7. CalmRaw(raw', writes')
    BY <2>1 DEF world, SeenInv, SeenOK
  <2> QED BY <2>4, <2>5, <2>6, <2>7 DEF SeenInv, SeenOK
<1>2. CASE ~CursorsFit(tx)
  BY <1>2, SeenReset DEF Commit, FailSync
<1> QED BY <1>1, <1>2

LEMMA NextSeen == CalmWorld /\ SeenInv /\ [Next]_vars => SeenInv'
<1> SUFFICES ASSUME CalmWorld, SeenInv, [Next]_vars PROVE SeenInv' OBVIOUS
<1>1. EngineInv'
  BY NextEngine DEF SeenInv
<1>2. CASE AgentStep
  BY <1>1, <1>2, SeenAgent
<1>3. ASSUME /\ UNCHANGED <<raw, writes, sess, cur, before, refreshes, stage, stale, tx>>
             /\ PendingSeen'
      PROVE  SeenInv'
  BY <1>1, <1>3, SeenQuiet DEF SeenInv, SeenOK, BeforeSeen, RefreshSeen, StageSeen, AsSeen
<1>4. CASE UNCHANGED vars
  BY <1>3, <1>4 DEF vars, world, index, run, SeenInv, SeenOK, PendingSeen
<1>5. CASE \E r \in Requests : Begin(r)
  BY <1>3, <1>5 DEF Begin, world, index, SeenInv, SeenOK, PendingSeen
<1>6. CASE SyncStep
  <2>1. CASE \E f \in Files : ScanStat(f)
    <3>1. PICK f \in Files : ScanStat(f)
      BY <2>1
    <3>2. PendingSeen'
      BY <3>1 DEF ScanStat, world, SeenInv, SeenOK, PendingSeen
    <3> QED BY <1>3, <3>1, <3>2 DEF ScanStat, world, index
  <2>2. CASE Rescan
    BY <1>3, <2>2 DEF Rescan, world, index, SeenInv, SeenOK, PendingSeen
  <2>3. CASE GiveUp
    BY <1>1, <2>3, SeenReset DEF GiveUp, FailSync
  <2> QED BY <1>1, <1>6, <2>1, <2>2, <2>3, SeenScanRead, SeenPlan, SeenProject, SeenJudge, SeenOpen,
             SeenApply, SeenPrune, SeenCommit DEF SyncStep, Scan, ProjectOne
<1>7. CASE IoError \/ Crash
  BY <1>1, <1>7, SeenReset DEF IoError, Crash, FailSync, index
<1> QED BY <1>2, <1>4, <1>5, <1>6, <1>7 DEF Next

LEMMA InitSeen == Init => SeenInv
<1> SUFFICES ASSUME Init PROVE SeenInv OBVIOUS
<1>1. EngineInv /\ StageSeen
  BY InitEngine, EmptySeq, LenProperties DEF Init, StageSeen
<1>2. Standing(raw, writes, Now) /\ CalmRaw(raw, writes)
  BY DEF Init, Standing, Now, CalmRaw
<1> QED BY <1>1, <1>2 DEF Init, SeenInv, SeenOK, PendingSeen, BeforeSeen, RefreshSeen, NoSnapshot

(* With no session at a second path nothing is abandoned, nor revived.     *)
LEMMA SeenRevivesNothing == SeenInv => ~Revives
BY DEF SeenInv, SeenOK, Revives, Abandoned

-----------------------------------------------------------------------------
(* What a strict run without an error is going to publish: each file of    *)
(* the snapshot is staged, or its cursor already stands for it.            *)

Publishable ==
  errors = {} /\ (pc \in {"open", "apply", "commit"} => kind \in {"stable", "appendOnly"})

AllStaged == Publishable => \A i \in DOMAIN stage : stage[i].fate = "staged"

StagedAt(f) == \E i \in DOMAIN stage : stage[i].path = f

Covered(f) ==
  \/ pc = "project" /\ f \in todo
  \/ StagedAt(f)
  \/ cur[f] # NoFile /\ cur[f].acc = before[f].acc

Stored(rows, f, acc) ==
  acc.recs # <<>> => rows[acc.sid] = [path |-> f, msgs |-> acc.recs]

CoverOK ==
  Publishable =>
    /\ pc \in {"project", "scanB", "resolve", "classify", "open"} =>
         \A f \in Selected(before) : Covered(f)
    /\ pc \in {"apply", "commit"} =>
         \A f \in Selected(before) : StagedAt(f) \/ Stored(tx.sess, f, before[f].acc)

(* The index holds all that the stored coverage claims.                    *)
CovOK == cov # NoProof => \A f \in DOMAIN cov : Stored(sess, f, cov[f])

CoverInv == SeenInv /\ ReplayInv /\ TouchInv /\ AllStaged /\ CoverOK /\ CovOK

LEMMA CoverQuiet ==
  ASSUME CoverInv, SeenInv', ReplayInv', TouchInv', UNCHANGED <<sess, cov>>, AllStaged', CoverOK'
  PROVE  CoverInv'
BY DEF CoverInv, CovOK, Stored

LEMMA CoverReset ==
  ASSUME CoverInv, SeenInv', ReplayInv', TouchInv', ResetRun, UNCHANGED sess,
         cov' = cov \/ cov' = NoProof
  PROVE  CoverInv'
<1>1. AllStaged' /\ CoverOK'
  BY EmptySeq, LenProperties DEF ResetRun, AllStaged, CoverOK
<1>2. CovOK'
  BY DEF CoverInv, CovOK, Stored
<1> QED BY <1>1, <1>2 DEF CoverInv

LEMMA CoverPlan ==
  CoverInv /\ SeenInv' /\ ReplayInv' /\ TouchInv' /\ PlanProjection => CoverInv'
<1> SUFFICES ASSUME CoverInv, SeenInv', ReplayInv', TouchInv', PlanProjection PROVE CoverInv'
  OBVIOUS
<1>1. /\ UNCHANGED <<sess, cur, cov, before, errors, stage>> /\ pc = "scanA" /\ pc' = "project"
      /\ todo' = {f \in Selected(before) : ~Unchanged(f) /\ ~SameBytes(f)}
  BY DEF PlanProjection, PhaseDone, index
<1>2. AllStaged'
  BY <1>1 DEF CoverInv, AllStaged, Publishable
<1>3. CoverOK'
  BY <1>1 DEF CoverOK, Covered, Unchanged, SameBytes, Selected
<1> QED BY <1>1, <1>2, <1>3, CoverQuiet

LEMMA CoverProject ==
  \A f \in Files :
    CoverInv /\ SeenInv' /\ ReplayInv' /\ TouchInv' /\ ProjectFile(f) => CoverInv'
<1> SUFFICES ASSUME NEW f \in Files, CoverInv, SeenInv', ReplayInv', TouchInv', ProjectFile(f)
             PROVE  CoverInv'
  OBVIOUS
<1>1. /\ UNCHANGED <<sess, cur, cov, before>> /\ pc = "project" /\ pc' = "project"
      /\ f \in todo /\ todo' = todo \ {f} /\ EngineInv
  BY DEF ProjectFile, index, CoverInv, SeenInv
<1>2. CASE "project" \in errors'
  <2>1. AllStaged' /\ CoverOK'
    BY <1>2 DEF AllStaged, CoverOK, Publishable
  <2> QED BY <1>1, <2>1, CoverQuiet
<1>3. CASE /\ raw[f] # NoFile /\ errors' = errors
           /\ stage' = Append(stage, Project(raw[f], f, before[f], cur[f]))
  <2> DEFINE st == Project(raw[f], f, before[f], cur[f])
  <2>1. before[f] # NoFile /\ before[f] \in Entry
    BY <1>1 DEF EngineInv, QueueOK, ScanOK
  <2>2. st \in Staging /\ st.path = f /\ st.fate = "staged"
    BY <1>1, <1>3, <2>1, ProjectAnchored DEF EngineInv, WorldOK, IndexOK, CurType
  <2> HIDE DEF st
  <2>3. /\ \A i \in DOMAIN stage' : stage'[i] = st \/ (i \in DOMAIN stage /\ stage'[i] = stage[i])
        /\ \A i \in DOMAIN stage : i \in DOMAIN stage' /\ stage'[i] = stage[i]
        /\ \E i \in DOMAIN stage' : stage'[i] = st
    <3>1. stage \in Seq(Staging) /\ stage' = Append(stage, st)
      BY <1>1, <1>3 DEF st, EngineInv, StageOK
    <3> QED BY <2>2, <3>1, AppendProperties, LenProperties
  <2>4. AllStaged'
    BY <1>1, <1>3, <2>2, <2>3 DEF CoverInv, AllStaged, Publishable
  <2>5. StagedAt(f)' /\ \A g : StagedAt(g) => \E i \in DOMAIN stage' : stage'[i].path = g
    BY <2>2, <2>3 DEF StagedAt
  <2>6. CoverOK'
    <3> SUFFICES ASSUME errors = {}, NEW g \in Selected(before)
                 PROVE  \/ g \in todo \ {f}
                        \/ \E i \in DOMAIN stage' : stage'[i].path = g
                        \/ cur[g] # NoFile /\ cur[g].acc = before[g].acc
      BY <1>1, <1>3 DEF CoverOK, Publishable, Covered, StagedAt, Selected
    <3>1. Covered(g)
      BY <1>1 DEF CoverInv, CoverOK, Publishable
    <3> QED BY <1>1, <2>5, <3>1 DEF Covered, StagedAt
  <2> QED BY <1>1, <2>4, <2>6, CoverQuiet
<1> QED BY <1>2, <1>3 DEF ProjectFile

LEMMA ClassifyDeferred ==
  \A b, a, projected, proven :
    LET v == Classify(b, a, projected, proven)
    IN v.kind \in {"stable", "appendOnly"} => v.deferred = {}
BY DEF Classify, DeferredPaths

(* A judgement that finds nothing to refuse leaves the stage as it is.     *)
LEMMA CoverJudge ==
  ASSUME CoverInv, SeenInv', ReplayInv', TouchInv',
         NEW why \in {"invalid", "duplicate", "deferred"}, Demotes(why),
         UNCHANGED <<sess, cur, cov, before>>, errors \subseteq errors',
         pc \in {"scanB", "resolve", "classify"}, pc' \in {"resolve", "classify", "open"},
         Publishable' => \A i \in DOMAIN stage : stage'[i] = stage[i]
  PROVE  CoverInv'
<1>1. /\ DOMAIN stage' = DOMAIN stage
      /\ \A i \in DOMAIN stage : stage'[i].path = stage[i].path
  BY DemotedEntry DEF Demotes, CoverInv, SeenInv, EngineInv
<1>2. Publishable' => Publishable
  BY DEF Publishable
<1>3. AllStaged'
  BY <1>1, <1>2 DEF CoverInv, AllStaged
<1>4. CoverOK'
  BY <1>1, <1>2 DEF CoverInv, CoverOK, Covered, StagedAt, Selected
<1> QED BY <1>3, <1>4, CoverQuiet

LEMMA CoverJudges ==
  CoverInv /\ SeenInv' /\ ReplayInv' /\ TouchInv' /\ (Validate \/ ResolveMoves \/ ClassifySnapshots)
  => CoverInv'
<1> SUFFICES ASSUME CoverInv, SeenInv', ReplayInv', TouchInv',
                    Validate \/ ResolveMoves \/ ClassifySnapshots
             PROVE  CoverInv'
  OBVIOUS
<1>0. EngineInv
  BY DEF CoverInv, SeenInv
<1>1. CASE Validate
  <2>1. UNCHANGED <<sess, cur, cov, before>> /\ pc = "scanB" /\ pc' = "resolve"
        /\ errors \subseteq errors'
    BY <1>1 DEF Validate, PhaseDone, index
  <2>2. errors' = {} => \A i \in DOMAIN stage : stage'[i] = stage[i]
    BY <1>1 DEF Validate, Refuse
  <2> QED BY <1>0, <1>1, <2>1, <2>2, ValidateStep, CoverJudge DEF Publishable
<1>2. CASE ResolveMoves
  <2>1. UNCHANGED <<sess, cur, cov, before>> /\ pc = "resolve" /\ pc' = "classify"
        /\ errors \subseteq errors'
    BY <1>2 DEF ResolveMoves, PhaseDone, index
  <2>2. errors' = {} => \A i \in DOMAIN stage : stage'[i] = stage[i]
    BY <1>2 DEF ResolveMoves, Refuse, Duplicate
  <2> QED BY <1>0, <1>2, <2>1, <2>2, ResolveStep, CoverJudge DEF Publishable
<1>3. CASE ClassifySnapshots
  <2>1. UNCHANGED <<sess, cur, cov, before>> /\ pc = "classify" /\ pc' = "open"
        /\ errors \subseteq errors'
    BY <1>3 DEF ClassifySnapshots, PhaseDone, index
  <2>2. kind' \in {"stable", "appendOnly"} => \A i \in DOMAIN stage : stage'[i] = stage[i]
    BY <1>3, ClassifyDeferred DEF ClassifySnapshots, Refuse
  <2> QED BY <1>0, <1>3, <2>1, <2>2, ClassifyStep, CoverJudge DEF Publishable
<1> QED BY <1>1, <1>2, <1>3

LEMMA CoverOpen ==
  CoverInv /\ SeenInv' /\ ReplayInv' /\ TouchInv' /\ OpenTransaction => CoverInv'
<1> SUFFICES ASSUME CoverInv, SeenInv', ReplayInv', TouchInv', OpenTransaction PROVE CoverInv'
  OBVIOUS
<1>1. /\ UNCHANGED <<sess, cur, cov, before, errors, kind, stage>> /\ pc = "open" /\ pc' = "apply"
      /\ tx'.sess = sess
  BY OpenWrites DEF OpenTransaction, PhaseDone, index, CoverInv, SeenInv
<1>2. AllStaged'
  BY <1>1 DEF CoverInv, AllStaged, Publishable
<1>3. ASSUME NEW f \in Selected(before), cur[f] # NoFile, cur[f].acc = before[f].acc
      PROVE  Stored(sess, f, before[f].acc)
  <2>1. f \in Files
    BY DEF Selected, CoverInv, SeenInv, EngineInv, ScanOK
  <2>2. Stands(raw, writes, f, cur[f])
    BY <1>3, <2>1 DEF CoverInv, SeenInv, SeenOK, Standing, Now
  <2> SUFFICES ASSUME cur[f].acc.recs # <<>>
               PROVE  sess[cur[f].acc.sid] = [path |-> f, msgs |-> cur[f].acc.recs]
    BY <1>3 DEF Stored
  <2>3. cur[f].sid = cur[f].acc.sid /\ cur[f].sid \in Carries[f]
    BY <2>2 DEF Stands, Known
  <2>4. cur[f].sid # NoSid
    BY <2>1, <2>3, ConstantsOK
  <2>5. sess[cur[f].sid] = [path |-> f, msgs |-> cur[f].boundary.recs]
    BY <1>3, <2>1, <2>4 DEF CoverInv, ReplayInv, Consistent, Described, Now
  <2> QED BY <2>2, <2>3, <2>5 DEF Stands
<1>4. CoverOK'
  BY <1>1, <1>3 DEF CoverInv, CoverOK, Publishable, Covered, StagedAt, Stored, Selected
<1> QED BY <1>1, <1>2, <1>4, CoverQuiet

LEMMA CoverApply ==
  CalmWorld /\ CoverInv /\ SeenInv' /\ ReplayInv' /\ TouchInv' /\ Apply => CoverInv'
<1> SUFFICES ASSUME CalmWorld, CoverInv, SeenInv', ReplayInv', TouchInv', Apply PROVE CoverInv'
  OBVIOUS
<1> DEFINE st == Head(stage)
<1>1. /\ UNCHANGED <<sess, cur, cov, before, kind>> /\ pc = "apply" /\ pc' = "apply"
      /\ stage' = Tail(stage) /\ PhaseDone("apply") /\ stage # <<>> /\ EngineInv
      /\ errors \subseteq errors'
  BY DEF Apply, ApplyRefused, ApplyEmpty, ApplyFull, ApplyDelta, ApplyNext, PhaseDone, index,
         CoverInv, SeenInv
<1>2. /\ st = stage[1] /\ 1 \in DOMAIN stage /\ st.path \in Files /\ before[st.path] # NoFile
      /\ st \in Staging /\ Touches(tx, tx', st.path)
      /\ CursorOf(st, st.sid) # NoFile
      /\ AsSeen(st, before) /\ Known(raw, writes, st.path, before[st.path])
  <2>1. /\ st = stage[1] /\ 1 \in DOMAIN stage /\ st.path \in Files /\ before[st.path] # NoFile
        /\ st \in Staging /\ Anchored(st, before[st.path], cur[st.path]) /\ ScanOK
    BY <1>1, HeadOfStage, TailOfStage DEF EngineInv
  <2>2. CursorOf(st, st.sid) # NoFile
    BY <2>1, CursorOfShape, NoneIsNothing
  <2>3. AsSeen(st, before) /\ Known(raw, writes, st.path, before[st.path])
    BY <2>1 DEF CoverInv, SeenInv, SeenOK, StageSeen, BeforeSeen
  <2> QED BY <1>1, <2>1, <2>2, <2>3, ApplyTouches
<1>3. /\ \A i \in DOMAIN stage' : i + 1 \in DOMAIN stage /\ stage'[i] = stage[i + 1]
      /\ \A i \in DOMAIN stage : i # 1 => i - 1 \in DOMAIN stage' /\ stage'[i - 1] = stage[i]
  <2>1. /\ DOMAIN stage = 1..Len(stage) /\ DOMAIN Tail(stage) = 1..Len(stage) - 1
        /\ Len(stage) \in Nat
        /\ \A j \in DOMAIN Tail(stage) : Tail(stage)[j] = stage[j + 1] /\ j + 1 \in DOMAIN stage
    BY <1>1, TailOfStage DEF EngineInv
  <2>2. ASSUME NEW i \in DOMAIN stage, i # 1
        PROVE  i - 1 \in 1..Len(stage) - 1 /\ (i - 1) + 1 = i
    BY <2>1, <2>2
  <2> QED BY <1>1, <2>1, <2>2
<1>4. Publishable' => Publishable
  BY <1>1 DEF Publishable
<1>5. AllStaged'
  BY <1>3, <1>4 DEF CoverInv, AllStaged
<1>6. tx' # NoTx /\ Consistent(tx') /\ Standing(raw, writes, tx')
  BY <1>1 DEF ReplayInv, EngineInv, TxOK, SeenInv, SeenOK, Consistent, Described, OneEach,
              Standing, Stands, Known, Apply, ApplyRefused, ApplyEmpty, ApplyFull, ApplyDelta,
              ApplyNext, world
<1> HIDE DEF st
<1>7. ASSUME Publishable', before[st.path].acc.recs # <<>>
      PROVE  tx'.sess[before[st.path].acc.sid] = [path |-> st.path,
                                                  msgs |-> before[st.path].acc.recs]
  <2>1. st.fate = "staged"
    BY <1>2, <1>4, <1>7 DEF CoverInv, AllStaged
  <2>2. tx'.cur[st.path] = CursorOf(st, st.sid)
    <3>1. "index" \notin errors'
      BY <1>7 DEF Publishable
    <3> QED BY <1>1, <1>2, <2>1, <3>1, ApplyWrites DEF st
  <2>3. st.sid \in Sids /\ st.sid # NoSid /\ st.sid = before[st.path].acc.sid
    BY <1>2, <1>7, ConstantsOK DEF Known, AsSeen
  <2>4. CursorOf(st, st.sid).sid = st.sid /\ CursorOf(st, st.sid).boundary = st.boundary
    BY DEF CursorOf
  <2>5. tx'.sess[st.sid] = [path |-> st.path, msgs |-> st.boundary.recs]
    BY <1>2, <1>6, <2>2, <2>3, <2>4 DEF Consistent, Described
  <2> QED BY <1>2, <2>3, <2>5 DEF AsSeen
<1>8. ASSUME Publishable', NEW f \in Selected(before)
      PROVE  (\E i \in DOMAIN stage' : stage'[i].path = f) \/ Stored(tx'.sess, f, before[f].acc)
  <2>1. CASE f = st.path
    BY <1>7, <1>8, <2>1 DEF Stored
  <2>2. CASE StagedAt(f) /\ f # st.path
    BY <1>2, <1>3, <2>2 DEF StagedAt
  <2>3. CASE Stored(tx.sess, f, before[f].acc) /\ f # st.path
    <3> DEFINE s == before[f].acc.sid
    <3> SUFFICES ASSUME before[f].acc.recs # <<>>
                 PROVE  tx'.sess[s] = [path |-> f, msgs |-> before[f].acc.recs]
      BY DEF Stored
    <3>1. tx.sess[s] = [path |-> f, msgs |-> before[f].acc.recs]
      BY <2>3 DEF Stored
    <3>2. f \in Files /\ before[f] # NoFile
      BY DEF Selected, CoverInv, SeenInv, EngineInv, ScanOK
    <3>3. s \in Carries[f] /\ s \in Sids
      BY <3>2, ConstantsOK DEF CoverInv, SeenInv, SeenOK, BeforeSeen, Known
    <3>4. ~(tx'.sess[s] # NoSession /\ tx'.sess[s].path = st.path)
      BY <1>2, <1>6, <2>3, <3>2, <3>3 DEF Standing, CalmWorld
    <3>5. tx.sess[s].path # st.path
      BY <2>3, <3>1
    <3> QED BY <1>2, <3>1, <3>3, <3>4, <3>5 DEF Touches
  <2>4. Covered(f) \/ StagedAt(f) \/ Stored(tx.sess, f, before[f].acc)
    BY <1>1, <1>4, <1>8 DEF CoverInv, CoverOK
  <2> QED BY <1>1, <1>4, <1>8, <2>1, <2>2, <2>3 DEF CoverInv, CoverOK
<1>9. CoverOK'
  BY <1>1, <1>8 DEF CoverOK, StagedAt, Stored, Selected
<1> QED BY <1>1, <1>5, <1>9, CoverQuiet

LEMMA CoverPrune == CoverInv /\ SeenInv' /\ ReplayInv' /\ TouchInv' /\ Prune => CoverInv'
<1> SUFFICES ASSUME CoverInv, SeenInv', ReplayInv', TouchInv', Prune PROVE CoverInv'
  OBVIOUS
<1>1. /\ UNCHANGED <<sess, cov, before, errors, kind, stage>> /\ pc = "apply" /\ pc' = "commit"
      /\ tx' \in {tx, Pruned(tx)} /\ TxShape(tx)
  BY DEF Prune, PhaseDone, index, CoverInv, SeenInv, EngineInv, TxOK
<1>2. AllStaged'
  BY <1>1 DEF CoverInv, AllStaged, Publishable
<1>3. ASSUME NEW f \in Selected(before), Stored(tx.sess, f, before[f].acc)
      PROVE  Stored(Pruned(tx).sess, f, before[f].acc)
  <2> DEFINE S == {s \in Sids : /\ tx.sess[s] # NoSession
                                /\ tx.sess[s].path \notin Selected(before)
                                /\ s \notin ColdIds}
             s == before[f].acc.sid
  <2>1. Pruned(tx).sess = DropSessions(tx, S).sess
    BY <1>1, DropSessionsShape, DropCursorsShape DEF Pruned
  <2> SUFFICES ASSUME before[f].acc.recs # <<>>
               PROVE  Pruned(tx).sess[s] = [path |-> f, msgs |-> before[f].acc.recs]
    BY DEF Stored
  <2>2. tx.sess[s] = [path |-> f, msgs |-> before[f].acc.recs]
    BY <1>3 DEF Stored
  <2>3. s \in Sids
    BY ConstantsOK DEF Selected, CoverInv, SeenInv, SeenOK, EngineInv, ScanOK, BeforeSeen, Known
  <2>4. s \notin S
    BY <2>2
  <2> QED BY <2>1, <2>2, <2>3, <2>4 DEF DropSessions
<1>4. CoverOK'
  BY <1>1, <1>3 DEF CoverInv, CoverOK, Publishable, StagedAt, Stored, Selected
<1> QED BY <1>1, <1>2, <1>4, CoverQuiet

LEMMA CoverCommit == CoverInv /\ SeenInv' /\ ReplayInv' /\ TouchInv' /\ Commit => CoverInv'
<1> SUFFICES ASSUME CoverInv, SeenInv', ReplayInv', TouchInv', Commit PROVE CoverInv'
  OBVIOUS
<1>1. CASE CursorsFit(tx)
  <2>1. sess' = tx.sess /\ cov' = Proof /\ ResetRun /\ pc = "commit" /\ Acceptable
    BY <1>1 DEF Commit, PhaseDone
  <2>2. ASSUME cov' # NoProof, NEW f \in DOMAIN cov' PROVE Stored(sess', f, cov'[f])
    <3>1. req.strict /\ kind \in {"stable", "appendOnly"}
          /\ cov' = [g \in Selected(before) |-> before[g].acc]
      BY <2>1, <2>2 DEF Proof
    <3>2. Publishable
      BY <2>1, <3>1 DEF Acceptable, Publishable
    <3>3. f \in Selected(before) /\ cov'[f] = before[f].acc
      BY <2>2, <3>1
    <3>4. stage = <<>>
      BY <2>1 DEF CoverInv, TouchInv
    <3>5. DOMAIN stage = {}
      BY <3>4, EmptySeq, LenProperties DEF CoverInv, SeenInv, EngineInv, StageOK
    <3>6. Stored(tx.sess, f, before[f].acc)
      BY <2>1, <3>2, <3>3, <3>5 DEF CoverInv, CoverOK, StagedAt
    <3> QED BY <2>1, <3>3, <3>6
  <2>3. CovOK'
    BY <2>2 DEF CovOK, Stored
  <2>4. AllStaged' /\ CoverOK'
    BY <2>1, EmptySeq, LenProperties DEF ResetRun, AllStaged, CoverOK
  <2> QED BY <2>3, <2>4 DEF CoverInv
<1>2. CASE ~CursorsFit(tx)
  BY <1>2, CoverReset DEF Commit, FailSync
<1> QED BY <1>1, <1>2

LEMMA NextCover == CalmWorld /\ CoverInv /\ [Next]_vars => CoverInv'
<1> SUFFICES ASSUME CalmWorld, CoverInv, [Next]_vars PROVE CoverInv' OBVIOUS
<1>1. SeenInv' /\ ReplayInv' /\ TouchInv'
  BY NextSeen, NextConsistent, NextTouched, SeenRevivesNothing DEF CoverInv
<1>2. ASSUME UNCHANGED <<sess, cur, cov, before, errors, kind, stage, pc, tx, todo>>
      PROVE  CoverInv'
  <2>1. AllStaged' /\ CoverOK'
    BY <1>2 DEF CoverInv, AllStaged, CoverOK, Publishable, Covered, StagedAt, Stored, Selected
  <2> QED BY <1>1, <1>2, <2>1, CoverQuiet
<1>3. CASE AgentStep \/ UNCHANGED vars
  BY <1>2, <1>3 DEF AgentStep, vars, index, run
<1>4. CASE \E r \in Requests : Begin(r)
  <2>1. UNCHANGED <<sess, cov, errors, stage>> /\ pc = "idle" /\ pc' = "scanA"
    BY <1>4 DEF Begin, index
  <2>2. AllStaged' /\ CoverOK'
    BY <2>1 DEF CoverInv, AllStaged, CoverOK, Publishable
  <2> QED BY <1>1, <2>1, <2>2, CoverQuiet
<1>5. CASE SyncStep
  <2>1. CASE Scan
    <3>1. /\ UNCHANGED <<sess, cur, cov, kind, stage, pc, tx>> /\ errors \subseteq errors'
          /\ pc = "scanA" \/ before' = before
      BY <2>1 DEF Scan, ScanRead, ScanStat, index
    <3>2. pc \in {"scanA", "scanB"} \/ UNCHANGED todo
      BY <2>1 DEF Scan, ScanRead, ScanStat
    <3>3. AllStaged'
      BY <3>1 DEF CoverInv, AllStaged, Publishable
    <3>4. CoverOK'
      BY <3>1, <3>2 DEF CoverInv, CoverOK, Publishable, Covered, StagedAt, Stored, Selected
    <3> QED BY <1>1, <3>1, <3>3, <3>4, CoverQuiet
  <2>2. CASE Rescan
    <3>1. UNCHANGED <<sess, cur, cov, before, errors, stage>> /\ pc = "project" /\ pc' = "scanB"
          /\ todo = {}
      BY <2>2 DEF Rescan, PhaseDone, index
    <3>2. AllStaged'
      BY <3>1 DEF CoverInv, AllStaged, Publishable
    <3>3. CoverOK'
      BY <3>1 DEF CoverInv, CoverOK, Publishable, Covered, StagedAt, Selected
    <3> QED BY <1>1, <3>1, <3>2, <3>3, CoverQuiet
  <2>3. CASE GiveUp
    BY <1>1, <2>3, CoverReset DEF GiveUp, FailSync
  <2> QED BY <1>1, <1>5, <2>1, <2>2, <2>3, CoverPlan, CoverProject, CoverJudges, CoverOpen,
             CoverApply, CoverPrune, CoverCommit DEF SyncStep, ProjectOne
<1>6. CASE IoError \/ Crash
  BY <1>1, <1>6, CoverReset DEF IoError, Crash, FailSync, index
<1> QED BY <1>3, <1>4, <1>5, <1>6 DEF Next

LEMMA InitCover == Init => CoverInv
<1> SUFFICES ASSUME Init PROVE CoverInv OBVIOUS
<1>1. SeenInv /\ ReplayInv /\ TouchInv
  BY InitSeen, InitConsistent, InitEngine DEF Init, TouchInv, TouchedOK
<1>2. AllStaged
  BY EmptySeq, LenProperties DEF Init, AllStaged
<1> QED BY <1>1, <1>2 DEF Init, CoverInv, CoverOK, CovOK

(* Whatever the cursors save the live scan, it finds what is there.        *)
LEMMA LiveIsAccepted ==
  ASSUME SeenInv, NEW f \in Files, raw[f] # NoFile, Selects(raw[f])
  PROVE  f \in DOMAIN LiveFingerprint /\ LiveFingerprint[f] = Accepted(raw[f])
<1>1. f \in DOMAIN LiveFingerprint
      /\ LiveFingerprint[f] = IF cur[f] # NoFile /\ cur[f].stat = Stat(raw[f]) THEN cur[f].acc
                              ELSE Accepted(raw[f])
  BY DEF LiveFingerprint, Present
<1>2. ASSUME cur[f] # NoFile, cur[f].stat = Stat(raw[f]) PROVE cur[f].acc = Accepted(raw[f])
  <2>1. cur[f].acc \in Accs /\ Known(raw, writes, f, cur[f])
    BY <1>2 DEF SeenInv, SeenOK, Standing, Stands, Now, EngineInv, IndexOK, CurType, Cursor
  <2> QED BY <1>2, <2>1, KnownIsAccepted DEF SeenInv, SeenOK, EngineInv
<1> QED BY <1>1, <1>2

LEMMA CoverIsSearchable == CoverInv => FreshMeansSearchable
<1> SUFFICES ASSUME CoverInv, StatusFresh, NEW f \in Present, Len(raw[f].recs) > 0
             PROVE  sess[raw[f].sid] = [path |-> f, msgs |-> SubSeq(raw[f].recs, 1, Len(raw[f].recs))]
  BY DEF FreshMeansSearchable, Searchable
<1>1. f \in Files /\ raw[f] # NoFile /\ raw[f] \in RawFile /\ raw[f].recs \in Seq(Records)
  BY DEF Present, CoverInv, SeenInv, EngineInv, WorldOK, RawFile
<1>2. raw[f].recs # <<>> /\ Selects(raw[f])
  BY <1>1, EmptySeq DEF Selects
<1>3. f \in DOMAIN cov /\ cov[f] = Accepted(raw[f]) /\ cov # NoProof
  BY <1>1, <1>2, LiveIsAccepted DEF CoverInv, StatusFresh
<1>4. Stored(sess, f, Accepted(raw[f]))
  BY <1>3 DEF CoverInv, CovOK
<1>5. sess[raw[f].sid] = [path |-> f, msgs |-> raw[f].recs]
  BY <1>2, <1>4 DEF Stored, Accepted
<1> QED BY <1>1, <1>5, SubSeqFull

(* When status calls the coverage fresh, the index holds every accepted    *)
(* record that is on disk: whatever runs failed, were killed, pruned or    *)
(* skipped files, and however the agents' writes fell between the steps of *)
(* a sync - of files that only grow or are replaced, of paths that hold    *)
(* sessions of their own, with no write between a scan's stat and read.    *)
THEOREM SpecFreshMeansSearchable ==
  ASSUME CalmWorld
  PROVE  Spec => []FreshMeansSearchable
<1>1. CoverInv /\ [Next]_vars => CoverInv'
  BY NextCover
<1> QED BY <1>1, InitCover, CoverIsSearchable, PTL DEF Spec

-----------------------------------------------------------------------------
(* Copies.  A write gives a file a new mtime, and a new file has an inode  *)
(* of its own.  So a version of a file, known by both, is at one path at a *)
(* time, and never comes back when it was written over.                    *)

Versions(r, n) ==
  /\ \A f \in Files : r[f] # NoFile => r[f].mt <= n /\ r[f].ino <= n
  /\ \A f, g \in Files : r[f] # NoFile /\ r[g] # NoFile /\ r[f].ino = r[g].ino => f = g

(* A stamp and what was accepted under it are of one version of a file.    *)
OfOneVersion(r, n, e) ==
  /\ e.stat.mt <= n /\ e.stat.ino <= n
  /\ \A h \in Files : r[h] # NoFile /\ r[h].ino = e.stat.ino =>
       /\ e.stat.mt <= r[h].mt
       /\ r[h].mt = e.stat.mt => e.acc = Accepted(r[h])

Overwritten(r, e) ==
  \A h \in Files : r[h] # NoFile /\ r[h].ino = e.stat.ino => e.stat.mt < r[h].mt

(* A projection found the session of the snapshot, or a later version.     *)
ReadLater(r, b, st) ==
  st.boundary.recs # <<>> => st.sid = b[st.path].acc.sid \/ Overwritten(r, b[st.path])

(* The file at f, if the snapshot saw s there, is not as it was seen.      *)
Left(r, b, f, s) ==
  b[f] # NoFile /\ b[f].acc.sid = s => r[f] = NoFile \/ Stat(r[f]) # b[f].stat

(* If s is to be at p, it gives up the path where the index has it.        *)
Yields(s, p) ==
  sess[s] # NoSession /\ sess[s].path # p =>
    /\ \E m \in stale : m.old = sess[s].path
    /\ Left(raw, before, sess[s].path, s)

YieldOK ==
  /\ pc \in {"classify", "open", "apply", "commit"} =>
       \A i \in DOMAIN stage : Writes(i) => Yields(stage[i].sid, stage[i].path)
  /\ pc \in {"apply", "commit"} =>
       \A s \in Sids : tx.sess[s] # NoSession => Yields(s, tx.sess[s].path)

AllOfOneVersion(r, n, x) == \A f \in Files : x[f] # NoFile => OfOneVersion(r, n, x[f])

StageLater == \A i \in DOMAIN stage : ReadLater(raw, before, stage[i])

CopyInv ==
  /\ EngineInv /\ Versions(raw, writes) /\ PendingSeen /\ RefreshSeen
  /\ AllOfOneVersion(raw, writes, before) /\ AllOfOneVersion(raw, writes, cur)
  /\ tx # NoTx => AllOfOneVersion(raw, writes, tx.cur)
  /\ StageLater /\ YieldOK

(* A file that was gone when its session was given to another path is put  *)
(* back as it was, before the commit.                                      *)
PutBack ==
  \E m \in stale : /\ raw[m.old] = NoFile /\ raw'[m.old] # NoFile
                   /\ before[m.old] # NoFile /\ Stat(raw'[m.old]) = before[m.old].stat

(* A step of the agents writes one file, or renames one.                   *)
LEMMA AgentWrites ==
  ASSUME WorldOK, AgentStep
  PROVE  /\ UNCHANGED <<index, run>> /\ writes' = writes + 1
         /\ \/ \E f \in Files, c \in RawFile \union {NoFile} :
                 /\ raw' = [raw EXCEPT ![f] = c]
                 /\ c # NoFile => /\ c.mt = writes + 1
                                  /\ c.ino = writes + 1 \/ (raw[f] # NoFile /\ c.ino = raw[f].ino)
            \/ \E f, g \in Files :
                 /\ f # g /\ raw[f] # NoFile /\ raw[g] = NoFile
                 /\ raw' = [raw EXCEPT ![g] = raw[f], ![f] = NoFile]
<1>1. UNCHANGED <<index, run>>
  BY DEF AgentStep
<1>2. \A f \in Files : raw[f] # NoFile => raw[f] \in RawFile
  BY DEF WorldOK
<1>3. writes + 1 \in Nat /\ \A f \in Files : Carries[f] \subseteq Sids
  BY ConstantsOK DEF WorldOK
<1> DEFINE Fits(f, c) == c # NoFile => /\ c.mt = writes + 1
                                       /\ c.ino = writes + 1 \/ (raw[f] # NoFile /\ c.ino = raw[f].ino)
           Wrote(f) == \E c \in RawFile \union {NoFile} : Write(f, c) /\ Fits(f, c)
<1> HIDE DEF Fits
<1>4. ASSUME NEW f \in Files, NEW t \in BOOLEAN, AppendRecord(f, t) PROVE Wrote(f)
  <2>1. PICK r \in Records :
          /\ raw[f] # NoFile
          /\ Write(f, [raw[f] EXCEPT !.recs = Append(@, r), !.mt = writes + 1, !.tail = t])
    BY <1>4 DEF AppendRecord
  <2> DEFINE c == [raw[f] EXCEPT !.recs = Append(@, r), !.mt = writes + 1, !.tail = t]
  <2>2. c \in RawFile /\ c.mt = writes + 1 /\ c.ino = raw[f].ino
    BY <1>2, <1>3, <2>1, AppendProperties DEF RawFile
  <2> HIDE DEF c
  <2>3. Fits(f, c)
    BY <2>1, <2>2 DEF Fits
  <2> QED BY <2>1, <2>2, <2>3 DEF c
<1>5. ASSUME NEW f \in Files, TerminateRecord(f) PROVE Wrote(f)
  <2> DEFINE c == [raw[f] EXCEPT !.mt = writes + 1, !.tail = FALSE]
  <2>1. raw[f] # NoFile /\ Write(f, c)
    BY <1>5 DEF TerminateRecord
  <2>2. c \in RawFile /\ c.mt = writes + 1 /\ c.ino = raw[f].ino
    BY <1>2, <1>3, <2>1 DEF RawFile
  <2> HIDE DEF c
  <2>3. Fits(f, c)
    BY <2>1, <2>2 DEF Fits
  <2> QED BY <2>1, <2>2, <2>3
<1>6. ASSUME NEW f \in Files, TouchFile(f) PROVE Wrote(f)
  <2> DEFINE c == [raw[f] EXCEPT !.mt = writes + 1]
  <2>1. raw[f] # NoFile /\ Write(f, c)
    BY <1>6 DEF TouchFile
  <2>2. c \in RawFile /\ c.mt = writes + 1 /\ c.ino = raw[f].ino
    BY <1>2, <1>3, <2>1 DEF RawFile
  <2> HIDE DEF c
  <2>3. Fits(f, c)
    BY <2>1, <2>2 DEF Fits
  <2> QED BY <2>1, <2>2, <2>3
<1>7. ASSUME NEW f \in Files, ReplaceFile(f) \/ CreateFile(f) \/ RewriteFile(f) PROVE Wrote(f)
  <2>0. <<>> \in Seq(Records) /\ \A r \in Records : <<r>> \in Seq(Records)
    BY EmptySeq
  <2>1. PICK s \in Carries[f], rs \in Seq(Records) :
          \/ Write(f, NewFile(s, rs))
          \/ raw[f] # NoFile /\ Write(f, [NewFile(s, rs) EXCEPT !.ino = raw[f].ino])
    BY <1>7, <2>0 DEF ReplaceFile, CreateFile, RewriteFile
  <2>2. NewFile(s, rs) \in RawFile /\ Fits(f, NewFile(s, rs))
    BY <1>3, <2>1 DEF NewFile, RawFile, Fits
  <2>3. ASSUME raw[f] # NoFile
        PROVE  [NewFile(s, rs) EXCEPT !.ino = raw[f].ino] \in RawFile
               /\ Fits(f, [NewFile(s, rs) EXCEPT !.ino = raw[f].ino])
    BY <1>2, <1>3, <2>1, <2>3 DEF NewFile, RawFile, Fits
  <2> QED BY <2>1, <2>2, <2>3
<1>8. ASSUME NEW f \in Files, RemoveFile(f) PROVE Wrote(f)
  BY <1>8 DEF RemoveFile, Fits
<1>9. ASSUME NEW f \in Files, Wrote(f)
      PROVE  writes' = writes + 1
             /\ \E c \in RawFile \union {NoFile} : raw' = [raw EXCEPT ![f] = c] /\ Fits(f, c)
  BY <1>9 DEF Write
<1>10. PICK f \in Files :
         \/ \E t \in BOOLEAN : AppendRecord(f, t)
         \/ TerminateRecord(f) \/ TouchFile(f) \/ ReplaceFile(f) \/ CreateFile(f)
         \/ RewriteFile(f) \/ RemoveFile(f) \/ RenameFile(f)
  BY DEF AgentStep
<1>11. CASE RenameFile(f)
  BY <1>1, <1>11 DEF RenameFile
<1>12. CASE ~RenameFile(f)
  <2>1. Wrote(f)
    BY <1>4, <1>5, <1>6, <1>7, <1>8, <1>10, <1>12
  <2> QED BY <1>1, <1>9, <2>1 DEF Fits
<1> QED BY <1>11, <1>12

(* A file after such a step is as it was, or newly stamped, or renamed.    *)
LEMMA AgentFile ==
  ASSUME WorldOK, AgentStep, NEW f \in Files, raw'[f] # NoFile
  PROVE  \/ raw'[f] = raw[f]
         \/ /\ raw'[f].mt = writes + 1
            /\ raw'[f].ino = writes + 1 \/ (raw[f] # NoFile /\ raw'[f].ino = raw[f].ino)
         \/ /\ raw[f] = NoFile
            /\ \E g \in Files : raw[g] # NoFile /\ raw'[g] = NoFile /\ raw'[f] = raw[g]
BY AgentWrites DEF WorldOK

LEMMA AgentVersions ==
  ASSUME WorldOK, WorldOK', AgentStep, Versions(raw, writes)
  PROVE  Versions(raw', writes')
<1>1. writes \in Nat /\ writes' = writes + 1
  BY AgentWrites DEF WorldOK
<1>2. \A f \in Files : raw[f] # NoFile => raw[f].mt \in Nat /\ raw[f].ino \in Nat
  BY DEF WorldOK, RawFile
<1>3. ASSUME NEW f \in Files, raw'[f] # NoFile
      PROVE  raw'[f].mt <= writes' /\ raw'[f].ino <= writes'
  BY <1>1, <1>2, <1>3, AgentFile DEF Versions
<1>4. ASSUME NEW f \in Files, NEW g \in Files, raw'[f] # NoFile, raw'[g] # NoFile,
             raw'[f].ino = raw'[g].ino
      PROVE  f = g
  <2>1. CASE \E h \in Files, c \in RawFile \union {NoFile} :
               /\ raw' = [raw EXCEPT ![h] = c]
               /\ c # NoFile => /\ c.mt = writes + 1
                                /\ c.ino = writes + 1 \/ (raw[h] # NoFile /\ c.ino = raw[h].ino)
    BY <1>1, <1>2, <1>4, <2>1 DEF Versions, WorldOK
  <2>2. CASE \E h, k \in Files :
               /\ h # k /\ raw[h] # NoFile /\ raw[k] = NoFile
               /\ raw' = [raw EXCEPT ![k] = raw[h], ![h] = NoFile]
    BY <1>4, <2>2 DEF Versions, WorldOK
  <2> QED BY <2>1, <2>2, AgentWrites
<1> QED BY <1>3, <1>4 DEF Versions

LEMMA AgentVersion ==
  ASSUME WorldOK, AgentStep, NEW e, e.stat \in Stats
  PROVE  /\ OfOneVersion(raw, writes, e) => OfOneVersion(raw', writes', e)
         /\ OfOneVersion(raw, writes, e) /\ Overwritten(raw, e) => Overwritten(raw', e)
<1>1. writes \in Nat /\ writes' = writes + 1 /\ e.stat.mt \in Nat /\ e.stat.ino \in Nat
  BY AgentWrites DEF WorldOK, Stats
<1>2. SUFFICES ASSUME OfOneVersion(raw, writes, e)
               PROVE  /\ OfOneVersion(raw', writes', e)
                      /\ Overwritten(raw, e) => Overwritten(raw', e)
  OBVIOUS
<1>3. e.stat.mt <= writes' /\ e.stat.ino <= writes'
  BY <1>1, <1>2 DEF OfOneVersion
<1>4. ASSUME NEW h \in Files, raw'[h] # NoFile, raw'[h].ino = e.stat.ino
      PROVE  \/ raw'[h].mt = writes + 1
             \/ \E g \in Files : raw[g] # NoFile /\ raw'[h] = raw[g]
  BY <1>4, AgentFile
<1>5. e.stat.mt < writes + 1
  BY <1>1, <1>2 DEF OfOneVersion
<1>6. OfOneVersion(raw', writes', e)
  <2> SUFFICES ASSUME NEW h \in Files, raw'[h] # NoFile, raw'[h].ino = e.stat.ino
               PROVE  /\ e.stat.mt <= raw'[h].mt
                      /\ raw'[h].mt = e.stat.mt => e.acc = Accepted(raw'[h])
    BY <1>3 DEF OfOneVersion
  <2>1. CASE raw'[h].mt = writes + 1
    BY <1>1, <1>5, <2>1
  <2>2. ASSUME NEW g \in Files, raw[g] # NoFile, raw'[h] = raw[g]
        PROVE  /\ e.stat.mt <= raw'[h].mt
               /\ raw'[h].mt = e.stat.mt => e.acc = Accepted(raw'[h])
    BY <1>2, <2>2 DEF OfOneVersion
  <2> QED BY <1>4, <2>1, <2>2
<1>7. ASSUME Overwritten(raw, e) PROVE Overwritten(raw', e)
  BY <1>4, <1>5, <1>7 DEF Overwritten
<1> QED BY <1>6, <1>7

(* What is not as it was seen stays so, unless it is put back.             *)
LEMMA AgentLeft ==
  ASSUME WorldOK, AgentStep, NEW f \in Files, NEW s, before[f] # NoFile => before[f] \in Entry,
         before[f] # NoFile => before[f].stat.mt <= writes,
         Left(raw, before, f, s),
         ~(/\ raw[f] = NoFile /\ raw'[f] # NoFile /\ before[f] # NoFile
           /\ Stat(raw'[f]) = before[f].stat)
  PROVE  Left(raw', before, f, s)
<1> SUFFICES ASSUME before[f] # NoFile, before[f].acc.sid = s, raw'[f] # NoFile,
                    Stat(raw'[f]) = before[f].stat
             PROVE  FALSE
  BY DEF Left
<1>1. raw[f] # NoFile /\ Stat(raw[f]) # before[f].stat
  BY DEF Left
<1>2. raw'[f].mt = writes + 1
  BY <1>1, AgentFile
<1>3. before[f].stat.mt = writes + 1
  BY <1>2 DEF Stat
<1>4. writes \in Nat
  BY DEF WorldOK
<1> QED BY <1>3, <1>4

LEMMA CopyAgent == ~TornScan /\ CopyInv /\ EngineInv' /\ AgentStep /\ ~PutBack => CopyInv'
<1> SUFFICES ASSUME ~TornScan, CopyInv, EngineInv', AgentStep, ~PutBack PROVE CopyInv'
  OBVIOUS
<1>1. /\ UNCHANGED <<sess, cur, pc, before, pending, refreshes, stage, stale, tx>>
      /\ pending = NoFile /\ WorldOK /\ EngineInv
  BY AgentWrites DEF AgentStep, index, run, CopyInv, EngineInv
<1>2. /\ Versions(raw', writes') /\ PendingSeen' /\ RefreshSeen'
  BY <1>1, AgentVersions DEF CopyInv, EngineInv, PendingSeen, RefreshSeen
<1>3. ASSUME NEW x, NEW f \in Files, AllOfOneVersion(raw, writes, x),
             x[f] # NoFile => x[f].stat \in Stats
      PROVE  x[f] # NoFile => OfOneVersion(raw', writes', x[f])
  BY <1>1, <1>3, AgentVersion DEF AllOfOneVersion
<1>4. AllOfOneVersion(raw', writes', before)
  <2>1. \A f \in Files : before[f] # NoFile => before[f].stat \in Stats
    BY <1>1 DEF EngineInv, ScanOK, Entry
  <2> QED BY <1>3, <2>1 DEF CopyInv, AllOfOneVersion
<1>5. ASSUME NEW x, CurType(x), AllOfOneVersion(raw, writes, x)
      PROVE  AllOfOneVersion(raw', writes', x)
  <2>1. \A f \in Files : x[f] # NoFile => x[f].stat \in Stats
    BY <1>5 DEF CurType, Cursor
  <2> QED BY <1>3, <1>5, <2>1 DEF AllOfOneVersion
<1>6. AllOfOneVersion(raw', writes', cur)
  BY <1>1, <1>5 DEF CopyInv, EngineInv, IndexOK
<1>7. tx # NoTx => AllOfOneVersion(raw', writes', tx.cur)
  BY <1>1, <1>5 DEF CopyInv, EngineInv, TxOK, TxShape
<1>8. StageLater'
  <2> SUFFICES ASSUME NEW i \in DOMAIN stage, stage[i].boundary.recs # <<>>,
                      Overwritten(raw, before[stage[i].path])
               PROVE  Overwritten(raw', before[stage[i].path])
    BY <1>1 DEF StageLater, ReadLater, CopyInv
  <2>1. stage[i].path \in Files /\ before[stage[i].path] # NoFile
    BY <1>1, StagedEntry DEF EngineInv, StageOK
  <2>2. before[stage[i].path].stat \in Stats /\ OfOneVersion(raw, writes, before[stage[i].path])
    BY <1>1, <2>1 DEF EngineInv, ScanOK, Entry, CopyInv, AllOfOneVersion
  <2> QED BY <1>1, <2>2, AgentVersion
<1>9. ASSUME NEW s \in Sids, NEW p, Yields(s, p) PROVE Yields(s, p)'
  <2> SUFFICES ASSUME sess[s] # NoSession, sess[s].path # p
               PROVE  /\ \E m \in stale : m.old = sess[s].path
                      /\ Left(raw', before, sess[s].path, s)
    BY <1>1 DEF Yields
  <2> DEFINE f == sess[s].path
  <2>1. f \in Files /\ Left(raw, before, f, s) /\ \E m \in stale : m.old = f
    BY <1>1, <1>9 DEF Yields, EngineInv, IndexOK, SessType, Row
  <2>2. before[f] # NoFile => before[f] \in Entry /\ before[f].stat.mt <= writes
    BY <1>1, <2>1 DEF EngineInv, ScanOK, CopyInv, AllOfOneVersion, OfOneVersion
  <2>3. ~(/\ raw[f] = NoFile /\ raw'[f] # NoFile /\ before[f] # NoFile
          /\ Stat(raw'[f]) = before[f].stat)
    BY <2>1 DEF PutBack
  <2> HIDE DEF f
  <2>4. Left(raw', before, f, s)
    BY <1>1, <2>1, <2>2, <2>3, AgentLeft
  <2> QED BY <2>1, <2>4 DEF f
<1>10. YieldOK'
  <2>1. ASSUME NEW i \in DOMAIN stage, Writes(i), Yields(stage[i].sid, stage[i].path)
        PROVE  Yields(stage[i].sid, stage[i].path)'
    BY <1>1, <1>9, <2>1, WrittenHasSession
  <2>2. ASSUME NEW s \in Sids, Yields(s, tx.sess[s].path) PROVE Yields(s, tx.sess[s].path)'
    BY <1>1, <1>9, <2>2
  <2> QED BY <1>1, <2>1, <2>2 DEF CopyInv, YieldOK, Writes
<1> QED BY <1>1, <1>2, <1>4, <1>6, <1>7, <1>8, <1>10 DEF CopyInv

(* A step of the sync that leaves index and transaction alone.             *)
LEMMA CopyQuiet ==
  ASSUME CopyInv, EngineInv', UNCHANGED <<raw, writes, cur>>, PendingSeen', RefreshSeen',
         AllOfOneVersion(raw, writes, before'), StageLater', YieldOK', tx' = NoTx \/ tx' = tx
  PROVE  CopyInv'
BY DEF CopyInv

LEMMA CopyReset ==
  ASSUME CopyInv, EngineInv', ResetRun, UNCHANGED world,
         cur' = cur \/ (tx # NoTx /\ cur' = tx.cur)
  PROVE  CopyInv'
<1>1. PendingSeen' /\ RefreshSeen' /\ AllOfOneVersion(raw, writes, before') /\ YieldOK' /\ tx' = NoTx
  BY DEF ResetRun, PendingSeen, RefreshSeen, AllOfOneVersion, YieldOK, NoSnapshot
<1>2. StageLater'
  BY EmptySeq, LenProperties DEF ResetRun, StageLater
<1>3. UNCHANGED <<raw, writes>>
  BY DEF world
<1>4. AllOfOneVersion(raw', writes', cur') /\ Versions(raw', writes')
  BY <1>3 DEF CopyInv
<1>5. AllOfOneVersion(raw', writes', before')
  BY <1>1, <1>3
<1> QED BY <1>1, <1>2, <1>4, <1>5 DEF CopyInv

LEMMA CopyScanRead == CopyInv /\ EngineInv' /\ ScanRead => CopyInv'
<1> SUFFICES ASSUME CopyInv, EngineInv', ScanRead PROVE CopyInv' OBVIOUS
<1>1. /\ UNCHANGED <<raw, writes, sess, cur, pc, refreshes, stage, stale, tx>>
      /\ pending' = NoFile /\ EngineInv
  BY DEF ScanRead, index, world, CopyInv
<1>2. CASE pc # "scanA"
  <2>1. before' = before
    BY <1>2 DEF ScanRead
  <2>2. YieldOK'
    BY <1>1, <2>1 DEF CopyInv, YieldOK, Yields, Writes, Left
  <2> QED BY <1>1, <2>1, <2>2, CopyQuiet DEF CopyInv, PendingSeen, RefreshSeen, StageLater, ReadLater
<1>3. CASE pc = "scanA"
  <2> DEFINE f      == pending.path
             cached == cur[f]
             hit    == cached # NoFile /\ cached.stat = pending.stat
             entry  == IF hit THEN [stat |-> pending.stat, acc |-> cached.acc]
                       ELSE IF raw[f] # NoFile /\ Selects(raw[f])
                       THEN [stat |-> pending.stat, acc |-> Accepted(raw[f])]
                       ELSE NoFile
  <2>1. before' = [before EXCEPT ![f] = entry]
    BY <1>3 DEF ScanRead, Cached
  <2>2. f \in Files /\ raw[f] # NoFile /\ pending.stat = Stat(raw[f])
    BY DEF ScanRead, CopyInv, PendingSeen, EngineInv, ScanOK
  <2>3. ASSUME entry # NoFile PROVE OfOneVersion(raw, writes, entry)
    <3>1. CASE hit
      <4>1. entry.stat = cached.stat /\ entry.acc = cached.acc
        BY <3>1
      <4>2. OfOneVersion(raw, writes, cached)
        BY <2>2, <3>1 DEF CopyInv, AllOfOneVersion
      <4> HIDE DEF entry
      <4> QED BY <4>1, <4>2 DEF OfOneVersion
    <3>2. CASE ~hit
      <4>1. entry.stat = Stat(raw[f]) /\ entry.acc = Accepted(raw[f])
        BY <2>2, <2>3, <3>2
      <4>2. entry.stat.mt = raw[f].mt /\ entry.stat.ino = raw[f].ino
        BY <4>1 DEF Stat
      <4>3. raw[f].mt \in Nat
        BY <1>1, <2>2 DEF EngineInv, WorldOK, RawFile
      <4> HIDE DEF entry, f
      <4> QED BY <2>2, <4>1, <4>2, <4>3 DEF OfOneVersion, CopyInv, Versions
    <3> QED BY <3>1, <3>2
  <2> HIDE DEF entry, f
  <2>4. AllOfOneVersion(raw, writes, before')
    BY <1>1, <2>1, <2>2, <2>3 DEF CopyInv, AllOfOneVersion, EngineInv, ScanOK
  <2>5. stage = <<>> /\ refreshes = {}
    BY <1>1, <1>3 DEF EngineInv, QueueOK
  <2>6. StageLater' /\ RefreshSeen' /\ PendingSeen' /\ YieldOK'
    BY <1>1, <1>3, <2>5, EmptySeq, LenProperties DEF StageLater, RefreshSeen, PendingSeen, YieldOK
  <2> QED BY <1>1, <2>4, <2>6, CopyQuiet
<1> QED BY <1>2, <1>3

LEMMA CopyPlan == CopyInv /\ EngineInv' /\ PlanProjection => CopyInv'
<1> SUFFICES ASSUME CopyInv, EngineInv', PlanProjection PROVE CopyInv' OBVIOUS
<1>1. /\ UNCHANGED <<raw, writes, sess, cur, before, pending, stage, stale, tx>>
      /\ pc' = "project"
  BY DEF PlanProjection, index, world
<1>2. ASSUME NEW r \in refreshes' PROVE before[r.path] # NoFile /\ r.cursor.acc = before[r.path].acc
  <2>1. PICK f \in Selected(before) :
          /\ SameBytes(f)
          /\ r = [path |-> f, cursor |-> [cur[f] EXCEPT !.stat = before[f].stat]]
    BY <1>2 DEF PlanProjection
  <2>2. f \in Files /\ before[f] # NoFile /\ cur[f] # NoFile /\ cur[f].acc = before[f].acc
    BY <2>1 DEF Selected, SameBytes, CopyInv, EngineInv, ScanOK
  <2>3. cur[f] \in Cursor
    BY <2>2 DEF CopyInv, EngineInv, IndexOK, CurType
  <2> QED BY <2>1, <2>2, <2>3 DEF Cursor
<1>3. RefreshSeen'
  BY <1>1, <1>2 DEF RefreshSeen
<1> QED BY <1>1, <1>3, CopyQuiet DEF CopyInv, PendingSeen, StageLater, ReadLater, YieldOK

(* The snapshot's version was read, or has been written over since.        *)
LEMMA ProjectedLater ==
  ASSUME NEW f \in Files, EngineInv, Versions(raw, writes), raw[f] # NoFile, before[f] # NoFile,
         OfOneVersion(raw, writes, before[f]), raw[f].ino = before[f].stat.ino
  PROVE  ReadLater(raw, before, Project(raw[f], f, before[f], cur[f]))
<1> DEFINE c == raw[f]
           e == before[f]
           safe == SafeBytes(c, e.stat.size)
           st == Project(c, f, e, cur[f])
<1>1. c \in RawFile /\ Ended(c) /\ e \in Entry /\ e.stat.size \in Nat /\ c.mt \in Nat
      /\ e.stat.mt \in Nat
  BY DEF EngineInv, WorldOK, ScanOK, Entry, Stats, RawFile
<1>2. st.boundary = Prefix(c, safe) /\ st.sid = st.boundary.sid /\ st.path = f
  BY DEF Project, Projection
<1>3. safe \in 0..Bytes(c)
  BY <1>1, SafeBytesOfFile
<1>4. /\ st.boundary.sid = IF safe = 0 THEN NoSid ELSE c.sid
      /\ Len(st.boundary.recs) = (safe + 1) \div 2 /\ st.boundary.recs \in Seq(Records)
  BY <1>1, <1>2, <1>3, PrefixOfFile DEF Digests
<1> SUFFICES ASSUME st.boundary.recs # <<>>, ~Overwritten(raw, e) PROVE st.sid = e.acc.sid
  BY <1>2 DEF ReadLater
<1>5. safe # 0
  <2> SUFFICES ASSUME safe = 0 PROVE FALSE
    OBVIOUS
  <2>1. (safe + 1) \div 2 = 0
    OBVIOUS
  <2> QED BY <1>4, <2>1, EmptySeq
<1>6. c.recs # <<>>
  <2> SUFFICES ASSUME c.recs = <<>> PROVE FALSE
    OBVIOUS
  <2>1. Len(c.recs) = 0 /\ ~c.tail
    BY <1>1 DEF Ended, RawFile
  <2>2. Bytes(c) = 0
    BY <2>1 DEF Bytes
  <2> QED BY <1>3, <1>5, <2>2
<1>7. c.mt = e.stat.mt
  <2>1. PICK h \in Files : raw[h] # NoFile /\ raw[h].ino = e.stat.ino /\ ~(e.stat.mt < raw[h].mt)
    BY DEF Overwritten
  <2>2. h = f
    BY <2>1 DEF Versions
  <2>3. e.stat.mt <= c.mt
    BY DEF OfOneVersion
  <2> QED BY <1>1, <2>1, <2>2, <2>3
<1>8. e.acc = Accepted(c)
  BY <1>7 DEF OfOneVersion
<1>9. e.acc.sid = c.sid
  BY <1>6, <1>8 DEF Accepted
<1> QED BY <1>2, <1>4, <1>5, <1>9

LEMMA CopyProject == \A f \in Files : CopyInv /\ EngineInv' /\ ProjectFile(f) => CopyInv'
<1> SUFFICES ASSUME NEW f \in Files, CopyInv, EngineInv', ProjectFile(f) PROVE CopyInv'
  OBVIOUS
<1>1. /\ UNCHANGED <<raw, writes, sess, cur, before, pending, refreshes, stale, tx, pc>>
      /\ pc = "project" /\ f \in todo
  BY DEF ProjectFile, index, world
<1>2. PendingSeen' /\ RefreshSeen' /\ YieldOK' /\ AllOfOneVersion(raw, writes, before')
  BY <1>1 DEF CopyInv, PendingSeen, RefreshSeen, YieldOK
<1>3. CASE stage' = stage
  <2>1. StageLater'
    BY <1>1, <1>3 DEF CopyInv, StageLater
  <2> QED BY <1>1, <1>2, <2>1, CopyQuiet
<1>4. CASE /\ raw[f] # NoFile /\ raw[f].ino = before[f].stat.ino
           /\ stage' = Append(stage, Project(raw[f], f, before[f], cur[f]))
  <2> DEFINE st == Project(raw[f], f, before[f], cur[f])
  <2>1. before[f] # NoFile /\ before[f] \in Entry
    BY <1>1 DEF CopyInv, EngineInv, QueueOK, ScanOK
  <2>2. ReadLater(raw, before, st)
    BY <1>4, <2>1, ProjectedLater DEF CopyInv, AllOfOneVersion
  <2>3. st \in Staging
    BY <1>4, <2>1, ProjectAnchored DEF CopyInv, EngineInv, WorldOK, IndexOK, CurType
  <2> HIDE DEF st
  <2>4. StageLater'
    <3>1. stage \in Seq(Staging) /\ stage' = Append(stage, st)
      BY <1>4 DEF st, CopyInv, EngineInv, StageOK
    <3>2. \A i \in DOMAIN stage' : stage'[i] = st \/ (i \in DOMAIN stage /\ stage'[i] = stage[i])
      BY <2>3, <3>1, AppendProperties, LenProperties
    <3> QED BY <1>1, <2>2, <3>2 DEF CopyInv, StageLater
  <2> QED BY <1>1, <1>2, <2>4, CopyQuiet
<1> QED BY <1>3, <1>4 DEF ProjectFile

LEMMA CopyDemotes ==
  ASSUME CopyInv, EngineInv', NEW why \in {"invalid", "duplicate", "deferred"}, Demotes(why),
         UNCHANGED <<raw, writes, sess, cur, before, pending, tx>>,
         refreshes' \subseteq refreshes, YieldOK'
  PROVE  CopyInv'
<1>1. StageLater'
  BY DemotedEntry DEF CopyInv, EngineInv, StageLater, ReadLater, Demotes
<1> QED BY <1>1, CopyQuiet DEF CopyInv, PendingSeen, RefreshSeen

(* A path gives a session up when it is gone, or holds another by now.     *)
LEMMA GivesUpLeft ==
  ASSUME CopyInv, NEW f \in Files, NEW s, GivesUp(f, s)
  PROVE  Left(raw, before, f, s)
<1> SUFFICES ASSUME before[f] # NoFile, before[f].acc.sid = s, raw[f] # NoFile,
                    Stat(raw[f]) = before[f].stat
             PROVE  FALSE
  BY DEF Left
<1>1. PICK i \in DOMAIN stage : stage[i].boundary.recs # <<>> /\ stage[i].path = f
                                /\ stage[i].sid # s
  BY DEF GivesUp, Candidates
<1>2. Overwritten(raw, before[f])
  BY <1>1 DEF CopyInv, StageLater, ReadLater
<1>3. raw[f].ino = before[f].stat.ino /\ raw[f].mt = before[f].stat.mt
  BY DEF Stat
<1>4. raw[f].mt \in Nat
  BY DEF CopyInv, EngineInv, WorldOK, RawFile
<1> QED BY <1>2, <1>3, <1>4 DEF Overwritten

LEMMA CopyResolve == CopyInv /\ EngineInv' /\ ResolveMoves => CopyInv'
<1> SUFFICES ASSUME CopyInv, EngineInv', ResolveMoves PROVE CopyInv' OBVIOUS
<1>1. /\ UNCHANGED <<raw, writes, sess, cur, before, pending, refreshes, tx>>
      /\ pc' = "classify" /\ StageOK /\ Demotes("duplicate") /\ EngineInv
  BY ResolveStep DEF ResolveMoves, index, world, CopyInv, EngineInv
<1>2. ASSUME NEW i \in DOMAIN stage, Writes(i)'
      PROVE  Yields(stage[i].sid, stage[i].path)'
  <2> DEFINE st == stage[i]
             f  == sess[st.sid].path
  <2>1. /\ stage'[i] = st /\ st \in Staging
        /\ st.fate = "staged" /\ st.boundary.recs # <<>>
    BY <1>1, <1>2, DemotedEntry DEF Writes
  <2>2. st \in Candidates /\ ~Duplicate(st)
    <3>1. stage'[i] = IF Duplicate(st) THEN [st EXCEPT !.fate = "duplicate"] ELSE st
      BY DEF ResolveMoves, Refuse
    <3>2. [st EXCEPT !.fate = "duplicate"].fate = "duplicate"
      BY <2>1 DEF Staging
    <3> QED BY <2>1, <3>1, <3>2 DEF Candidates
  <2>3. st.sid \in Sids
    BY <1>1, <2>1, WrittenHasSession DEF Writes
  <2> HIDE DEF st
  <2> SUFFICES ASSUME sess[st.sid] # NoSession, f # st.path
               PROVE  /\ \E m \in stale' : m.old = f
                      /\ Left(raw, before, f, st.sid)
    BY <1>1, <2>1 DEF Yields
  <2>4. f \in Files
    BY <1>1, <2>3 DEF EngineInv, IndexOK, SessType, Row
  <2> HIDE DEF f
  <2>5. f \in Bindings(st.sid) \ {st.path}
    BY <2>4 DEF Bindings, f
  <2>6. [new |-> st.path, old |-> f] \in stale'
    <3>1. \A c \in Candidates : ~Duplicate(c) =>
            \A g \in Bindings(c.sid) \ {c.path} : [new |-> c.path, old |-> g] \in stale'
      BY DEF ResolveMoves
    <3> QED BY <2>2, <2>5, <3>1
  <2>7. GivesUp(f, st.sid)
    BY <2>2, <2>5 DEF Duplicate
  <2> QED BY <2>4, <2>6, <2>7, GivesUpLeft
<1>3. YieldOK'
  BY <1>1, <1>2 DEF YieldOK, Demotes
<1> QED BY <1>1, <1>3, CopyDemotes

LEMMA CopyJudge == CopyInv /\ EngineInv' /\ (Validate \/ ResolveMoves \/ ClassifySnapshots) => CopyInv'
<1>1. ASSUME CopyInv, EngineInv', Validate PROVE CopyInv'
  <2>1. Demotes("invalid") /\ YieldOK'
    BY <1>1, ValidateStep DEF Validate, YieldOK, CopyInv
  <2> QED BY <1>1, <2>1, CopyDemotes DEF Validate, index, world
<1>2. ASSUME CopyInv, EngineInv', ClassifySnapshots PROVE CopyInv'
  <2>1. /\ UNCHANGED <<raw, writes, sess, cur, before, pending, tx, stale>>
        /\ pc = "classify" /\ pc' = "open" /\ Demotes("deferred") /\ refreshes' \subseteq refreshes
        /\ StageOK
    BY <1>2, ClassifyStep DEF ClassifySnapshots, PhaseDone, index, world, CopyInv, EngineInv
  <2>2. ASSUME NEW i \in DOMAIN stage, Writes(i)'
        PROVE  Yields(stage[i].sid, stage[i].path)'
    <3>1. stage'[i] = stage[i] /\ Writes(i)
      BY <2>1, <2>2, DemotedEntry DEF Writes
    <3> QED BY <1>2, <2>1, <3>1 DEF CopyInv, YieldOK, Yields
  <2>3. YieldOK'
    BY <2>1, <2>2 DEF YieldOK, Demotes
  <2> QED BY <1>2, <2>1, <2>3, CopyDemotes
<1> QED BY <1>1, <1>2, CopyResolve

(* A step of the transaction, which leaves what was read alone.            *)
LEMMA CopyTx ==
  ASSUME CopyInv, EngineInv', UNCHANGED <<raw, writes, sess, cur, before, pending, refreshes>>,
         StageLater', YieldOK', AllOfOneVersion(raw, writes, tx'.cur)
  PROVE  CopyInv'
BY DEF CopyInv, PendingSeen, RefreshSeen

LEMMA CopyOpen == CopyInv /\ EngineInv' /\ OpenTransaction => CopyInv'
<1> SUFFICES ASSUME CopyInv, EngineInv', OpenTransaction PROVE CopyInv' OBVIOUS
<1>1. /\ UNCHANGED <<raw, writes, sess, cur, before, pending, refreshes, stage, stale>>
      /\ pc = "open" /\ pc' = "apply" /\ tx'.sess = sess
  BY OpenWrites DEF OpenTransaction, PhaseDone, index, world, CopyInv
<1>2. ASSUME NEW f \in Files, tx'.cur[f] # NoFile PROVE OfOneVersion(raw, writes, tx'.cur[f])
  <2>1. CASE tx'.cur[f] = cur[f]
    BY <1>2, <2>1 DEF CopyInv, AllOfOneVersion
  <2>2. ASSUME NEW r \in refreshes, r.path = f, tx'.cur[f] = r.cursor
        PROVE  OfOneVersion(raw, writes, tx'.cur[f])
    <3>1. Restamps(r) /\ before[f] # NoFile /\ r.cursor.acc = before[f].acc
      BY <2>2 DEF CopyInv, RefreshSeen, EngineInv, RefreshOK
    <3>2. cur[f] \in Cursor
      BY <2>2, <3>1 DEF Restamps, CopyInv, EngineInv, IndexOK, CurType
    <3>3. r.cursor = [cur[f] EXCEPT !.stat = before[f].stat]
      BY <2>2, <3>1 DEF Restamps
    <3>4. r.cursor.stat = before[f].stat
      BY <3>2, <3>3 DEF Cursor
    <3>5. OfOneVersion(raw, writes, before[f])
      BY <3>1 DEF CopyInv, AllOfOneVersion
    <3> QED BY <2>2, <3>1, <3>4, <3>5 DEF OfOneVersion
  <2> QED BY <1>2, <2>1, <2>2, OpenWrites DEF CopyInv
<1>3. YieldOK'
  BY <1>1 DEF CopyInv, YieldOK, Yields, Writes
<1>4. StageLater'
  BY <1>1 DEF CopyInv, StageLater
<1> QED BY <1>1, <1>2, <1>3, <1>4, CopyTx DEF AllOfOneVersion

LEMMA CopyApply == CopyInv /\ EngineInv' /\ Apply => CopyInv'
<1> SUFFICES ASSUME CopyInv, EngineInv', Apply PROVE CopyInv' OBVIOUS
<1> DEFINE st == Head(stage)
<1>1. /\ UNCHANGED <<raw, writes, sess, cur, before, pending, refreshes, stale>>
      /\ pc = "apply" /\ pc' = "apply"
      /\ stage' = Tail(stage) /\ PhaseDone("apply") /\ stage # <<>> /\ EngineInv /\ StageOK
  BY DEF Apply, ApplyRefused, ApplyEmpty, ApplyFull, ApplyDelta, ApplyNext, PhaseDone, index,
         world, CopyInv, EngineInv
<1>2. /\ st = stage[1] /\ 1 \in DOMAIN stage /\ st.path \in Files /\ before[st.path] # NoFile
      /\ TxShape(tx) /\ Anchored(st, before[st.path], cur[st.path])
  BY <1>1, HeadOfStage, TailOfStage
<1>3. \A i \in DOMAIN stage' : i + 1 \in DOMAIN stage /\ stage'[i] = stage[i + 1]
  BY <1>1, TailOfStage
<1>4. StageLater'
  BY <1>1, <1>3 DEF CopyInv, StageLater
<1>5. Touches(tx, tx', st.path) /\ tx # NoTx
  BY <1>1, ApplyTouches DEF EngineInv, TxOK
<1> HIDE DEF st
<1>6. \/ tx' = tx
      \/ /\ st.fate = "staged"
         /\ \A f \in Files : IF f = st.path THEN tx'.cur[f] = CursorOf(st, st.sid)
                             ELSE tx'.cur[f] \in {tx.cur[f], NoFile}
         /\ \A s \in Sids : s = st.sid \/ tx'.sess[s] \in {tx.sess[s], NoSession}
  <2>1. CASE ApplyRefused
    BY <2>1 DEF ApplyRefused, ApplyNext
  <2>2. CASE ~ApplyRefused
    <3>1. st.fate = "staged"
      BY <2>2 DEF Apply, ApplyEmpty, ApplyFull, ApplyDelta, st
    <3> QED BY <1>1, <3>1, ApplyWrites DEF st
  <2> QED BY <2>1, <2>2
<1>7. AllOfOneVersion(raw, writes, tx'.cur)
  <2>1. OfOneVersion(raw, writes, before[st.path])
    BY <1>2 DEF CopyInv, AllOfOneVersion
  <2>2. OfOneVersion(raw, writes, CursorOf(st, st.sid))
    BY <2>1 DEF CursorOf, OfOneVersion
  <2>3. AllOfOneVersion(raw, writes, tx.cur)
    BY <1>5 DEF CopyInv
  <2> QED BY <1>6, <2>2, <2>3 DEF AllOfOneVersion
<1>8. ASSUME NEW i \in DOMAIN stage', Writes(i)' PROVE Yields(stage[i].sid, stage[i].path)'
  <2>1. Yields(stage'[i].sid, stage'[i].path)
    BY <1>1, <1>3, <1>8 DEF CopyInv, YieldOK, Writes
  <2> QED BY <1>1, <2>1 DEF Yields
<1>9. ASSUME NEW s \in Sids, tx'.sess[s] # NoSession PROVE Yields(s, tx.sess[s].path)'
  <2>1. Yields(s, tx'.sess[s].path)
    <3>1. CASE tx'.sess[s] = tx.sess[s]
      BY <1>1, <1>9, <3>1 DEF CopyInv, YieldOK
    <3>2. CASE tx'.sess[s] # tx.sess[s]
      <4>1. s = st.sid /\ tx'.sess[s].path = st.path /\ st.fate = "staged"
        BY <1>5, <1>6, <1>9, <3>2 DEF Touches
      <4>2. st.boundary.recs # <<>>
        BY <1>2, <4>1, ConstantsOK DEF Anchored
      <4> QED BY <1>1, <1>2, <4>1, <4>2 DEF CopyInv, YieldOK, Writes
    <3> QED BY <3>1, <3>2
  <2> QED BY <1>1, <2>1 DEF Yields
<1>10. YieldOK'
  BY <1>8, <1>9 DEF YieldOK
<1> QED BY <1>1, <1>4, <1>7, <1>10, CopyTx

LEMMA CopyPrune == CopyInv /\ EngineInv' /\ Prune => CopyInv'
<1> SUFFICES ASSUME CopyInv, EngineInv', Prune PROVE CopyInv' OBVIOUS
<1>1. /\ UNCHANGED <<raw, writes, sess, cur, before, pending, refreshes, stage, stale>>
      /\ tx' \in {tx, Pruned(tx)} /\ TxShape(tx) /\ tx # NoTx /\ pc = "apply" /\ pc' = "commit"
  BY DEF Prune, PhaseDone, index, world, CopyInv, EngineInv, TxOK
<1>2. /\ \A s \in Sids : tx'.sess[s] \in {tx.sess[s], NoSession}
      /\ \A f \in Files : tx'.cur[f] \in {tx.cur[f], NoFile}
  BY <1>1, PrunedFewer DEF Fewer
<1>3. AllOfOneVersion(raw, writes, tx'.cur)
  BY <1>1, <1>2 DEF CopyInv, AllOfOneVersion
<1>4. ASSUME NEW s \in Sids, tx'.sess[s] # NoSession PROVE Yields(s, tx.sess[s].path)'
  <2>1. Yields(s, tx.sess[s].path) /\ tx'.sess[s] = tx.sess[s]
    BY <1>1, <1>2, <1>4 DEF CopyInv, YieldOK
  <2> QED BY <1>1, <2>1 DEF Yields
<1>5. YieldOK'
  <2>1. \A i \in DOMAIN stage : Writes(i)' => Yields(stage[i].sid, stage[i].path)'
    BY <1>1 DEF CopyInv, YieldOK, Yields, Writes
  <2> QED BY <1>1, <1>4, <2>1 DEF YieldOK
<1>6. StageLater'
  BY <1>1 DEF CopyInv, StageLater
<1> QED BY <1>1, <1>3, <1>5, <1>6, CopyTx

LEMMA CopyCommit == CopyInv /\ EngineInv' /\ Commit => CopyInv'
<1> SUFFICES ASSUME CopyInv, EngineInv', Commit PROVE CopyInv' OBVIOUS
<1>1. tx # NoTx
  BY DEF Commit, PhaseDone, CopyInv, EngineInv, TxOK
<1> QED BY <1>1, CopyReset DEF Commit, FailSync

LEMMA NextCopy == ~TornScan /\ CopyInv /\ [Next]_vars /\ ~PutBack => CopyInv'
<1> SUFFICES ASSUME ~TornScan, CopyInv, [Next]_vars, ~PutBack PROVE CopyInv' OBVIOUS
<1>1. EngineInv'
  BY NextEngine DEF CopyInv
<1>2. CASE AgentStep
  BY <1>1, <1>2, CopyAgent
<1>3. ASSUME /\ UNCHANGED <<raw, writes, sess, cur, before, refreshes, stage, stale, tx>>
             /\ PendingSeen'
             /\ pc' = pc \/ pc' \in {"scanA", "scanB"}
      PROVE  CopyInv'
  <2>1. YieldOK'
    BY <1>3 DEF CopyInv, YieldOK, Yields, Writes
  <2> QED BY <1>1, <1>3, <2>1, CopyQuiet DEF CopyInv, RefreshSeen, StageLater
<1>4. CASE UNCHANGED vars
  BY <1>3, <1>4 DEF vars, world, index, run, CopyInv, PendingSeen
<1>5. CASE \E r \in Requests : Begin(r)
  BY <1>3, <1>5 DEF Begin, world, index, CopyInv, PendingSeen
<1>6. CASE SyncStep
  <2>1. CASE \E f \in Files : ScanStat(f)
    <3>1. PICK f \in Files : ScanStat(f)
      BY <2>1
    <3>2. PendingSeen'
      BY <3>1 DEF ScanStat, world, CopyInv, PendingSeen
    <3> QED BY <1>3, <3>1, <3>2 DEF ScanStat, world, index
  <2>2. CASE Rescan
    BY <1>3, <2>2 DEF Rescan, world, index, CopyInv, PendingSeen
  <2>3. CASE GiveUp
    BY <1>1, <2>3, CopyReset DEF GiveUp, FailSync
  <2> QED BY <1>1, <1>6, <2>1, <2>2, <2>3, CopyScanRead, CopyPlan, CopyProject, CopyJudge, CopyOpen,
             CopyApply, CopyPrune, CopyCommit DEF SyncStep, Scan, ProjectOne
<1>7. CASE IoError \/ Crash
  BY <1>1, <1>7, CopyReset DEF IoError, Crash, FailSync, index
<1> QED BY <1>2, <1>4, <1>5, <1>6, <1>7 DEF Next

LEMMA InitCopy == Init => CopyInv
<1> SUFFICES ASSUME Init PROVE CopyInv OBVIOUS
<1>1. EngineInv /\ StageLater
  BY InitEngine, EmptySeq, LenProperties DEF Init, StageLater
<1>2. /\ Versions(raw, writes) /\ AllOfOneVersion(raw, writes, before)
      /\ AllOfOneVersion(raw, writes, cur)
  BY DEF Init, Versions, AllOfOneVersion, NoSnapshot
<1> QED BY <1>1, <1>2 DEF Init, CopyInv, PendingSeen, RefreshSeen, YieldOK

(* A copy never takes a session away from an untouched original: when a    *)
(* commit gives a session another path, the file at the path it leaves is  *)
(* gone or is not the version that the scan saw.  This needs that no agent *)
(* writes between a scan's stat and its read, and that no original which   *)
(* was gone when the moves were judged is put back before the commit.      *)
THEOREM SpecCopyNeverTakesOver ==
  ASSUME ~TornScan
  PROVE  Spec /\ [][~PutBack]_vars => CopyNeverTakesOver
<1> DEFINE Keeps ==
      \A s \in Sids :
        LET row == sess[s] IN
        /\ row # NoSession /\ sess'[s] # NoSession
        /\ sess'[s].path # row.path
        /\ before[row.path] # NoFile
        /\ before[row.path].acc.sid = s
        => raw[row.path] = NoFile \/ Stat(raw[row.path]) # before[row.path].stat
<1>1. CopyInv /\ [Next]_vars => Keeps
  <2> SUFFICES ASSUME CopyInv, [Next]_vars, NEW s \in Sids,
                      sess[s] # NoSession, sess'[s] # NoSession,
                      sess'[s].path # sess[s].path
               PROVE  Left(raw, before, sess[s].path, s)
    BY DEF Left
  <2>1. CASE Commit
    <3>1. sess' = tx.sess \/ sess' = sess
      BY <2>1 DEF Commit, FailSync
    <3> QED BY <2>1, <3>1 DEF Commit, PhaseDone, CopyInv, YieldOK, Yields
  <2>2. CASE ~Commit
    <3>1. sess' = sess
      BY <2>2 DEF Next, AgentStep, Begin, SyncStep, Scan, ScanRead, ScanStat, PlanProjection,
                  ProjectOne, ProjectFile, Rescan, Validate, ResolveMoves, ClassifySnapshots,
                  OpenTransaction, Apply, ApplyRefused, ApplyEmpty, ApplyFull, ApplyDelta,
                  ApplyNext, Prune, GiveUp, IoError, Crash, FailSync, index, vars
    <3> QED BY <3>1
  <2> QED BY <2>1, <2>2
<1>2. CopyInv /\ [Next]_vars /\ [~PutBack]_vars => CopyInv'
  <2>1. CASE ~PutBack
    BY <2>1, NextCopy
  <2>2. CASE UNCHANGED vars
    <3>1. raw' = raw
      BY <2>2 DEF vars, world
    <3>2. ~PutBack
      BY <3>1 DEF PutBack
    <3> QED BY <3>2, NextCopy
  <2> QED BY <2>1, <2>2
<1>3. Init => CopyInv
  BY InitCopy
<1> HIDE DEF Keeps
<1>4. Spec /\ [][~PutBack]_vars => []CopyInv
  BY <1>2, <1>3, PTL DEF Spec
<1>5. Spec /\ [][~PutBack]_vars => [][Keeps]_vars
  BY <1>1, <1>4, PTL DEF Spec
<1> QED BY <1>5 DEF Keeps, CopyNeverTakesOver

=============================================================================
