--------------------------- MODULE ReadPathProofs ---------------------------
(***************************************************************************)
(* What a reader is told, for any number of agents' steps, syncs and       *)
(* reads, and any files and scopes.                                        *)
(***************************************************************************)
EXTENDS ReadPath, SequenceTheorems, FiniteSetTheorems, TLAPS

-----------------------------------------------------------------------------
(* Sequences.                                                              *)

LEMMA FirstElements ==
  ASSUME NEW S, NEW s \in Seq(S), NEW k \in 0..Len(s)
  PROVE  /\ SubSeq(s, 1, k) \in Seq(S) /\ Len(SubSeq(s, 1, k)) = k
         /\ \A i \in 1..k : SubSeq(s, 1, k)[i] = s[i]
<1>1. Len(s) \in Nat /\ k \in Nat
  BY LenProperties
<1>2. \A i \in 1..k : s[i] \in S
  BY <1>1, ElementOfSeq
<1>3. /\ SubSeq(s, 1, k) \in Seq(S)
      /\ Len(SubSeq(s, 1, k)) = IF 1 <= k THEN k - 1 + 1 ELSE 0
      /\ \A i \in 1..k - 1 + 1 : SubSeq(s, 1, k)[i] = s[1 + i - 1]
  BY <1>1, <1>2, SubSeqProperties
<1> QED BY <1>1, <1>3

LEMMA PrefixIsElementwise ==
  ASSUME NEW S, NEW s \in Seq(S), NEW t \in Seq(S)
  PROVE  IsPrefix(s, t) <=> Len(s) <= Len(t) /\ \A i \in 1..Len(s) : s[i] = t[i]
<1>1. Len(s) \in Nat /\ Len(t) \in Nat
  BY LenProperties
<1>2. SubSeq(s, 1, Len(s)) = s
  BY SubSeqFull
<1>3. CASE ~(Len(s) <= Len(t))
  BY <1>3 DEF IsPrefix
<1>4. CASE Len(s) <= Len(t)
  <2> DEFINE first == SubSeq(t, 1, Len(s))
  <2>1. /\ first \in Seq(S) /\ Len(first) = Len(s)
        /\ \A i \in 1..Len(s) : first[i] = t[i]
    BY <1>1, <1>4, FirstElements
  <2>2. IsPrefix(s, t) <=> s = first
    BY <1>2, <1>4 DEF IsPrefix
  <2> HIDE DEF first
  <2>3. (\A i \in 1..Len(s) : s[i] = first[i]) => s = first
    BY <2>1, SeqEqual
  <2> QED BY <1>4, <2>1, <2>2, <2>3
<1> QED BY <1>3, <1>4

LEMMA PrefixTransitive ==
  ASSUME NEW S, NEW s \in Seq(S), NEW t \in Seq(S), NEW u \in Seq(S),
         IsPrefix(s, t), IsPrefix(t, u)
  PROVE  IsPrefix(s, u)
<1>1. Len(s) \in Nat /\ Len(t) \in Nat /\ Len(u) \in Nat
  BY LenProperties
<1>2. /\ Len(s) <= Len(t) /\ \A i \in 1..Len(s) : s[i] = t[i]
      /\ Len(t) <= Len(u) /\ \A i \in 1..Len(t) : t[i] = u[i]
  BY PrefixIsElementwise
<1> QED BY <1>1, <1>2, PrefixIsElementwise

(* A path is known from the root it lies under and what follows the root.  *)
LEMMA RelativeInjective ==
  ASSUME NEW S, NEW r \in Seq(S), NEW p \in Seq(S), NEW q \in Seq(S),
         IsPrefix(r, p), IsPrefix(r, q), Relative(r, p) = Relative(r, q)
  PROVE  p = q
<1>1. Len(r) \in Nat /\ Len(p) \in Nat /\ Len(q) \in Nat
  BY LenProperties
<1>2. /\ Len(r) <= Len(p) /\ \A i \in 1..Len(r) : r[i] = p[i]
      /\ Len(r) <= Len(q) /\ \A i \in 1..Len(r) : r[i] = q[i]
  BY PrefixIsElementwise
<1>3. ASSUME NEW t \in Seq(S), Len(t) \in Nat, Len(r) <= Len(t)
      PROVE  /\ Len(Relative(r, t)) = Len(t) - Len(r)
             /\ \A i \in 1..Len(t) - Len(r) : Relative(r, t)[i] = t[Len(r) + i]
  <2>1. \A i \in (Len(r) + 1)..Len(t) : t[i] \in S
    BY <1>1, <1>3, ElementOfSeq
  <2>2. Len(r) + 1 \in Int /\ Len(t) \in Int
    BY <1>1, <1>3
  <2> DEFINE m == Len(r) + 1
             n == Len(t)
  <2>3. /\ Len(SubSeq(t, m, n)) = IF m <= n THEN n - m + 1 ELSE 0
        /\ \A i \in 1..n - m + 1 : SubSeq(t, m, n)[i] = t[m + i - 1]
    <3> HIDE DEF m, n
    <3> QED BY <2>1, <2>2, SubSeqProperties DEF m, n
  <2> QED BY <1>1, <1>3, <2>3 DEF Relative
<1>4. Len(p) = Len(q)
  BY <1>1, <1>2, <1>3
<1>5. \A i \in 1..Len(p) : p[i] = q[i]
  <2> SUFFICES ASSUME NEW i \in 1..Len(p) PROVE p[i] = q[i] OBVIOUS
  <2>1. CASE i <= Len(r)
    BY <1>1, <1>2, <2>1
  <2>2. CASE i > Len(r)
    <3>1. i - Len(r) \in 1..Len(p) - Len(r) /\ Len(r) + (i - Len(r)) = i
      BY <1>1, <1>4, <2>2
    <3>2. /\ Relative(r, p)[i - Len(r)] = p[Len(r) + (i - Len(r))]
          /\ Relative(r, q)[i - Len(r)] = q[Len(r) + (i - Len(r))]
      BY <1>1, <1>2, <1>3, <1>4, <3>1
    <3> QED BY <3>1, <3>2
  <2> QED BY <1>1, <2>1, <2>2
<1> QED BY <1>4, <1>5, SeqEqual

-----------------------------------------------------------------------------
(* Scopes, of files and of rows.                                           *)

File == [source : {Source}, path : Paths, date : (Nat \ {0}) \cup {None},
         cwd : Cwds \cup {None}, content : Seq(Int)]

(* No file lies under a root only because letters of another case are      *)
(* taken to be the same.                                                   *)
RootsDifferByMoreThanCase ==
  \A s \in Scopes, p \in Paths : Like(s.root, p) => IsPrefix(s.root, p)

LEMMA RootIsPrefixOrLike ==
  ASSUME NEW r \in Seq(DOMAIN CaseFold), NEW p \in Seq(DOMAIN CaseFold)
  PROVE  IsPrefix(r, p) => p = r \/ Like(r, p)
<1>1. Len(r) \in Nat /\ Len(p) \in Nat /\ DOMAIN r = 1..Len(r)
  BY LenProperties
<1>2. SUFFICES ASSUME IsPrefix(r, p), p # r PROVE Like(r, p)
  OBVIOUS
<1>3. Len(r) <= Len(p) /\ \A i \in 1..Len(r) : r[i] = p[i]
  BY <1>2, PrefixIsElementwise
<1>4. Len(r) # Len(p)
  BY <1>2, <1>3, SeqEqual
<1> QED BY <1>1, <1>3, <1>4 DEF Like

LEMMA RootItself ==
  ASSUME NEW r \in Seq(DOMAIN CaseFold) PROVE IsPrefix(r, r)
<1>1. Len(r) \in Nat
  BY LenProperties
<1> QED BY <1>1, PrefixIsElementwise

(* The row of a file is in the SQL scope of a selector when the file is in *)
(* the selector, and otherwise only for a root that is Like the path.      *)
LEMMA RowScope ==
  ASSUME NEW s, NEW f, NEW row,
         s.root \in Seq(DOMAIN CaseFold), f.path \in Seq(DOMAIN CaseFold),
         IsDated(s) => {s.from, s.to} \subseteq Nat \ {0},
         row.source = f.source, row.path = f.path, row.cwd = f.cwd,
         row.date = StoredDate(f.date)
  PROVE  /\ InScope(s, f) => SelectorFilter(s, row)
         /\ SelectorFilter(s, row) /\ ~InScope(s, f)
              => Like(s.root, f.path) /\ ~IsPrefix(s.root, f.path)
<1>1. InScope(s, f) => SelectorFilter(s, row)
  <2> SUFFICES ASSUME InScope(s, f) PROVE SelectorFilter(s, row) OBVIOUS
  <2>1. row.path = s.root \/ Like(s.root, row.path)
    BY RootIsPrefixOrLike DEF InScope
  <2>2. IsDated(s) => row.date >= s.from /\ row.date <= s.to
    BY DEF InScope, ContainsFile, DateInRange, StoredDate
  <2> QED BY <2>1, <2>2 DEF InScope, ContainsFile, SelectorFilter
<1>2. ASSUME SelectorFilter(s, row), IsPrefix(s.root, f.path) PROVE InScope(s, f)
  <2>1. IsDated(s) => f.date # None /\ DateInRange(f.date, s)
    <3> SUFFICES ASSUME IsDated(s) PROVE f.date # None /\ DateInRange(f.date, s) OBVIOUS
    <3>1. row.date >= s.from /\ row.date <= s.to /\ s.from \in Nat \ {0}
      BY <1>2 DEF SelectorFilter
    <3>2. f.date # None
      BY <3>1 DEF StoredDate
    <3> QED BY <3>1, <3>2 DEF StoredDate, DateInRange
  <2> QED BY <1>2, <2>1 DEF SelectorFilter, InScope, ContainsFile
<1>3. ASSUME SelectorFilter(s, row), ~IsPrefix(s.root, f.path) PROVE Like(s.root, f.path)
  BY <1>3, RootItself DEF SelectorFilter
<1> QED BY <1>1, <1>2, <1>3

(* A proof of c answers for r: every file of r is a file of c.             *)
LEMMA ImpliedScope ==
  ASSUME NEW c, NEW r, NEW f,
         IsDated(c) => c.from \in Nat /\ c.to \in Nat,
         IsDated(r) => r.from \in Nat /\ r.to \in Nat,
         f.date = None \/ f.date \in Nat,
         SelectorImplies(c, r), InScope(r, f)
  PROVE  InScope(c, f)
<1>1. ContainsFile(c, f)
  <2>1. IsForCwd(c) => f.cwd = c.cwd
    BY DEF SelectorImplies, InScope, ContainsFile
  <2>2. IsDated(c) => f.date # None /\ DateInRange(f.date, c)
    <3> SUFFICES ASSUME IsDated(c) PROVE f.date # None /\ DateInRange(f.date, c) OBVIOUS
    <3>1. IsDated(r) /\ ContainsDateRange(c, r) /\ f.date # None /\ DateInRange(f.date, r)
      BY DEF SelectorImplies, InScope, ContainsFile
    <3> QED BY <3>1 DEF ContainsDateRange, DateInRange
  <2> QED BY <2>1, <2>2 DEF ContainsFile
<1> QED BY <1>1 DEF SelectorImplies, InScope

-----------------------------------------------------------------------------
(* What the files, a running sync and the filed proofs look like.          *)

OnePerPath(set) == \A x, y \in set : x.path = y.path => x = y

(* No record of these contents is still to be written.                     *)
Earlier(content) == \A i \in DOMAIN content : content[i] < written

FilesOK(files) ==
  files \subseteq File /\ OnePerPath(files) /\ \A f \in files : Earlier(f.content)

Running == [running : {TRUE}, selector : Scopes, strict : BOOLEAN, prune : BOOLEAN,
            seen : SUBSET File]

SyncOK ==
  \/ sync = Idle
  \/ /\ sync \in Running /\ FilesOK(sync.seen)
     /\ \A f \in sync.seen : InScope(sync.selector, f)

WorldInv == written \in Nat /\ FilesOK(disk) /\ SyncOK

ProofOK(rec) ==
  /\ rec.selector \in Scopes
  /\ \A m \in rec.fingerprint[2] : m[4] \in Seq(Int) /\ Earlier(m[4])

Filed == records \cup (IF reader.command = "status" THEN reader.records ELSE {})

(* A proof vouches for a file that is as it was when the proof was taken.  *)
Mark(s, f) == <<Relative(s.root, f.path), f.date, f.cwd, f.content>>

Vouches(rec, f) ==
  InScope(rec.selector, f) /\ f.content # <<>> /\ Mark(rec.selector, f) \in rec.fingerprint[2]

(* The running sync saw this file as it is, if it saw its path or looked   *)
(* for it.                                                                 *)
SeenAsIs(f) ==
  sync.running => /\ \A g \in sync.seen : g.path = f.path => g = f
                  /\ InScope(sync.selector, f) => f \in sync.seen

ProofInv ==
  \A rec \in Filed : ProofOK(rec) /\ \A f \in disk : Vouches(rec, f) => Indexed(f) /\ SeenAsIs(f)

-----------------------------------------------------------------------------
(* The agents and the syncs keep the world in shape.                       *)

LEMMA AppendElements ==
  ASSUME NEW S, NEW s \in Seq(S), NEW x \in S
  PROVE  /\ Append(s, x) \in Seq(S) /\ Len(Append(s, x)) = Len(s) + 1
         /\ \A i \in 1..Len(s) + 1 : Append(s, x)[i] = IF i <= Len(s) THEN s[i] ELSE x
<1>1. Len(s) \in Nat
  BY LenProperties
<1> QED BY <1>1

LEMMA InitWorld == Init => WorldInv
<1> SUFFICES ASSUME Init PROVE WorldInv OBVIOUS
<1>1. PICK cwd \in Found :
        disk = {NewFile(p, cwd[p], <<-NameOrder[Native(p)]>>) : p \in {q \in Paths : cwd[q] # None}}
  BY DEF Init
<1>2. written = 0 /\ sync = Idle
  BY DEF Init
<1>3. cwd \in [Paths -> Cwds \cup {None}]
  BY ReadPathConstants
<1>4. ASSUME NEW p \in Paths
      PROVE  /\ NewFile(p, cwd[p], <<-NameOrder[Native(p)]>>) \in File
             /\ Earlier(<<-NameOrder[Native(p)]>>)
  <2>1. NameOrder[Native(p)] \in Nat \ {0}
    BY ReadPathConstants DEF Native
  <2> DEFINE n == NameOrder[Native(p)]
  <2>2. -n \in Int /\ -n < 0
    BY <2>1
  <2>3. <<-n>> \in Seq(Int) /\ Earlier(<<-n>>)
    <3> HIDE DEF n
    <3> QED BY <1>2, <2>2 DEF Earlier
  <2>4. DateOf[p] \in (Nat \ {0}) \cup {None} /\ cwd[p] \in Cwds \cup {None}
    BY <1>3, ReadPathConstants
  <2> QED BY <2>3, <2>4 DEF NewFile, File
<1>5. disk \subseteq File /\ \A f \in disk : Earlier(f.content)
  BY <1>1, <1>4 DEF NewFile
<1>6. OnePerPath(disk)
  BY <1>1 DEF OnePerPath, NewFile
<1> QED BY <1>2, <1>5, <1>6 DEF WorldInv, FilesOK, SyncOK

(* What an agent writes was never on disk before.                          *)
LEMMA AgentsStep ==
  ASSUME WorldInv, Agents
  PROVE  /\ written' = written + 1 /\ FilesOK(disk)'
         /\ UNCHANGED <<rows, cursors, records, nextId, sync, syncs, reader, reads>>
         /\ \A f \in disk' : f \in disk \/ ~Earlier(f.content) \/ f.content = <<>>
<1>1. /\ written' = written + 1 /\ written \in Nat
      /\ UNCHANGED <<rows, cursors, records, nextId, sync, syncs, reader, reads>>
  BY DEF Agents, CreateFile, AppendRecord, RewriteFile, RemoveFile, Write, WorldInv
<1>2. ASSUME NEW path \in Paths, NEW f \in File, f.path = path,
             \A i \in DOMAIN f.content : f.content[i] <= written,
             disk' = {g \in disk : g.path # path} \cup {f}
      PROVE  FilesOK(disk)'
  <2>1. \A i \in DOMAIN f.content : f.content[i] < written'
    BY <1>1, <1>2, LenProperties, ElementOfSeq DEF File
  <2>2. \A g \in disk : \A i \in DOMAIN g.content : g.content[i] < written'
    BY <1>1, LenProperties, ElementOfSeq DEF WorldInv, FilesOK, File, Earlier
  <2> QED BY <1>2, <2>1, <2>2 DEF WorldInv, FilesOK, OnePerPath, Earlier
<1>3. ASSUME NEW path \in Paths, Exists(path)
      PROVE  /\ FileAt(path) \in disk /\ FileAt(path) \in File /\ FileAt(path).path = path
             /\ disk \ {FileAt(path)} = {g \in disk : g.path # path}
  <2>1. FileAt(path) \in disk /\ FileAt(path).path = path
    BY <1>3 DEF Exists, FileAt
  <2> QED BY <2>1 DEF WorldInv, FilesOK, OnePerPath
<1>4. ASSUME NEW path \in Paths, NEW cwd \in Cwds, NEW content \in Seq(Int)
      PROVE  NewFile(path, cwd, content) \in File
  BY ReadPathConstants DEF NewFile, File
<1>5. ASSUME NEW path \in Paths, NEW cwd \in Cwds, CreateFile(path, cwd)
      PROVE  /\ FilesOK(disk)' 
             /\ \A f \in disk' : f \in disk \/ ~Earlier(f.content) \/ f.content = <<>>
  <2> DEFINE f == NewFile(path, cwd, <<>>)
  <2>1. <<>> \in Seq(Int) /\ DOMAIN <<>> = {}
    BY EmptySeq
  <2>2. f \in File /\ f.path = path /\ f.content = <<>>
    BY <1>4, <2>1 DEF NewFile
  <2>3. disk' = {g \in disk : g.path # path} \cup {f}
    BY <1>5 DEF CreateFile, Exists
  <2> HIDE DEF f
  <2>4. \A i \in DOMAIN f.content : f.content[i] <= written
    BY <2>1, <2>2
  <2> QED BY <1>2, <2>2, <2>3, <2>4
<1>6. ASSUME NEW path \in Paths, NEW cwd \in Cwds, RewriteFile(path, cwd)
      PROVE  /\ FilesOK(disk)'
             /\ \A f \in disk' : f \in disk \/ ~Earlier(f.content) \/ f.content = <<>>
  <2> DEFINE f == NewFile(path, cwd, <<written>>)
  <2>1. <<written>> \in Seq(Int) /\ DOMAIN <<written>> = {1} /\ <<written>>[1] = written
    BY <1>1
  <2>2. f \in File /\ f.path = path /\ f.content = <<written>>
    BY <1>4, <2>1 DEF NewFile
  <2>3. disk' = {g \in disk : g.path # path} \cup {f}
    BY <1>3, <1>6 DEF RewriteFile
  <2> HIDE DEF f
  <2>4. /\ \A i \in DOMAIN f.content : f.content[i] <= written
        /\ ~Earlier(f.content)
    BY <1>1, <2>1, <2>2 DEF Earlier
  <2> QED BY <1>2, <2>2, <2>3, <2>4
<1>7. ASSUME NEW path \in Paths, AppendRecord(path)
      PROVE  /\ FilesOK(disk)'
             /\ \A f \in disk' : f \in disk \/ ~Earlier(f.content) \/ f.content = <<>>
  <2> DEFINE old == FileAt(path)
             f == [old EXCEPT !.content = Append(@, written)]
             n == Len(old.content)
  <2>1. old \in disk /\ old \in File /\ old.path = path
        /\ disk \ {old} = {g \in disk : g.path # path}
    BY <1>3, <1>7 DEF AppendRecord
  <2> HIDE DEF old
  <2>2. old.content \in Seq(Int) /\ n \in Nat /\ written \in Int
    BY <1>1, <2>1, LenProperties DEF File
  <2>3. /\ Append(old.content, written) \in Seq(Int)
        /\ DOMAIN Append(old.content, written) = 1..n + 1
        /\ \A i \in 1..n + 1 :
             Append(old.content, written)[i] = IF i <= n THEN old.content[i] ELSE written
    BY <2>2, AppendElements, LenProperties
  <2>4. f \in File /\ f.path = path /\ f.content = Append(old.content, written)
    BY <2>1, <2>3 DEF File
  <2>5. disk' = {g \in disk : g.path # path} \cup {f}
    BY <1>7, <2>1 DEF AppendRecord, old
  <2> HIDE DEF f
  <2>6. \A i \in 1..n : old.content[i] < written /\ old.content[i] \in Int
    BY <2>1, <2>2, LenProperties, ElementOfSeq DEF WorldInv, FilesOK, Earlier
  <2>7. /\ \A i \in DOMAIN f.content : f.content[i] <= written
        /\ ~Earlier(f.content)
    <3>1. n + 1 \in DOMAIN f.content /\ f.content[n + 1] = written
      BY <2>2, <2>3, <2>4
    <3>2. \A i \in DOMAIN f.content : f.content[i] <= written
      BY <1>1, <2>2, <2>3, <2>4, <2>6
    <3> QED BY <1>1, <3>1, <3>2 DEF Earlier
  <2> QED BY <1>2, <2>4, <2>5, <2>7
<1>8. ASSUME NEW path \in Paths, RemoveFile(path)
      PROVE  /\ FilesOK(disk)'
             /\ \A f \in disk' : f \in disk \/ ~Earlier(f.content) \/ f.content = <<>>
  <2>1. disk' \subseteq disk
    BY <1>8 DEF RemoveFile
  <2>2. \A g \in disk : \A i \in DOMAIN g.content : g.content[i] < written'
    BY <1>1, LenProperties, ElementOfSeq DEF WorldInv, FilesOK, File, Earlier
  <2> QED BY <2>1, <2>2 DEF WorldInv, FilesOK, OnePerPath, Earlier
<1> QED BY <1>1, <1>5, <1>6, <1>7, <1>8 DEF Agents

LEMMA BeginStep ==
  ASSUME WorldInv, NEW s \in Scopes, NEW strict \in BOOLEAN, NEW prune \in BOOLEAN,
         Begin(s, strict, prune)
  PROVE  WorldInv'
<1>1. /\ sync' = [running |-> TRUE, selector |-> s, strict |-> strict, prune |-> prune,
                  seen |-> InSnapshot(s, disk)]
      /\ UNCHANGED <<disk, written>>
  BY DEF Begin
<1>2. InSnapshot(s, disk) \subseteq disk /\ \A f \in InSnapshot(s, disk) : InScope(s, f)
  BY DEF InSnapshot
<1>3. sync' \in Running /\ sync'.seen \subseteq disk /\ \A f \in sync'.seen : InScope(sync'.selector, f)
  BY <1>1, <1>2 DEF Running, WorldInv, FilesOK
<1>4. FilesOK(sync.seen)'
  BY <1>1, <1>3 DEF WorldInv, FilesOK, OnePerPath, Earlier
<1>5. FilesOK(disk)'
  BY <1>1 DEF WorldInv, FilesOK, OnePerPath, Earlier
<1> QED BY <1>1, <1>3, <1>4, <1>5 DEF WorldInv, SyncOK

LEMMA WorldStays ==
  ASSUME WorldInv, UNCHANGED <<disk, written>>, sync' \in {sync, Idle}
  PROVE  WorldInv'
<1>1. FilesOK(disk)' /\ written' \in Nat
  BY DEF WorldInv, FilesOK, OnePerPath, Earlier
<1>2. SyncOK'
  BY DEF WorldInv, SyncOK, FilesOK, OnePerPath, Earlier
<1> QED BY <1>1, <1>2 DEF WorldInv

LEMMA SyncSteps ==
  Sync => \/ \E s \in Scopes, strict, prune \in BOOLEAN : Begin(s, strict, prune)
          \/ sync.running /\ EndSync
BY DEF Sync, Complete, Partial, Fail, Crash

LEMMA ReaderSteps ==
  Readers => UNCHANGED <<disk, written, rows, cursors, records, nextId, sync, syncs>>
BY DEF Readers, RecallFirst, StatusFirst, FirstPage, NextPage, ReadMessages, Read

LEMMA NextWorld == WorldInv /\ [Next]_vars => WorldInv'
<1> SUFFICES ASSUME WorldInv, [Next]_vars PROVE WorldInv' OBVIOUS
<1>1. CASE Agents
  <2>1. written' = written + 1 /\ FilesOK(disk)' /\ sync' = sync /\ written \in Nat
    BY <1>1, AgentsStep DEF WorldInv
  <2>2. SyncOK'
    <3>1. \A f \in File : Earlier(f.content) => Earlier(f.content)'
      BY <2>1, LenProperties, ElementOfSeq DEF File, Earlier
    <3> QED BY <2>1, <3>1 DEF WorldInv, SyncOK, FilesOK, OnePerPath
  <2> QED BY <2>1, <2>2 DEF WorldInv
<1>2. CASE Sync
  <2>1. CASE \E s \in Scopes, strict, prune \in BOOLEAN : Begin(s, strict, prune)
    BY <2>1, BeginStep
  <2>2. CASE sync.running /\ EndSync
    BY <2>2, WorldStays DEF EndSync
  <2> QED BY <1>2, <2>1, <2>2, SyncSteps
<1>3. CASE Readers \/ UNCHANGED vars
  BY <1>3, ReaderSteps, WorldStays DEF vars
<1> QED BY <1>1, <1>2, <1>3 DEF Next

-----------------------------------------------------------------------------
(* A transaction leaves an indexed file that the sync saw as it is, or did *)
(* not look for, as it is in the index.                                    *)

LEMMA PublishKeeps ==
  ASSUME WorldInv, RootsDifferByMoreThanCase, sync.running,
         \A r \in rows : r.source = Source,
         NEW files \in SUBSET sync.seen, NEW proofs, Publish(files, proofs),
         NEW f \in disk, SeenAsIs(f), f.content # <<>>, f \in files \/ Indexed(f)
  PROVE  Indexed(f)'
<1> DEFINE s == sync.selector
           put == RowsWith(files, s.root)
           hot == {g.path : g \in sync.seen}
<1>1. rows' = IF sync.prune THEN PrunedRows(put, s, hot, {}) ELSE put
  BY DEF Publish
<1>2. /\ s \in Scopes /\ sync.seen \subseteq File /\ f \in File
  <2>1. sync # Idle
    BY DEF Idle
  <2>2. sync \in Running
    BY <2>1 DEF WorldInv, SyncOK
  <2> QED BY <2>2 DEF WorldInv, FilesOK, Running
<1>3. ASSUME f \in files
      PROVE  \E r \in put : /\ r.path = f.path /\ r.cwd = f.cwd /\ r.msgs = f.content
                            /\ r.date = StoredDate(f.date) /\ r.source = Source
  <2> DEFINE shown == {g \in files : g.content # <<>>}
             new == {g \in shown : RowAt(g.path) = {}}
  <2>1. RowOf(f, s.root, new) \in put
    BY <1>3 DEF RowsWith
  <2>2. LET r == RowOf(f, s.root, new)
        IN /\ r.path = f.path /\ r.cwd = f.cwd /\ r.msgs = f.content
           /\ r.date = StoredDate(f.date) /\ r.source = Source
    BY DEF RowOf
  <2> QED BY <2>1, <2>2
<1>4. ASSUME f \notin files
      PROVE  \E r \in put : /\ r.path = f.path /\ r.cwd = f.cwd /\ r.msgs = f.content
                            /\ r.date = StoredDate(f.date) /\ r.source = Source
  <2>1. PICK r \in rows : r.path = f.path /\ r.cwd = f.cwd /\ r.msgs = f.content
                            /\ r.date = StoredDate(f.date)
    BY <1>4 DEF Indexed
  <2>2. \A g \in files : g.path # r.path
    BY <1>4, <2>1 DEF SeenAsIs
  <2> QED BY <2>1, <2>2 DEF RowsWith
<1> HIDE DEF put
<1>5. PICK r \in put : /\ r.path = f.path /\ r.cwd = f.cwd /\ r.msgs = f.content
                       /\ r.date = StoredDate(f.date) /\ r.source = Source
  BY <1>3, <1>4
<1>6. SelectorFilter(s, r) => r.path \in hot
  <2> SUFFICES ASSUME SelectorFilter(s, r) PROVE r.path \in hot OBVIOUS
  <2>1. s.root \in Seq(DOMAIN CaseFold) /\ f.path \in Seq(DOMAIN CaseFold)
        /\ (IsDated(s) => {s.from, s.to} \subseteq Nat \ {0}) /\ f.source = Source
    BY <1>2, ReadPathConstants DEF File
  <2>2. InScope(s, f)
    BY <1>2, <1>5, <2>1, RowScope DEF RootsDifferByMoreThanCase, File
  <2> QED BY <1>5, <2>2 DEF SeenAsIs
<1>7. r \in rows'
  BY <1>1, <1>5, <1>6 DEF PrunedRows
<1> QED BY <1>5, <1>7 DEF Indexed

-----------------------------------------------------------------------------
(* The sessions keep their ids, and no two have the same.                  *)

RowOK(r) ==
  /\ r.source = Source /\ r.path \in Paths /\ r.native = Native(r.path)
  /\ r.msgs \in Seq(Int) /\ r.id \in Nat /\ r.id < nextId
  /\ r.started \in Int /\ r.ended \in Int

OnePerId(set) == \A x, y \in set : x.id = y.id => x = y

RowsInv ==
  /\ nextId \in Nat
  /\ \A r \in rows : RowOK(r)
  /\ OnePerPath(rows) /\ OnePerId(rows)

(* How many of the new sessions sort before the one of f.                  *)
Before(f, new) == {g \in new : NameOrder[Native(g.path)] < NameOrder[Native(f.path)]}

LEMMA RankOfName ==
  ASSUME NEW new \in SUBSET File, OnePerPath(new)
  PROVE  /\ Cardinality(new) \in Nat
         /\ \A f \in new : /\ Cardinality(Before(f, new)) \in Nat
                           /\ Cardinality(Before(f, new)) < Cardinality(new)
         /\ \A f, g \in new :
              Cardinality(Before(f, new)) = Cardinality(Before(g, new)) => f = g
<1> DEFINE key(f) == NameOrder[Native(f.path)]
<1>1. IsFiniteSet(new)
  <2> DEFINE path == [f \in new |-> f.path]
  <2>1. path \in Injection(new, Paths)
    BY DEF Injection, IsInjective, OnePerPath, File
  <2>2. IsFiniteSet(Paths)
    BY ReadPathConstants
  <2> QED BY <2>1, <2>2, FS_Injection
<1>2. \A f, g \in new : key(f) \in Nat /\ (key(f) = key(g) => f = g)
  <2>1. \A f \in new : f.path \in Paths
    BY DEF File
  <2> QED BY <2>1, ReadPathConstants DEF Native, OnePerPath
<1> HIDE DEF key
<1>3. ASSUME NEW f \in new
      PROVE  /\ Before(f, new) \subseteq new /\ f \notin Before(f, new)
             /\ \A g \in new : g \in Before(f, new) <=> key(g) < key(f)
  BY <1>2 DEF Before, key
<1>4. \A f \in new : IsFiniteSet(Before(f, new)) /\ Cardinality(Before(f, new)) \in Nat
  BY <1>1, <1>3, FS_Subset, FS_CardinalityType
<1>5. Cardinality(new) \in Nat
  BY <1>1, FS_CardinalityType
<1>6. ASSUME NEW f \in new PROVE Cardinality(Before(f, new)) < Cardinality(new)
  <2>1. /\ Cardinality(Before(f, new)) <= Cardinality(new)
        /\ Cardinality(new) = Cardinality(Before(f, new)) => new = Before(f, new)
    BY <1>1, <1>3, FS_Subset
  <2>2. new # Before(f, new)
    BY <1>3
  <2> QED BY <1>4, <1>5, <2>1, <2>2
<1>7. ASSUME NEW f \in new, NEW g \in new, key(f) < key(g)
      PROVE  Cardinality(Before(f, new)) # Cardinality(Before(g, new))
  <2>1. Before(f, new) \subseteq Before(g, new)
    <3>1. \A h \in new : key(h) < key(f) => key(h) < key(g)
      BY <1>2, <1>7
    <3> QED BY <1>3, <3>1
  <2>2. f \in Before(g, new) /\ f \notin Before(f, new)
    BY <1>3, <1>7
  <2>3. IsFiniteSet(Before(g, new))
    BY <1>4
  <2> QED BY <2>1, <2>2, <2>3, FS_Subset
<1>8. ASSUME NEW f \in new, NEW g \in new,
             Cardinality(Before(f, new)) = Cardinality(Before(g, new))
      PROVE  f = g
  <2>1. ~(key(f) < key(g)) /\ ~(key(g) < key(f))
    BY <1>7, <1>8
  <2> QED BY <1>2, <2>1
<1> QED BY <1>4, <1>5, <1>6, <1>8

LEMMA PublishRows ==
  ASSUME WorldInv, RowsInv, sync.running,
         NEW files \in SUBSET sync.seen, NEW proofs, Publish(files, proofs)
  PROVE  /\ RowsInv'
         /\ \A r \in rows, n \in rows' : r.id = n.id => r.path = n.path
<1> DEFINE s == sync.selector
           put == RowsWith(files, s.root)
           shown == {g \in files : g.content # <<>>}
           new == {g \in shown : RowAt(g.path) = {}}
           kept == {r \in rows : \A g \in files : g.path # r.path}
<1>1. files \subseteq File /\ OnePerPath(files)
  <2>1. sync # Idle
    BY DEF Idle
  <2> QED BY <2>1 DEF WorldInv, SyncOK, FilesOK, OnePerPath
<1>2. put = kept \cup {RowOf(f, s.root, new) : f \in shown}
  BY DEF RowsWith
<1>3. rows' \subseteq put
  BY DEF Publish, PrunedRows
<1>4. nextId' = nextId + Cardinality(new)
  <2>1. new = {f \in files : f.content # <<>> /\ RowAt(f.path) = {}}
    OBVIOUS
  <2> QED BY <2>1 DEF Publish
<1>5. /\ Cardinality(new) \in Nat
      /\ \A f \in new : /\ Cardinality(Before(f, new)) \in Nat
                        /\ Cardinality(Before(f, new)) < Cardinality(new)
      /\ \A f, g \in new :
           Cardinality(Before(f, new)) = Cardinality(Before(g, new)) => f = g
  <2>1. new \subseteq File /\ OnePerPath(new)
    BY <1>1 DEF OnePerPath
  <2> HIDE DEF new
  <2> QED BY <2>1, RankOfName
<1>6. ASSUME NEW f \in shown
      PROVE  LET r == RowOf(f, s.root, new)
             IN /\ r.source = Source /\ r.path = f.path /\ r.native = Native(f.path)
                /\ r.msgs = f.content /\ f.path \in Paths /\ f.content \in Seq(Int)
                /\ r.started = 0 /\ r.ended = 0
                /\ \/ f \in new /\ r.id = nextId + Cardinality(Before(f, new))
                   \/ \E o \in rows : o.path = f.path /\ r.id = o.id
  <2>1. f.path \in Paths /\ f.content \in Seq(Int)
    BY <1>1 DEF File
  <2>2. RowOf(f, s.root, new).id = RowId(f, new)
    BY DEF RowOf
  <2>3. \/ f \in new /\ RowOf(f, s.root, new).id = nextId + Cardinality(Before(f, new))
        \/ \E o \in rows : o.path = f.path /\ RowOf(f, s.root, new).id = o.id
    <3>1. CASE RowAt(f.path) = {}
      BY <2>2, <3>1 DEF RowId, Before
    <3>2. CASE RowAt(f.path) # {}
      <4> DEFINE o == CHOOSE r \in RowAt(f.path) : TRUE
      <4>1. o \in RowAt(f.path) /\ RowId(f, new) = o.id
        BY <3>2 DEF RowId
      <4> HIDE DEF o, new
      <4> QED BY <2>2, <4>1 DEF RowAt
    <3> QED BY <3>1, <3>2
  <2> QED BY <2>1, <2>3 DEF RowOf
<1> DEFINE Old(n) == \E o \in rows : o.path = n.path /\ o.id = n.id
           New(n, f) == f \in new /\ n = RowOf(f, s.root, new)
                          /\ n.id = nextId + Cardinality(Before(f, new))
<1>7. ASSUME NEW n \in put
      PROVE  /\ n.source = Source /\ n.path \in Paths /\ n.native = Native(n.path)
             /\ n.msgs \in Seq(Int) /\ n.started \in Int /\ n.ended \in Int
             /\ (Old(n) \/ \E f \in new : New(n, f))
  <2>1. CASE n \in kept
    BY <2>1 DEF RowsInv, RowOK
  <2>2. CASE n \in {RowOf(f, s.root, new) : f \in shown}
    <3>1. PICK f \in shown : n = RowOf(f, s.root, new)
      BY <2>2
    <3> HIDE DEF shown, new
    <3> QED BY <1>6, <3>1
  <2> QED BY <1>2, <2>1, <2>2
<1>8. OnePerPath(put)
  <2>1. \A f, g \in shown : RowOf(f, s.root, new).path = RowOf(g, s.root, new).path => f = g
    <3>1. \A f, g \in shown : f.path = g.path => f = g
      BY <1>1 DEF OnePerPath
    <3> HIDE DEF shown, new
    <3> QED BY <1>6, <3>1
  <2>2. \A f \in shown, r \in kept : RowOf(f, s.root, new).path # r.path
    BY <1>6
  <2>3. OnePerPath(kept)
    BY DEF RowsInv, OnePerPath
  <2> HIDE DEF kept, shown, new, put
  <2> QED BY <1>2, <2>1, <2>2, <2>3 DEF OnePerPath
<1>9. ASSUME NEW n \in put PROVE n.id \in Nat /\ n.id < nextId'
  <2>1. CASE Old(n)
    BY <1>4, <1>5, <2>1 DEF RowsInv, RowOK
  <2>2. CASE \E f \in new : New(n, f)
    <3>1. PICK f \in new : New(n, f)
      BY <2>2
    <3>2. nextId \in Nat
      BY DEF RowsInv
    <3> HIDE DEF new
    <3> QED BY <1>4, <1>5, <3>1, <3>2
  <2> QED BY <1>7, <2>1, <2>2
<1> HIDE DEF put, new, shown, kept
<1>10. ASSUME NEW n \in put, NEW o \in rows, o.id = n.id PROVE o.path = n.path
  <2>1. ASSUME NEW f \in new, New(n, f) PROVE FALSE
    <3>1. nextId \in Nat /\ o.id \in Nat /\ o.id < nextId
      BY DEF RowsInv, RowOK
    <3> QED BY <1>5, <1>10, <2>1, <3>1
  <2> QED BY <1>7, <1>10, <2>1 DEF RowsInv, OnePerId
<1>11. OnePerId(put)
  <2> SUFFICES ASSUME NEW n \in put, NEW m \in put, n.id = m.id PROVE n = m
    BY DEF OnePerId
  <2>1. CASE Old(n) \/ Old(m)
    BY <1>8, <1>10, <2>1 DEF OnePerPath
  <2>2. CASE (\E f \in new : New(n, f)) /\ (\E f \in new : New(m, f))
    <3>1. PICK f \in new : New(n, f)
      BY <2>2
    <3>2. PICK g \in new : New(m, g)
      BY <2>2
    <3>3. Cardinality(Before(f, new)) = Cardinality(Before(g, new))
      <4>1. /\ nextId \in Nat /\ Cardinality(Before(f, new)) \in Nat
            /\ Cardinality(Before(g, new)) \in Nat
        BY <1>5 DEF RowsInv
      <4> QED BY <3>1, <3>2, <4>1
    <3> QED BY <1>5, <3>1, <3>2, <3>3
  <2> QED BY <1>7, <2>1, <2>2
<1>12. RowsInv'
  <2>1. nextId' \in Nat
    BY <1>4, <1>5 DEF RowsInv
  <2>2. \A r \in rows' : RowOK(r)'
    BY <1>3, <1>7, <1>9 DEF RowOK
  <2> QED BY <1>3, <1>8, <1>11, <2>1, <2>2 DEF RowsInv, OnePerPath, OnePerId
<1> QED BY <1>3, <1>10, <1>12

-----------------------------------------------------------------------------
(* Every proof on file is of what was once on disk, and what it vouches    *)
(* for is in the index.                                                    *)

(* The fingerprint of a scan marks the files of the scope.                 *)
LEMMA SnapshotMarks ==
  ASSUME NEW s, NEW files
  PROVE  /\ Snapshot(s, files, {}).selector = s
         /\ Snapshot(s, files, {}).fingerprint =
              <<s.root, {Mark(s, f) : f \in {g \in files : InScope(s, g)}}>>
<1> DEFINE selected == {f \in Scanned(s, files) : ContainsFile(s, f)}
<1>1. selected = {g \in files : InScope(s, g)}
  BY DEF Scanned, InScope
<1>2. FailureMembers(s.root, {}) = {}
  BY DEF FailureMembers
<1>3. Fingerprint(s.root, selected, {}) = <<s.root, {Mark(s, f) : f \in selected}>>
  BY <1>2 DEF Fingerprint, Mark
<1>4. /\ Snapshot(s, files, {}).selector = s
      /\ Snapshot(s, files, {}).fingerprint = Fingerprint(s.root, selected, {})
  BY DEF Snapshot
<1> HIDE DEF selected
<1> QED BY <1>1, <1>3, <1>4

LEMMA ProofOfScan ==
  ASSUME NEW s, NEW files
  PROVE  LET rec == ProofOf(Snapshot(s, files, {}))
         IN /\ rec.selector = s
            /\ rec.fingerprint =
                 <<s.root, {Mark(s, f) : f \in {g \in files : InScope(s, g)}}>>
<1> DEFINE shot == Snapshot(s, files, {})
<1>1. ProofOf(shot).selector = shot.selector /\ ProofOf(shot).fingerprint = shot.fingerprint
  BY DEF ProofOf
<1> HIDE DEF shot
<1> QED BY <1>1, SnapshotMarks DEF shot

(* How a sync that runs ends.                                              *)
Publishes(files, proofs) ==
  /\ Publish(files, proofs) /\ EndSync
  /\ \/ proofs \subseteq records
     \/ /\ files = sync.seen
        /\ proofs \subseteq records \cup {ProofOf(Snapshot(sync.selector, sync.seen, {}))}

LEMMA SyncCases ==
  Sync => \/ \E s \in Scopes, strict, prune \in BOOLEAN : Begin(s, strict, prune)
          \/ /\ sync.running
             /\ \/ \E files \in SUBSET sync.seen : \E proofs : Publishes(files, proofs)
                \/ /\ EndSync /\ UNCHANGED <<rows, cursors, nextId, reader>>
                   /\ records' \subseteq records
<1> SUFFICES ASSUME Sync, ~\E s \in Scopes, strict, prune \in BOOLEAN : Begin(s, strict, prune)
             PROVE  /\ sync.running
                    /\ \/ \E files \in SUBSET sync.seen : \E proofs : Publishes(files, proofs)
                       \/ /\ EndSync /\ UNCHANGED <<rows, cursors, nextId, reader>>
                          /\ records' \subseteq records
  OBVIOUS
<1> DEFINE filed == ReplaceCoverage(records, ProofOf(Snapshot(sync.selector, sync.seen, {})))
           left == InvalidateSourceRoot(records, sync.selector)
<1>1. /\ filed \subseteq records \cup {ProofOf(Snapshot(sync.selector, sync.seen, {}))}
      /\ left \subseteq records
  BY DEF ReplaceCoverage, InvalidateSourceRoot
<1>2. CASE Complete
  <2>1. sync.running /\ Publish(sync.seen, filed) /\ EndSync
    BY <1>2 DEF Complete
  <2> HIDE DEF filed
  <2> QED BY <1>1, <2>1 DEF Publishes
<1>3. ASSUME sync.running, NEW files \in SUBSET sync.seen, Partial(files)
      PROVE  Publishes(files, left)
  BY <1>1, <1>3 DEF Partial, Publishes
<1>4. CASE Fail \/ Crash
  BY <1>1, <1>4 DEF Fail, Crash
<1> HIDE DEF left
<1> QED BY <1>2, <1>3, <1>4 DEF Sync

LEMMA NextRows == WorldInv /\ RowsInv /\ [Next]_vars => RowsInv'
<1> SUFFICES ASSUME WorldInv, RowsInv, [Next]_vars PROVE RowsInv' OBVIOUS
<1>1. ASSUME UNCHANGED <<rows, nextId>> PROVE RowsInv'
  BY <1>1 DEF RowsInv, RowOK, OnePerPath, OnePerId
<1>2. CASE Agents
  BY <1>1, <1>2, AgentsStep
<1>3. CASE Sync
  <2>1. ASSUME sync.running, NEW files \in SUBSET sync.seen, NEW proofs, Publishes(files, proofs)
        PROVE  RowsInv'
    BY <2>1, PublishRows DEF Publishes
  <2>2. ASSUME \E s \in Scopes, strict, prune \in BOOLEAN : Begin(s, strict, prune)
        PROVE  RowsInv'
    BY <1>1, <2>2 DEF Begin
  <2> QED BY <1>1, <1>3, <2>1, <2>2, SyncCases
<1>4. CASE Readers \/ UNCHANGED vars
  BY <1>1, <1>4, ReaderSteps DEF vars
<1> QED BY <1>2, <1>3, <1>4 DEF Next

(* Which proofs a reader holds.                                            *)
ReaderInv ==
  /\ "command" \in DOMAIN reader
  /\ reader.command = "status" => reader.scope \in Scopes

LEMMA PublishReader ==
  ASSUME ReaderInv, NEW files, NEW proofs, Publish(files, proofs)
  PROVE  ReaderInv' /\ (reader.command = "status" \/ reader'.command = "status" => reader' = reader)
<1>1. CASE reader.command = "find"
  <2>1. reader' = [reader EXCEPT !.undisturbed = FALSE]
    BY <1>1 DEF Publish
  <2> QED BY <1>1, <2>1 DEF ReaderInv
<1>2. CASE reader.command = "walk"
  <2>1. PICK u : reader' = [reader EXCEPT !.undisturbed = u]
    BY <1>2 DEF Publish
  <2> QED BY <1>2, <2>1 DEF ReaderInv
<1>3. CASE reader.command \notin {"find", "walk"}
  <2>1. reader' = reader
    BY <1>3 DEF Publish
  <2> QED BY <2>1 DEF ReaderInv
<1> QED BY <1>1, <1>2, <1>3

LEMMA ReadersReader ==
  ASSUME ReaderInv, Readers
  PROVE  /\ ReaderInv'
         /\ \/ reader'.command # "status"
            \/ reader'.command = "status" /\ reader'.records = records
<1>1. ASSUME NEW s \in Scopes, RecallFirst(s)
      PROVE  ReaderInv' /\ reader'.command # "status"
  BY <1>1 DEF RecallFirst, ReaderInv
<1>2. ASSUME NEW s \in Scopes, StatusFirst(s)
      PROVE  ReaderInv' /\ reader'.command = "status" /\ reader'.records = records
  BY <1>2 DEF StatusFirst, ReaderInv
<1>3. ASSUME NEW native, NEW offset, NEW got, NEW undisturbed,
             ReadHeader(native, offset, got, undisturbed)
      PROVE  ReaderInv' /\ reader'.command # "status"
  <2> DEFINE row == StoredSession(rows, Source, native)
  <2>1. CASE row = None
    BY <1>3, <2>1 DEF ReadHeader, NoReader, ReaderInv
  <2>2. CASE row # None
    <3>1. reader' = [command |-> "walk", id |-> row.id, native |-> native, offset |-> offset,
                     total |-> Len(row.msgs), got |-> got, more |-> TRUE, page |-> FALSE,
                     undisturbed |-> undisturbed]
      BY <1>3, <2>2 DEF ReadHeader
    <3> QED BY <3>1 DEF ReaderInv
  <2> QED BY <2>1, <2>2
<1>4. CASE (\E r \in rows : FirstPage(r.native)) \/ NextPage
  BY <1>3, <1>4 DEF FirstPage, NextPage
<1>5. CASE ReadMessages
  <2>1. /\ reader.command = "walk"
        /\ \E got, offset, more :
             reader' = [reader EXCEPT !.page = TRUE, !.got = got, !.offset = offset, !.more = more]
    BY <1>5 DEF ReadMessages
  <2> QED BY <2>1 DEF ReaderInv
<1> QED BY <1>1, <1>2, <1>4, <1>5 DEF Readers

LEMMA AgentsProof ==
  ASSUME WorldInv, ProofInv, Agents PROVE ProofInv'
<1>1. /\ written' = written + 1 /\ written \in Nat
      /\ UNCHANGED <<rows, cursors, records, nextId, sync, syncs, reader, reads>>
      /\ \A f \in disk' : f \in disk \/ ~Earlier(f.content) \/ f.content = <<>>
  BY AgentsStep DEF WorldInv
<1>2. Filed' = Filed
  BY <1>1 DEF Filed
<1>3. ASSUME NEW content \in Seq(Int), Earlier(content) PROVE Earlier(content)'
  BY <1>1, <1>3, LenProperties, ElementOfSeq DEF Earlier
<1>4. ASSUME NEW rec \in Filed PROVE ProofOK(rec)'
  BY <1>3, <1>4 DEF ProofInv, ProofOK
<1>5. ASSUME NEW rec \in Filed, NEW f \in disk', Vouches(rec, f)
      PROVE  Indexed(f)' /\ SeenAsIs(f)'
  <2>1. Mark(rec.selector, f)[4] = f.content
    BY DEF Mark
  <2>2. Earlier(f.content) /\ f.content # <<>>
    BY <1>5, <2>1 DEF Vouches, ProofInv, ProofOK
  <2>3. f \in disk
    BY <1>1, <2>2
  <2>4. Indexed(f) /\ SeenAsIs(f)
    BY <1>5, <2>3 DEF ProofInv
  <2> QED BY <1>1, <2>4 DEF Indexed, SeenAsIs
<1> QED BY <1>2, <1>4, <1>5 DEF ProofInv, Vouches

LEMMA BeginProof ==
  ASSUME WorldInv, ProofInv, NEW s \in Scopes, NEW strict \in BOOLEAN, NEW prune \in BOOLEAN,
         Begin(s, strict, prune)
  PROVE  ProofInv'
<1>1. /\ sync' = [running |-> TRUE, selector |-> s, strict |-> strict, prune |-> prune,
                  seen |-> InSnapshot(s, disk)]
      /\ UNCHANGED <<disk, written, rows, records, reader>>
  BY DEF Begin
<1>2. \A f \in disk : SeenAsIs(f)'
  BY <1>1 DEF SeenAsIs, InSnapshot, WorldInv, FilesOK, OnePerPath
<1>3. Filed' = Filed /\ \A rec \in Filed : ProofOK(rec)'
  BY <1>1 DEF Filed, ProofInv, ProofOK, Earlier
<1>4. \A f \in disk : Indexed(f) => Indexed(f)'
  BY <1>1 DEF Indexed
<1> QED BY <1>1, <1>2, <1>3, <1>4 DEF ProofInv, Vouches

LEMMA EndProof ==
  ASSUME WorldInv, ProofInv, ReaderInv, EndSync,
         UNCHANGED <<rows, cursors, nextId, reader>>, records' \subseteq records
  PROVE  ProofInv'
<1>1. Filed' \subseteq Filed
  BY DEF Filed
<1>2. UNCHANGED <<disk, written, rows>> /\ sync' = Idle
  BY DEF EndSync
<1>3. \A f \in disk : (Indexed(f) => Indexed(f)') /\ SeenAsIs(f)'
  BY <1>2 DEF Indexed, SeenAsIs, Idle
<1>4. \A rec \in Filed : ProofOK(rec)'
  BY <1>2 DEF ProofInv, ProofOK, Earlier
<1> QED BY <1>1, <1>2, <1>3, <1>4 DEF ProofInv, Vouches

(* A new proof vouches for files the sync saw.                             *)
LEMMA NewProof ==
  ASSUME WorldInv, sync.running,
         NEW rec, rec = ProofOf(Snapshot(sync.selector, sync.seen, {}))
  PROVE  ProofOK(rec) /\ \A f \in disk : Vouches(rec, f) => f \in sync.seen
<1> DEFINE s == sync.selector
<1>1. sync # Idle
  BY DEF Idle
<1>2. s \in Scopes /\ FilesOK(sync.seen) /\ disk \subseteq File
  BY <1>1 DEF WorldInv, SyncOK, Running, FilesOK
<1>3. /\ rec.selector = s
      /\ rec.fingerprint[2] = {Mark(s, g) : g \in {h \in sync.seen : InScope(s, h)}}
  <2>1. /\ rec.selector = s
        /\ rec.fingerprint = <<s.root, {Mark(s, g) : g \in {h \in sync.seen : InScope(s, h)}}>>
    BY ProofOfScan
  <2> QED BY <2>1
<1>4. \A g : Mark(s, g)[4] = g.content
  BY DEF Mark
<1>5. ProofOK(rec)
  BY <1>2, <1>3, <1>4 DEF ProofOK, FilesOK, File
<1>6. ASSUME NEW f \in disk, Vouches(rec, f) PROVE f \in sync.seen
  <2>1. PICK g \in sync.seen : InScope(s, g) /\ Mark(s, g) = Mark(s, f)
    BY <1>3, <1>6 DEF Vouches
  <2>2. InScope(s, f)
    BY <1>3, <1>6 DEF Vouches
  <2>3. g \in File
    BY <1>2, <2>1 DEF FilesOK
  <2>4. /\ Relative(s.root, g.path) = Relative(s.root, f.path)
        /\ g.date = f.date /\ g.cwd = f.cwd /\ g.content = f.content
    BY <2>1 DEF Mark
  <2>5. /\ s.root \in Seq(DOMAIN CaseFold) /\ g.path \in Seq(DOMAIN CaseFold)
        /\ f.path \in Seq(DOMAIN CaseFold)
    BY <1>2, <2>3, ReadPathConstants DEF File
  <2>6. g.path = f.path
    BY <2>1, <2>2, <2>4, <2>5, RelativeInjective DEF InScope
  <2>7. g = f
    BY <1>2, <2>3, <2>4, <2>6 DEF File
  <2> QED BY <2>1, <2>7
<1> QED BY <1>5, <1>6

LEMMA PublishProof ==
  ASSUME WorldInv, RowsInv, ProofInv, ReaderInv, RootsDifferByMoreThanCase, sync.running,
         NEW files \in SUBSET sync.seen, NEW proofs, Publishes(files, proofs)
  PROVE  ProofInv'
<1> DEFINE made == ProofOf(Snapshot(sync.selector, sync.seen, {}))
<1>1. UNCHANGED <<disk, written>> /\ sync' = Idle /\ Publish(files, proofs)
  BY DEF Publishes, EndSync
<1>2. /\ records' = proofs
      /\ reader.command = "status" \/ reader'.command = "status" => reader' = reader
  <2>1. records' = proofs
    BY <1>1 DEF Publish
  <2> QED BY <1>1, <2>1, PublishReader
<1>3. \A rec \in Filed' : rec \in Filed \/ (rec = made /\ files = sync.seen)
  BY <1>2 DEF Filed, Publishes
<1>4. \A f \in disk : SeenAsIs(f)'
  BY <1>1 DEF SeenAsIs, Idle
<1>5. ASSUME NEW rec \in Filed', rec \in Filed
      PROVE  ProofOK(rec)' /\ \A f \in disk : Vouches(rec, f) => Indexed(f)'
  <2>1. ProofOK(rec)'
    BY <1>1, <1>5 DEF ProofInv, ProofOK, Earlier
  <2>2. ASSUME NEW f \in disk, Vouches(rec, f) PROVE Indexed(f)'
    <3>1. Indexed(f) /\ SeenAsIs(f) /\ f.content # <<>>
      BY <1>5, <2>2 DEF ProofInv, Vouches
    <3> QED BY <1>1, <3>1, PublishKeeps DEF RowsInv, RowOK
  <2> QED BY <2>1, <2>2
<1>6. ASSUME NEW rec \in Filed', rec = made, files = sync.seen
      PROVE  ProofOK(rec)' /\ \A f \in disk : Vouches(rec, f) => Indexed(f)'
  <2>1. ProofOK(rec) /\ \A f \in disk : Vouches(rec, f) => f \in sync.seen
    BY <1>6, NewProof
  <2>2. ProofOK(rec)'
    BY <1>1, <2>1 DEF ProofOK, Earlier
  <2>3. ASSUME NEW f \in disk, Vouches(rec, f) PROVE Indexed(f)'
    <3>1. f \in sync.seen /\ f.content # <<>>
      BY <2>1, <2>3 DEF Vouches
    <3>2. SeenAsIs(f)
      <4>1. sync # Idle
        BY DEF Idle
      <4> QED BY <3>1, <4>1 DEF SeenAsIs, WorldInv, SyncOK, FilesOK, OnePerPath
    <3> QED BY <1>1, <1>6, <3>1, <3>2, PublishKeeps DEF RowsInv, RowOK
  <2> QED BY <2>2, <2>3
<1> QED BY <1>1, <1>3, <1>4, <1>5, <1>6 DEF ProofInv, Vouches

LEMMA ReadersProof ==
  ASSUME ProofInv, ReaderInv, Readers PROVE ProofInv'
<1>1. UNCHANGED <<disk, written, rows, records, sync>>
  BY ReaderSteps
<1>2. Filed' \subseteq Filed
  BY <1>1, ReadersReader DEF Filed
<1>3. \A f \in disk : (Indexed(f) => Indexed(f)') /\ (SeenAsIs(f) => SeenAsIs(f)')
  BY <1>1 DEF Indexed, SeenAsIs
<1>4. \A rec \in Filed : ProofOK(rec)'
  BY <1>1 DEF ProofInv, ProofOK, Earlier
<1> QED BY <1>1, <1>2, <1>3, <1>4 DEF ProofInv, Vouches

-----------------------------------------------------------------------------
(* Together.                                                               *)

ReadInv == WorldInv /\ RowsInv /\ ReaderInv /\ ProofInv

LEMMA InitReadInv == Init => ReadInv
<1> SUFFICES ASSUME Init PROVE ReadInv OBVIOUS
<1>1. rows = {} /\ records = {} /\ nextId = 1 /\ reader = NoReader
  BY DEF Init
<1>2. RowsInv
  BY <1>1 DEF RowsInv, OnePerPath, OnePerId
<1>3. ReaderInv /\ Filed = {}
  BY <1>1 DEF ReaderInv, NoReader, Filed
<1> QED BY <1>2, <1>3, InitWorld DEF ReadInv, ProofInv

LEMMA NextReadInv == RootsDifferByMoreThanCase /\ ReadInv /\ [Next]_vars => ReadInv'
<1> SUFFICES ASSUME RootsDifferByMoreThanCase, ReadInv, [Next]_vars PROVE ReadInv' OBVIOUS
<1>1. WorldInv' /\ RowsInv'
  BY NextWorld, NextRows DEF ReadInv
<1>2. CASE Agents
  <2>1. reader' = reader
    BY <1>2, AgentsStep DEF ReadInv
  <2>2. ProofInv'
    BY <1>2, AgentsProof DEF ReadInv
  <2> QED BY <1>1, <2>1, <2>2 DEF ReadInv, ReaderInv
<1>3. CASE Sync
  <2>1. CASE \E s \in Scopes, strict, prune \in BOOLEAN : Begin(s, strict, prune)
    <3>1. ProofInv' /\ reader' = reader
      BY <2>1, BeginProof DEF ReadInv, Begin
    <3> QED BY <1>1, <3>1 DEF ReadInv, ReaderInv
  <2>2. ASSUME sync.running, NEW files \in SUBSET sync.seen, NEW proofs,
               Publishes(files, proofs)
        PROVE  ReadInv'
    <3>1. ProofInv'
      BY <2>2, PublishProof DEF ReadInv
    <3>2. ReaderInv'
      BY <2>2, PublishReader DEF ReadInv, Publishes
    <3> QED BY <1>1, <3>1, <3>2 DEF ReadInv
  <2>3. CASE /\ EndSync /\ UNCHANGED <<rows, cursors, nextId, reader>>
             /\ records' \subseteq records
    <3>1. ProofInv'
      BY <2>3, EndProof DEF ReadInv
    <3> QED BY <1>1, <2>3, <3>1 DEF ReadInv, ReaderInv
  <2> QED BY <1>3, <2>1, <2>2, <2>3, SyncCases
<1>4. CASE Readers
  BY <1>1, <1>4, ReadersProof, ReadersReader DEF ReadInv
<1>5. CASE UNCHANGED vars
  <2>1. Filed' = Filed
    BY <1>5 DEF Filed, vars
  <2>2. ProofInv'
    BY <1>5, <2>1 DEF ReadInv, ProofInv, ProofOK, Earlier, Vouches, Indexed, SeenAsIs, vars
  <2> QED BY <1>1, <1>5, <2>2 DEF ReadInv, ReaderInv, vars
<1> QED BY <1>2, <1>3, <1>4, <1>5 DEF Next

LEMMA SpecReadInv == ASSUME RootsDifferByMoreThanCase PROVE Spec => []ReadInv
<1>1. RootsDifferByMoreThanCase
  OBVIOUS
<1>2. ReadInv /\ [Next]_vars => ReadInv'
  BY <1>1, NextReadInv
<1> QED BY <1>2, InitReadInv, PTL DEF Spec

(* What a proof vouches for is in the index, so a find that stands on that *)
(* proof has the rows it needs, if it recalls them (half of what           *)
(* FindMissesNothing asks; QueryLawsProofs has the other).                 *)
ProvedIsIndexed == \A rec \in records, f \in disk : Vouches(rec, f) => Indexed(f)

THEOREM SpecProvedIsIndexed ==
  ASSUME RootsDifferByMoreThanCase PROVE Spec => []ProvedIsIndexed
<1>1. ReadInv => ProvedIsIndexed
  BY DEF ReadInv, ProofInv, Filed, ProvedIsIndexed
<1> QED BY <1>1, SpecReadInv, PTL

-----------------------------------------------------------------------------
(* A verdict.                                                              *)

(* A proof that is called fresh is the snapshot of what is on disk.        *)
LEMMA FreshRecord ==
  ASSUME NEW rec, NEW files, NEW proofs, AuditRecord(rec, files, {}, proofs).fresh
  PROVE  /\ AuditRecord(rec, files, {}, proofs).record = rec
         /\ rec.fingerprint = Snapshot(rec.selector, files, {}).fingerprint
<1> DEFINE shot == Snapshot(rec.selector, files, {})
           e == EvaluateRecord(rec, shot)
           audit == [e EXCEPT !.advisory = @ /\ ChangedProveAppend(rec.selector, files, proofs)]
<1>1. AuditRecord(rec, files, {}, proofs) = audit
  BY DEF AuditRecord
<1> HIDE DEF shot
<1>2. audit.record = rec /\ audit.fresh = e.fresh
  BY DEF EvaluateRecord
<1>3. e.fresh => IsFresh(rec, shot)
  BY DEF EvaluateRecord
<1> HIDE DEF e, audit
<1> QED BY <1>1, <1>2, <1>3 DEF IsFresh, shot

(* A fresh verdict stands on a fresh proof of a scope that implies it.     *)
LEMMA FreshVerdict ==
  ASSUME reader.scope # None, Verdict.freshness = "fresh"
  PROVE  \E rec \in reader.records :
           /\ SelectorImplies(rec.selector, reader.scope)
           /\ rec.fingerprint = Snapshot(rec.selector, disk, {}).fingerprint
<1> DEFINE scope == reader.scope
           base == All(Source, scope.root)
           known == CoverageRecords(reader.records, base.source)
           roots == CacheRoots(base, scope, known, FALSE)
           stored == {p \in StoredProofs(reader.cursors) :
                        \E r \in roots : p.source = r[1] /\ IsPrefix(r[2], p.path)}
           audited == {r \in known : FALSE \/ (scope # None /\ SelectorImplies(r.selector, scope))}
           evaluated == {AuditRecord(r, disk, {}, stored) : r \in audited}
           verdict == EvaluateRequested(Snapshot(scope, disk, {}), evaluated)
<1>1. Verdict =
        IF scope = None THEN None
        ELSE IF /\ verdict.reason = "source_content_changed"
                /\ ~ChangedProveAppend(scope, disk, stored)
             THEN [verdict EXCEPT !.action = "sync"] ELSE verdict
  BY DEF Verdict, Status
<1>2. audited \subseteq reader.records /\ \A r \in audited : SelectorImplies(r.selector, scope)
  BY DEF CoverageRecords
<1>3. verdict.freshness = "fresh" => \E e \in evaluated : e.fresh
  <2> HIDE DEF evaluated
  <2> QED BY DEF EvaluateRequested
<1> HIDE DEF verdict
<1>4. verdict.freshness = "fresh"
  <2>1. [verdict EXCEPT !.action = "sync"].freshness = verdict.freshness
    BY DEF verdict, EvaluateRequested
  <2> QED BY <1>1, <2>1
<1>5. PICK rec \in audited : AuditRecord(rec, disk, {}, stored).fresh
  BY <1>3, <1>4
<1> HIDE DEF stored, audited
<1> QED BY <1>2, <1>5, FreshRecord

(* What status calls fresh is in the index as it is on disk, whatever was  *)
(* synced, pruned or written since the index was read.                     *)
LEMMA FreshIsIndexed == ReadInv => FreshMeansIndexed
<1> SUFFICES ASSUME ReadInv, reader.command = "status", Verdict.freshness = "fresh",
                    NEW f \in InSnapshot(reader.scope, disk)
             PROVE  Indexed(f)
  BY DEF FreshMeansIndexed
<1>1. reader.scope \in Scopes /\ reader.scope # None
  BY ReadPathConstants DEF ReadInv, ReaderInv
<1>2. PICK rec \in reader.records :
        /\ SelectorImplies(rec.selector, reader.scope)
        /\ rec.fingerprint = Snapshot(rec.selector, disk, {}).fingerprint
  BY <1>1, FreshVerdict
<1>3. rec \in Filed /\ rec.selector \in Scopes
  BY <1>2 DEF Filed, ReadInv, ProofInv, ProofOK
<1>4. f \in disk /\ f \in File /\ InScope(reader.scope, f)
  BY DEF InSnapshot, ReadInv, WorldInv, FilesOK
<1>5. InScope(rec.selector, f)
  <2>1. /\ IsDated(rec.selector) => rec.selector.from \in Nat /\ rec.selector.to \in Nat
        /\ IsDated(reader.scope) => reader.scope.from \in Nat /\ reader.scope.to \in Nat
    BY <1>1, <1>3, ReadPathConstants
  <2>2. f.date = None \/ f.date \in Nat
    BY <1>4 DEF File
  <2> QED BY <1>2, <1>4, <2>1, <2>2, ImpliedScope
<1>6. Mark(rec.selector, f) \in rec.fingerprint[2]
  <2>1. Snapshot(rec.selector, disk, {}).fingerprint =
          <<rec.selector.root,
            {Mark(rec.selector, g) : g \in {h \in disk : InScope(rec.selector, h)}}>>
    BY SnapshotMarks
  <2> QED BY <1>2, <1>4, <1>5, <2>1
<1>7. CASE f.content = <<>>
  BY <1>7 DEF Indexed
<1>8. CASE f.content # <<>>
  BY <1>3, <1>4, <1>5, <1>6, <1>8 DEF ReadInv, ProofInv, Vouches
<1> QED BY <1>7, <1>8

(* FreshMeansIndexed, for any scopes of one source whose roots differ by   *)
(* more than the case of their letters.                                    *)
THEOREM SpecFreshMeansIndexed ==
  ASSUME RootsDifferByMoreThanCase PROVE Spec => []FreshMeansIndexed
BY SpecReadInv, FreshIsIndexed, PTL

-----------------------------------------------------------------------------
(* Pages.                                                                  *)

PageOf(msgs, offset, limit) ==
  SubSeq(msgs, offset + 1, IF offset + limit < Len(msgs) THEN offset + limit ELSE Len(msgs))

(* A page goes on where the pages before it ended.                         *)
LEMMA PageGoesOn ==
  ASSUME NEW S, NEW msgs \in Seq(S), NEW offset \in Nat, NEW limit \in Nat
  PROVE  LET page == PageOf(msgs, offset, limit)
         IN /\ page \in Seq(S) /\ Len(page) \in Nat
            /\ \A got \in Seq(S) :
                 IsPrefix(got, msgs) /\ Len(got) = offset =>
                   IsPrefix(got \o page, msgs) /\ Len(got \o page) = offset + Len(page)
<1> DEFINE last == IF offset + limit < Len(msgs) THEN offset + limit ELSE Len(msgs)
           from == offset + 1
           page == SubSeq(msgs, from, last)
<1>1. /\ Len(msgs) \in Nat /\ last \in Nat /\ from \in Nat
      /\ last <= Len(msgs) /\ from = offset + 1
  BY LenProperties
<1> HIDE DEF last, from
<1>2. \A i \in from..last : msgs[i] \in S
  BY <1>1, ElementOfSeq
<1>3. /\ page \in Seq(S)
      /\ Len(page) = IF from <= last THEN last - from + 1 ELSE 0
      /\ \A i \in 1..last - from + 1 : page[i] = msgs[from + i - 1]
  BY <1>1, <1>2, SubSeqProperties
<1> HIDE DEF page
<1>4. Len(page) \in Nat
  BY <1>3, LenProperties
<1>5. ASSUME NEW got \in Seq(S), IsPrefix(got, msgs), Len(got) = offset
      PROVE  IsPrefix(got \o page, msgs) /\ Len(got \o page) = offset + Len(page)
  <2>1. Len(got) <= Len(msgs) /\ \A i \in 1..Len(got) : got[i] = msgs[i]
    BY <1>5, PrefixIsElementwise
  <2>2. /\ got \o page \in Seq(S) /\ Len(got \o page) = Len(got) + Len(page)
        /\ \A i \in 1..Len(got) + Len(page) :
             (got \o page)[i] = IF i <= Len(got) THEN got[i] ELSE page[i - Len(got)]
    BY <1>3, ConcatProperties
  <2>3. Len(got \o page) <= Len(msgs)
    BY <1>1, <1>3, <1>5, <2>1, <2>2
  <2>4. ASSUME NEW i \in 1..Len(got) + Len(page) PROVE (got \o page)[i] = msgs[i]
    <3>1. CASE i <= Len(got)
      BY <1>5, <2>1, <2>2, <3>1
    <3>2. CASE ~(i <= Len(got))
      <4>1. i - Len(got) \in 1..last - from + 1 /\ from + (i - Len(got)) - 1 = i
        BY <1>1, <1>3, <1>4, <1>5, <3>2
      <4>2. page[i - Len(got)] = msgs[from + (i - Len(got)) - 1]
        BY <1>3, <4>1
      <4> QED BY <2>2, <3>2, <4>1, <4>2
    <3> QED BY <3>1, <3>2
  <2> QED BY <1>5, <2>2, <2>3, <2>4, PrefixIsElementwise
<1> QED BY <1>3, <1>4, <1>5 DEF page, from, last, PageOf

Walk == [command : {"walk"}, id : Nat, native : {Native(p) : p \in Paths}, offset : Nat,
         total : Nat, got : Seq(Int), more : BOOLEAN, page : BOOLEAN, undisturbed : BOOLEAN]

(* The pages of a walk that nothing came between are of one row.           *)
ReadsFrom(r) ==
  /\ r.id = reader.id /\ r.native = reader.native
  /\ IsPrefix(reader.got, r.msgs) /\ Len(reader.got) = reader.offset

WalkInv ==
  /\ "command" \in DOMAIN reader
  /\ reader.command = "walk" =>
       /\ reader \in Walk
       /\ reader.undisturbed => /\ \E r \in rows : ReadsFrom(r)
                                /\ reader.more \/ Len(reader.got) >= reader.total

(* Ids and native names each tell a row.                                   *)
LEMMA OneRow ==
  ASSUME RowsInv, NEW r \in rows
  PROVE  /\ \A x \in rows : x.native = r.native => x = r
         /\ StoredSession(rows, Source, r.native) = r
         /\ MessagesOf(rows, r.id) = r.msgs
<1>1. \A x \in rows : x.native = r.native => x = r
  BY ReadPathConstants DEF RowsInv, RowOK, OnePerPath, Native
<1>2. {x \in rows : x.source = Source /\ x.native = r.native} = {r}
  BY <1>1 DEF RowsInv, RowOK
<1>3. {x \in rows : x.id = r.id} = {r}
  BY DEF RowsInv, OnePerId
<1> QED BY <1>1, <1>2, <1>3 DEF StoredSession, MessagesOf

LEMMA HeaderWalk ==
  ASSUME RowsInv, NEW native, NEW offset \in Nat, NEW got \in Seq(Int),
         NEW undisturbed \in BOOLEAN, rows' = rows,
         ReadHeader(native, offset, got, undisturbed),
         undisturbed => \E r \in rows : r.native = native /\ IsPrefix(got, r.msgs) /\ Len(got) = offset
  PROVE  WalkInv'
<1>1. CASE StoredSession(rows, Source, native) = None
  BY <1>1 DEF ReadHeader, NoReader, WalkInv
<1>2. CASE StoredSession(rows, Source, native) # None
  <2>1. PICK row \in rows : row = StoredSession(rows, Source, native) /\ row.native = native
    BY <1>2 DEF StoredSession
  <2>2. reader' = [command |-> "walk", id |-> row.id, native |-> native, offset |-> offset,
                   total |-> Len(row.msgs), got |-> got, more |-> TRUE, page |-> FALSE,
                   undisturbed |-> undisturbed]
    BY <1>2, <2>1 DEF ReadHeader
  <2>3. row.id \in Nat /\ Len(row.msgs) \in Nat /\ native \in {Native(p) : p \in Paths}
    BY <2>1, LenProperties DEF RowsInv, RowOK
  <2>4. reader' \in Walk
    BY <2>2, <2>3 DEF Walk
  <2>5. undisturbed => ReadsFrom(row)'
    BY <2>1, <2>2, OneRow DEF ReadsFrom
  <2> QED BY <2>1, <2>2, <2>4, <2>5 DEF WalkInv
<1> QED BY <1>1, <1>2

LEMMA PageWalk ==
  ASSUME RowsInv, WalkInv, ReadMessages PROVE WalkInv'
<1> DEFINE msgs == MessagesOf(rows, reader.id)
           page == MessagesForPage(rows, reader.id, reader.offset, PageSize)
<1>1. /\ reader \in Walk /\ rows' = rows
      /\ reader' = [reader EXCEPT !.page = TRUE, !.got = @ \o page, !.offset = @ + Len(page),
                                  !.more = HasMore(reader.offset, Len(page), reader.total)]
  BY DEF ReadMessages, WalkInv
<1>2. reader.offset \in Nat /\ reader.total \in Nat /\ reader.got \in Seq(Int) /\ PageSize \in Nat
  BY <1>1, ReadPathConstants DEF Walk
<1>3. msgs \in Seq(Int)
  BY EmptySeq DEF MessagesOf, RowsInv, RowOK
<1>4. /\ page \in Seq(Int) /\ Len(page) \in Nat
      /\ \A got \in Seq(Int) :
           IsPrefix(got, msgs) /\ Len(got) = reader.offset =>
             IsPrefix(got \o page, msgs) /\ Len(got \o page) = reader.offset + Len(page)
  <2>1. page = PageOf(msgs, reader.offset, PageSize)
    BY DEF MessagesForPage, PageOf
  <2> HIDE DEF page, msgs
  <2> QED BY <1>2, <1>3, <2>1, PageGoesOn
<1> HIDE DEF page, msgs
<1>5. reader.got \o page \in Seq(Int)
  BY <1>2, <1>4, ConcatProperties
<1>6. HasMore(reader.offset, Len(page), reader.total) \in BOOLEAN
  BY DEF HasMore
<1>7. reader' \in Walk
  <2> DEFINE got == reader.got \o page
             offset == reader.offset + Len(page)
             more == HasMore(reader.offset, Len(page), reader.total)
  <2>1. got \in Seq(Int) /\ offset \in Nat /\ more \in BOOLEAN
    BY <1>2, <1>4, <1>5, <1>6
  <2>2. reader' = [reader EXCEPT !.page = TRUE, !.got = got, !.offset = offset, !.more = more]
    BY <1>1
  <2> HIDE DEF got, offset, more
  <2> QED BY <1>1, <2>1, <2>2 DEF Walk
<1>8. /\ reader'.id = reader.id /\ reader'.native = reader.native /\ reader'.total = reader.total
      /\ reader'.undisturbed = reader.undisturbed /\ reader'.got = reader.got \o page
      /\ reader'.offset = reader.offset + Len(page)
      /\ reader'.more = HasMore(reader.offset, Len(page), reader.total)
  BY <1>1 DEF Walk
<1>9. ASSUME reader.undisturbed
      PROVE  /\ \E r \in rows : ReadsFrom(r)'
             /\ reader'.more \/ Len(reader'.got) >= reader'.total
  <2>1. PICK r \in rows : ReadsFrom(r)
    BY <1>9, <1>1 DEF WalkInv, Walk
  <2>2. msgs = r.msgs
    BY <2>1, OneRow DEF ReadsFrom, msgs
  <2>3. ReadsFrom(r)' /\ Len(reader'.got) = reader.offset + Len(page)
    BY <1>2, <1>4, <1>8, <2>1, <2>2 DEF ReadsFrom
  <2>4. reader'.more \/ Len(reader'.got) >= reader'.total
    <3>1. CASE HasMore(reader.offset, Len(page), reader.total)
      BY <1>8, <3>1
    <3>2. CASE ~HasMore(reader.offset, Len(page), reader.total)
      <4>1. ~(reader.offset + Len(page) < reader.total)
        BY <3>2 DEF HasMore
      <4> QED BY <1>2, <1>4, <1>8, <2>3, <4>1
    <3> QED BY <3>1, <3>2
  <2> QED BY <2>3, <2>4
<1> QED BY <1>1, <1>7, <1>8, <1>9 DEF WalkInv, Walk

LEMMA PublishWalk ==
  ASSUME WorldInv, RowsInv, WalkInv, sync.running,
         NEW files \in SUBSET sync.seen, NEW proofs, Publish(files, proofs)
  PROVE  WalkInv'
<1>1. CASE reader.command = "find"
  <2>1. reader' = [reader EXCEPT !.undisturbed = FALSE]
    BY <1>1 DEF Publish
  <2> QED BY <1>1, <2>1 DEF WalkInv
<1>2. CASE reader.command \notin {"find", "walk"}
  <2>1. reader' = reader
    BY <1>2 DEF Publish
  <2> QED BY <1>2, <2>1 DEF WalkInv
<1>3. CASE reader.command = "walk"
  <2>1. reader' = [reader EXCEPT !.undisturbed = @ /\ StillGrowing(reader, rows')]
    BY <1>3 DEF Publish
  <2>2. reader \in Walk
    BY <1>3 DEF WalkInv
  <2>3. /\ reader' \in Walk /\ reader'.undisturbed = (reader.undisturbed /\ StillGrowing(reader, rows'))
        /\ reader'.id = reader.id /\ reader'.native = reader.native /\ reader'.total = reader.total
        /\ reader'.got = reader.got /\ reader'.offset = reader.offset /\ reader'.more = reader.more
    <3>1. (reader.undisturbed /\ StillGrowing(reader, rows')) \in BOOLEAN
      OBVIOUS
    <3> QED BY <2>1, <2>2, <3>1 DEF Walk
  <2>4. ASSUME reader.undisturbed, StillGrowing(reader, rows')
        PROVE  \E n \in rows' : ReadsFrom(n)'
    <3>1. PICK r \in rows : ReadsFrom(r)
      BY <1>3, <2>4 DEF WalkInv
    <3>2. PICK n \in rows' : n.id = r.id /\ IsPrefix(r.msgs, n.msgs)
      BY <2>4, <3>1 DEF StillGrowing, ReadsFrom, RowsInv, OnePerId
    <3>3. n.path = r.path /\ RowsInv'
      BY <3>2, PublishRows
    <3>4. /\ n.native = r.native
          /\ n.msgs \in Seq(Int) /\ r.msgs \in Seq(Int) /\ reader.got \in Seq(Int)
      BY <2>2, <3>3 DEF RowsInv, RowOK, Walk
    <3>5. IsPrefix(reader.got, n.msgs)
      BY <3>1, <3>2, <3>4, PrefixTransitive DEF ReadsFrom
    <3> QED BY <2>3, <3>1, <3>2, <3>4, <3>5 DEF ReadsFrom
  <2> QED BY <1>3, <2>3, <2>4 DEF WalkInv, Walk
<1> QED BY <1>1, <1>2, <1>3

LEMMA NextWalk == WorldInv /\ RowsInv /\ WalkInv /\ [Next]_vars => WalkInv'
<1> SUFFICES ASSUME WorldInv, RowsInv, WalkInv, [Next]_vars PROVE WalkInv' OBVIOUS
<1>1. ASSUME UNCHANGED <<rows, reader>> PROVE WalkInv'
  BY <1>1 DEF WalkInv, ReadsFrom
<1>2. CASE Agents
  BY <1>1, <1>2, AgentsStep
<1>3. CASE Sync
  <2>1. ASSUME sync.running, NEW files \in SUBSET sync.seen, NEW proofs, Publishes(files, proofs)
        PROVE  WalkInv'
    BY <2>1, PublishWalk DEF Publishes
  <2>2. ASSUME \E s \in Scopes, strict, prune \in BOOLEAN : Begin(s, strict, prune)
        PROVE  WalkInv'
    BY <1>1, <2>2 DEF Begin
  <2> QED BY <1>1, <1>3, <2>1, <2>2, SyncCases
<1>4. CASE Readers
  <2>1. rows' = rows
    BY <1>4, ReaderSteps
  <2>2. ASSUME NEW s \in Scopes, RecallFirst(s) \/ StatusFirst(s) PROVE WalkInv'
    BY <2>2 DEF RecallFirst, StatusFirst, WalkInv
  <2>3. ASSUME NEW r \in rows, FirstPage(r.native) PROVE WalkInv'
    <3>1. ReadHeader(r.native, 0, <<>>, TRUE) /\ <<>> \in Seq(Int) /\ Len(<<>>) = 0
      BY <2>3, EmptySeq DEF FirstPage
    <3>2. IsPrefix(<<>>, r.msgs)
      <4>1. r.msgs \in Seq(Int) /\ Len(r.msgs) \in Nat
        BY LenProperties DEF RowsInv, RowOK
      <4>2. SubSeq(r.msgs, 1, 0) = <<>> /\ SubSeq(<<>>, 1, 0) = <<>>
        BY SubSeqEmpty
      <4> QED BY <3>1, <4>1, <4>2 DEF IsPrefix
    <3> QED BY <2>1, <3>1, <3>2, HeaderWalk
  <2>4. ASSUME NextPage PROVE WalkInv'
    <3>1. /\ reader \in Walk
          /\ ReadHeader(reader.native, reader.offset, reader.got, reader.undisturbed)
      BY <2>4 DEF NextPage, WalkInv
    <3>2. reader.undisturbed => \E r \in rows : ReadsFrom(r)
      BY <2>4 DEF NextPage, WalkInv
    <3>3. reader.offset \in Nat /\ reader.got \in Seq(Int) /\ reader.undisturbed \in BOOLEAN
      BY <3>1 DEF Walk
    <3> QED BY <2>1, <3>1, <3>2, <3>3, HeaderWalk DEF ReadsFrom
  <2> QED BY <1>4, <2>2, <2>3, <2>4, PageWalk DEF Readers
<1>5. CASE UNCHANGED vars
  BY <1>1, <1>5 DEF vars
<1> QED BY <1>2, <1>3, <1>4, <1>5 DEF Next

(* PagesHaveNoGaps, for any page size and any commits between the pages.   *)
THEOREM SpecPagesHaveNoGaps == Spec => []PagesHaveNoGaps
<1> DEFINE Inv == WorldInv /\ RowsInv /\ WalkInv
<1>1. Init => Inv
  <2> SUFFICES ASSUME Init PROVE Inv OBVIOUS
  <2>1. rows = {} /\ nextId = 1 /\ reader = NoReader
    BY DEF Init
  <2> QED BY <2>1, InitWorld DEF RowsInv, OnePerPath, OnePerId, WalkInv, NoReader
<1>2. Inv /\ [Next]_vars => Inv'
  BY NextWorld, NextRows, NextWalk
<1>3. Inv => PagesHaveNoGaps
  <2> SUFFICES ASSUME Inv, reader.command = "walk", reader.undisturbed
               PROVE  /\ IsPrefix(reader.got, MessagesOf(rows, reader.id))
                      /\ reader.more \/ Len(reader.got) >= reader.total
    BY DEF PagesHaveNoGaps
  <2>1. PICK r \in rows : ReadsFrom(r)
    BY DEF WalkInv
  <2> QED BY <2>1, OneRow DEF WalkInv, ReadsFrom
<1> QED BY <1>1, <1>2, <1>3, PTL DEF Spec

=============================================================================
