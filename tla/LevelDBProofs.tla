--------------------------- MODULE LevelDBProofs ---------------------------
(***************************************************************************)
(* Proofs about LevelDB, for any threads, sizes and triggers, and for any  *)
(* number of writes, crashes and I/O errors.                               *)
(*                                                                         *)
(* What a crash leaves is described by DiskOK, as a predicate of files, a  *)
(* MANIFEST and promises: it holds of the MANIFEST there is and, while an  *)
(* edit is being recorded, of the one that there may be already.           *)
(***************************************************************************)
EXTENDS LevelDB, SequenceTheorems, FiniteSetTheorems, WellFoundedInduction, TLAPS

-----------------------------------------------------------------------------
(***************************************************************************)
(* Types.                                                                  *)
(***************************************************************************)
EntryPairs == Nat \X Nat

LogRecords == [first : Nat, batches : Seq(Nat), doubtful : BOOLEAN]

LogFiles == [records : Seq(LogRecords), synced : Nat, torn : BOOLEAN]

Versions ==
    [l0 : SUBSET Nat, l1 : SUBSET Nat, logNumber : Nat, nextFile : Nat, lastSequence : Nat]

Edits ==
    [add0 : SUBSET Nat, add1 : SUBSET Nat, del : SUBSET Nat, logNumber : Nat, nextFile : Nat,
     lastSequence : Nat]

DbRecords ==
    [status : {"closed", "recovering", "opening", "open"}, mem : SUBSET EntryPairs,
     imm : SUBSET (SUBSET EntryPairs), logfile : Nat, recover : SUBSET Nat,
     pending : SUBSET Nat, bgError : BOOLEAN, scheduled : BOOLEAN, shutting : BOOLEAN]

BgRecords ==
    [flush : {"none", "build", "install"}, flushOut : Nat,
     merge : {"none", "build", "built", "install"}, mergeOut : Nat, mergeIn : SUBSET Nat,
     edit : Edits]

WriterRecords ==
    [pc : {"idle", "asleep", "front", "waitBg", "logging"}, batch : Nat, sync : BOOLEAN,
     group : Nat]

FilesTyped ==
    /\ logs \in [DOMAIN logs -> LogFiles] /\ DOMAIN logs \subseteq Nat
    /\ \A n \in DOMAIN logs : logs[n].synced <= Len(logs[n].records)
    /\ tables \in [DOMAIN tables -> SUBSET EntryPairs] /\ DOMAIN tables \subseteq Nat
    /\ manifest \in Versions
    /\ damage \in {"none", "torn", "corrupt"}

MemoryTyped ==
    /\ vs \in Versions
    /\ db \in DbRecords
    /\ bg \in BgRecords

CallsTyped ==
    /\ writers \in Seq(Writers)
    /\ writer \in [Writers -> WriterRecords]
    /\ calls \in [batches : Nat, stops : Nat, errors : Nat]

\* writers_ is a queue: its head works or waits for the background thread, the
\* others sleep, and nobody else is in Write.  Whoever is in the group that the
\* head logs and asked for a sync gets it.
QueueOK ==
    /\ \A i, j \in DOMAIN writers : writers[i] = writers[j] => i = j
    /\ \A w \in Writers : writer[w].pc # "idle" <=> \E i \in DOMAIN writers : writers[i] = w
    /\ \A i \in DOMAIN writers : (writer[writers[i]].pc = "asleep") <=> (i > 1)
    /\ \A w \in Writers :
        /\ writer[w].pc # "idle" => writer[w].batch \in 1..calls.batches
        /\ writer[w].pc = "logging" =>
             /\ writer[w].group \in 1..Len(writers)
             /\ \A i \in 1..writer[w].group : writer[writers[i]].sync => writer[w].sync

PromisesOK == synced \subseteq promised /\ promised \subseteq 1..calls.batches

-----------------------------------------------------------------------------
(***************************************************************************)
(* What is on disk.                                                        *)
(***************************************************************************)
Unique(E) == \A d, e \in E : d[1] = e[1] => d = e

TablesOf(T, F) == UNION {T[f] : f \in F}
Since(L, k) == {n \in DOMAIN L : n >= k}
LoggedIn(L, N) == UNION {EntriesOf(ToSet(L[n].records)) : n \in N}
CertainIn(L, N) == UNION {CertainEntries(L[n].records) : n \in N}
HardIn(L, N) == UNION {CertainEntries(SubSeq(L[n].records, 1, L[n].synced)) : n \in N}

\* With tables T, logs L and MANIFEST v a database can be opened, finds the batches P
\* after a crash of the process and the batches S after one of the machine, and
\* knows which sequence numbers are taken.
DiskOK(T, L, v, P, S) ==
    /\ Files(v) \subseteq DOMAIN T
    /\ v.logNumber < v.nextFile
    /\ \A f \in Files(v) : f < v.nextFile /\ \A e \in T[f] : e[1] <= v.lastSequence
    /\ Unique(TablesOf(T, Files(v)) \cup LoggedIn(L, Since(L, v.logNumber)))
    /\ P \subseteq Batches(TablesOf(T, Files(v)) \cup CertainIn(L, Since(L, v.logNumber)))
    /\ S \subseteq Batches(TablesOf(T, Files(v)) \cup HardIn(L, Since(L, v.logNumber)))

ManifestOK(v) == DiskOK(tables, logs, v, promised, synced)

Editing == db.status = "opening" \/ bg.flush = "install" \/ bg.merge = "install"

-----------------------------------------------------------------------------
(***************************************************************************)
(* Opening.                                                                *)
(***************************************************************************)
NotOpenIsQuiet ==
    db.status # "open" =>
        /\ writers = <<>>
        /\ bg.flush = "none" /\ bg.merge = "none" /\ bg.mergeIn = {}
        /\ db.mem = {} /\ db.imm = {} /\ ~db.bgError /\ ~db.scheduled
        /\ db.status = "closed" => bg = IdleBg

\* Logs that were read are in new tables, except what no promise covers.
RecoveringOK ==
    db.status \in {"recovering", "opening"} =>
        /\ vs.l0 = manifest.l0 /\ vs.l1 = manifest.l1
        /\ manifest.nextFile < vs.nextFile /\ manifest.lastSequence <= vs.lastSequence
        /\ bg.edit.add1 = {} /\ bg.edit.del = {}
        /\ bg.edit.add0 \subseteq DOMAIN tables
        /\ \A f \in bg.edit.add0 :
            /\ manifest.nextFile < f /\ f < vs.nextFile
            /\ tables[f] \subseteq LoggedIn(logs, LiveLogs)
            /\ \A e \in tables[f] : e[1] <= vs.lastSequence
        /\ db.recover \subseteq LiveLogs
        /\ \A n \in DOMAIN logs : n < vs.nextFile \/ n \in db.recover
        /\ promised \subseteq Batches(TablesOf(tables, Files(manifest) \cup bg.edit.add0)
                                        \cup CertainIn(logs, db.recover))

OpeningOK ==
    db.status = "opening" =>
        /\ db.recover = {}
        /\ db.logfile \in DOMAIN logs /\ logs[db.logfile] = NewLog
        /\ \A n \in DOMAIN logs : n <= db.logfile
        /\ bg.edit.logNumber = db.logfile
        /\ bg.edit.nextFile = vs.nextFile /\ vs.nextFile = db.logfile + 1
        /\ bg.edit.lastSequence = vs.lastSequence

-----------------------------------------------------------------------------
(***************************************************************************)
(* The open database.                                                      *)
(***************************************************************************)
\* Everything that is in a file or a memtable.
Known ==
    TablesOf(tables, DOMAIN tables) \cup LoggedIn(logs, DOMAIN logs)
      \cup db.mem \cup UNION db.imm

NumbersOK ==
    db.status = "open" =>
        /\ vs.logNumber <= manifest.logNumber /\ manifest.logNumber <= db.logfile
        /\ db.logfile \in DOMAIN logs
        /\ \A n \in DOMAIN logs : n < vs.nextFile
        /\ \A f \in DOMAIN tables : f < vs.nextFile
        /\ Files(vs) \subseteq DOMAIN tables
        /\ ~db.bgError => Files(manifest) = Files(vs) /\ manifest.logNumber = vs.logNumber

SequencesOK ==
    db.status = "open" =>
        /\ Unique(Known)
        /\ \A e \in Known : e[1] <= vs.lastSequence

\* What is promised is in a table or a memtable; a flush loses nothing, for apart
\* from imm_ it is in a table or in the log in use.
MemoryOK ==
    db.status = "open" =>
        LET T == TablesOf(tables, Files(manifest)) IN
        /\ promised \subseteq Batches(T \cup (UNION db.imm) \cup db.mem)
        /\ promised \subseteq Batches(T \cup (UNION db.imm) \cup CertainIn(logs, {db.logfile}))
        /\ synced \subseteq Batches(T \cup (UNION db.imm) \cup HardIn(logs, {db.logfile}))

-----------------------------------------------------------------------------
(***************************************************************************)
(* The background thread.                                                  *)
(***************************************************************************)
FlushOK ==
    /\ bg.flush # "none" => db.imm # {} /\ bg.flushOut < vs.nextFile
    /\ bg.flush = "build" => bg.flushOut \notin DOMAIN tables
    /\ bg.flush = "install" =>
        /\ bg.merge # "install"
        /\ bg.flushOut \in DOMAIN tables
        /\ tables[bg.flushOut] = UNION db.imm
        /\ bg.edit.add0 \cup bg.edit.add1 = {bg.flushOut} /\ bg.edit.del = {}
        /\ bg.edit.logNumber = db.logfile
        /\ bg.merge # "none" => bg.flushOut # bg.mergeOut

MergeOK ==
    /\ bg.merge = "none" => bg.mergeIn = {}
    /\ bg.merge # "none" =>
        /\ bg.mergeIn \subseteq Files(vs)
        /\ bg.mergeOut \in DOMAIN tables
        /\ bg.mergeOut \in db.pending
        /\ bg.mergeOut \notin Files(vs) \cup Files(manifest)
    /\ bg.merge \in {"built", "install"} => tables[bg.mergeOut] = TablesOf(tables, bg.mergeIn)
    /\ bg.merge = "install" =>
        /\ bg.flush = "none"
        /\ bg.edit.add0 = {} /\ bg.edit.add1 = {bg.mergeOut} /\ bg.edit.del = bg.mergeIn
        /\ bg.edit.logNumber = vs.logNumber

EditOK == Editing => ManifestOK(Apply(manifest, bg.edit))

LevelIInv ==
    /\ FilesTyped /\ MemoryTyped /\ CallsTyped /\ QueueOK /\ PromisesOK
    /\ ManifestOK(manifest)
    /\ NotOpenIsQuiet /\ RecoveringOK /\ OpeningOK
    /\ NumbersOK /\ SequencesOK /\ MemoryOK
    /\ FlushOK /\ MergeOK /\ EditOK

-----------------------------------------------------------------------------
(***************************************************************************)
(* The greatest element of a set.                                          *)
(***************************************************************************)
LEMMA LeastNatural ==
    ASSUME NEW N, N \subseteq Nat, N # {}
    PROVE  \E n \in N : \A m \in N : n <= m
  <1> DEFINE R == {ss \in Nat \X Nat : ss[1] < ss[2]}
  <1>1. IsWellFoundedOn(R, Nat)
    BY NatLessThanWellFounded DEF OpToRel
  <1>2. PICK x \in N : \A y \in N : ~(<<y, x>> \in R)
    BY <1>1, WFMin
  <1>3. \A m \in N : m < x => <<m, x>> \in R
    OBVIOUS
  <1> HIDE DEF R
  <1>4. \A m \in N : ~(m < x)
    BY <1>2, <1>3
  <1> QED
    BY <1>4

\* A set of integers that is not empty and has an upper bound has a greatest
\* element, and Max is it.
LEMMA BoundedMax ==
    ASSUME NEW E, E \subseteq Int, E # {}, NEW b \in Int, \A x \in E : x <= b
    PROVE  Max(E) \in E /\ \A x \in E : x <= Max(E)
  <1> DEFINE D == {b - x : x \in E}
  <1>1. \A x \in E : b - x \in Nat
    OBVIOUS
  <1>2. D \subseteq Nat /\ D # {}
    BY <1>1
  <1>3. PICK d \in D : \A c \in D : d <= c
    BY <1>2, LeastNatural
  <1> HIDE DEF D
  <1>4. PICK m \in E : d = b - m
    BY DEF D
  <1>5. \A x \in E : x <= m
    <2> SUFFICES ASSUME NEW x \in E PROVE x <= m
      OBVIOUS
    <2>1. b - x \in D
      BY DEF D
    <2>2. b - m <= b - x
      BY <1>3, <1>4, <2>1
    <2> QED
      BY <2>2
  <1>6. \E y \in E : \A x \in E : y >= x
    BY <1>5
  <1> QED
    BY <1>6 DEF Max

-----------------------------------------------------------------------------
(***************************************************************************)
(* Files and entries.                                                      *)
(***************************************************************************)
LEMMA BatchesUnion ==
    ASSUME NEW E, NEW F
    PROVE  /\ Batches(E \cup F) = Batches(E) \cup Batches(F)
           /\ E \subseteq F => Batches(E) \subseteq Batches(F)
           /\ Batches({}) = {}
  BY DEF Batches

LEMMA EntriesTyped ==
    ASSUME NEW r \in LogRecords, r.first > 0
    PROVE  /\ Entries(r) \subseteq EntryPairs
           /\ \A e \in Entries(r) : e[1] >= r.first /\ e[1] < r.first + Len(r.batches)
           /\ Unique(Entries(r))
  <1>1. /\ r.first \in Nat /\ r.batches \in Seq(Nat) /\ Len(r.batches) \in Nat
        /\ DOMAIN r.batches = 1..Len(r.batches)
        /\ \A i \in DOMAIN r.batches : r.batches[i] \in Nat
    BY DEF LogRecords
  <1>2. \A e \in Entries(r) : \E i \in 1..Len(r.batches) : e = <<r.first + i - 1, r.batches[i]>>
    BY <1>1 DEF Entries
  <1>3. ASSUME NEW e \in Entries(r)
        PROVE  e \in EntryPairs /\ e[1] >= r.first /\ e[1] < r.first + Len(r.batches)
    <2>1. PICK i \in 1..Len(r.batches) : e = <<r.first + i - 1, r.batches[i]>>
      BY <1>2
    <2> QED
      BY <1>1, <2>1 DEF EntryPairs
  <1>4. ASSUME NEW d \in Entries(r), NEW e \in Entries(r), d[1] = e[1] PROVE d = e
    <2>1. PICK i \in 1..Len(r.batches) : e = <<r.first + i - 1, r.batches[i]>>
      BY <1>2
    <2>2. PICK j \in 1..Len(r.batches) : d = <<r.first + j - 1, r.batches[j]>>
      BY <1>2
    <2>3. i = j
      BY <1>1, <1>4, <2>1, <2>2
    <2> QED
      BY <2>1, <2>2, <2>3
  <1> QED
    BY <1>3, <1>4 DEF Unique

LEMMA EntriesOfUnion ==
    ASSUME NEW R, NEW Q
    PROVE  /\ EntriesOf(R \cup Q) = EntriesOf(R) \cup EntriesOf(Q)
           /\ R \subseteq Q => EntriesOf(R) \subseteq EntriesOf(Q)
           /\ EntriesOf({}) = {}
           /\ \A r : EntriesOf({r}) = Entries(r)
  BY DEF EntriesOf

LEMMA ToSetAppend ==
    ASSUME NEW S, NEW s \in Seq(S), NEW r \in S
    PROVE  ToSet(Append(s, r)) = ToSet(s) \cup {r}
  <1>1. /\ DOMAIN Append(s, r) = 1..(Len(s) + 1) /\ DOMAIN s = 1..Len(s) /\ Len(s) \in Nat
        /\ \A i \in 1..Len(s) : Append(s, r)[i] = s[i]
        /\ Append(s, r)[Len(s) + 1] = r
    OBVIOUS
  <1>2. ASSUME NEW x \in ToSet(Append(s, r)) PROVE x \in ToSet(s) \cup {r}
    <2>1. PICK i \in 1..(Len(s) + 1) : x = Append(s, r)[i]
      BY <1>1 DEF ToSet
    <2>2. i \in 1..Len(s) \/ i = Len(s) + 1
      BY <1>1
    <2> QED
      BY <1>1, <2>1, <2>2 DEF ToSet
  <1>3. ASSUME NEW x \in ToSet(s) PROVE x \in ToSet(Append(s, r))
    <2>1. PICK i \in 1..Len(s) : x = s[i]
      BY <1>1 DEF ToSet
    <2>2. i \in 1..(Len(s) + 1)
      BY <1>1
    <2> QED
      BY <1>1, <2>1, <2>2 DEF ToSet
  <1>4. r \in ToSet(Append(s, r))
    BY <1>1 DEF ToSet
  <1> QED
    BY <1>2, <1>3, <1>4

LEMMA ToSetPrefix ==
    ASSUME NEW S, NEW s \in Seq(S), NEW m \in 0..Len(s), NEW k \in 0..m
    PROVE  /\ SubSeq(s, 1, m) \in Seq(S) /\ Len(SubSeq(s, 1, m)) = m
           /\ ToSet(SubSeq(s, 1, k)) \subseteq ToSet(SubSeq(s, 1, m))
           /\ ToSet(SubSeq(s, 1, m)) \subseteq ToSet(s)
           /\ SubSeq(s, 1, Len(s)) = s
           /\ SubSeq(SubSeq(s, 1, m), 1, m) = SubSeq(s, 1, m)
           /\ ToSet(s) \subseteq S
  <1>1. Len(s) \in Nat /\ DOMAIN s = 1..Len(s) /\ m \in Nat /\ k \in Nat /\ k <= m /\ m <= Len(s)
    OBVIOUS
  <1>2. ASSUME NEW j \in 0..Len(s)
        PROVE  /\ SubSeq(s, 1, j) \in Seq(S) /\ Len(SubSeq(s, 1, j)) = j
               /\ DOMAIN SubSeq(s, 1, j) = 1..j
               /\ \A i \in 1..j : SubSeq(s, 1, j)[i] = s[i]
    BY <1>1, SubSeqProperties
  <1>3. \A j \in 0..Len(s) : \A x : x \in ToSet(SubSeq(s, 1, j)) <=> \E i \in 1..j : x = s[i]
    BY <1>2 DEF ToSet
  <1>4. ToSet(SubSeq(s, 1, k)) \subseteq ToSet(SubSeq(s, 1, m))
    BY <1>1, <1>3
  <1>5. ToSet(SubSeq(s, 1, m)) \subseteq ToSet(s)
    BY <1>1, <1>3 DEF ToSet
  <1>6. SubSeq(s, 1, Len(s)) = s
    BY SubSeqFull
  <1>7. SubSeq(SubSeq(s, 1, m), 1, m) = SubSeq(s, 1, m)
    BY <1>2, SubSeqFull
  <1>8. ToSet(s) \subseteq S
    BY <1>1 DEF ToSet
  <1> QED
    BY <1>2, <1>4, <1>5, <1>6, <1>7, <1>8

LEMMA CertainIsLogged ==
    ASSUME NEW s
    PROVE  CertainEntries(s) \subseteq EntriesOf(ToSet(s))
  BY EntriesOfUnion DEF CertainEntries

LEMMA CertainPrefix ==
    ASSUME NEW s \in Seq(LogRecords), NEW m \in 0..Len(s), NEW k \in 0..m
    PROVE  /\ CertainEntries(SubSeq(s, 1, k)) \subseteq CertainEntries(SubSeq(s, 1, m))
           /\ CertainEntries(SubSeq(s, 1, m)) \subseteq CertainEntries(s)
  <1>1. ASSUME NEW t, NEW u, ToSet(t) \subseteq ToSet(u)
        PROVE  CertainEntries(t) \subseteq CertainEntries(u)
    <2>1. ToSet(t) \ Doubtful(ToSet(t)) \subseteq ToSet(u) \ Doubtful(ToSet(u))
      BY <1>1 DEF Doubtful
    <2> QED
      BY <2>1, EntriesOfUnion DEF CertainEntries
  <1>2. ToSet(SubSeq(s, 1, k)) \subseteq ToSet(SubSeq(s, 1, m))
    BY ToSetPrefix
  <1>3. ToSet(SubSeq(s, 1, m)) \subseteq ToSet(s)
    BY ToSetPrefix
  <1> QED
    BY <1>1, <1>2, <1>3

LEMMA CertainAppend ==
    ASSUME NEW s \in Seq(LogRecords), NEW r \in LogRecords
    PROVE  CertainEntries(Append(s, r)) =
             CertainEntries(s) \cup (IF r.doubtful THEN {} ELSE Entries(r))
  <1>1. ToSet(Append(s, r)) = ToSet(s) \cup {r}
    BY ToSetAppend
  <1>2. CASE r.doubtful
    <2>1. ToSet(Append(s, r)) \ Doubtful(ToSet(Append(s, r))) = ToSet(s) \ Doubtful(ToSet(s))
      BY <1>1, <1>2 DEF Doubtful
    <2> QED
      BY <1>2, <2>1 DEF CertainEntries
  <1>3. CASE ~r.doubtful
    <2>1. ToSet(Append(s, r)) \ Doubtful(ToSet(Append(s, r)))
            = (ToSet(s) \ Doubtful(ToSet(s))) \cup {r}
      BY <1>1, <1>3 DEF Doubtful
    <2> QED
      BY <1>3, <2>1, EntriesOfUnion DEF CertainEntries
  <1> QED
    BY <1>2, <1>3

\* K is L with record r appended to log m; a sync, if there is one, covers the whole log.
Appended(L, m, r, K) ==
    /\ L \in [DOMAIN L -> LogFiles] /\ m \in DOMAIN L /\ r \in LogRecords
    /\ L[m].synced <= Len(L[m].records)
    /\ DOMAIN K = DOMAIN L /\ \A n \in DOMAIN L : n # m => K[n] = L[n]
    /\ K[m].records = Append(L[m].records, r)
    /\ K[m].synced = L[m].synced \/ K[m].synced = Len(L[m].records) + 1

LEMMA LogAppended ==
    ASSUME NEW L, NEW m, NEW r, NEW K, Appended(L, m, r, K), NEW N, N \subseteq DOMAIN L, m \in N
    PROVE  /\ LoggedIn(K, N) = LoggedIn(L, N) \cup Entries(r)
           /\ CertainIn(K, N) = CertainIn(L, N) \cup (IF r.doubtful THEN {} ELSE Entries(r))
           /\ HardIn(L, N) \subseteq HardIn(K, N)
           /\ K[m].synced = Len(L[m].records) + 1 /\ ~r.doubtful => Entries(r) \subseteq HardIn(K, N)
  <1> DEFINE s == L[m].records
             t == K[m].records
  <1>1. /\ L \in [DOMAIN L -> LogFiles] /\ m \in DOMAIN L /\ r \in LogRecords
        /\ L[m].synced <= Len(L[m].records)
        /\ DOMAIN K = DOMAIN L /\ \A n \in DOMAIN L : n # m => K[n] = L[n]
        /\ t = Append(s, r) /\ (K[m].synced = L[m].synced \/ K[m].synced = Len(s) + 1)
    BY DEF Appended
  <1>2. s \in Seq(LogRecords) /\ Len(s) \in Nat /\ L[m].synced \in 0..Len(s)
    BY <1>1 DEF LogFiles
  <1>3. t \in Seq(LogRecords) /\ Len(t) = Len(s) + 1
    BY <1>1, <1>2
  <1>4. EntriesOf(ToSet(t)) = EntriesOf(ToSet(s)) \cup Entries(r)
    <2>1. ToSet(t) = ToSet(s) \cup {r}
      BY <1>1, <1>2, ToSetAppend
    <2>2. EntriesOf({r}) = Entries(r)
      BY EntriesOfUnion
    <2> QED
      BY <2>1, <2>2, EntriesOfUnion
  <1>5. CertainEntries(t) = CertainEntries(s) \cup (IF r.doubtful THEN {} ELSE Entries(r))
    BY <1>1, <1>2, CertainAppend
  <1>6. SubSeq(t, 1, Len(t)) = t
    BY <1>3, SubSeqFull
  <1>7. SubSeq(t, 1, L[m].synced) = SubSeq(s, 1, L[m].synced)
    BY <1>1, <1>2, <1>3
  <1>8. CertainEntries(SubSeq(s, 1, L[m].synced)) \subseteq CertainEntries(SubSeq(t, 1, K[m].synced))
    <2>1. CASE K[m].synced = L[m].synced
      BY <1>7, <2>1
    <2>2. CASE K[m].synced = Len(s) + 1
      <3>1. CertainEntries(SubSeq(s, 1, L[m].synced)) \subseteq CertainEntries(s)
        BY <1>2, CertainPrefix
      <3> QED
        BY <1>3, <1>5, <1>6, <2>2, <3>1
    <2> QED
      BY <1>1, <2>1, <2>2
  <1> HIDE DEF s, t
  <1>9. LoggedIn(K, N) = LoggedIn(L, N) \cup Entries(r)
    BY <1>1, <1>4 DEF LoggedIn, s, t
  <1>10. CertainIn(K, N) = CertainIn(L, N) \cup (IF r.doubtful THEN {} ELSE Entries(r))
    BY <1>1, <1>5 DEF CertainIn, s, t
  <1>11. HardIn(L, N) \subseteq HardIn(K, N)
    BY <1>1, <1>8 DEF HardIn, s, t
  <1>12. K[m].synced = Len(s) + 1 /\ ~r.doubtful => Entries(r) \subseteq HardIn(K, N)
    BY <1>3, <1>5, <1>6 DEF HardIn, t
  <1> QED
    BY <1>9, <1>10, <1>11, <1>12 DEF s

LEMMA InIsMonotone ==
    ASSUME NEW L, NEW M, NEW N, M \subseteq N
    PROVE  /\ LoggedIn(L, M) \subseteq LoggedIn(L, N)
           /\ CertainIn(L, M) \subseteq CertainIn(L, N)
           /\ HardIn(L, M) \subseteq HardIn(L, N)
           /\ TablesOf(L, M) \subseteq TablesOf(L, N)
           /\ CertainIn(L, N) \subseteq LoggedIn(L, N)
           /\ LoggedIn(L, {}) = {} /\ CertainIn(L, {}) = {} /\ HardIn(L, {}) = {}
  BY CertainIsLogged DEF LoggedIn, CertainIn, HardIn, TablesOf

LEMMA HardIsCertain ==
    ASSUME NEW L, L \in [DOMAIN L -> LogFiles], NEW N, N \subseteq DOMAIN L,
           \A n \in DOMAIN L : L[n].synced <= Len(L[n].records)
    PROVE  HardIn(L, N) \subseteq CertainIn(L, N)
  <1>1. ASSUME NEW n \in DOMAIN L
        PROVE  CertainEntries(SubSeq(L[n].records, 1, L[n].synced)) \subseteq CertainEntries(L[n].records)
    <2>1. L[n].records \in Seq(LogRecords) /\ L[n].synced \in 0..Len(L[n].records)
      BY DEF LogFiles
    <2> QED
      BY <2>1, CertainPrefix
  <1> QED
    BY <1>1 DEF HardIn, CertainIn

\* A new log has nothing in it.
LEMMA EmptyLog ==
    ASSUME NEW L, NEW n, L[n] = NewLog
    PROVE  LoggedIn(L, {n}) = {} /\ CertainIn(L, {n}) = {} /\ HardIn(L, {n}) = {}
  <1>1. NewLog.records = <<>> /\ NewLog.synced = 0
    BY DEF NewLog
  <1>2. ToSet(<<>>) = {}
    BY DEF ToSet
  <1>3. SubSeq(<<>>, 1, 0) = <<>>
    OBVIOUS
  <1>4. EntriesOf(ToSet(<<>>)) = {} /\ CertainEntries(<<>>) = {}
    BY <1>2, EntriesOfUnion DEF CertainEntries, Doubtful
  <1> QED
    BY <1>1, <1>3, <1>4 DEF LoggedIn, CertainIn, HardIn

LEMMA NewLogIsEmpty ==
    ASSUME NEW L, NEW n, n \notin DOMAIN L, NEW K, DOMAIN K = DOMAIN L \cup {n},
           \A m \in DOMAIN L : K[m] = L[m], K[n] = NewLog, NEW N, N \subseteq DOMAIN K
    PROVE  /\ LoggedIn(K, N) = LoggedIn(L, N \ {n})
           /\ CertainIn(K, N) = CertainIn(L, N \ {n})
           /\ HardIn(K, N) = HardIn(L, N \ {n})
  <1>1. LoggedIn(K, {n}) = {} /\ CertainIn(K, {n}) = {} /\ HardIn(K, {n}) = {}
    BY EmptyLog
  <1> QED
    BY <1>1 DEF LoggedIn, CertainIn, HardIn

-----------------------------------------------------------------------------
(***************************************************************************)
(* What keeps the disk in order.                                           *)
(***************************************************************************)
LEMMA SameTables ==
    ASSUME NEW T, NEW U, NEW F, \A f \in F : U[f] = T[f]
    PROVE  TablesOf(U, F) = TablesOf(T, F)
  BY DEF TablesOf

\* Named tables stay as they are, logs get longer, and what is promised in addition
\* is there.
LEMMA DiskGrows ==
    ASSUME NEW T, NEW L, NEW v, NEW P, NEW S, DiskOK(T, L, v, P, S),
           NEW U, Files(v) \subseteq DOMAIN U, \A f \in Files(v) : U[f] = T[f],
           NEW K,
           CertainIn(L, Since(L, v.logNumber)) \subseteq CertainIn(K, Since(K, v.logNumber)),
           HardIn(L, Since(L, v.logNumber)) \subseteq HardIn(K, Since(K, v.logNumber)),
           Unique(TablesOf(T, Files(v)) \cup LoggedIn(K, Since(K, v.logNumber))),
           NEW Q, Q \subseteq P \cup Batches(CertainIn(K, Since(K, v.logNumber))),
           NEW R, R \subseteq S \cup Batches(HardIn(K, Since(K, v.logNumber)))
    PROVE  DiskOK(U, K, v, Q, R)
  <1> DEFINE F == TablesOf(T, Files(v))
             C == CertainIn(K, Since(K, v.logNumber))
             H == HardIn(K, Since(K, v.logNumber))
  <1>1. TablesOf(U, Files(v)) = F
    BY SameTables
  <1>2. Q \subseteq Batches(F \cup C)
    <2>1. P \subseteq Batches(F \cup CertainIn(L, Since(L, v.logNumber)))
      BY DEF DiskOK
    <2>2. F \cup CertainIn(L, Since(L, v.logNumber)) \subseteq F \cup C
      OBVIOUS
    <2> HIDE DEF F, C
    <2>3. P \subseteq Batches(F \cup C) /\ Batches(C) \subseteq Batches(F \cup C)
      BY <2>1, <2>2, BatchesUnion
    <2> QED
      BY <2>3 DEF C
  <1>3. R \subseteq Batches(F \cup H)
    <2>1. S \subseteq Batches(F \cup HardIn(L, Since(L, v.logNumber)))
      BY DEF DiskOK
    <2>2. F \cup HardIn(L, Since(L, v.logNumber)) \subseteq F \cup H
      OBVIOUS
    <2> HIDE DEF F, H
    <2>3. S \subseteq Batches(F \cup H) /\ Batches(H) \subseteq Batches(F \cup H)
      BY <2>1, <2>2, BatchesUnion
    <2> QED
      BY <2>3 DEF H
  <1> QED
    BY <1>1, <1>2, <1>3 DEF DiskOK

\* The logs are the same, and no more is promised.
LEMMA DiskKept ==
    ASSUME NEW T, NEW L, NEW v, NEW P, NEW S, DiskOK(T, L, v, P, S),
           NEW U, Files(v) \subseteq DOMAIN U, \A f \in Files(v) : U[f] = T[f],
           NEW Q, Q \subseteq P, NEW R, R \subseteq S
    PROVE  DiskOK(U, L, v, Q, R)
  <1>1. Unique(TablesOf(T, Files(v)) \cup LoggedIn(L, Since(L, v.logNumber)))
    BY DEF DiskOK
  <1> QED
    BY <1>1, DiskGrows

\* Logs that do not count are deleted, or a new one is created.
LEMMA DiskOtherLogs ==
    ASSUME NEW T, NEW L, NEW v, NEW P, NEW S, DiskOK(T, L, v, P, S),
           NEW U, Files(v) \subseteq DOMAIN U, \A f \in Files(v) : U[f] = T[f],
           NEW K, Since(L, v.logNumber) \subseteq DOMAIN K,
           \A n \in Since(L, v.logNumber) : K[n] = L[n],
           \A n \in Since(K, v.logNumber) : n \in DOMAIN L \/ K[n] = NewLog
    PROVE  DiskOK(U, K, v, P, S)
  <1> DEFINE k == v.logNumber
             M == Since(L, k)
             N == Since(K, k)
  <1>1. M \subseteq N /\ \A n \in N : n \in M \/ K[n] = NewLog
    BY DEF Since
  <1>2. /\ EntriesOf(ToSet(NewLog.records)) = {} /\ CertainEntries(NewLog.records) = {}
        /\ CertainEntries(SubSeq(NewLog.records, 1, NewLog.synced)) = {}
    <2>1. NewLog.records = <<>> /\ NewLog.synced = 0
      BY DEF NewLog
    <2>2. ToSet(<<>>) = {}
      BY DEF ToSet
    <2>3. SubSeq(<<>>, 1, 0) = <<>>
      OBVIOUS
    <2> QED
      BY <2>1, <2>2, <2>3, EntriesOfUnion DEF CertainEntries, Doubtful
  <1>3. \A n \in M : K[n] = L[n]
    OBVIOUS
  <1> HIDE DEF M, N
  <1>4. LoggedIn(K, N) = LoggedIn(L, M)
    BY <1>1, <1>2, <1>3 DEF LoggedIn
  <1>5. CertainIn(K, N) = CertainIn(L, M)
    BY <1>1, <1>2, <1>3 DEF CertainIn
  <1>6. HardIn(K, N) = HardIn(L, M)
    BY <1>1, <1>2, <1>3 DEF HardIn
  <1>7. Unique(TablesOf(T, Files(v)) \cup LoggedIn(L, M))
    BY DEF DiskOK, M
  <1> QED
    BY <1>4, <1>5, <1>6, <1>7, DiskGrows DEF M, N

\* Q and R are what is promised instead of P and S, once r is appended.
PromisedMore(L, m, r, K, P, S, Q, R) ==
    /\ Q \subseteq P \cup (IF r.doubtful THEN {} ELSE Batches(Entries(r)))
    /\ R \subseteq S \cup (IF r.doubtful \/ K[m].synced = L[m].synced THEN {} ELSE Batches(Entries(r)))

\* A record whose sequence numbers are new is appended to a log that counts.
LEMMA DiskLogged ==
    ASSUME NEW T, NEW L, NEW v, NEW P, NEW S, DiskOK(T, L, v, P, S),
           NEW m, NEW r, NEW K, Appended(L, m, r, K), m >= v.logNumber,
           Unique(TablesOf(T, Files(v)) \cup LoggedIn(L, DOMAIN L) \cup Entries(r)),
           NEW Q, NEW R, PromisedMore(L, m, r, K, P, S, Q, R)
    PROVE  DiskOK(T, K, v, Q, R)
  <1> DEFINE k == v.logNumber
             N == Since(L, k)
  <1>1. Since(K, k) = N /\ N \subseteq DOMAIN L /\ m \in N
    BY DEF Since, Appended
  <1> HIDE DEF N
  <1>2. /\ LoggedIn(K, N) = LoggedIn(L, N) \cup Entries(r)
        /\ CertainIn(K, N) = CertainIn(L, N) \cup (IF r.doubtful THEN {} ELSE Entries(r))
        /\ HardIn(L, N) \subseteq HardIn(K, N)
        /\ K[m].synced = Len(L[m].records) + 1 /\ ~r.doubtful => Entries(r) \subseteq HardIn(K, N)
    BY <1>1, LogAppended
  <1>3. LoggedIn(L, N) \subseteq LoggedIn(L, DOMAIN L)
    BY <1>1 DEF LoggedIn
  <1>4. Unique(TablesOf(T, Files(v)) \cup LoggedIn(K, N))
    BY <1>2, <1>3 DEF Unique
  <1>5. Q \subseteq P \cup Batches(CertainIn(K, N))
    <2>1. CASE r.doubtful
      BY <2>1 DEF PromisedMore
    <2>2. CASE ~r.doubtful
      <3>1. Entries(r) \subseteq CertainIn(K, N)
        BY <1>2, <2>2
      <3> QED
        BY <2>2, <3>1, BatchesUnion DEF PromisedMore
    <2> QED
      BY <2>1, <2>2
  <1>6. R \subseteq S \cup Batches(HardIn(K, N))
    <2>1. CASE r.doubtful \/ K[m].synced = L[m].synced
      BY <2>1 DEF PromisedMore
    <2>2. CASE ~(r.doubtful \/ K[m].synced = L[m].synced)
      <3>1. Entries(r) \subseteq HardIn(K, N)
        BY <1>2, <2>2 DEF Appended
      <3> QED
        BY <2>2, <3>1, BatchesUnion DEF PromisedMore
    <2> QED
      BY <2>1, <2>2
  <1>7. Files(v) \subseteq DOMAIN T
    BY DEF DiskOK
  <1> QED
    BY <1>1, <1>2, <1>4, <1>5, <1>6, <1>7, DiskGrows DEF N

-----------------------------------------------------------------------------
(***************************************************************************)
(* The queue of writers.                                                   *)
(***************************************************************************)
LEMMA QueueFacts ==
    ASSUME CallsTyped, QueueOK
    PROVE  /\ Len(writers) \in Nat /\ DOMAIN writers = 1..Len(writers)
           /\ \A i \in 1..Len(writers) : writers[i] \in Writers
           /\ writers # <<>> <=> Len(writers) > 0
           /\ writers # <<>> => Head(writers) = writers[1]
           /\ \A w \in Writers : writer[w].pc \in {"front", "waitBg", "logging"} =>
                Len(writers) > 0 /\ w = writers[1]
  <1>1. /\ Len(writers) \in Nat /\ DOMAIN writers = 1..Len(writers)
        /\ \A i \in 1..Len(writers) : writers[i] \in Writers
        /\ writers # <<>> <=> Len(writers) > 0
        /\ writers # <<>> => Head(writers) = writers[1]
    BY DEF CallsTyped
  <1>2. ASSUME NEW w \in Writers, writer[w].pc \in {"front", "waitBg", "logging"}
        PROVE  Len(writers) > 0 /\ w = writers[1]
    <2>1. PICK i \in DOMAIN writers : writers[i] = w
      BY <1>2 DEF QueueOK
    <2>2. i = 1
      BY <1>1, <1>2, <2>1 DEF QueueOK
    <2> QED
      BY <1>1, <2>1, <2>2
  <1> QED
    BY <1>1, <1>2

LEMMA PopKeepsQueue ==
    ASSUME CallsTyped, QueueOK, NEW n \in 1..Len(writers), PopWriters(n),
           calls'.batches \in Nat, calls'.batches >= calls.batches
    PROVE  writers' \in Seq(Writers) /\ writer' \in [Writers -> WriterRecords] /\ QueueOK'
  <1> DEFINE rest == SubSeq(writers, n + 1, Len(writers))
  <1>1. /\ Len(writers) \in Nat /\ DOMAIN writers = 1..Len(writers)
        /\ \A i \in 1..Len(writers) : writers[i] \in Writers
    BY QueueFacts
  <1>2. /\ writers' = rest /\ rest \in Seq(Writers) /\ Len(rest) = Len(writers) - n
        /\ DOMAIN rest = 1..Len(rest) /\ \A i \in 1..Len(rest) : rest[i] = writers[n + i]
    BY <1>1, SubSeqProperties DEF PopWriters, CallsTyped
  <1> HIDE DEF rest
  <1>3. rest # <<>> <=> Len(rest) > 0
    BY <1>1, <1>2, EmptySeq
  <1>4. Len(rest) > 0 => Head(rest) = rest[1]
    BY <1>2
  <1>5. /\ DOMAIN writer' = Writers
        /\ \A i \in 1..n : writer'[writers[i]] = IdleWriter
        /\ Len(rest) > 0 => writer'[rest[1]] = [writer[rest[1]] EXCEPT !.pc = "front"]
        /\ \A w \in Writers :
            \/ writer'[w] = IdleWriter
            \/ Len(rest) > 0 /\ w = rest[1]
            \/ writer'[w] = writer[w]
        /\ \A w \in Writers : (\A i \in 1..n : writers[i] # w) /\ (Len(rest) > 0 => w # rest[1])
             => writer'[w] = writer[w]
    <2>1. writer' = [w \in Writers |->
                    IF \E i \in 1..n : writers[i] = w THEN IdleWriter
                    ELSE IF rest # <<>> /\ w = Head(rest) THEN [writer[w] EXCEPT !.pc = "front"]
                    ELSE writer[w]]
      BY DEF PopWriters, rest
    <2>2. Len(rest) > 0 => rest[1] \in Writers /\ \A i \in 1..n : writers[i] # rest[1]
      BY <1>1, <1>2 DEF QueueOK
    <2> QED
      BY <1>1, <1>3, <1>4, <2>1, <2>2
  <1>6. \A w \in Writers : writer[w] \in WriterRecords
    BY DEF CallsTyped
  <1>7. IdleWriter \in WriterRecords /\ IdleWriter.pc = "idle"
    BY DEF IdleWriter, WriterRecords
  <1>8. Len(rest) > 0 =>
        /\ rest[1] \in Writers /\ writer'[rest[1]] \in WriterRecords
        /\ writer'[rest[1]].pc = "front" /\ writer'[rest[1]].batch = writer[rest[1]].batch
    <2>1. Len(rest) > 0 => rest[1] \in Writers
      BY <1>1, <1>2
    <2> QED
      BY <1>5, <1>6, <2>1 DEF WriterRecords
  <1>9. writer' \in [Writers -> WriterRecords]
    <2>1. \A w \in Writers : writer'[w] \in WriterRecords
      BY <1>5, <1>6, <1>7, <1>8
    <2>2. writer' = [w \in Writers |-> writer'[w]]
      BY DEF PopWriters
    <2> QED
      BY <2>1, <2>2
  <1>10. \A i, j \in DOMAIN writers' : writers'[i] = writers'[j] => i = j
    <2> SUFFICES ASSUME NEW i \in 1..Len(rest), NEW j \in 1..Len(rest), rest[i] = rest[j] PROVE i = j
      BY <1>2
    <2>1. n + i \in DOMAIN writers /\ n + j \in DOMAIN writers /\ writers[n + i] = writers[n + j]
      <3>1. rest[i] = writers[n + i] /\ rest[j] = writers[n + j] /\ Len(rest) = Len(writers) - n
        BY <1>2
      <3>2. n + i \in 1..Len(writers) /\ n + j \in 1..Len(writers)
        BY <1>1, <3>1
      <3> QED
        BY <1>1, <3>1, <3>2
    <2>2. n + i = n + j
      BY <2>1 DEF QueueOK
    <2> QED
      BY <1>1, <1>2, <2>2
  <1>11. ASSUME NEW i \in 1..Len(rest)
         PROVE  /\ rest[i] \in Writers /\ \A j \in 1..n : writers[j] # rest[i]
                /\ writer[rest[i]].pc = "asleep"
                /\ i > 1 => writer'[rest[i]] = writer[rest[i]]
    <2>1. n + i \in 1..Len(writers) /\ rest[i] = writers[n + i] /\ n + i > 1
      BY <1>1, <1>2
    <2>2. rest[i] \in Writers /\ writer[rest[i]].pc = "asleep"
      BY <1>1, <2>1 DEF QueueOK
    <2>3. \A j \in 1..n : writers[j] # rest[i]
      BY <1>1, <2>1 DEF QueueOK
    <2>4. i > 1 => rest[1] # rest[i]
      BY <1>2, <1>10
    <2> QED
      BY <1>5, <2>2, <2>3, <2>4
  <1>12. ASSUME NEW w \in Writers
         PROVE  writer'[w].pc # "idle" <=> \E i \in DOMAIN writers' : writers'[i] = w
    <2>1. CASE \E i \in 1..n : writers[i] = w
      BY <1>2, <1>5, <1>7, <1>11, <2>1
    <2>2. CASE \A i \in 1..n : writers[i] # w
      <3>1. writer[w].pc # "idle" <=> \E i \in 1..Len(rest) : rest[i] = w
        <4>1. writer[w].pc # "idle" <=> \E i \in 1..Len(writers) : writers[i] = w
          BY <1>1 DEF QueueOK
        <4>2. ASSUME NEW i \in 1..Len(writers), writers[i] = w PROVE i - n \in 1..Len(rest) /\ rest[i - n] = w
          BY <1>1, <1>2, <2>2, <4>2
        <4>3. ASSUME NEW i \in 1..Len(rest), rest[i] = w PROVE n + i \in 1..Len(writers) /\ writers[n + i] = w
          BY <1>1, <1>2, <4>3
        <4> QED
          BY <4>1, <4>2, <4>3
      <3> QED
        BY <1>2, <1>5, <1>8, <1>11, <2>2, <3>1
    <2> QED
      BY <2>1, <2>2
  <1>13. \A i \in DOMAIN writers' : (writer'[writers'[i]].pc = "asleep") <=> (i > 1)
    BY <1>2, <1>8, <1>11
  <1>14. ASSUME NEW w \in Writers
         PROVE  /\ writer'[w].pc # "idle" => writer'[w].batch \in 1..calls'.batches
                /\ writer'[w].pc # "logging"
    <2>1. CASE writer'[w].pc = "idle"
      BY <2>1
    <2>2. CASE writer'[w].pc # "idle"
      <3>1. PICK i \in 1..Len(rest) : rest[i] = w
        BY <1>2, <1>12, <2>2
      <3>2. writer'[w].batch = writer[w].batch /\ writer'[w].pc \in {"front", "asleep"}
        BY <1>8, <1>11, <3>1
      <3>3. writer[w].batch \in 1..calls.batches
        BY <1>11, <3>1 DEF QueueOK
      <3>4. calls.batches \in Nat
        BY DEF CallsTyped
      <3> QED
        BY <3>2, <3>3, <3>4
    <2> QED
      BY <2>1, <2>2
  <1>15. QueueOK'
    BY <1>10, <1>12, <1>13, <1>14 DEF QueueOK
  <1> QED
    BY <1>2, <1>9, <1>15

LEMMA SignalKeepsQueue ==
    ASSUME CallsTyped, QueueOK, writer' = SignalAll, UNCHANGED writers,
           calls'.batches = calls.batches
    PROVE  writer' \in [Writers -> WriterRecords] /\ QueueOK'
  <1>1. ASSUME NEW w \in Writers
        PROVE  /\ writer'[w] \in WriterRecords
               /\ writer'[w].batch = writer[w].batch /\ writer'[w].group = writer[w].group
               /\ writer'[w].sync = writer[w].sync
               /\ writer'[w].pc = "idle" <=> writer[w].pc = "idle"
               /\ writer'[w].pc = "asleep" <=> writer[w].pc = "asleep"
               /\ writer'[w].pc = "logging" <=> writer[w].pc = "logging"
    <2>1. writer[w] \in WriterRecords
      BY DEF CallsTyped
    <2> QED
      BY <2>1 DEF SignalAll, WriterRecords
  <1>2. writer' \in [Writers -> WriterRecords]
    BY <1>1 DEF SignalAll
  <1>3. \A i \in DOMAIN writers : writers[i] \in Writers
    BY DEF CallsTyped
  <1>4. \A w \in Writers : writer[w].pc = "logging" => \A i \in 1..writer[w].group : i \in DOMAIN writers
    BY QueueFacts DEF QueueOK, CallsTyped, WriterRecords
  <1> QED
    BY <1>1, <1>2, <1>3, <1>4 DEF QueueOK

-----------------------------------------------------------------------------
(***************************************************************************)
(* Steps of the writers that leave the database alone.                     *)
(***************************************************************************)
\* The invariant without the queue.
StoreOK ==
    /\ FilesTyped /\ MemoryTyped /\ PromisesOK
    /\ ManifestOK(manifest)
    /\ RecoveringOK /\ OpeningOK
    /\ NumbersOK /\ SequencesOK /\ MemoryOK
    /\ FlushOK /\ MergeOK /\ EditOK

LEMMA LevelParts == LevelIInv <=> StoreOK /\ CallsTyped /\ QueueOK /\ NotOpenIsQuiet
  BY DEF LevelIInv, StoreOK

LEMMA StoreAlone ==
    ASSUME StoreOK, UNCHANGED <<diskVars, vs, db, bg, promised, synced>>,
           calls.batches \in Nat, calls'.batches \in Nat, calls'.batches >= calls.batches
    PROVE  StoreOK'
  <1>1. UNCHANGED <<logs, tables, manifest, damage, vs, db, bg, promised, synced>>
    BY DEF diskVars
  <1>2. FilesTyped' /\ MemoryTyped' /\ PromisesOK'
    BY <1>1 DEF StoreOK, FilesTyped, MemoryTyped, PromisesOK
  <1>3. ManifestOK(manifest)' /\ EditOK'
    BY <1>1 DEF StoreOK, ManifestOK, EditOK, Editing
  <1>4. RecoveringOK' /\ OpeningOK'
    BY <1>1 DEF StoreOK, RecoveringOK, OpeningOK, LiveLogs
  <1>5. NumbersOK' /\ SequencesOK' /\ MemoryOK'
    BY <1>1 DEF StoreOK, NumbersOK, SequencesOK, MemoryOK, Known
  <1>6. FlushOK' /\ MergeOK'
    BY <1>1 DEF StoreOK, FlushOK, MergeOK
  <1> QED
    BY <1>2, <1>3, <1>4, <1>5, <1>6 DEF StoreOK

LEMMA FrontIsOpen ==
    ASSUME LevelIInv, writers # <<>> PROVE db.status = "open"
  BY DEF LevelIInv, NotOpenIsQuiet

LEMMA RoomErrorStep ==
    ASSUME LevelIInv, NEW w \in Writers, RoomError(w) PROVE LevelIInv'
  <1>1. StoreOK /\ CallsTyped /\ QueueOK /\ NotOpenIsQuiet
    BY LevelParts
  <1>2. 1 \in 1..Len(writers) /\ db.status = "open"
    BY <1>1, QueueFacts, FrontIsOpen DEF RoomError, IsFront
  <1>3. calls' = calls /\ calls.batches \in Nat
    BY <1>1 DEF RoomError, CallsTyped
  <1>4. writers' \in Seq(Writers) /\ writer' \in [Writers -> WriterRecords] /\ QueueOK'
    BY <1>1, <1>2, <1>3, PopKeepsQueue DEF RoomError
  <1>5. StoreOK'
    BY <1>1, <1>3, StoreAlone DEF RoomError
  <1>6. NotOpenIsQuiet'
    BY <1>2 DEF RoomError, NotOpenIsQuiet
  <1> QED
    BY <1>1, <1>3, <1>4, <1>5, <1>6, LevelParts DEF CallsTyped, LevelIInv, StoreOK

LEMMA IoErrorIs ==
    ASSUME CallsTyped, IoError
    PROVE  /\ calls' \in [batches : Nat, stops : Nat, errors : Nat]
           /\ calls.batches \in Nat /\ calls'.batches = calls.batches
  BY DEF CallsTyped, IoError

LEMMA RoomRollFailsStep ==
    ASSUME LevelIInv, NEW w \in Writers, RoomRollFails(w) PROVE LevelIInv'
  <1>1. StoreOK /\ CallsTyped /\ QueueOK /\ NotOpenIsQuiet
    BY LevelParts
  <1>2. 1 \in 1..Len(writers) /\ db.status = "open"
    BY <1>1, QueueFacts, FrontIsOpen DEF RoomRollFails, MayRoll, IsFront
  <1>3. /\ calls' \in [batches : Nat, stops : Nat, errors : Nat]
        /\ calls.batches \in Nat /\ calls'.batches = calls.batches
    BY <1>1, IoErrorIs DEF RoomRollFails
  <1>4. writers' \in Seq(Writers) /\ writer' \in [Writers -> WriterRecords] /\ QueueOK'
    BY <1>1, <1>2, <1>3, PopKeepsQueue DEF RoomRollFails
  <1>5. StoreOK'
    BY <1>1, <1>3, StoreAlone DEF RoomRollFails
  <1>6. NotOpenIsQuiet'
    BY <1>2 DEF RoomRollFails, NotOpenIsQuiet
  <1> QED
    BY <1>3, <1>4, <1>5, <1>6 DEF CallsTyped, LevelIInv, StoreOK

\* The group has the head in it, is no longer than the queue, and whoever asked for a
\* sync is in it only if the head did.
LEMMA GroupIs ==
    ASSUME CallsTyped, QueueOK, Len(writers) > 0
    PROVE  /\ BuildBatchGroup \in 1..Len(writers)
           /\ \A i \in 1..BuildBatchGroup : writer[writers[i]].sync => writer[writers[1]].sync
  <1> DEFINE G == {n \in 1..MaxGroup :
                     /\ n <= Len(writers)
                     /\ \A i \in 2..n : writer[writers[i]].sync => writer[Head(writers)].sync}
  <1>1. Len(writers) \in Nat /\ Head(writers) = writers[1]
    BY QueueFacts
  <1>2. MaxGroup \in Nat /\ MaxGroup >= 1
    BY TriggerAssumption
  <1>3. G \subseteq Int /\ 1 \in G
    BY <1>1, <1>2
  <1>4. \A n \in G : n <= MaxGroup
    BY <1>2
  <1>5. Max(G) \in G
    <2> HIDE DEF G
    <2>1. G # {} /\ MaxGroup \in Int
      BY <1>2, <1>3
    <2> QED
      BY <1>3, <1>4, <2>1, BoundedMax
  <1>6. BuildBatchGroup = Max(G)
    BY DEF BuildBatchGroup
  <1> HIDE DEF G
  <1>7. BuildBatchGroup \in G
    BY <1>5, <1>6
  <1> QED
    BY <1>1, <1>2, <1>7 DEF G

LEMMA LoggingKeepsQueue ==
    ASSUME CallsTyped, QueueOK, NEW w \in Writers, IsFront(w), writer' = Logging(w),
           UNCHANGED <<writers, calls>>
    PROVE  CallsTyped' /\ QueueOK'
  <1>1. /\ Len(writers) \in Nat /\ Len(writers) > 0 /\ w = writers[1]
        /\ DOMAIN writers = 1..Len(writers)
        /\ \A i \in 1..Len(writers) : writers[i] \in Writers
    BY QueueFacts DEF IsFront
  <1>2. /\ BuildBatchGroup \in 1..Len(writers)
        /\ \A i \in 1..BuildBatchGroup : writer[writers[i]].sync => writer[w].sync
    BY <1>1, GroupIs
  <1>3. /\ \A u \in Writers : u # w => writer'[u] = writer[u]
        /\ writer'[w].pc = "logging" /\ writer'[w].group = BuildBatchGroup
        /\ writer'[w].batch = writer[w].batch
        /\ \A u \in Writers : writer'[u].sync = writer[u].sync
        /\ writer' \in [Writers -> WriterRecords]
    <2>1. writer \in [Writers -> WriterRecords] /\ BuildBatchGroup \in Nat
      BY <1>1, <1>2 DEF CallsTyped
    <2>2. writer' = [writer EXCEPT ![w] = [writer[w] EXCEPT !.pc = "logging", !.group = BuildBatchGroup]]
      BY <2>1 DEF Logging, WriterRecords
    <2>3. DOMAIN writer = Writers /\ \A u \in Writers : writer[u] \in WriterRecords
      BY <2>1
    <2>4. [writer[w] EXCEPT !.pc = "logging", !.group = BuildBatchGroup] \in WriterRecords
      BY <2>1, <2>3 DEF WriterRecords
    <2>5. writer' \in [Writers -> WriterRecords]
      BY <2>1, <2>2, <2>4
    <2>6. writer'[w] = [writer[w] EXCEPT !.pc = "logging", !.group = BuildBatchGroup]
      BY <2>2, <2>3
    <2>7. /\ writer'[w].pc = "logging" /\ writer'[w].group = BuildBatchGroup
          /\ writer'[w].batch = writer[w].batch /\ writer'[w].sync = writer[w].sync
      BY <2>3, <2>6 DEF WriterRecords
    <2>8. \A u \in Writers : u # w => writer'[u] = writer[u]
      BY <2>2, <2>3
    <2> QED
      BY <2>5, <2>7, <2>8
  <1>4. writer[w].pc = "front"
    BY DEF IsFront
  <1>5. \A u \in Writers : u # w => writer[u].pc # "logging"
    BY <1>1, QueueFacts
  <1>6. QueueOK'
    <2>1. \A i \in DOMAIN writers : (writer'[writers[i]].pc = "asleep") <=> (i > 1)
      BY <1>1, <1>3, <1>4 DEF QueueOK
    <2>2. \A u \in Writers : writer'[u].pc # "idle" <=> \E i \in DOMAIN writers : writers[i] = u
      BY <1>1, <1>3, <1>4 DEF QueueOK
    <2>3. \A u \in Writers : writer'[u].pc # "idle" => writer'[u].batch \in 1..calls.batches
      BY <1>3, <1>4 DEF QueueOK
    <2>4. \A u \in Writers : writer'[u].pc = "logging" =>
             /\ writer'[u].group \in 1..Len(writers)
             /\ \A i \in 1..writer'[u].group : writer'[writers[i]].sync => writer'[u].sync
      BY <1>1, <1>2, <1>3, <1>5
    <2> QED
      BY <2>1, <2>2, <2>3, <2>4 DEF QueueOK
  <1> QED
    BY <1>3, <1>6 DEF CallsTyped

LEMMA RoomNowStep ==
    ASSUME LevelIInv, NEW w \in Writers, RoomNow(w) PROVE LevelIInv'
  <1>1. StoreOK /\ CallsTyped /\ QueueOK /\ NotOpenIsQuiet
    BY LevelParts
  <1>2. CallsTyped' /\ QueueOK'
    BY <1>1, LoggingKeepsQueue DEF RoomNow
  <1>3. StoreOK'
    BY <1>1, StoreAlone DEF RoomNow, CallsTyped
  <1>4. NotOpenIsQuiet'
    BY <1>1, FrontIsOpen DEF RoomNow, IsFront, NotOpenIsQuiet
  <1> QED
    BY <1>2, <1>3, <1>4 DEF LevelIInv, StoreOK

LEMMA RoomWaitStep ==
    ASSUME LevelIInv, NEW w \in Writers, RoomWait(w) PROVE LevelIInv'
  <1>1. StoreOK /\ CallsTyped /\ QueueOK /\ NotOpenIsQuiet
    BY LevelParts
  <1>2. /\ \A u \in Writers : u # w => writer'[u] = writer[u]
        /\ writer'[w].pc = "waitBg" /\ writer[w].pc = "front"
        /\ \A u \in Writers : writer'[u].sync = writer[u].sync /\ writer'[u].batch = writer[u].batch
                              /\ writer'[u].group = writer[u].group
        /\ writer' \in [Writers -> WriterRecords]
        /\ UNCHANGED <<writers, calls>>
    BY <1>1 DEF RoomWait, IsFront, CallsTyped, WriterRecords
  <1>3. /\ DOMAIN writers = 1..Len(writers) /\ \A i \in DOMAIN writers : writers[i] \in Writers
        /\ \A u \in Writers : u # w => writer[u].pc # "logging"
    BY <1>1, <1>2, QueueFacts
  <1>4. QueueOK'
    <2>1. \A i \in DOMAIN writers : (writer'[writers[i]].pc = "asleep") <=> (i > 1)
      BY <1>1, <1>2, <1>3 DEF QueueOK
    <2>2. \A u \in Writers : writer'[u].pc # "idle" <=> \E i \in DOMAIN writers : writers[i] = u
      BY <1>1, <1>2 DEF QueueOK
    <2>3. \A u \in Writers : writer'[u].pc # "idle" => writer'[u].batch \in 1..calls.batches
      BY <1>1, <1>2 DEF QueueOK
    <2> QED
      BY <1>1, <1>2, <1>3, <2>1, <2>2, <2>3 DEF QueueOK
  <1>5. CallsTyped'
    BY <1>1, <1>2 DEF CallsTyped
  <1>6. StoreOK'
    BY <1>1, StoreAlone DEF RoomWait, CallsTyped
  <1>7. NotOpenIsQuiet'
    BY <1>1, FrontIsOpen DEF RoomWait, IsFront, NotOpenIsQuiet
  <1> QED
    BY <1>4, <1>5, <1>6, <1>7 DEF LevelIInv, StoreOK

LEMMA WriteStep ==
    ASSUME LevelIInv, NEW w \in Writers, NEW sync \in BOOLEAN, Write(w, sync) PROVE LevelIInv'
  <1>1. StoreOK /\ CallsTyped /\ QueueOK /\ NotOpenIsQuiet
    BY LevelParts
  <1>2. /\ calls' \in [batches : Nat, stops : Nat, errors : Nat]
        /\ calls.batches \in Nat /\ calls'.batches = calls.batches + 1
    BY <1>1 DEF Write, CallsTyped
  <1> DEFINE n == Len(writers)
  <1>3. /\ n \in Nat /\ DOMAIN writers = 1..n /\ \A i \in 1..n : writers[i] \in Writers
        /\ writers = <<>> <=> n = 0
    BY <1>1, QueueFacts
  <1>4. /\ writers' \in Seq(Writers) /\ Len(writers') = n + 1 /\ DOMAIN writers' = 1..(n + 1)
        /\ writers'[n + 1] = w /\ \A i \in 1..n : writers'[i] = writers[i]
    BY <1>1, <1>3 DEF Write, CallsTyped
  <1>5. /\ \A u \in Writers : u # w => writer'[u] = writer[u]
        /\ writer'[w].pc = (IF writers = <<>> THEN "front" ELSE "asleep")
        /\ writer'[w].batch = calls.batches + 1
        /\ writer' \in [Writers -> WriterRecords]
        /\ writer[w].pc = "idle"
    BY <1>1, <1>2 DEF Write, CallsTyped, WriterRecords
  <1> HIDE DEF n
  <1>6. \A i \in 1..n : writers[i] # w
    BY <1>1, <1>3, <1>5 DEF QueueOK
  <1>7. QueueOK'
    <2>1. \A i, j \in DOMAIN writers' : writers'[i] = writers'[j] => i = j
      <3> SUFFICES ASSUME NEW i \in 1..(n + 1), NEW j \in 1..(n + 1), writers'[i] = writers'[j]
                   PROVE  i = j
        BY <1>4
      <3>1. (i \in 1..n \/ i = n + 1) /\ (j \in 1..n \/ j = n + 1)
        BY <1>3
      <3> QED
        BY <1>1, <1>3, <1>4, <1>6, <3>1 DEF QueueOK
    <2>2. \A i \in DOMAIN writers' : (writer'[writers'[i]].pc = "asleep") <=> (i > 1)
      <3> SUFFICES ASSUME NEW i \in 1..(n + 1)
                   PROVE  (writer'[writers'[i]].pc = "asleep") <=> (i > 1)
        BY <1>4
      <3>1. CASE i \in 1..n
        BY <1>1, <1>3, <1>4, <1>5, <1>6, <3>1 DEF QueueOK
      <3>2. CASE i = n + 1
        BY <1>3, <1>4, <1>5, <3>2
      <3> QED
        BY <1>3, <3>1, <3>2
    <2>3. \A u \in Writers : writer'[u].pc # "idle" <=> \E i \in DOMAIN writers' : writers'[i] = u
      <3> SUFFICES ASSUME NEW u \in Writers
                   PROVE  writer'[u].pc # "idle" <=> \E i \in 1..(n + 1) : writers'[i] = u
        BY <1>4
      <3>1. CASE u = w
        BY <1>3, <1>4, <1>5, <3>1
      <3>2. CASE u # w
        <4>1. writer[u].pc # "idle" <=> \E i \in 1..n : writers[i] = u
          BY <1>1, <1>3 DEF QueueOK
        <4>2. \A i \in 1..(n + 1) : i \in 1..n \/ i = n + 1
          BY <1>3
        <4>3. \A i \in 1..n : i \in 1..(n + 1)
          BY <1>3
        <4> QED
          BY <1>4, <1>5, <3>2, <4>1, <4>2, <4>3
      <3> QED
        BY <3>1, <3>2
    <2>4. \A u \in Writers : writer'[u].pc # "idle" => writer'[u].batch \in 1..calls'.batches
      BY <1>1, <1>2, <1>5 DEF QueueOK
    <2>5. \A u \in Writers : writer'[u].pc = "logging" =>
             /\ writer'[u].group \in 1..(n + 1)
             /\ \A i \in 1..writer'[u].group : writer'[writers'[i]].sync => writer'[u].sync
      <3> SUFFICES ASSUME NEW u \in Writers, writer'[u].pc = "logging"
                   PROVE  /\ writer'[u].group \in 1..(n + 1)
                          /\ \A i \in 1..writer'[u].group : writer'[writers'[i]].sync => writer'[u].sync
        OBVIOUS
      <3>1. u # w /\ writer'[u] = writer[u]
        BY <1>5
      <3>2. writer[u].group \in 1..n /\ \A i \in 1..writer[u].group : writer[writers[i]].sync => writer[u].sync
        BY <1>1, <3>1 DEF QueueOK, n
      <3>3. \A i \in 1..writer[u].group : i \in 1..n /\ writers'[i] = writers[i] /\ writers[i] # w /\ writers[i] \in Writers
        BY <1>3, <1>4, <1>6, <3>2
      <3> QED
        BY <1>3, <1>5, <3>1, <3>2, <3>3
    <2> QED
      BY <1>4, <2>1, <2>2, <2>3, <2>4, <2>5 DEF QueueOK
  <1>8. CallsTyped'
    BY <1>2, <1>4, <1>5 DEF CallsTyped
  <1>9. StoreOK'
    BY <1>1, <1>2, StoreAlone DEF Write
  <1>10. NotOpenIsQuiet'
    BY DEF Write, NotOpenIsQuiet
  <1> QED
    BY <1>7, <1>8, <1>9, <1>10 DEF LevelIInv, StoreOK

-----------------------------------------------------------------------------
(***************************************************************************)
(* Steps of the writers that change the log.                               *)
(***************************************************************************)
LEMMA ScheduleIs ==
    ASSUME NEW d \in DbRecords, NEW v
    PROVE  /\ MaybeSchedule(d, v) \in DbRecords
           /\ MaybeSchedule(d, v).status = d.status /\ MaybeSchedule(d, v).mem = d.mem
           /\ MaybeSchedule(d, v).imm = d.imm /\ MaybeSchedule(d, v).logfile = d.logfile
           /\ MaybeSchedule(d, v).recover = d.recover /\ MaybeSchedule(d, v).pending = d.pending
           /\ MaybeSchedule(d, v).bgError = d.bgError /\ MaybeSchedule(d, v).shutting = d.shutting
  <1>1. Scheduled(d, v) \in BOOLEAN
    BY DEF Scheduled, DbRecords
  <1> QED
    BY <1>1 DEF MaybeSchedule, DbRecords

LEMMA VersionFiles ==
    ASSUME NEW v \in Versions
    PROVE  Files(v) \subseteq Nat
  BY DEF Files, Versions

LEMMA ApplyIs ==
    ASSUME NEW v \in Versions, NEW e \in Edits
    PROVE  /\ Apply(v, e) \in Versions
           /\ Files(Apply(v, e)) = (Files(v) \ e.del) \cup e.add0 \cup e.add1
           /\ Apply(v, e).logNumber = e.logNumber /\ Apply(v, e).nextFile = e.nextFile
           /\ Apply(v, e).lastSequence = e.lastSequence
           /\ Install(v, e) \in Versions
           /\ Files(Install(v, e)) = (Files(v) \ e.del) \cup e.add0 \cup e.add1
           /\ Install(v, e).logNumber = e.logNumber /\ Install(v, e).nextFile = v.nextFile
           /\ Install(v, e).lastSequence = v.lastSequence
  BY DEF Apply, Install, Files, Versions, Edits

LEMMA RoomRollStep ==
    ASSUME LevelIInv, NEW w \in Writers, RoomRoll(w) PROVE LevelIInv'
  <1>1. StoreOK /\ CallsTyped /\ QueueOK /\ NotOpenIsQuiet
    BY LevelParts
  <1>2. FilesTyped /\ MemoryTyped /\ PromisesOK /\ NumbersOK /\ SequencesOK /\ MemoryOK /\ FlushOK
        /\ MergeOK /\ EditOK /\ ManifestOK(manifest)
    BY <1>1 DEF StoreOK
  <1>3. CallsTyped' /\ QueueOK'
    BY <1>1, LoggingKeepsQueue DEF RoomRoll, MayRoll
  <1>4. db.status = "open" /\ db.imm = {} /\ bg.flush = "none"
    BY <1>1, <1>2, FrontIsOpen DEF RoomRoll, MayRoll, IsFront, FlushOK
  <1>5. /\ UNCHANGED <<tables, manifest, damage, bg, calls, promised, synced>>
        /\ vs' \in Versions /\ vs'.nextFile = vs.nextFile + 1 /\ vs.nextFile \in Nat
        /\ vs'.l0 = vs.l0 /\ vs'.l1 = vs.l1 /\ vs'.logNumber = vs.logNumber
        /\ vs'.lastSequence = vs.lastSequence
    BY <1>2 DEF RoomRoll, MemoryTyped, Versions
  <1>6. /\ db' \in DbRecords /\ db'.status = "open" /\ db'.mem = {} /\ db'.imm = {db.mem}
        /\ db'.logfile = vs.nextFile /\ db'.pending = db.pending /\ db'.bgError = db.bgError
    <2> DEFINE d == [db EXCEPT !.mem = {}, !.imm = {db.mem}, !.logfile = vs.nextFile]
    <2>1. /\ d \in DbRecords /\ d.status = "open" /\ d.mem = {} /\ d.imm = {db.mem}
          /\ d.logfile = vs.nextFile /\ d.pending = db.pending /\ d.bgError = db.bgError
      BY <1>2, <1>4, <1>5 DEF MemoryTyped, DbRecords
    <2>2. db' = MaybeSchedule(d, vs)
      BY DEF RoomRoll
    <2> HIDE DEF d
    <2> QED
      BY <2>1, <2>2, ScheduleIs
  <1> DEFINE n == vs.nextFile
  <1>7. /\ n \notin DOMAIN logs /\ n \in Nat /\ DOMAIN logs' = DOMAIN logs \cup {n} /\ logs'[n] = NewLog
        /\ \A m \in DOMAIN logs : logs'[m] = logs[m]
    <2>1. n \notin DOMAIN logs /\ n \in Nat
      BY <1>2, <1>4, <1>5 DEF NumbersOK, FilesTyped
    <2>2. logs' = With(logs, n, NewLog)
      BY DEF RoomRoll
    <2> HIDE DEF n
    <2>3. /\ DOMAIN With(logs, n, NewLog) = DOMAIN logs \cup {n}
          /\ With(logs, n, NewLog)[n] = NewLog
          /\ \A m \in DOMAIN logs : m # n => With(logs, n, NewLog)[m] = logs[m]
      BY DEF With
    <2> QED
      BY <2>1, <2>2, <2>3
  <1>8. NewLog \in LogFiles /\ NewLog.synced <= Len(NewLog.records)
    BY DEF NewLog, LogFiles
  <1> HIDE DEF n
  <1>9. logs' = [m \in DOMAIN logs' |-> logs'[m]]
    BY DEF RoomRoll, With
  <1>10. FilesTyped'
    BY <1>2, <1>5, <1>7, <1>8, <1>9 DEF FilesTyped
  <1>11. MemoryTyped' /\ PromisesOK'
    BY <1>2, <1>5, <1>6 DEF MemoryTyped, PromisesOK
  <1>12. ASSUME NEW v, ManifestOK(v) PROVE DiskOK(tables', logs', v, promised', synced')
    <2>1. DiskOK(tables, logs, v, promised, synced) /\ Files(v) \subseteq DOMAIN tables
      BY <1>12 DEF ManifestOK, DiskOK
    <2>2. DiskOK(tables, logs', v, promised, synced)
      BY <1>7, <2>1, DiskOtherLogs DEF Since
    <2> QED
      BY <1>5, <2>2
  <1>13. ManifestOK(manifest)'
    BY <1>2, <1>5, <1>12 DEF ManifestOK
  <1>14. EditOK'
    BY <1>2, <1>4, <1>5, <1>6, <1>12 DEF EditOK, Editing, ManifestOK
  <1>15. RecoveringOK' /\ OpeningOK' /\ NotOpenIsQuiet'
    BY <1>6 DEF RecoveringOK, OpeningOK, NotOpenIsQuiet
  <1>16. Files(vs') = Files(vs)
    BY <1>5 DEF Files
  <1>17. NumbersOK'
    <2>1. \A m \in DOMAIN logs' : m < vs'.nextFile
      BY <1>2, <1>4, <1>5, <1>7 DEF NumbersOK, FilesTyped, n
    <2>2. manifest.logNumber <= db'.logfile
      BY <1>2, <1>4, <1>5, <1>6 DEF NumbersOK, FilesTyped, MemoryTyped, Versions, DbRecords
    <2>3. \A f \in DOMAIN tables : f < vs'.nextFile
      BY <1>2, <1>4, <1>5 DEF NumbersOK, FilesTyped
    <2> QED
      BY <1>2, <1>4, <1>5, <1>6, <1>7, <1>16, <2>1, <2>2, <2>3 DEF NumbersOK, n
  <1>18. LoggedIn(logs', DOMAIN logs') = LoggedIn(logs, DOMAIN logs)
    <2>1. LoggedIn(logs', DOMAIN logs') = LoggedIn(logs, DOMAIN logs' \ {n})
      BY <1>7, NewLogIsEmpty
    <2>2. DOMAIN logs' \ {n} = DOMAIN logs
      BY <1>7
    <2> QED
      BY <2>1, <2>2
  <1>19. SequencesOK'
    <2>1. Known' = Known
      BY <1>4, <1>5, <1>6, <1>18 DEF Known
    <2> QED
      BY <1>2, <1>4, <1>5, <2>1 DEF SequencesOK
  <1>20. MemoryOK'
    <2> DEFINE T == TablesOf(tables, Files(manifest))
               C == CertainIn(logs', {db'.logfile})
               H == HardIn(logs', {db'.logfile})
    <2>1. promised \subseteq Batches(T \cup db.mem)
      <3>1. promised \subseteq Batches(T \cup (UNION db.imm) \cup db.mem)
        BY <1>2, <1>4 DEF MemoryOK
      <3>2. UNION db.imm = {}
        BY <1>4
      <3> HIDE DEF T
      <3>3. T \cup (UNION db.imm) \cup db.mem = T \cup db.mem
        BY <3>2
      <3> QED
        BY <3>1, <3>3
    <2>2. synced \subseteq promised
      BY <1>2 DEF PromisesOK
    <2> HIDE DEF T, C, H
    <2>3. /\ Batches(T \cup db.mem) \subseteq Batches(T \cup db.mem \cup {})
          /\ Batches(T \cup db.mem) \subseteq Batches(T \cup db.mem \cup C)
          /\ Batches(T \cup db.mem) \subseteq Batches(T \cup db.mem \cup H)
      BY BatchesUnion
    <2>4. UNION db'.imm = db.mem
      BY <1>6
    <2>5. TablesOf(tables', Files(manifest')) = T /\ db'.mem = {}
      BY <1>5, <1>6 DEF T
    <2>6. /\ promised' \subseteq Batches(T \cup db.mem \cup {})
          /\ promised' \subseteq Batches(T \cup db.mem \cup C)
          /\ synced' \subseteq Batches(T \cup db.mem \cup H)
      BY <1>5, <2>1, <2>2, <2>3
    <2> QED
      BY <2>4, <2>5, <2>6 DEF MemoryOK, C, H
  <1>21. FlushOK' /\ MergeOK'
    BY <1>2, <1>4, <1>5, <1>6, <1>16 DEF FlushOK, MergeOK
  <1> QED
    BY <1>3, <1>10, <1>11, <1>13, <1>14, <1>15, <1>17, <1>19, <1>20, <1>21 DEF LevelIInv

\* The record of the group that thread w logs: it has the sequence numbers that come
\* next, and nothing known has one of them.
LEMMA RecordIs ==
    ASSUME LevelIInv, NEW w \in Writers, writer[w].pc = "logging"
    PROVE  /\ db.status = "open" /\ writer[w].group \in 1..Len(writers)
           /\ db.logfile \in DOMAIN logs /\ logs[db.logfile] \in LogFiles
           /\ Record(w) \in LogRecords /\ Record(w).doubtful = logs[db.logfile].torn
           /\ Batches(Entries(Record(w))) = {writer[v].batch : v \in Group(w)}
           /\ Batches(Entries(Record(w))) \subseteq 1..calls.batches
           /\ Unique(Known \cup Entries(Record(w)))
           /\ Entries(Record(w)) \subseteq EntryPairs
           /\ \A e \in Entries(Record(w)) : e[1] <= vs.lastSequence + writer[w].group
  <1>1. FilesTyped /\ MemoryTyped /\ CallsTyped /\ QueueOK /\ NumbersOK /\ SequencesOK
    BY DEF LevelIInv
  <1>2. /\ Len(writers) > 0 /\ w = writers[1] /\ Len(writers) \in Nat
        /\ \A i \in 1..Len(writers) : writers[i] \in Writers
    BY <1>1, QueueFacts
  <1>3. db.status = "open" /\ db.logfile \in DOMAIN logs /\ logs[db.logfile] \in LogFiles
    <2>1. writers # <<>>
      BY <1>1, <1>2, QueueFacts
    <2> QED
      BY <1>1, <2>1, FrontIsOpen DEF NumbersOK, FilesTyped
  <1> DEFINE g == writer[w].group
             r == Record(w)
             B == [i \in 1..g |-> writer[writers[i]].batch]
  <1>4. g \in 1..Len(writers) /\ g \in Nat
    BY <1>1, <1>2 DEF QueueOK
  <1>5. \A i \in 1..g : writers[i] \in Writers /\ writer[writers[i]].batch \in 1..calls.batches
    <2>1. \A i \in 1..g : i \in 1..Len(writers)
      BY <1>2, <1>4
    <2>2. \A i \in 1..Len(writers) : writer[writers[i]].pc # "idle"
      BY <1>1, <1>2, QueueFacts DEF QueueOK
    <2> QED
      BY <1>1, <1>2, <2>1, <2>2 DEF QueueOK
  <1>6. calls.batches \in Nat /\ vs.lastSequence \in Nat
    BY <1>1 DEF CallsTyped, MemoryTyped, Versions
  <1>7. B \in Seq(Nat) /\ Len(B) = g
    <2>1. \A i \in 1..g : B[i] \in Nat
      BY <1>5, <1>6
    <2>2. B \in [1..g -> Nat] /\ DOMAIN B = 1..g
      BY <2>1
    <2> HIDE DEF B, g
    <2>3. B \in Seq(Nat)
      BY <1>4, <2>2, SeqDef
    <2> QED
      BY <1>4, <2>2, <2>3, LenProperties
  <1>8. /\ r.first = vs.lastSequence + 1 /\ r.batches = B /\ r.doubtful = logs[db.logfile].torn
        /\ r = [first |-> vs.lastSequence + 1, batches |-> B, doubtful |-> logs[db.logfile].torn]
    BY DEF Record
  <1>9. logs[db.logfile].torn \in BOOLEAN
    BY <1>3 DEF LogFiles
  <1>10. r \in LogRecords
    <2> HIDE DEF B, r
    <2> QED
      BY <1>6, <1>7, <1>8, <1>9 DEF LogRecords
  <1>11. Entries(r) = {<<vs.lastSequence + i, writer[writers[i]].batch>> : i \in 1..g}
    <2>1. DOMAIN B = 1..g
      OBVIOUS
    <2>2. \A i \in 1..g : vs.lastSequence + 1 + i - 1 = vs.lastSequence + i
      BY <1>6
    <2> HIDE DEF r, g
    <2> QED
      BY <1>8, <2>1, <2>2 DEF Entries
  <1>12. Batches(Entries(r)) = {writer[v].batch : v \in Group(w)}
    <2>1. Batches(Entries(r)) = {writer[writers[i]].batch : i \in 1..g}
      <3>1. \A a, b : <<a, b>>[2] = b
        OBVIOUS
      <3> HIDE DEF r, g
      <3>2. \A e \in Entries(r) : \E i \in 1..g : e[2] = writer[writers[i]].batch
        BY <1>11, <3>1
      <3>3. \A i \in 1..g : \E e \in Entries(r) : e[2] = writer[writers[i]].batch
        BY <1>11, <3>1
      <3> QED
        BY <3>2, <3>3 DEF Batches
    <2>2. Group(w) = {writers[i] : i \in 1..g}
      BY DEF Group
    <2> HIDE DEF r, g
    <2> QED
      BY <2>1, <2>2
  <1>13. Batches(Entries(r)) \subseteq 1..calls.batches
    <2> HIDE DEF r, g
    <2> QED
      BY <1>5, <1>11 DEF Batches
  <1> HIDE DEF r
  <1>14. /\ Entries(r) \subseteq EntryPairs
         /\ \A e \in Entries(r) : e[1] > vs.lastSequence /\ e[1] <= vs.lastSequence + g
         /\ Unique(Entries(r))
    <2> HIDE DEF B, g
    <2>1. r.first > 0 /\ Len(r.batches) = g
      BY <1>6, <1>7, <1>8
    <2>2. /\ Entries(r) \subseteq EntryPairs
          /\ \A e \in Entries(r) : e[1] >= r.first /\ e[1] < r.first + g
          /\ Unique(Entries(r))
      BY <1>10, <2>1, EntriesTyped
    <2>3. \A e \in Entries(r) : e[1] \in Nat
      BY <2>2 DEF EntryPairs
    <2> QED
      BY <1>4, <1>6, <1>8, <2>2, <2>3
  <1>15. Unique(Known \cup Entries(r))
    <2>1. Unique(Known) /\ \A e \in Known : e[1] <= vs.lastSequence
      BY <1>1, <1>3 DEF SequencesOK
    <2>2. \A d \in Known, e \in Entries(r) : d[1] # e[1]
      <3>1. ASSUME NEW d \in Known, NEW e \in Entries(r), d[1] = e[1] PROVE FALSE
        <4>1. e[1] \in Nat /\ e[1] > vs.lastSequence
          BY <1>14 DEF EntryPairs
        <4> QED
          BY <1>6, <2>1, <3>1, <4>1
      <3> QED
        BY <3>1
    <2> QED
      BY <1>14, <2>1, <2>2 DEF Unique
  <1> QED
    BY <1>3, <1>4, <1>8, <1>10, <1>12, <1>13, <1>14, <1>15 DEF r

LEMMA LoggedTyped ==
    ASSUME NEW L, L \in [DOMAIN L -> LogFiles], NEW N, N \subseteq DOMAIN L
    PROVE  LoggedIn(L, N) \subseteq EntryPairs
  <1> SUFFICES ASSUME NEW n \in N, NEW r \in ToSet(L[n].records), NEW e \in Entries(r)
               PROVE  e \in EntryPairs
    BY DEF LoggedIn, EntriesOf
  <1>1. L[n].records \in Seq(LogRecords)
    BY DEF LogFiles
  <1>2. r \in LogRecords
    BY <1>1 DEF ToSet
  <1>3. /\ r.first \in Nat /\ Len(r.batches) \in Nat /\ DOMAIN r.batches = 1..Len(r.batches)
        /\ \A i \in DOMAIN r.batches : r.batches[i] \in Nat
    BY <1>2 DEF LogRecords
  <1>4. PICK i \in 1..Len(r.batches) : e = <<r.first + i - 1, r.batches[i]>>
    BY <1>3 DEF Entries
  <1> QED
    BY <1>3, <1>4 DEF EntryPairs

LEMMA KnownTyped ==
    ASSUME FilesTyped, MemoryTyped
    PROVE  Known \subseteq EntryPairs
  <1>1. LoggedIn(logs, DOMAIN logs) \subseteq EntryPairs
    BY LoggedTyped DEF FilesTyped
  <1>2. TablesOf(tables, DOMAIN tables) \subseteq EntryPairs
    BY DEF TablesOf, FilesTyped
  <1>3. db.mem \subseteq EntryPairs /\ (UNION db.imm) \subseteq EntryPairs
    BY DEF MemoryTyped, DbRecords
  <1> QED
    BY <1>1, <1>2, <1>3 DEF Known

\* The record r of the group, or a doubtful copy of it, is in the log: the numbers are
\* used up, and what is promised in addition is in memory, and synced if it has to be.
LEMMA RecordAdded ==
    ASSUME LevelIInv, NEW w \in Writers, writer[w].pc = "logging",
           NEW r \in LogRecords, Entries(r) = Entries(Record(w)),
           DOMAIN logs' = DOMAIN logs, logs' = [n \in DOMAIN logs |-> logs'[n]],
           \A n \in DOMAIN logs : n # db.logfile => logs'[n] = logs[n],
           logs'[db.logfile] \in LogFiles,
           logs'[db.logfile].records = Append(logs[db.logfile].records, r),
           \/ logs'[db.logfile].synced = logs[db.logfile].synced
           \/ logs'[db.logfile].synced = Len(logs[db.logfile].records) + 1,
           vs' = [vs EXCEPT !.lastSequence = @ + writer[w].group],
           db' \in DbRecords, db'.status = db.status, db'.imm = db.imm, db'.logfile = db.logfile,
           db'.pending = db.pending, db.bgError => db'.bgError,
           db'.mem = db.mem \/ db'.mem = db.mem \cup Entries(r),
           \/ promised' = promised
           \/ /\ promised' = promised \cup Batches(Entries(r))
              /\ ~r.doubtful /\ db'.mem = db.mem \cup Entries(r),
           \/ synced' = synced
           \/ /\ synced' \subseteq synced \cup Batches(Entries(r))
              /\ ~r.doubtful /\ logs'[db.logfile].synced = Len(logs[db.logfile].records) + 1,
           synced' \subseteq promised', calls'.batches = calls.batches,
           UNCHANGED <<tables, manifest, damage, bg>>
    PROVE  StoreOK' /\ NotOpenIsQuiet'
  <1> DEFINE m == db.logfile
             E == Entries(r)
  <1>1. FilesTyped /\ MemoryTyped /\ PromisesOK /\ NumbersOK /\ SequencesOK /\ MemoryOK /\ FlushOK
        /\ MergeOK /\ EditOK /\ ManifestOK(manifest)
    BY DEF LevelIInv
  <1>2. /\ db.status = "open" /\ writer[w].group \in Nat
        /\ m \in DOMAIN logs /\ logs[m] \in LogFiles
        /\ Batches(E) \subseteq 1..calls.batches
        /\ Unique(Known \cup E)
        /\ E \subseteq EntryPairs
        /\ \A e \in E : e[1] <= vs.lastSequence + writer[w].group
    <2>1. CallsTyped /\ QueueOK
      BY DEF LevelIInv
    <2>2. writer[w].group \in Nat
      BY <2>1 DEF CallsTyped, WriterRecords
    <2> QED
      BY <2>2, RecordIs
  <1>3. /\ vs' \in Versions /\ vs'.lastSequence = vs.lastSequence + writer[w].group
        /\ vs'.l0 = vs.l0 /\ vs'.l1 = vs.l1 /\ vs'.logNumber = vs.logNumber
        /\ vs'.nextFile = vs.nextFile /\ vs.lastSequence \in Nat
    BY <1>1, <1>2 DEF MemoryTyped, Versions
  <1>4. Files(vs') = Files(vs)
    BY <1>3 DEF Files
  <1>5. logs[m].synced <= Len(logs[m].records) /\ logs \in [DOMAIN logs -> LogFiles]
    BY <1>1, <1>2 DEF FilesTyped
  <1>6. FilesTyped'
    <2>1. Len(logs'[m].records) = Len(logs[m].records) + 1 /\ Len(logs[m].records) \in Nat
      BY <1>2 DEF LogFiles
    <2>2. logs'[m].synced <= Len(logs'[m].records)
      BY <1>2, <1>5, <2>1 DEF LogFiles
    <2>3. \A n \in DOMAIN logs : logs'[n] \in LogFiles /\ logs'[n].synced <= Len(logs'[n].records)
      BY <1>1, <2>2 DEF FilesTyped
    <2>4. logs' \in [DOMAIN logs' -> LogFiles]
      BY <2>3
    <2> QED
      BY <1>1, <2>3, <2>4 DEF FilesTyped
  <1>7. MemoryTyped' /\ PromisesOK'
    BY <1>1, <1>2, <1>3 DEF MemoryTyped, PromisesOK
  <1> HIDE DEF m, E
  <1>8. Appended(logs, m, r, logs')
    BY <1>2, <1>5 DEF Appended, m
  <1>9. LoggedIn(logs, DOMAIN logs) \subseteq Known /\ TablesOf(tables, DOMAIN tables) \subseteq Known
    BY DEF Known
  <1>10. ASSUME NEW v, ManifestOK(v), m >= v.logNumber
        PROVE  DiskOK(tables', logs', v, promised', synced')
    <2>1. DiskOK(tables, logs, v, promised, synced) /\ Files(v) \subseteq DOMAIN tables
      BY <1>10 DEF ManifestOK, DiskOK
    <2>2. TablesOf(tables, Files(v)) \subseteq TablesOf(tables, DOMAIN tables)
      BY <2>1, InIsMonotone
    <2>3. Unique(TablesOf(tables, Files(v)) \cup LoggedIn(logs, DOMAIN logs) \cup Entries(r))
      BY <1>2, <1>9, <2>2 DEF Unique, E
    <2>4. promised' \subseteq promised \cup (IF r.doubtful THEN {} ELSE Batches(Entries(r)))
      OBVIOUS
    <2>5. synced' \subseteq synced \cup (IF r.doubtful \/ logs'[m].synced = logs[m].synced THEN {}
                                         ELSE Batches(Entries(r)))
      <3>1. logs'[m].synced = Len(logs[m].records) + 1 => logs'[m].synced # logs[m].synced
        BY <1>2, <1>5 DEF LogFiles
      <3> QED
        BY <3>1 DEF m
    <2>6. DiskOK(tables, logs', v, promised', synced')
      <3>1. PromisedMore(logs, m, r, logs', promised, synced, promised', synced')
        BY <2>4, <2>5 DEF PromisedMore
      <3> QED
        BY <1>8, <1>10, <2>1, <2>3, <3>1, DiskLogged
    <2> QED
      BY <2>6
  <1>11. ManifestOK(manifest)'
    BY <1>1, <1>2, <1>10 DEF ManifestOK, NumbersOK, m
  <1>12. EditOK'
    <2>1. SUFFICES ASSUME Editing' PROVE DiskOK(tables', logs', Apply(manifest, bg.edit), promised', synced')
      BY DEF EditOK, ManifestOK
    <2>2. bg.flush = "install" \/ bg.merge = "install"
      BY <1>2, <2>1 DEF Editing
    <2>3. Apply(manifest, bg.edit).logNumber = bg.edit.logNumber
      BY <1>1, ApplyIs DEF FilesTyped, MemoryTyped, BgRecords
    <2>4. m >= bg.edit.logNumber
      <3>1. CASE bg.flush = "install"
        BY <1>1, <1>2, <3>1 DEF FlushOK, m, FilesTyped, MemoryTyped, DbRecords
      <3>2. CASE bg.merge = "install"
        BY <1>1, <1>2, <3>2 DEF MergeOK, m, NumbersOK, FilesTyped, MemoryTyped, DbRecords, Versions
      <3> QED
        BY <2>2, <3>1, <3>2
    <2>5. ManifestOK(Apply(manifest, bg.edit))
      BY <1>1, <2>2 DEF EditOK, Editing
    <2> QED
      BY <1>10, <2>3, <2>4, <2>5
  <1>13. RecoveringOK' /\ OpeningOK' /\ NotOpenIsQuiet'
    BY <1>2 DEF RecoveringOK, OpeningOK, NotOpenIsQuiet
  <1>14. NumbersOK'
    BY <1>1, <1>2, <1>3, <1>4 DEF NumbersOK
  <1>15. SequencesOK'
    <2>1. LoggedIn(logs', DOMAIN logs') = LoggedIn(logs, DOMAIN logs) \cup E
      <3> DEFINE N == DOMAIN logs
      <3>1. N \subseteq DOMAIN logs /\ m \in N
        BY <1>2
      <3> HIDE DEF N
      <3>2. LoggedIn(logs', N) = LoggedIn(logs, N) \cup E
        BY <1>8, <3>1, LogAppended DEF E
      <3> QED
        BY <3>2 DEF N
    <2>2. Known' \subseteq Known \cup E
      BY <2>1 DEF Known, E
    <2>3. \A e \in Known \cup E : e[1] <= vs'.lastSequence
      <3>1. \A e \in Known : e[1] \in Nat
        BY <1>1, KnownTyped DEF EntryPairs
      <3> QED
        BY <1>1, <1>2, <1>3, <3>1 DEF SequencesOK
    <2> QED
      BY <1>2, <2>2, <2>3 DEF SequencesOK, Unique
  <1>16. MemoryOK'
    <2> DEFINE T == TablesOf(tables, Files(manifest))
               I == UNION db.imm
               N == {m}
    <2>1. /\ promised \subseteq Batches(T \cup I \cup db.mem)
          /\ promised \subseteq Batches(T \cup I \cup CertainIn(logs, N))
          /\ synced \subseteq Batches(T \cup I \cup HardIn(logs, N))
      BY <1>1, <1>2 DEF MemoryOK, m
    <2>2. /\ CertainIn(logs', N) = CertainIn(logs, N) \cup (IF r.doubtful THEN {} ELSE E)
          /\ HardIn(logs, N) \subseteq HardIn(logs', N)
          /\ logs'[m].synced = Len(logs[m].records) + 1 /\ ~r.doubtful => E \subseteq HardIn(logs', N)
      <3>1. N \subseteq DOMAIN logs /\ m \in N
        BY <1>2
      <3> HIDE DEF N
      <3> QED
        BY <1>8, <3>1, LogAppended DEF E
    <2> HIDE DEF T, I, N
    <2>3. promised' \subseteq Batches(T \cup I \cup db'.mem)
      <3>1. CASE promised' = promised
        <4>1. T \cup I \cup db.mem \subseteq T \cup I \cup db'.mem
          OBVIOUS
        <4> QED
          BY <2>1, <3>1, <4>1, BatchesUnion
      <3>2. CASE promised' = promised \cup Batches(E) /\ db'.mem = db.mem \cup E
        <4>1. T \cup I \cup db'.mem = (T \cup I \cup db.mem) \cup E
          BY <3>2
        <4> QED
          BY <2>1, <3>2, <4>1, BatchesUnion
      <3> QED
        BY <3>1, <3>2 DEF E
    <2>4. promised' \subseteq Batches(T \cup I \cup CertainIn(logs', N))
      <3>1. T \cup I \cup CertainIn(logs', N) =
              (T \cup I \cup CertainIn(logs, N)) \cup (IF r.doubtful THEN {} ELSE E)
        BY <2>2
      <3>2. Batches(T \cup I \cup CertainIn(logs', N)) =
              Batches(T \cup I \cup CertainIn(logs, N)) \cup Batches(IF r.doubtful THEN {} ELSE E)
        BY <3>1, BatchesUnion
      <3> QED
        BY <2>1, <3>2 DEF E
    <2>5. synced' \subseteq Batches(T \cup I \cup HardIn(logs', N))
      <3>1. T \cup I \cup HardIn(logs, N) \subseteq T \cup I \cup HardIn(logs', N)
        BY <2>2
      <3>2. synced \subseteq Batches(T \cup I \cup HardIn(logs', N))
        BY <2>1, <3>1, BatchesUnion
      <3>3. CASE synced' = synced
        BY <3>2, <3>3
      <3>4. CASE synced' # synced
        <4>1. E \subseteq HardIn(logs', N) /\ synced' \subseteq synced \cup Batches(E)
          BY <2>2, <3>4 DEF E, m
        <4>2. Batches(E) \subseteq Batches(T \cup I \cup HardIn(logs', N))
          <5>1. E \subseteq T \cup I \cup HardIn(logs', N)
            BY <4>1
          <5> QED
            BY <5>1, BatchesUnion
        <4> QED
          BY <3>2, <4>1, <4>2
      <3> QED
        BY <3>3, <3>4
    <2>6. TablesOf(tables', Files(manifest')) = T /\ UNION db'.imm = I /\ {db'.logfile} = N
      BY DEF T, I, N, m
    <2>7. /\ promised' \subseteq Batches(TablesOf(tables', Files(manifest')) \cup (UNION db'.imm) \cup db'.mem)
          /\ promised' \subseteq Batches(TablesOf(tables', Files(manifest')) \cup (UNION db'.imm)
                                          \cup CertainIn(logs', {db'.logfile}))
          /\ synced' \subseteq Batches(TablesOf(tables', Files(manifest')) \cup (UNION db'.imm)
                                          \cup HardIn(logs', {db'.logfile}))
      BY <2>3, <2>4, <2>5, <2>6
    <2> QED
      BY <2>7 DEF MemoryOK
  <1>17. FlushOK' /\ MergeOK'
    BY <1>1, <1>2, <1>3, <1>4 DEF FlushOK, MergeOK
  <1> QED
    BY <1>6, <1>7, <1>11, <1>12, <1>13, <1>14, <1>15, <1>16, <1>17 DEF StoreOK

LEMMA SameRecords ==
    ASSUME NEW L, NEW K, DOMAIN K = DOMAIN L,
           \A n \in DOMAIN L : K[n].records = L[n].records /\ K[n].synced = L[n].synced,
           NEW N, N \subseteq DOMAIN L
    PROVE  /\ LoggedIn(K, N) = LoggedIn(L, N)
           /\ CertainIn(K, N) = CertainIn(L, N)
           /\ HardIn(K, N) = HardIn(L, N)
  <1>1. \A n \in N : K[n].records = L[n].records /\ K[n].synced = L[n].synced
    OBVIOUS
  <1>2. LoggedIn(K, N) = LoggedIn(L, N)
    BY <1>1 DEF LoggedIn
  <1>3. CertainIn(K, N) = CertainIn(L, N)
    BY <1>1 DEF CertainIn
  <1>4. HardIn(K, N) = HardIn(L, N)
    BY <1>1 DEF HardIn
  <1> QED
    BY <1>2, <1>3, <1>4

\* The failed append left no record: the log is only torn.
LEMMA RecordMissing ==
    ASSUME LevelIInv, NEW w \in Writers, writer[w].pc = "logging",
           DOMAIN logs' = DOMAIN logs, logs' = [n \in DOMAIN logs |-> logs'[n]],
           \A n \in DOMAIN logs : /\ logs'[n] \in LogFiles
                                  /\ logs'[n].records = logs[n].records
                                  /\ logs'[n].synced = logs[n].synced,
           vs' = [vs EXCEPT !.lastSequence = @ + writer[w].group],
           calls'.batches = calls.batches,
           UNCHANGED <<tables, manifest, damage, db, bg, promised, synced>>
    PROVE  StoreOK' /\ NotOpenIsQuiet'
  <1>1. FilesTyped /\ MemoryTyped /\ PromisesOK /\ NumbersOK /\ SequencesOK /\ MemoryOK /\ FlushOK
        /\ MergeOK /\ EditOK /\ ManifestOK(manifest)
    BY DEF LevelIInv
  <1>2. /\ db.status = "open" /\ db.logfile \in DOMAIN logs /\ writer[w].group \in Nat
    <2>1. CallsTyped
      BY DEF LevelIInv
    <2> QED
      BY <2>1, RecordIs DEF CallsTyped, WriterRecords
  <1>3. /\ vs' \in Versions /\ vs'.lastSequence = vs.lastSequence + writer[w].group
        /\ vs'.l0 = vs.l0 /\ vs'.l1 = vs.l1 /\ vs'.logNumber = vs.logNumber
        /\ vs'.nextFile = vs.nextFile /\ vs.lastSequence \in Nat
    BY <1>1, <1>2 DEF MemoryTyped, Versions
  <1>4. Files(vs') = Files(vs)
    BY <1>3 DEF Files
  <1>5. FilesTyped'
    <2>1. logs' \in [DOMAIN logs' -> LogFiles]
      OBVIOUS
    <2> QED
      BY <1>1, <2>1 DEF FilesTyped
  <1>6. MemoryTyped' /\ PromisesOK'
    BY <1>1, <1>2, <1>3 DEF MemoryTyped, PromisesOK
  <1>7. ASSUME NEW N, N \subseteq DOMAIN logs
        PROVE  /\ LoggedIn(logs', N) = LoggedIn(logs, N)
               /\ CertainIn(logs', N) = CertainIn(logs, N)
               /\ HardIn(logs', N) = HardIn(logs, N)
    BY <1>7, SameRecords
  <1>8. ASSUME NEW v, ManifestOK(v) PROVE DiskOK(tables', logs', v, promised', synced')
    <2>1. DiskOK(tables, logs, v, promised, synced) /\ Files(v) \subseteq DOMAIN tables
      BY <1>8 DEF ManifestOK, DiskOK
    <2> DEFINE N == Since(logs, v.logNumber)
    <2>2. Since(logs', v.logNumber) = N /\ N \subseteq DOMAIN logs
      BY DEF Since
    <2>3. Unique(TablesOf(tables, Files(v)) \cup LoggedIn(logs, N))
      BY <2>1 DEF DiskOK
    <2> HIDE DEF N
    <2>4. /\ LoggedIn(logs', N) = LoggedIn(logs, N)
          /\ CertainIn(logs', N) = CertainIn(logs, N)
          /\ HardIn(logs', N) = HardIn(logs, N)
      BY <1>7, <2>2
    <2>5. DiskOK(tables, logs', v, promised, synced)
      BY <2>1, <2>2, <2>3, <2>4, DiskGrows DEF N
    <2> QED
      BY <2>5
  <1>9. ManifestOK(manifest)' /\ EditOK'
    BY <1>1, <1>8 DEF ManifestOK, EditOK, Editing
  <1>10. RecoveringOK' /\ OpeningOK' /\ NotOpenIsQuiet'
    BY <1>2 DEF RecoveringOK, OpeningOK, NotOpenIsQuiet
  <1>11. NumbersOK'
    BY <1>1, <1>2, <1>3, <1>4 DEF NumbersOK
  <1>12. SequencesOK'
    <2>1. LoggedIn(logs', DOMAIN logs') = LoggedIn(logs, DOMAIN logs)
      BY <1>7
    <2>2. Known' = Known
      BY <2>1 DEF Known
    <2>3. \A e \in Known : e[1] \in Nat
      BY <1>1, KnownTyped DEF EntryPairs
    <2>4. \A e \in Known : e[1] <= vs'.lastSequence
      BY <1>1, <1>2, <1>3, <2>3 DEF SequencesOK
    <2> QED
      BY <1>1, <1>2, <2>2, <2>4 DEF SequencesOK
  <1>13. MemoryOK'
    <2>1. /\ CertainIn(logs', {db.logfile}) = CertainIn(logs, {db.logfile})
          /\ HardIn(logs', {db.logfile}) = HardIn(logs, {db.logfile})
      BY <1>2, <1>7
    <2> QED
      BY <1>1, <2>1 DEF MemoryOK
  <1>14. FlushOK' /\ MergeOK'
    BY <1>1, <1>3, <1>4 DEF FlushOK, MergeOK
  <1> QED
    BY <1>5, <1>6, <1>9, <1>10, <1>11, <1>12, <1>13, <1>14 DEF StoreOK

\* The group returns, whatever became of its record.
LEMMA GroupReturns ==
    ASSUME LevelIInv, NEW w \in Writers, writer[w].pc = "logging", PopWriters(writer[w].group),
           calls' \in [batches : Nat, stops : Nat, errors : Nat], calls'.batches = calls.batches
    PROVE  CallsTyped' /\ QueueOK'
  <1>1. CallsTyped /\ QueueOK /\ writer[w].group \in 1..Len(writers)
    BY RecordIs DEF LevelIInv
  <1>2. writers' \in Seq(Writers) /\ writer' \in [Writers -> WriterRecords] /\ QueueOK'
    BY <1>1, PopKeepsQueue DEF CallsTyped
  <1> QED
    BY <1>2 DEF CallsTyped

LEMMA LoggedStep ==
    ASSUME LevelIInv, NEW w \in Writers, Logged(w) PROVE LevelIInv'
  <1> DEFINE r == Record(w)
             m == db.logfile
  <1>1. writer[w].pc = "logging" /\ UNCHANGED <<tables, manifest, damage, bg, calls>>
    BY DEF Logged
  <1>2. /\ db.status = "open" /\ m \in DOMAIN logs /\ logs[m] \in LogFiles
        /\ r \in LogRecords /\ Entries(r) \subseteq EntryPairs
        /\ Batches(Entries(r)) = {writer[v].batch : v \in Group(w)}
    BY <1>1, RecordIs
  <1>3. FilesTyped /\ MemoryTyped /\ CallsTyped /\ QueueOK /\ PromisesOK
    BY DEF LevelIInv
  <1> HIDE DEF r
  <1> DEFINE k == IF writer[w].sync THEN Len(logs[m].records) + 1 ELSE logs[m].synced
             l == [logs[m] EXCEPT !.records = Append(@, r), !.synced = k]
  <1>4. logs' = [logs EXCEPT ![m] = l] /\ logs \in [DOMAIN logs -> LogFiles]
    BY <1>2, <1>3 DEF Logged, FilesTyped, r, LogFiles
  <1>5. /\ l \in LogFiles /\ l.records = Append(logs[m].records, r)
        /\ l.synced = IF writer[w].sync THEN Len(logs[m].records) + 1 ELSE logs[m].synced
    <2>1. logs[m].records \in Seq(LogRecords) /\ Len(logs[m].records) \in Nat
      BY <1>2 DEF LogFiles
    <2>2. k \in Nat
      BY <1>2, <2>1 DEF LogFiles
    <2>3. k = IF writer[w].sync THEN Len(logs[m].records) + 1 ELSE logs[m].synced
      OBVIOUS
    <2> HIDE DEF k
    <2>4. Append(logs[m].records, r) \in Seq(LogRecords)
      BY <1>2, <2>1, AppendProperties
    <2> QED
      BY <1>2, <2>1, <2>2, <2>3, <2>4 DEF LogFiles
  <1> HIDE DEF l, m
  <1>6. /\ DOMAIN logs' = DOMAIN logs /\ logs' = [n \in DOMAIN logs |-> logs'[n]]
        /\ \A n \in DOMAIN logs : n # m => logs'[n] = logs[n]
        /\ logs'[m] = l
    BY <1>2, <1>4
  <1>7. /\ db' \in DbRecords /\ db'.status = db.status /\ db'.imm = db.imm /\ db'.logfile = db.logfile
        /\ db'.pending = db.pending /\ db'.bgError = db.bgError /\ db'.mem = db.mem \cup Entries(r)
    BY <1>2, <1>3 DEF Logged, r, MemoryTyped, DbRecords
  <1>8. vs' = [vs EXCEPT !.lastSequence = @ + writer[w].group]
    BY DEF Logged
  <1>9. \/ promised' = promised
        \/ /\ promised' = promised \cup Batches(Entries(r))
           /\ ~r.doubtful /\ db'.mem = db.mem \cup Entries(r)
    BY <1>2, <1>7 DEF Logged, r
  <1>10. \/ synced' = synced
         \/ /\ synced' \subseteq synced \cup Batches(Entries(r))
            /\ ~r.doubtful /\ logs'[m].synced = Len(logs[m].records) + 1
    <2>1. CASE r.doubtful
      BY <2>1 DEF Logged, r
    <2>2. CASE ~r.doubtful /\ writer[w].sync
      <3>1. synced' = synced \cup {writer[v].batch : v \in {u \in Group(w) : writer[u].sync}}
        BY <2>2 DEF Logged, r
      <3> QED
        BY <1>2, <1>5, <1>6, <2>2, <3>1
    <2>3. CASE ~r.doubtful /\ ~writer[w].sync
      <3>1. synced' = synced \cup {writer[v].batch : v \in {u \in Group(w) : writer[u].sync}}
        BY <2>3 DEF Logged, r
      <3>2. \A u \in Group(w) : ~writer[u].sync
        BY <1>1, <1>3, <2>3 DEF QueueOK, Group
      <3> QED
        BY <3>1, <3>2
    <2> QED
      BY <2>1, <2>2, <2>3
  <1>11. synced' \subseteq promised'
    BY <1>2, <1>3 DEF Logged, r, PromisesOK
  <1>12. StoreOK' /\ NotOpenIsQuiet'
    <2>1. Entries(r) = Entries(Record(w))
      BY DEF r
    <2>2. \/ logs'[m].synced = logs[m].synced
          \/ logs'[m].synced = Len(logs[m].records) + 1
      BY <1>5, <1>6
    <2>3. logs'[m] \in LogFiles /\ logs'[m].records = Append(logs[m].records, r)
      BY <1>5, <1>6
    <2> QED
      BY <1>1, <1>2, <1>6, <1>7, <1>8, <1>9, <1>10, <1>11, <2>1, <2>2, <2>3, RecordAdded, SMTT(60) DEF m
  <1>13. CallsTyped' /\ QueueOK'
    BY <1>1, <1>3, GroupReturns DEF Logged, CallsTyped
  <1> QED
    BY <1>12, <1>13 DEF LevelIInv, StoreOK

LEMMA SyncFailsStep ==
    ASSUME LevelIInv, NEW w \in Writers, SyncFails(w) PROVE LevelIInv'
  <1> DEFINE r == Record(w)
             m == db.logfile
  <1>1. writer[w].pc = "logging" /\ UNCHANGED <<tables, manifest, damage, bg, promised, synced>>
    BY DEF SyncFails
  <1>2. /\ db.status = "open" /\ m \in DOMAIN logs /\ logs[m] \in LogFiles /\ r \in LogRecords
    BY <1>1, RecordIs
  <1>3. FilesTyped /\ MemoryTyped /\ CallsTyped /\ QueueOK /\ PromisesOK
    BY DEF LevelIInv
  <1> HIDE DEF r
  <1> DEFINE l == [logs[m] EXCEPT !.records = Append(@, r)]
  <1>4. logs' = [logs EXCEPT ![m] = l] /\ logs \in [DOMAIN logs -> LogFiles]
    BY <1>2, <1>3 DEF SyncFails, FilesTyped, r, LogFiles
  <1>5. l \in LogFiles /\ l.records = Append(logs[m].records, r) /\ l.synced = logs[m].synced
    <2>1. logs[m].records \in Seq(LogRecords)
      BY <1>2 DEF LogFiles
    <2>2. Append(logs[m].records, r) \in Seq(LogRecords)
      BY <1>2, <2>1, AppendProperties
    <2> QED
      BY <1>2, <2>1, <2>2 DEF LogFiles
  <1> HIDE DEF l, m
  <1>6. /\ DOMAIN logs' = DOMAIN logs /\ logs' = [n \in DOMAIN logs |-> logs'[n]]
        /\ \A n \in DOMAIN logs : n # m => logs'[n] = logs[n]
        /\ logs'[m] = l
    BY <1>2, <1>4
  <1>7. /\ db' \in DbRecords /\ db'.status = db.status /\ db'.imm = db.imm /\ db'.logfile = db.logfile
        /\ db'.pending = db.pending /\ db'.bgError /\ db'.mem = db.mem
    BY <1>2, <1>3 DEF SyncFails, Failed, MemoryTyped, DbRecords
  <1>8. vs' = [vs EXCEPT !.lastSequence = @ + writer[w].group]
    BY DEF SyncFails
  <1>9. /\ calls' \in [batches : Nat, stops : Nat, errors : Nat]
        /\ calls.batches \in Nat /\ calls'.batches = calls.batches
    BY <1>3, IoErrorIs DEF SyncFails
  <1>10. StoreOK' /\ NotOpenIsQuiet'
    <2>1. Entries(r) = Entries(Record(w))
      BY DEF r
    <2>2. \/ logs'[m].synced = logs[m].synced
          \/ logs'[m].synced = Len(logs[m].records) + 1
      BY <1>5, <1>6
    <2>3. logs'[m] \in LogFiles /\ logs'[m].records = Append(logs[m].records, r)
      BY <1>5, <1>6
    <2>4. synced' \subseteq promised'
      BY <1>1, <1>3 DEF PromisesOK
    <2> QED
      BY <1>1, <1>2, <1>6, <1>7, <1>8, <1>9, <2>1, <2>2, <2>3, <2>4, RecordAdded, SMTT(60) DEF m
  <1>11. CallsTyped' /\ QueueOK'
    BY <1>1, <1>9, GroupReturns DEF SyncFails
  <1> QED
    BY <1>10, <1>11 DEF LevelIInv, StoreOK

LEMMA LogFailsStep ==
    ASSUME LevelIInv, NEW w \in Writers, LogFails(w) PROVE LevelIInv'
  <1> DEFINE r == [Record(w) EXCEPT !.doubtful = TRUE]
             m == db.logfile
  <1>1. writer[w].pc = "logging" /\ UNCHANGED <<tables, manifest, damage, db, bg, promised, synced>>
    BY DEF LogFails
  <1>2. db.status = "open" /\ m \in DOMAIN logs /\ logs[m] \in LogFiles /\ Record(w) \in LogRecords
    BY <1>1, RecordIs
  <1>3. r \in LogRecords /\ Entries(r) = Entries(Record(w)) /\ r.doubtful
    BY <1>2 DEF LogRecords, Entries
  <1>4. FilesTyped /\ MemoryTyped /\ CallsTyped /\ QueueOK /\ PromisesOK
    BY DEF LevelIInv
  <1>5. PICK whole \in {<<>>, <<r>>} :
          logs' = [logs EXCEPT ![m].records = @ \o whole, ![m].torn = TRUE]
    BY DEF LogFails
  <1> HIDE DEF r
  <1> DEFINE l == [logs[m] EXCEPT !.records = @ \o whole, !.torn = TRUE]
  <1>6. logs' = [logs EXCEPT ![m] = l] /\ logs \in [DOMAIN logs -> LogFiles]
    BY <1>2, <1>4, <1>5 DEF FilesTyped, LogFiles
  <1>7. /\ logs[m].records \in Seq(LogRecords)
        /\ whole = <<>> => logs[m].records \o whole = logs[m].records
        /\ whole = <<r>> => logs[m].records \o whole = Append(logs[m].records, r)
    <2>1. logs[m].records \in Seq(LogRecords)
      BY <1>2 DEF LogFiles
    <2> QED
      BY <1>3, <2>1, ConcatEmptySeq, AppendIsConcat
  <1>8. /\ l \in LogFiles /\ l.synced = logs[m].synced
        /\ whole = <<>> => l.records = logs[m].records
        /\ whole = <<r>> => l.records = Append(logs[m].records, r)
    <2>1. logs[m].records \o whole \in Seq(LogRecords)
      <3>1. whole = <<>> \/ whole = <<r>>
        BY <1>5
      <3>2. Append(logs[m].records, r) \in Seq(LogRecords)
        BY <1>3, <1>7, AppendProperties
      <3> QED
        BY <1>7, <3>1, <3>2
    <2> QED
      BY <1>2, <1>7, <2>1 DEF LogFiles
  <1> HIDE DEF l, m
  <1>9. /\ DOMAIN logs' = DOMAIN logs /\ logs' = [n \in DOMAIN logs |-> logs'[n]]
        /\ \A n \in DOMAIN logs : n # m => logs'[n] = logs[n]
        /\ logs'[m] = l
    BY <1>2, <1>6
  <1>10. vs' = [vs EXCEPT !.lastSequence = @ + writer[w].group]
    BY DEF LogFails
  <1>11. /\ calls' \in [batches : Nat, stops : Nat, errors : Nat]
         /\ calls.batches \in Nat /\ calls'.batches = calls.batches
    BY <1>4, IoErrorIs DEF LogFails
  <1>12. StoreOK' /\ NotOpenIsQuiet'
    <2>1. CASE whole = <<>>
      <3>1. \A n \in DOMAIN logs : /\ logs'[n] \in LogFiles
                                   /\ logs'[n].records = logs[n].records
                                   /\ logs'[n].synced = logs[n].synced
        BY <1>4, <1>8, <1>9, <2>1 DEF FilesTyped
      <3> QED
        BY <1>1, <1>9, <1>10, <1>11, <3>1, RecordMissing
    <2>2. CASE whole = <<r>>
      <3>1. db' \in DbRecords
        BY <1>1, <1>4 DEF MemoryTyped
      <3>2. \/ logs'[m].synced = logs[m].synced
            \/ logs'[m].synced = Len(logs[m].records) + 1
        BY <1>8, <1>9
      <3>3. logs'[m] \in LogFiles /\ logs'[m].records = Append(logs[m].records, r)
        BY <1>8, <1>9, <2>2
      <3>4. synced' \subseteq promised'
        BY <1>1, <1>4 DEF PromisesOK
      <3> QED
        BY <1>1, <1>2, <1>3, <1>9, <1>10, <1>11, <3>1, <3>2, <3>3, <3>4, RecordAdded, SMTT(60) DEF m
    <2> QED
      BY <2>1, <2>2
  <1>13. CallsTyped' /\ QueueOK'
    BY <1>1, <1>11, GroupReturns DEF LogFails
  <1> QED
    BY <1>12, <1>13 DEF LevelIInv, StoreOK

-----------------------------------------------------------------------------
(***************************************************************************)
(* Steps of the background thread.                                         *)
(***************************************************************************)
LEMMA DoneIs ==
    ASSUME NEW d \in DbRecords, NEW v, BackgroundDone(d, v)
    PROVE  /\ bg' = IdleBg /\ bg' \in BgRecords /\ writer' = SignalAll
           /\ db' \in DbRecords /\ db'.status = d.status /\ db'.mem = d.mem /\ db'.imm = d.imm
           /\ db'.logfile = d.logfile /\ db'.pending = d.pending /\ db'.bgError = d.bgError
  <1>1. IdleBg \in BgRecords
    BY DEF IdleBg, NoEdit, BgRecords, Edits
  <1> DEFINE c == [d EXCEPT !.scheduled = FALSE]
  <1>2. /\ c \in DbRecords /\ c.status = d.status /\ c.mem = d.mem /\ c.imm = d.imm
        /\ c.logfile = d.logfile /\ c.pending = d.pending /\ c.bgError = d.bgError
    BY DEF DbRecords
  <1>3. db' = MaybeSchedule(c, v) /\ bg' = IdleBg /\ writer' = SignalAll
    BY DEF BackgroundDone
  <1> HIDE DEF c
  <1> QED
    BY <1>1, <1>2, <1>3, ScheduleIs

LEMMA AfterFlushIs ==
    ASSUME MemoryTyped, NEW d \in DbRecords, NEW v, AfterFlush(d, v)
    PROVE  /\ bg' \in BgRecords /\ bg'.flush = "none" /\ bg'.merge = bg.merge /\ writer' = SignalAll
           /\ bg.merge = "none" => bg'.mergeIn = {}
           /\ bg.merge # "none" => bg'.mergeIn = bg.mergeIn /\ bg'.mergeOut = bg.mergeOut
           /\ db' \in DbRecords /\ db'.status = d.status /\ db'.mem = d.mem /\ db'.imm = d.imm
           /\ db'.logfile = d.logfile /\ db'.pending = d.pending /\ db'.bgError = d.bgError
  <1>1. CASE bg.merge = "none"
    <2>1. BackgroundDone(d, v)
      BY <1>1 DEF AfterFlush
    <2>2. IdleBg.flush = "none" /\ IdleBg.merge = "none" /\ IdleBg.mergeIn = {}
      BY DEF IdleBg
    <2> QED
      BY <1>1, <2>1, <2>2, DoneIs
  <1>2. CASE bg.merge # "none"
    <2>1. bg' = [bg EXCEPT !.flush = "none"] /\ db' = d /\ writer' = SignalAll
      BY <1>2 DEF AfterFlush
    <2> QED
      BY <1>2, <2>1 DEF MemoryTyped, BgRecords
  <1> QED
    BY <1>1, <1>2

LEMMA UnpendIs ==
    ASSUME MemoryTyped, NEW n
    PROVE  /\ Unpend(n) \in DbRecords /\ Unpend(n).status = db.status /\ Unpend(n).mem = db.mem
           /\ Unpend(n).imm = db.imm /\ Unpend(n).logfile = db.logfile
           /\ Unpend(n).pending = db.pending \ {n} /\ Unpend(n).bgError = db.bgError
           /\ \A d \in DbRecords :
                /\ Failed(d) \in DbRecords /\ Failed(d).status = d.status /\ Failed(d).mem = d.mem
                /\ Failed(d).imm = d.imm /\ Failed(d).logfile = d.logfile
                /\ Failed(d).pending = d.pending /\ Failed(d).bgError
  BY DEF Unpend, Failed, MemoryTyped, DbRecords

LEMMA BackgroundIsOpen ==
    ASSUME LevelIInv, bg.flush # "none" \/ bg.merge # "none" PROVE db.status = "open"
  BY DEF LevelIInv, NotOpenIsQuiet

LEMMA SignalledQueue ==
    ASSUME LevelIInv, writer' = SignalAll \/ writer' = writer, UNCHANGED writers,
           calls' \in [batches : Nat, stops : Nat, errors : Nat], calls'.batches = calls.batches
    PROVE  CallsTyped' /\ QueueOK'
  <1>1. CallsTyped /\ QueueOK
    BY DEF LevelIInv
  <1>2. CASE writer' = SignalAll
    BY <1>1, <1>2, SignalKeepsQueue DEF CallsTyped
  <1>3. CASE writer' = writer
    BY <1>1, <1>3 DEF CallsTyped, QueueOK
  <1> QED
    BY <1>2, <1>3

\* A step that adds tables, or fills one that no version names, with entries that are
\* known already.
LEMMA BackgroundKeeps ==
    ASSUME LevelIInv, db.status = "open", UNCHANGED <<logs, manifest>>,
           damage' \in {"none", "torn", "corrupt"},
           vs' \in Versions, Files(vs') = Files(vs), vs'.logNumber = vs.logNumber,
           vs'.lastSequence = vs.lastSequence, vs'.nextFile >= vs.nextFile,
           DOMAIN tables \subseteq DOMAIN tables', tables' = [f \in DOMAIN tables' |-> tables'[f]],
           \A f \in DOMAIN tables' : f \in Nat /\ f < vs'.nextFile /\ tables'[f] \subseteq Known,
           \A f \in Files(manifest) : tables'[f] = tables[f],
           db' \in DbRecords, db'.status = db.status, db'.mem = db.mem, db'.imm = db.imm,
           db'.logfile = db.logfile, db.bgError => db'.bgError,
           bg' \in BgRecords, FlushOK', MergeOK', EditOK',
           promised' \subseteq promised, synced' \subseteq synced, synced' \subseteq promised',
           calls'.batches = calls.batches
    PROVE  StoreOK' /\ NotOpenIsQuiet'
  <1>1. FilesTyped /\ MemoryTyped /\ PromisesOK /\ NumbersOK /\ SequencesOK /\ MemoryOK
        /\ ManifestOK(manifest)
    BY DEF LevelIInv
  <1>2. Known \subseteq EntryPairs
    BY <1>1, KnownTyped
  <1>3. FilesTyped'
    BY <1>1, <1>2 DEF FilesTyped
  <1>4. MemoryTyped' /\ PromisesOK'
    BY <1>1 DEF MemoryTyped, PromisesOK
  <1>5. Files(manifest) \subseteq DOMAIN tables
    BY <1>1 DEF ManifestOK, DiskOK
  <1>6. ManifestOK(manifest)'
    <2>1. DiskOK(tables, logs, manifest, promised, synced)
      BY <1>1 DEF ManifestOK
    <2>2. DiskOK(tables', logs, manifest, promised', synced')
      BY <1>5, <2>1, DiskKept
    <2> QED
      BY <2>2 DEF ManifestOK
  <1>7. RecoveringOK' /\ OpeningOK' /\ NotOpenIsQuiet'
    BY DEF RecoveringOK, OpeningOK, NotOpenIsQuiet
  <1>8. NumbersOK'
    <2>1. \A n \in DOMAIN logs : n < vs'.nextFile
      BY <1>1 DEF NumbersOK, FilesTyped, MemoryTyped, Versions
    <2> QED
      BY <1>1, <2>1 DEF NumbersOK
  <1>9. SequencesOK'
    <2>1. Known' \subseteq Known
      BY DEF Known, TablesOf
    <2> QED
      BY <1>1, <2>1 DEF SequencesOK, Unique
  <1>10. MemoryOK'
    <2>1. TablesOf(tables', Files(manifest')) = TablesOf(tables, Files(manifest))
      BY SameTables
    <2> QED
      BY <1>1, <2>1 DEF MemoryOK
  <1> QED
    BY <1>3, <1>4, <1>6, <1>7, <1>8, <1>9, <1>10 DEF StoreOK

\* The steps that give up, or find nothing to do, with the tables as they are.
LEMMA BackgroundEnds ==
    ASSUME LevelIInv, db.status = "open", UNCHANGED <<logs, tables, manifest, vs>>,
           damage' \in {"none", "torn", "corrupt"},
           db' \in DbRecords, db'.status = db.status, db'.mem = db.mem, db'.imm = db.imm,
           db'.logfile = db.logfile, db.bgError => db'.bgError,
           bg' \in BgRecords, bg'.flush = "none", bg'.merge # "install", MergeOK',
           promised' \subseteq promised, synced' \subseteq synced, synced' \subseteq promised',
           calls'.batches = calls.batches
    PROVE  StoreOK' /\ NotOpenIsQuiet'
  <1>1. FilesTyped /\ MemoryTyped /\ NumbersOK
    BY DEF LevelIInv
  <1>2. FlushOK' /\ EditOK'
    BY DEF FlushOK, EditOK, Editing
  <1>3. \A f \in DOMAIN tables' : f \in Nat /\ f < vs'.nextFile /\ tables'[f] \subseteq Known
    BY <1>1 DEF NumbersOK, FilesTyped, Known, TablesOf
  <1>4. vs' \in Versions /\ vs'.nextFile >= vs.nextFile /\ tables' = [f \in DOMAIN tables' |-> tables'[f]]
    BY <1>1 DEF MemoryTyped, Versions, FilesTyped
  <1> QED
    BY <1>2, <1>3, <1>4, BackgroundKeeps

LEMMA BackgroundNothingStep ==
    ASSUME LevelIInv, BackgroundNothing PROVE LevelIInv'
  <1>1. /\ MemoryTyped /\ CallsTyped /\ PromisesOK /\ NotOpenIsQuiet /\ FilesTyped
        /\ db.status = "open"
    BY DEF LevelIInv, NotOpenIsQuiet, BackgroundNothing
  <1>2. /\ UNCHANGED <<logs, tables, manifest, damage, vs, writers, calls, promised, synced>>
        /\ BackgroundDone(db, vs)
    BY DEF BackgroundNothing, diskVars
  <1>3. /\ bg' = IdleBg /\ bg' \in BgRecords /\ writer' = SignalAll
        /\ db' \in DbRecords /\ db'.status = db.status /\ db'.mem = db.mem /\ db'.imm = db.imm
        /\ db'.logfile = db.logfile /\ db'.pending = db.pending /\ db'.bgError = db.bgError
    BY <1>1, <1>2, DoneIs DEF MemoryTyped
  <1>4. bg'.flush = "none" /\ bg'.merge = "none" /\ bg'.mergeIn = {}
    BY <1>3 DEF IdleBg
  <1>5. MergeOK'
    BY <1>4 DEF MergeOK
  <1>6. StoreOK' /\ NotOpenIsQuiet'
    BY <1>1, <1>2, <1>3, <1>4, <1>5, BackgroundEnds DEF PromisesOK, FilesTyped
  <1>7. CallsTyped' /\ QueueOK'
    BY <1>1, <1>2, <1>3, SignalledQueue DEF CallsTyped
  <1> QED
    BY <1>6, <1>7 DEF LevelIInv, StoreOK

LEMMA FlushBeginsStep ==
    ASSUME LevelIInv, FlushBegins PROVE LevelIInv'
  <1>1. /\ MemoryTyped /\ CallsTyped /\ PromisesOK /\ NotOpenIsQuiet /\ FilesTyped /\ NumbersOK
        /\ MergeOK /\ db.status = "open"
    BY DEF LevelIInv, NotOpenIsQuiet, FlushBegins
  <1>2. UNCHANGED <<logs, tables, manifest, damage, writers, writer, calls, promised, synced>>
    BY DEF FlushBegins, diskVars
  <1>3. /\ vs' \in Versions /\ vs'.l0 = vs.l0 /\ vs'.l1 = vs.l1 /\ vs'.logNumber = vs.logNumber
        /\ vs'.lastSequence = vs.lastSequence /\ vs'.nextFile = vs.nextFile + 1 /\ vs.nextFile \in Nat
    BY <1>1 DEF FlushBegins, MemoryTyped, Versions
  <1>4. Files(vs') = Files(vs) /\ vs'.nextFile >= vs.nextFile
    BY <1>3 DEF Files
  <1>5. /\ db' \in DbRecords /\ db'.status = db.status /\ db'.mem = db.mem /\ db'.imm = db.imm
        /\ db'.logfile = db.logfile /\ db'.pending = db.pending \cup {vs.nextFile}
        /\ db'.bgError = db.bgError
    BY <1>1, <1>3 DEF FlushBegins, MemoryTyped, DbRecords
  <1>6. /\ bg' \in BgRecords /\ bg'.flush = "build" /\ bg'.flushOut = vs.nextFile
        /\ bg'.merge = bg.merge /\ bg'.mergeOut = bg.mergeOut /\ bg'.mergeIn = bg.mergeIn
        /\ bg.merge # "install"
    BY <1>1, <1>3 DEF FlushBegins, MemoryTyped, BgRecords
  <1>7. FlushOK'
    BY <1>1, <1>2, <1>3, <1>5, <1>6 DEF FlushOK, FlushBegins, NumbersOK, FilesTyped
  <1>8. MergeOK'
    BY <1>1, <1>2, <1>4, <1>5, <1>6 DEF MergeOK
  <1>9. EditOK'
    BY <1>1, <1>5, <1>6 DEF EditOK, Editing
  <1>10. \A f \in DOMAIN tables' : f \in Nat /\ f < vs'.nextFile /\ tables'[f] \subseteq Known
    BY <1>1, <1>2, <1>3 DEF NumbersOK, FilesTyped, Known, TablesOf
  <1>11. tables' = [f \in DOMAIN tables' |-> tables'[f]]
    BY <1>1, <1>2 DEF FilesTyped
  <1>12. StoreOK' /\ NotOpenIsQuiet'
    BY <1>1, <1>2, <1>3, <1>4, <1>5, <1>6, <1>7, <1>8, <1>9, <1>10, <1>11, BackgroundKeeps
    DEF PromisesOK, FilesTyped
  <1>13. CallsTyped' /\ QueueOK'
    BY <1>1, <1>2, SignalledQueue DEF CallsTyped
  <1> QED
    BY <1>12, <1>13 DEF LevelIInv, StoreOK

\* The table that BuildTable wrote.
LEMMA FlushTableIs ==
    ASSUME LevelIInv, bg.flush = "build", tables' = With(tables, bg.flushOut, UNION db.imm),
           vs' = vs
    PROVE  /\ DOMAIN tables' = DOMAIN tables \cup {bg.flushOut}
           /\ tables' = [f \in DOMAIN tables' |-> tables'[f]]
           /\ tables'[bg.flushOut] = UNION db.imm
           /\ \A f \in DOMAIN tables : tables'[f] = tables[f]
           /\ \A f \in DOMAIN tables' : f \in Nat /\ f < vs'.nextFile /\ tables'[f] \subseteq Known
           /\ Files(manifest) \subseteq DOMAIN tables
  <1>1. MemoryTyped /\ FilesTyped /\ NumbersOK /\ FlushOK /\ ManifestOK(manifest) /\ db.status = "open"
    BY BackgroundIsOpen DEF LevelIInv
  <1>2. bg.flushOut \notin DOMAIN tables /\ bg.flushOut \in Nat /\ bg.flushOut < vs.nextFile
    BY <1>1 DEF FlushOK, MemoryTyped, BgRecords
  <1> DEFINE n == bg.flushOut
             I == UNION db.imm
  <1> HIDE DEF n, I
  <1>3. tables' = With(tables, n, I)
    BY DEF n, I
  <1>4. /\ DOMAIN With(tables, n, I) = DOMAIN tables \cup {n}
        /\ With(tables, n, I)[n] = I
        /\ \A m \in DOMAIN tables : m # n => With(tables, n, I)[m] = tables[m]
    BY DEF With
  <1>5. With(tables, n, I) = [f \in DOMAIN With(tables, n, I) |-> With(tables, n, I)[f]]
    BY DEF With
  <1>6. I \subseteq Known /\ \A f \in DOMAIN tables : tables[f] \subseteq Known
    BY DEF I, Known, TablesOf
  <1>7. \A f \in DOMAIN tables : f \in Nat /\ f < vs.nextFile
    BY <1>1 DEF FilesTyped, NumbersOK
  <1>8. n \notin DOMAIN tables /\ n \in Nat /\ n < vs.nextFile
    BY <1>2 DEF n
  <1>9. /\ DOMAIN tables' = DOMAIN tables \cup {n} /\ tables'[n] = I
        /\ \A f \in DOMAIN tables : tables'[f] = tables[f]
        /\ tables' = [f \in DOMAIN tables' |-> tables'[f]]
    BY <1>3, <1>4, <1>5, <1>8
  <1>10. \A f \in DOMAIN tables' : f \in Nat /\ f < vs'.nextFile /\ tables'[f] \subseteq Known
    BY <1>6, <1>7, <1>8, <1>9
  <1>11. Files(manifest) \subseteq DOMAIN tables
    BY <1>1 DEF ManifestOK, DiskOK
  <1> QED
    BY <1>9, <1>10, <1>11 DEF n, I

\* A merge that waits for the flush to end loses nothing by it.
LEMMA MergeWaits ==
    ASSUME LevelIInv, bg.flush # "none", UNCHANGED <<manifest, vs>>,
           DOMAIN tables \subseteq DOMAIN tables', \A f \in DOMAIN tables : tables'[f] = tables[f],
           bg'.merge = bg.merge,
           bg.merge = "none" => bg'.mergeIn = {},
           bg.merge # "none" => bg'.mergeIn = bg.mergeIn /\ bg'.mergeOut = bg.mergeOut,
           db.pending \ {bg.flushOut} \subseteq db'.pending, bg.merge # "none" => bg.flushOut # bg.mergeOut
    PROVE  MergeOK' /\ bg'.merge # "install"
  <1>1. MergeOK /\ FlushOK /\ NumbersOK /\ db.status = "open"
    BY BackgroundIsOpen DEF LevelIInv
  <1>2. bg.merge # "install"
    BY <1>1 DEF MergeOK
  <1>3. bg.merge = "built" => TablesOf(tables', bg.mergeIn) = TablesOf(tables, bg.mergeIn)
    <2>1. bg.merge = "built" => bg.mergeIn \subseteq DOMAIN tables
      BY <1>1 DEF MergeOK, NumbersOK
    <2> QED
      BY <2>1, SameTables
  <1> QED
    BY <1>1, <1>2, <1>3 DEF MergeOK

LEMMA FlushFailsStep ==
    ASSUME LevelIInv, FlushFails PROVE LevelIInv'
  <1>1. /\ MemoryTyped /\ CallsTyped /\ PromisesOK /\ FilesTyped /\ MergeOK /\ FlushOK
        /\ db.status = "open" /\ bg.flush = "build"
    BY BackgroundIsOpen DEF LevelIInv, FlushFails
  <1>2. UNCHANGED <<logs, tables, manifest, damage, vs, writers, promised, synced>>
    BY DEF FlushFails, diskVars
  <1> DEFINE d == Failed(Unpend(bg.flushOut))
  <1>3. /\ d \in DbRecords /\ d.status = db.status /\ d.mem = db.mem /\ d.imm = db.imm
        /\ d.logfile = db.logfile /\ d.pending = db.pending \ {bg.flushOut} /\ d.bgError
    BY <1>1, UnpendIs
  <1>4. AfterFlush(d, vs)
    BY DEF FlushFails
  <1> HIDE DEF d
  <1>5. /\ bg' \in BgRecords /\ bg'.flush = "none" /\ bg'.merge = bg.merge /\ writer' = SignalAll
        /\ bg.merge = "none" => bg'.mergeIn = {}
        /\ bg.merge # "none" => bg'.mergeIn = bg.mergeIn /\ bg'.mergeOut = bg.mergeOut
        /\ db' \in DbRecords /\ db'.status = db.status /\ db'.mem = db.mem /\ db'.imm = db.imm
        /\ db'.logfile = db.logfile /\ db'.pending = d.pending /\ db'.bgError
    BY <1>1, <1>3, <1>4, AfterFlushIs
  <1>6. bg.merge # "none" => bg.flushOut # bg.mergeOut
    BY <1>1 DEF MergeOK, FlushOK
  <1>7. MergeOK' /\ bg'.merge # "install"
    BY <1>1, <1>2, <1>3, <1>5, <1>6, MergeWaits
  <1>8. /\ calls' \in [batches : Nat, stops : Nat, errors : Nat]
        /\ calls'.batches = calls.batches
    BY <1>1, IoErrorIs DEF FlushFails
  <1>9. StoreOK' /\ NotOpenIsQuiet'
    BY <1>1, <1>2, <1>5, <1>7, <1>8, BackgroundEnds DEF PromisesOK, FilesTyped
  <1>10. CallsTyped' /\ QueueOK'
    BY <1>2, <1>5, <1>8, SignalledQueue
  <1> QED
    BY <1>9, <1>10 DEF LevelIInv, StoreOK

LEMMA FlushAbortedStep ==
    ASSUME LevelIInv, FlushAborted PROVE LevelIInv'
  <1>1. /\ MemoryTyped /\ CallsTyped /\ PromisesOK /\ FilesTyped /\ MergeOK /\ FlushOK
        /\ db.status = "open" /\ bg.flush = "build"
    BY BackgroundIsOpen DEF LevelIInv, FlushAborted
  <1>2. /\ UNCHANGED <<logs, manifest, damage, vs, writers, calls, promised, synced>>
        /\ tables' = With(tables, bg.flushOut, UNION db.imm)
    BY DEF FlushAborted
  <1>3. /\ DOMAIN tables \subseteq DOMAIN tables'
        /\ tables' = [f \in DOMAIN tables' |-> tables'[f]]
        /\ \A f \in DOMAIN tables : tables'[f] = tables[f]
        /\ \A f \in DOMAIN tables' : f \in Nat /\ f < vs'.nextFile /\ tables'[f] \subseteq Known
        /\ \A f \in Files(manifest) : tables'[f] = tables[f]
    BY <1>1, <1>2, FlushTableIs
  <1> DEFINE d == Failed(Unpend(bg.flushOut))
  <1>4. /\ d \in DbRecords /\ d.status = db.status /\ d.mem = db.mem /\ d.imm = db.imm
        /\ d.logfile = db.logfile /\ d.pending = db.pending \ {bg.flushOut} /\ d.bgError
    BY <1>1, UnpendIs
  <1>5. AfterFlush(d, vs)
    BY DEF FlushAborted
  <1> HIDE DEF d
  <1>6. /\ bg' \in BgRecords /\ bg'.flush = "none" /\ bg'.merge = bg.merge /\ writer' = SignalAll
        /\ bg.merge = "none" => bg'.mergeIn = {}
        /\ bg.merge # "none" => bg'.mergeIn = bg.mergeIn /\ bg'.mergeOut = bg.mergeOut
        /\ db' \in DbRecords /\ db'.status = db.status /\ db'.mem = db.mem /\ db'.imm = db.imm
        /\ db'.logfile = db.logfile /\ db'.pending = d.pending /\ db'.bgError
    BY <1>1, <1>4, <1>5, AfterFlushIs
  <1>7. bg.merge # "none" => bg.flushOut # bg.mergeOut
    BY <1>1 DEF MergeOK, FlushOK
  <1>8. MergeOK' /\ bg'.merge # "install"
    BY <1>1, <1>2, <1>3, <1>4, <1>6, <1>7, MergeWaits
  <1>9. FlushOK' /\ EditOK'
    BY <1>1, <1>6, <1>8 DEF FlushOK, EditOK, Editing
  <1>10. vs' \in Versions /\ vs'.nextFile >= vs.nextFile
    BY <1>1, <1>2 DEF MemoryTyped, Versions
  <1>11. StoreOK' /\ NotOpenIsQuiet'
    BY <1>1, <1>2, <1>3, <1>6, <1>8, <1>9, <1>10, BackgroundKeeps DEF PromisesOK, FilesTyped
  <1>12. CallsTyped' /\ QueueOK'
    BY <1>1, <1>2, <1>6, SignalledQueue DEF CallsTyped
  <1> QED
    BY <1>11, <1>12 DEF LevelIInv, StoreOK

\* A version that could follow the MANIFEST there is: its numbers are those in use,
\* and what is known is in its tables and logs, as far as it was promised.
LEMMA VersionFollows ==
    ASSUME LevelIInv, db.status = "open", NEW v \in Versions, NEW U, Files(v) \subseteq DOMAIN U,
           \A f \in Files(v) : f < vs.nextFile /\ U[f] \subseteq Known,
           v.nextFile = vs.nextFile, v.lastSequence = vs.lastSequence, v.logNumber <= db.logfile,
           promised \subseteq Batches(TablesOf(U, Files(v)) \cup CertainIn(logs, Since(logs, v.logNumber))),
           synced \subseteq Batches(TablesOf(U, Files(v)) \cup HardIn(logs, Since(logs, v.logNumber)))
    PROVE  DiskOK(U, logs, v, promised, synced)
  <1>1. FilesTyped /\ MemoryTyped /\ NumbersOK /\ SequencesOK
    BY DEF LevelIInv
  <1>2. v.logNumber < v.nextFile
    <2>1. db.logfile < vs.nextFile /\ db.logfile \in Nat /\ vs.nextFile \in Nat /\ v.logNumber \in Nat
      BY <1>1 DEF NumbersOK, FilesTyped, MemoryTyped, DbRecords, Versions
    <2> QED
      BY <2>1
  <1>3. \A f \in Files(v) : f < v.nextFile /\ \A e \in U[f] : e[1] <= v.lastSequence
    BY <1>1 DEF SequencesOK
  <1>4. Unique(TablesOf(U, Files(v)) \cup LoggedIn(logs, Since(logs, v.logNumber)))
    <2>1. TablesOf(U, Files(v)) \subseteq Known
      BY DEF TablesOf
    <2>2. Since(logs, v.logNumber) \subseteq DOMAIN logs
      BY DEF Since
    <2>3. LoggedIn(logs, Since(logs, v.logNumber)) \subseteq Known
      BY <2>2, InIsMonotone DEF Known
    <2> QED
      BY <1>1, <2>1, <2>3 DEF SequencesOK, Unique
  <1> QED
    BY <1>2, <1>3, <1>4 DEF DiskOK

LEMMA FlushEditIs ==
    ASSUME MemoryTyped
    PROVE  /\ FlushEdit \in Edits /\ FlushEdit.add0 \cup FlushEdit.add1 = {bg.flushOut}
           /\ FlushEdit.del = {} /\ FlushEdit.logNumber = db.logfile
           /\ FlushEdit.nextFile = vs.nextFile /\ FlushEdit.lastSequence = vs.lastSequence
  <1>1. bg.flushOut \in Nat /\ db.logfile \in Nat /\ vs.nextFile \in Nat /\ vs.lastSequence \in Nat
    BY DEF MemoryTyped, BgRecords, DbRecords, Versions
  <1>2. CASE Files(vs) = {}
    BY <1>1, <1>2 DEF FlushEdit, NoEdit, Edits
  <1>3. CASE Files(vs) # {}
    BY <1>1, <1>3 DEF FlushEdit, NoEdit, Edits
  <1> QED
    BY <1>2, <1>3

LEMMA FlushBuiltStep ==
    ASSUME LevelIInv, FlushBuilt PROVE LevelIInv'
  <1>1. /\ MemoryTyped /\ CallsTyped /\ PromisesOK /\ FilesTyped /\ NumbersOK /\ MemoryOK /\ MergeOK
        /\ FlushOK /\ db.status = "open" /\ bg.flush = "build"
    BY BackgroundIsOpen DEF LevelIInv, FlushBuilt
  <1>2. /\ UNCHANGED <<logs, manifest, damage, vs, writers, writer, calls, promised, synced>>
        /\ tables' = With(tables, bg.flushOut, UNION db.imm)
    BY DEF FlushBuilt
  <1>3. /\ DOMAIN tables' = DOMAIN tables \cup {bg.flushOut}
        /\ tables' = [f \in DOMAIN tables' |-> tables'[f]]
        /\ tables'[bg.flushOut] = UNION db.imm
        /\ \A f \in DOMAIN tables : tables'[f] = tables[f]
        /\ \A f \in DOMAIN tables' : f \in Nat /\ f < vs'.nextFile /\ tables'[f] \subseteq Known
        /\ \A f \in Files(manifest) : tables'[f] = tables[f]
        /\ Files(manifest) \subseteq DOMAIN tables
    BY <1>1, <1>2, FlushTableIs
  <1>4. /\ db' \in DbRecords /\ db'.status = db.status /\ db'.mem = db.mem /\ db'.imm = db.imm
        /\ db'.logfile = db.logfile /\ db'.pending = db.pending \ {bg.flushOut}
        /\ db'.bgError = db.bgError
    BY <1>1, UnpendIs DEF FlushBuilt
  <1>5. /\ FlushEdit \in Edits /\ FlushEdit.add0 \cup FlushEdit.add1 = {bg.flushOut}
        /\ FlushEdit.del = {} /\ FlushEdit.logNumber = db.logfile
        /\ FlushEdit.nextFile = vs.nextFile /\ FlushEdit.lastSequence = vs.lastSequence
    BY <1>1, FlushEditIs
  <1>6. /\ bg' \in BgRecords /\ bg'.flush = "install" /\ bg'.flushOut = bg.flushOut
        /\ bg'.merge = bg.merge /\ bg'.mergeOut = bg.mergeOut /\ bg'.mergeIn = bg.mergeIn
        /\ bg'.edit = FlushEdit
    BY <1>1, <1>5 DEF FlushBuilt, MemoryTyped, BgRecords
  <1>7. bg.merge # "none" => bg.flushOut # bg.mergeOut
    BY <1>1 DEF MergeOK, FlushOK
  <1>8. MergeOK' /\ bg'.merge # "install"
    <2>1. bg.merge = "none" => bg'.mergeIn = {}
      BY <1>1, <1>6 DEF MergeOK
    <2> QED
      BY <1>1, <1>2, <1>3, <1>4, <1>6, <1>7, <2>1, MergeWaits
  <1>9. FlushOK'
    BY <1>1, <1>2, <1>3, <1>4, <1>5, <1>6, <1>7, <1>8 DEF FlushOK
  <1> DEFINE v == Apply(manifest, FlushEdit)
  <1>10. /\ v \in Versions /\ Files(v) = Files(manifest) \cup {bg.flushOut}
         /\ v.logNumber = db.logfile /\ v.nextFile = vs.nextFile /\ v.lastSequence = vs.lastSequence
    <2>1. manifest \in Versions
      BY <1>1 DEF FilesTyped
    <2> QED
      BY <1>5, <2>1, ApplyIs
  <1> HIDE DEF v
  <1>11. TablesOf(tables', Files(v)) = TablesOf(tables, Files(manifest)) \cup (UNION db.imm)
    BY <1>3, <1>10 DEF TablesOf
  <1>12. DiskOK(tables', logs, v, promised, synced)
    <2> DEFINE T == TablesOf(tables', Files(v))
               N == Since(logs, v.logNumber)
    <2>1. {db.logfile} \subseteq N
      BY <1>1, <1>10 DEF Since, NumbersOK, FilesTyped
    <2>2. /\ promised \subseteq Batches(T \cup CertainIn(logs, {db.logfile}))
          /\ synced \subseteq Batches(T \cup HardIn(logs, {db.logfile}))
      BY <1>1, <1>11 DEF MemoryOK
    <2> HIDE DEF T, N
    <2>3. /\ T \cup CertainIn(logs, {db.logfile}) \subseteq T \cup CertainIn(logs, N)
          /\ T \cup HardIn(logs, {db.logfile}) \subseteq T \cup HardIn(logs, N)
      BY <2>1, InIsMonotone
    <2>4. /\ Batches(T \cup CertainIn(logs, {db.logfile})) \subseteq Batches(T \cup CertainIn(logs, N))
          /\ Batches(T \cup HardIn(logs, {db.logfile})) \subseteq Batches(T \cup HardIn(logs, N))
      BY <2>3 DEF Batches
    <2>5. Files(v) \subseteq DOMAIN tables' /\ v.logNumber <= db.logfile
      BY <1>1, <1>3, <1>10 DEF MemoryTyped, DbRecords
    <2>6. \A f \in Files(v) : f < vs.nextFile /\ tables'[f] \subseteq Known
      BY <1>2, <1>3, <2>5
    <2> QED
      BY <1>1, <1>10, <2>2, <2>4, <2>5, <2>6, VersionFollows DEF T, N
  <1>13. EditOK'
    BY <1>2, <1>6, <1>12 DEF EditOK, ManifestOK, v
  <1>14. vs' \in Versions /\ vs'.nextFile >= vs.nextFile
    BY <1>1, <1>2 DEF MemoryTyped, Versions
  <1>15. StoreOK' /\ NotOpenIsQuiet'
    BY <1>1, <1>2, <1>3, <1>4, <1>6, <1>8, <1>9, <1>13, <1>14, BackgroundKeeps
    DEF PromisesOK, FilesTyped
  <1>16. CallsTyped' /\ QueueOK'
    BY <1>1, <1>2, SignalledQueue DEF CallsTyped
  <1> QED
    BY <1>15, <1>16 DEF LevelIInv, StoreOK

LEMMA MergeBeginsStep ==
    ASSUME LevelIInv, MergeBegins PROVE LevelIInv'
  <1>1. /\ MemoryTyped /\ CallsTyped /\ PromisesOK /\ NotOpenIsQuiet /\ FilesTyped /\ NumbersOK
        /\ ManifestOK(manifest) /\ db.status = "open"
    BY DEF LevelIInv, NotOpenIsQuiet, MergeBegins
  <1> DEFINE n == vs.nextFile
  <1>2. /\ UNCHANGED <<logs, manifest, damage, writers, writer, calls, promised, synced>>
        /\ tables' = With(tables, n, {})
    BY DEF MergeBegins
  <1>3. /\ vs' \in Versions /\ vs'.l0 = vs.l0 /\ vs'.l1 = vs.l1 /\ vs'.logNumber = vs.logNumber
        /\ vs'.lastSequence = vs.lastSequence /\ vs'.nextFile = n + 1 /\ n \in Nat
    BY <1>1 DEF MergeBegins, MemoryTyped, Versions
  <1>4. Files(vs') = Files(vs) /\ vs'.nextFile >= vs.nextFile
    BY <1>3 DEF Files
  <1>5. /\ db' \in DbRecords /\ db'.status = db.status /\ db'.mem = db.mem /\ db'.imm = db.imm
        /\ db'.logfile = db.logfile /\ db'.pending = db.pending \cup {n}
        /\ db'.bgError = db.bgError
    BY <1>1, <1>3 DEF MergeBegins, MemoryTyped, DbRecords
  <1>6. /\ bg' \in BgRecords /\ bg'.flush = "none" /\ bg'.merge = "build"
        /\ bg'.mergeOut = n /\ bg'.mergeIn = Files(vs)
    <2>1. Files(vs) \subseteq Nat
      BY <1>1, VersionFiles DEF MemoryTyped
    <2> QED
      BY <1>1, <1>3, <2>1 DEF MergeBegins, BgIdle, MemoryTyped, BgRecords
  <1>7. /\ DOMAIN With(tables, n, {}) = DOMAIN tables \cup {n} /\ With(tables, n, {})[n] = {}
        /\ \A m \in DOMAIN tables : m # n => With(tables, n, {})[m] = tables[m]
        /\ With(tables, n, {}) = [f \in DOMAIN With(tables, n, {}) |-> With(tables, n, {})[f]]
    <2> HIDE DEF n
    <2> QED
      BY DEF With
  <1>8. n \notin DOMAIN tables
    BY <1>1, <1>3 DEF NumbersOK, FilesTyped
  <1> HIDE DEF n
  <1>9. /\ DOMAIN tables' = DOMAIN tables \cup {n} /\ tables'[n] = {}
        /\ \A f \in DOMAIN tables : tables'[f] = tables[f]
        /\ tables' = [f \in DOMAIN tables' |-> tables'[f]]
    BY <1>2, <1>7, <1>8
  <1>10. \A f \in DOMAIN tables' : f \in Nat /\ f < vs'.nextFile /\ tables'[f] \subseteq Known
    <2>1. \A f \in DOMAIN tables : f \in Nat /\ f < n /\ tables[f] \subseteq Known
      BY <1>1 DEF NumbersOK, FilesTyped, Known, TablesOf, n
    <2> QED
      BY <1>3, <1>9, <2>1
  <1>11. Files(manifest) \subseteq DOMAIN tables /\ Files(vs) \subseteq DOMAIN tables
    BY <1>1 DEF ManifestOK, DiskOK, NumbersOK
  <1>12. FlushOK' /\ EditOK'
    BY <1>1, <1>5, <1>6 DEF FlushOK, EditOK, Editing
  <1>13. MergeOK'
    BY <1>2, <1>4, <1>5, <1>6, <1>8, <1>9, <1>11 DEF MergeOK
  <1>14. StoreOK' /\ NotOpenIsQuiet'
    BY <1>1, <1>2, <1>3, <1>4, <1>5, <1>6, <1>9, <1>10, <1>11, <1>12, <1>13, BackgroundKeeps
    DEF PromisesOK, FilesTyped
  <1>15. CallsTyped' /\ QueueOK'
    BY <1>1, <1>2, SignalledQueue DEF CallsTyped
  <1> QED
    BY <1>14, <1>15 DEF LevelIInv, StoreOK

LEMMA MergeBuiltStep ==
    ASSUME LevelIInv, MergeBuilt PROVE LevelIInv'
  <1>1. /\ MemoryTyped /\ CallsTyped /\ PromisesOK /\ FilesTyped /\ NumbersOK /\ MergeOK
        /\ ManifestOK(manifest) /\ db.status = "open" /\ bg.merge = "build" /\ bg.flush = "none"
    BY BackgroundIsOpen DEF LevelIInv, MergeBuilt
  <1> DEFINE n == bg.mergeOut
  <1>2. /\ UNCHANGED <<logs, manifest, damage, vs, db, writers, writer, calls, promised, synced>>
        /\ tables' = [tables EXCEPT ![n] = TablesOf(tables, bg.mergeIn)] /\ n \in DOMAIN tables
    BY DEF MergeBuilt, TablesOf
  <1>3. /\ bg' \in BgRecords /\ bg'.flush = "none" /\ bg'.merge = "built"
        /\ bg'.mergeOut = n /\ bg'.mergeIn = bg.mergeIn
    BY <1>1 DEF MergeBuilt, MemoryTyped, BgRecords
  <1>4. /\ bg.mergeIn \subseteq DOMAIN tables /\ n \in db.pending
        /\ n \notin Files(vs) \cup Files(manifest) /\ bg.mergeIn \subseteq Files(vs)
    BY <1>1 DEF MergeOK, NumbersOK
  <1> HIDE DEF n
  <1>5. /\ DOMAIN tables' = DOMAIN tables /\ tables'[n] = TablesOf(tables, bg.mergeIn)
        /\ \A f \in DOMAIN tables : f # n => tables'[f] = tables[f]
        /\ tables' = [f \in DOMAIN tables' |-> tables'[f]]
    BY <1>1, <1>2 DEF FilesTyped
  <1>6. \A f \in DOMAIN tables' : f \in Nat /\ f < vs'.nextFile /\ tables'[f] \subseteq Known
    <2>1. \A f \in DOMAIN tables : f \in Nat /\ f < vs.nextFile /\ tables[f] \subseteq Known
      BY <1>1 DEF NumbersOK, FilesTyped, Known, TablesOf
    <2>2. TablesOf(tables, bg.mergeIn) \subseteq Known
      BY <1>4, <2>1 DEF TablesOf
    <2> QED
      BY <1>2, <1>5, <2>1, <2>2
  <1>7. Files(manifest) \subseteq DOMAIN tables
    BY <1>1 DEF ManifestOK, DiskOK
  <1>8. \A f \in Files(manifest) : tables'[f] = tables[f]
    BY <1>4, <1>5, <1>7
  <1>9. FlushOK' /\ EditOK'
    BY <1>1, <1>2, <1>3 DEF FlushOK, EditOK, Editing
  <1>10. MergeOK'
    <2>1. TablesOf(tables', bg.mergeIn) = TablesOf(tables, bg.mergeIn)
      BY <1>4, <1>5, SameTables
    <2> QED
      BY <1>2, <1>3, <1>4, <1>5, <2>1 DEF MergeOK
  <1>11. vs' \in Versions /\ vs'.nextFile >= vs.nextFile /\ db' \in DbRecords
    BY <1>1, <1>2 DEF MemoryTyped, Versions
  <1>12. StoreOK' /\ NotOpenIsQuiet'
    BY <1>1, <1>2, <1>3, <1>5, <1>6, <1>8, <1>9, <1>10, <1>11, BackgroundKeeps
    DEF PromisesOK, FilesTyped
  <1>13. CallsTyped' /\ QueueOK'
    BY <1>1, <1>2, SignalledQueue DEF CallsTyped
  <1> QED
    BY <1>12, <1>13 DEF LevelIInv, StoreOK

LEMMA MergeFailsStep ==
    ASSUME LevelIInv, MergeFails PROVE LevelIInv'
  <1>1. MemoryTyped /\ CallsTyped /\ PromisesOK /\ FilesTyped /\ db.status = "open"
    BY BackgroundIsOpen DEF LevelIInv, MergeFails
  <1>2. UNCHANGED <<logs, tables, manifest, damage, vs, writers, promised, synced>>
    BY DEF MergeFails, diskVars
  <1> DEFINE d == Failed(Unpend(bg.mergeOut))
  <1>3. /\ d \in DbRecords /\ d.status = db.status /\ d.mem = db.mem /\ d.imm = db.imm
        /\ d.logfile = db.logfile /\ d.bgError
    BY <1>1, UnpendIs
  <1>4. BackgroundDone(d, vs)
    BY DEF MergeFails
  <1> HIDE DEF d
  <1>5. /\ bg' = IdleBg /\ bg' \in BgRecords /\ writer' = SignalAll
        /\ db' \in DbRecords /\ db'.status = db.status /\ db'.mem = db.mem /\ db'.imm = db.imm
        /\ db'.logfile = db.logfile /\ db'.bgError
    BY <1>3, <1>4, DoneIs
  <1>6. bg'.flush = "none" /\ bg'.merge = "none" /\ bg'.mergeIn = {}
    BY <1>5 DEF IdleBg
  <1>7. MergeOK'
    BY <1>6 DEF MergeOK
  <1>8. calls' \in [batches : Nat, stops : Nat, errors : Nat] /\ calls'.batches = calls.batches
    BY <1>1, IoErrorIs DEF MergeFails, CallsTyped
  <1>9. StoreOK' /\ NotOpenIsQuiet'
    BY <1>1, <1>2, <1>5, <1>6, <1>7, <1>8, BackgroundEnds DEF PromisesOK, FilesTyped
  <1>10. CallsTyped' /\ QueueOK'
    BY <1>2, <1>5, <1>8, SignalledQueue
  <1> QED
    BY <1>9, <1>10 DEF LevelIInv, StoreOK

LEMMA MergeInstallsStep ==
    ASSUME LevelIInv, MergeInstalls PROVE LevelIInv'
  <1>1. /\ MemoryTyped /\ CallsTyped /\ PromisesOK /\ FilesTyped /\ NumbersOK /\ MergeOK
        /\ ManifestOK(manifest) /\ db.status = "open" /\ bg.merge = "built" /\ bg.flush = "none"
    BY BackgroundIsOpen DEF LevelIInv, MergeInstalls
  <1>2. UNCHANGED <<logs, tables, manifest, damage, vs, db, writers, writer, calls, promised, synced>>
    BY DEF MergeInstalls, diskVars
  <1> DEFINE n == bg.mergeOut
             x == [NoEdit EXCEPT !.add1 = {n}, !.del = bg.mergeIn, !.logNumber = vs.logNumber,
                                 !.nextFile = vs.nextFile, !.lastSequence = vs.lastSequence]
  <1>3. /\ x \in Edits /\ x.add0 = {} /\ x.add1 = {n} /\ x.del = bg.mergeIn
        /\ x.logNumber = vs.logNumber /\ x.nextFile = vs.nextFile /\ x.lastSequence = vs.lastSequence
    BY <1>1 DEF NoEdit, Edits, MemoryTyped, BgRecords, Versions
  <1>4. bg' = [bg EXCEPT !.merge = "install", !.edit = x]
    BY DEF MergeInstalls
  <1> HIDE DEF x
  <1>5. /\ bg' \in BgRecords /\ bg'.flush = "none" /\ bg'.merge = "install"
        /\ bg'.mergeOut = n /\ bg'.mergeIn = bg.mergeIn /\ bg'.edit = x
    BY <1>1, <1>3, <1>4 DEF MemoryTyped, BgRecords
  <1>6. /\ bg.mergeIn \subseteq DOMAIN tables /\ n \in db.pending /\ n \in DOMAIN tables
        /\ n \notin Files(vs) \cup Files(manifest) /\ bg.mergeIn \subseteq Files(vs)
        /\ tables[n] = TablesOf(tables, bg.mergeIn)
    BY <1>1 DEF MergeOK, NumbersOK
  <1> HIDE DEF n
  <1> DEFINE v == Apply(manifest, x)
  <1>7. /\ v \in Versions /\ Files(v) = (Files(manifest) \ bg.mergeIn) \cup {n}
        /\ v.logNumber = vs.logNumber /\ v.nextFile = vs.nextFile /\ v.lastSequence = vs.lastSequence
    <2>1. manifest \in Versions
      BY <1>1 DEF FilesTyped
    <2>2. Files(v) = (Files(manifest) \ x.del) \cup x.add0 \cup x.add1
      BY <1>3, <2>1, ApplyIs
    <2> QED
      BY <1>3, <2>1, <2>2, ApplyIs
  <1> HIDE DEF v
  <1>8. Files(manifest) \subseteq DOMAIN tables
    BY <1>1 DEF ManifestOK, DiskOK
  <1>9. TablesOf(tables, Files(manifest)) \subseteq TablesOf(tables, Files(v))
    BY <1>6, <1>7 DEF TablesOf
  <1>10. DiskOK(tables, logs, v, promised, synced)
    <2> DEFINE T == TablesOf(tables, Files(manifest))
               U == TablesOf(tables, Files(v))
               M == Since(logs, manifest.logNumber)
               N == Since(logs, v.logNumber)
    <2>1. M \subseteq N
      BY <1>1, <1>7 DEF Since, NumbersOK, FilesTyped, MemoryTyped, Versions
    <2>2. /\ promised \subseteq Batches(T \cup CertainIn(logs, M))
          /\ synced \subseteq Batches(T \cup HardIn(logs, M))
      BY <1>1 DEF ManifestOK, DiskOK
    <2>3. T \subseteq U
      BY <1>9
    <2> HIDE DEF T, U, M, N
    <2>4. /\ T \cup CertainIn(logs, M) \subseteq U \cup CertainIn(logs, N)
          /\ T \cup HardIn(logs, M) \subseteq U \cup HardIn(logs, N)
      BY <2>1, <2>3, InIsMonotone
    <2>5. /\ Batches(T \cup CertainIn(logs, M)) \subseteq Batches(U \cup CertainIn(logs, N))
          /\ Batches(T \cup HardIn(logs, M)) \subseteq Batches(U \cup HardIn(logs, N))
      BY <2>4 DEF Batches
    <2>6. Files(v) \subseteq DOMAIN tables
      BY <1>6, <1>7, <1>8
    <2>7. v.logNumber <= db.logfile
      BY <1>1, <1>7 DEF NumbersOK, FilesTyped, MemoryTyped, Versions, DbRecords
    <2>8. \A f \in Files(v) : f < vs.nextFile /\ tables[f] \subseteq Known
      BY <1>1, <2>6 DEF NumbersOK, Known, TablesOf
    <2> QED
      BY <1>1, <1>7, <2>2, <2>5, <2>6, <2>7, <2>8, VersionFollows DEF U, N
  <1>11. EditOK'
    BY <1>2, <1>5, <1>10 DEF EditOK, ManifestOK, v
  <1>12. FlushOK'
    BY <1>5 DEF FlushOK
  <1>13. MergeOK'
    BY <1>2, <1>3, <1>5, <1>6 DEF MergeOK
  <1>14. /\ vs' \in Versions /\ vs'.nextFile >= vs.nextFile /\ db' \in DbRecords
         /\ tables' = [f \in DOMAIN tables' |-> tables'[f]]
    BY <1>1, <1>2 DEF MemoryTyped, Versions, FilesTyped
  <1>15. \A f \in DOMAIN tables' : f \in Nat /\ f < vs'.nextFile /\ tables'[f] \subseteq Known
    BY <1>1, <1>2 DEF NumbersOK, FilesTyped, Known, TablesOf
  <1>16. StoreOK' /\ NotOpenIsQuiet'
    BY <1>1, <1>2, <1>5, <1>11, <1>12, <1>13, <1>14, <1>15, BackgroundKeeps
    DEF PromisesOK, FilesTyped
  <1>17. CallsTyped' /\ QueueOK'
    BY <1>1, <1>2, SignalledQueue DEF CallsTyped
  <1> QED
    BY <1>16, <1>17 DEF LevelIInv, StoreOK

\* The edit being recorded leads to versions whose files exist and keeps what the
\* tables of the MANIFEST have, and what a flush adds.
LEMMA EditLeads ==
    ASSUME LevelIInv, bg.flush = "install" \/ bg.merge = "install"
    PROVE  /\ Apply(manifest, bg.edit) \in Versions /\ Install(vs, bg.edit) \in Versions
           /\ Apply(manifest, bg.edit).logNumber = bg.edit.logNumber
           /\ Install(vs, bg.edit).logNumber = bg.edit.logNumber
           /\ Install(vs, bg.edit).nextFile = vs.nextFile
           /\ Install(vs, bg.edit).lastSequence = vs.lastSequence
           /\ vs.logNumber <= bg.edit.logNumber /\ bg.edit.logNumber <= db.logfile
           /\ Files(Apply(manifest, bg.edit)) \subseteq DOMAIN tables
           /\ Files(Install(vs, bg.edit)) \subseteq DOMAIN tables
           /\ Files(manifest) = Files(vs) => Files(Apply(manifest, bg.edit)) = Files(Install(vs, bg.edit))
           /\ TablesOf(tables, Files(manifest)) \subseteq TablesOf(tables, Files(Apply(manifest, bg.edit)))
           /\ bg.flush = "install" =>
                /\ (UNION db.imm) \subseteq TablesOf(tables, Files(Apply(manifest, bg.edit)))
                /\ Files(Apply(manifest, bg.edit)) = Files(manifest) \cup {bg.flushOut}
                /\ Files(Install(vs, bg.edit)) = Files(vs) \cup {bg.flushOut}
  <1>1. /\ MemoryTyped /\ FilesTyped /\ NumbersOK /\ MergeOK /\ FlushOK /\ ManifestOK(manifest)
        /\ db.status = "open"
    BY BackgroundIsOpen DEF LevelIInv
  <1> DEFINE x == bg.edit
             v == Apply(manifest, x)
             u == Install(vs, x)
  <1>2. manifest \in Versions /\ vs \in Versions /\ x \in Edits
    BY <1>1 DEF FilesTyped, MemoryTyped, BgRecords
  <1>3. /\ v \in Versions /\ u \in Versions /\ v.logNumber = x.logNumber /\ u.logNumber = x.logNumber
        /\ u.nextFile = vs.nextFile /\ u.lastSequence = vs.lastSequence
        /\ Files(v) = (Files(manifest) \ x.del) \cup x.add0 \cup x.add1
        /\ Files(u) = (Files(vs) \ x.del) \cup x.add0 \cup x.add1
    BY <1>2, ApplyIs
  <1> HIDE DEF x, v, u
  <1>4. Files(manifest) \subseteq DOMAIN tables /\ Files(vs) \subseteq DOMAIN tables
    BY <1>1 DEF ManifestOK, DiskOK, NumbersOK
  <1>5. CASE bg.flush = "install"
    <2>1. /\ bg.flushOut \in DOMAIN tables /\ tables[bg.flushOut] = UNION db.imm
          /\ x.add0 \cup x.add1 = {bg.flushOut} /\ x.del = {} /\ x.logNumber = db.logfile
      BY <1>1, <1>5 DEF FlushOK, x
    <2>2. Files(v) = Files(manifest) \cup {bg.flushOut} /\ Files(u) = Files(vs) \cup {bg.flushOut}
      BY <1>3, <2>1
    <2>3. /\ TablesOf(tables, Files(manifest)) \subseteq TablesOf(tables, Files(v))
          /\ (UNION db.imm) \subseteq TablesOf(tables, Files(v))
      BY <2>1, <2>2 DEF TablesOf
    <2>4. vs.logNumber <= x.logNumber /\ x.logNumber <= db.logfile
      BY <1>1, <2>1 DEF NumbersOK, FilesTyped, MemoryTyped, Versions, DbRecords
    <2> QED
      BY <1>3, <1>4, <2>1, <2>2, <2>3, <2>4 DEF x, v, u
  <1>6. CASE bg.merge = "install"
    <2>1. /\ bg.flush = "none" /\ x.add0 = {} /\ x.add1 = {bg.mergeOut} /\ x.del = bg.mergeIn
          /\ x.logNumber = vs.logNumber /\ bg.mergeOut \in DOMAIN tables
          /\ tables[bg.mergeOut] = TablesOf(tables, bg.mergeIn)
      BY <1>1, <1>6 DEF MergeOK, x
    <2>2. /\ Files(v) = (Files(manifest) \ bg.mergeIn) \cup {bg.mergeOut}
          /\ Files(u) = (Files(vs) \ bg.mergeIn) \cup {bg.mergeOut}
      BY <1>3, <2>1
    <2>3. TablesOf(tables, Files(manifest)) \subseteq TablesOf(tables, Files(v))
      BY <2>1, <2>2 DEF TablesOf
    <2>4. vs.logNumber <= x.logNumber /\ x.logNumber <= db.logfile
      BY <1>1, <2>1 DEF NumbersOK, FilesTyped, MemoryTyped, Versions, DbRecords
    <2> QED
      BY <1>3, <1>4, <2>1, <2>2, <2>3, <2>4 DEF x, v, u
  <1> QED
    BY <1>5, <1>6

\* The files of a version and its logs stay when obsolete files are deleted.
LEMMA ObsoleteDeleted ==
    ASSUME FilesTyped, NEW v \in Versions, NEW P, DeleteObsoleteFiles(v, P)
    PROVE  /\ DOMAIN tables' = DOMAIN tables \cap (Files(v) \cup P)
           /\ DOMAIN logs' = Since(logs, v.logNumber)
           /\ \A f \in DOMAIN tables' : tables'[f] = tables[f]
           /\ \A n \in DOMAIN logs' : logs'[n] = logs[n]
           /\ tables' = [f \in DOMAIN tables' |-> tables'[f]]
           /\ logs' = [n \in DOMAIN logs' |-> logs'[n]]
  <1> DEFINE S == Files(v) \cup P
             N == {n \in DOMAIN logs : n >= v.logNumber}
  <1>1. tables' = Only(tables, S) /\ logs' = Only(logs, N)
    BY DEF DeleteObsoleteFiles
  <1>2. DOMAIN logs \cap N = Since(logs, v.logNumber)
    BY DEF Since
  <1> HIDE DEF S, N
  <1>3. /\ DOMAIN tables' = DOMAIN tables \cap S
        /\ \A f \in DOMAIN tables \cap S : tables'[f] = tables[f]
        /\ tables' = [f \in DOMAIN tables' |-> tables'[f]]
    BY <1>1 DEF Only
  <1>4. /\ DOMAIN logs' = DOMAIN logs \cap N
        /\ \A n \in DOMAIN logs \cap N : logs'[n] = logs[n]
        /\ logs' = [n \in DOMAIN logs' |-> logs'[n]]
    BY <1>1 DEF Only
  <1> QED
    BY <1>2, <1>3, <1>4 DEF S

\* The edit is in MANIFEST: either it is installed, or the background thread has its
\* error and the database keeps its version.
LEMMA EditInForce ==
    ASSUME LevelIInv, bg.flush = "install" \/ bg.merge = "install", EditWritten, NEW P,
           \/ UNCHANGED <<logs, tables, vs>> /\ db'.bgError
           \/ /\ vs' = Install(vs, bg.edit) /\ db'.bgError = db.bgError
              /\ UNCHANGED <<logs, tables>> \/ (~db.bgError /\ DeleteObsoleteFiles(vs', P)),
           db' \in DbRecords, db'.status = db.status, db'.mem = db.mem, db'.logfile = db.logfile,
           db'.imm = db.imm \/ (db'.imm = {} /\ bg.flush = "install"),
           bg' \in BgRecords, bg'.flush = "none", bg'.merge # "install", MergeOK',
           calls'.batches = calls.batches
    PROVE  StoreOK' /\ NotOpenIsQuiet'
  <1>1. /\ FilesTyped /\ MemoryTyped /\ PromisesOK /\ NumbersOK /\ SequencesOK /\ MemoryOK /\ EditOK
        /\ db.status = "open"
    BY BackgroundIsOpen DEF LevelIInv
  <1> DEFINE v == Apply(manifest, bg.edit)
             u == Install(vs, bg.edit)
  <1>2. /\ manifest' = v /\ damage' \in {"none", "torn", "corrupt"}
        /\ promised' \subseteq promised /\ synced' \subseteq synced /\ synced' \subseteq promised'
    BY <1>1 DEF EditWritten, PromisesOK
  <1>3. /\ v \in Versions /\ u \in Versions /\ v.logNumber = bg.edit.logNumber
        /\ u.logNumber = bg.edit.logNumber /\ u.nextFile = vs.nextFile /\ u.lastSequence = vs.lastSequence
        /\ vs.logNumber <= bg.edit.logNumber /\ bg.edit.logNumber <= db.logfile
        /\ Files(v) \subseteq DOMAIN tables /\ Files(u) \subseteq DOMAIN tables
        /\ Files(manifest) = Files(vs) => Files(v) = Files(u)
        /\ TablesOf(tables, Files(manifest)) \subseteq TablesOf(tables, Files(v))
        /\ bg.flush = "install" => (UNION db.imm) \subseteq TablesOf(tables, Files(v))
    BY EditLeads
  <1>4. ManifestOK(v)
    BY <1>1 DEF EditOK, Editing
  <1> HIDE DEF v, u
  <1>5. /\ vs' \in Versions /\ vs'.nextFile = vs.nextFile /\ vs'.lastSequence = vs.lastSequence
        /\ vs'.logNumber <= v.logNumber
        /\ ~db'.bgError => Files(v) = Files(vs') /\ v.logNumber = vs'.logNumber
        /\ Files(vs') \subseteq DOMAIN tables
    <2>1. bg.edit.logNumber \in Nat
      BY <1>1 DEF MemoryTyped, BgRecords, Edits
    <2>2. CASE UNCHANGED vs /\ db'.bgError
      BY <1>1, <1>3, <2>2 DEF NumbersOK, MemoryTyped
    <2>3. CASE vs' = Install(vs, bg.edit) /\ db'.bgError = db.bgError
      <3>1. vs' = u
        BY <2>3 DEF u
      <3>2. ~db'.bgError => Files(v) = Files(u)
        BY <1>1, <1>3, <2>3 DEF NumbersOK
      <3> QED
        BY <1>3, <2>1, <3>1, <3>2
    <2> QED
      BY <2>2, <2>3
  <1>6. /\ DOMAIN tables' \subseteq DOMAIN tables /\ Files(v) \subseteq DOMAIN tables'
        /\ Files(vs') \subseteq DOMAIN tables'
        /\ \A f \in DOMAIN tables' : tables'[f] = tables[f]
        /\ tables' = [f \in DOMAIN tables' |-> tables'[f]]
        /\ DOMAIN logs' \subseteq DOMAIN logs
        /\ \A n \in DOMAIN logs' : logs'[n] = logs[n]
        /\ logs' = [n \in DOMAIN logs' |-> logs'[n]]
        /\ Since(logs, v.logNumber) \subseteq DOMAIN logs'
    <2>1. CASE UNCHANGED <<logs, tables>>
      BY <1>1, <1>3, <1>5, <2>1 DEF FilesTyped, Since
    <2>2. CASE ~db.bgError /\ ~UNCHANGED <<logs, tables>>
      <3>1. vs' = u /\ DeleteObsoleteFiles(vs', P) /\ ~db'.bgError
        BY <2>2 DEF u
      <3>2. /\ DOMAIN tables' = DOMAIN tables \cap (Files(vs') \cup P)
            /\ DOMAIN logs' = Since(logs, vs'.logNumber)
            /\ \A f \in DOMAIN tables' : tables'[f] = tables[f]
            /\ \A n \in DOMAIN logs' : logs'[n] = logs[n]
            /\ tables' = [f \in DOMAIN tables' |-> tables'[f]]
            /\ logs' = [n \in DOMAIN logs' |-> logs'[n]]
        BY <1>1, <1>5, <3>1, ObsoleteDeleted
      <3>3. Since(logs, vs'.logNumber) \subseteq DOMAIN logs
        BY DEF Since
      <3> QED
        BY <1>3, <1>5, <3>1, <3>2, <3>3
    <2> QED
      BY <2>1, <2>2
  <1>7. FilesTyped'
    <2>1. tables' \in [DOMAIN tables' -> SUBSET EntryPairs]
      BY <1>1, <1>6 DEF FilesTyped
    <2>2. logs' \in [DOMAIN logs' -> LogFiles]
      BY <1>1, <1>6 DEF FilesTyped
    <2>3. \A n \in DOMAIN logs' : logs'[n].synced <= Len(logs'[n].records)
      BY <1>1, <1>6 DEF FilesTyped
    <2> QED
      BY <1>1, <1>2, <1>3, <1>6, <2>1, <2>2, <2>3 DEF FilesTyped
  <1>8. MemoryTyped' /\ PromisesOK'
    BY <1>1, <1>2, <1>5 DEF MemoryTyped, PromisesOK
  <1>9. ManifestOK(manifest)'
    <2>1. DiskOK(tables, logs, v, promised, synced)
      BY <1>4 DEF ManifestOK
    <2>2. DiskOK(tables, logs, v, promised', synced')
      BY <1>2, <1>3, <2>1, DiskKept
    <2>3. /\ \A f \in Files(v) : tables'[f] = tables[f]
          /\ \A n \in Since(logs, v.logNumber) : logs'[n] = logs[n]
          /\ \A n \in Since(logs', v.logNumber) : n \in DOMAIN logs \/ logs'[n] = NewLog
      BY <1>6 DEF Since
    <2>4. DiskOK(tables', logs', v, promised', synced')
      BY <1>6, <2>2, <2>3, DiskOtherLogs
    <2> QED
      BY <1>2, <2>4 DEF ManifestOK
  <1>10. RecoveringOK' /\ OpeningOK' /\ NotOpenIsQuiet' /\ FlushOK' /\ EditOK'
    BY <1>1 DEF RecoveringOK, OpeningOK, NotOpenIsQuiet, FlushOK, EditOK, Editing
  <1>11. db.logfile \in DOMAIN logs'
    BY <1>1, <1>3, <1>6 DEF NumbersOK, Since
  <1>12. NumbersOK'
    BY <1>1, <1>2, <1>3, <1>5, <1>6, <1>11 DEF NumbersOK
  <1>13. SequencesOK'
    <2>1. TablesOf(tables', DOMAIN tables') \subseteq TablesOf(tables, DOMAIN tables)
      BY <1>6 DEF TablesOf
    <2>2. LoggedIn(logs', DOMAIN logs') \subseteq LoggedIn(logs, DOMAIN logs)
      BY <1>6 DEF LoggedIn
    <2>3. (UNION db'.imm) \subseteq (UNION db.imm)
      OBVIOUS
    <2>4. Known' \subseteq Known
      BY <2>1, <2>2, <2>3 DEF Known
    <2> QED
      BY <1>1, <1>5, <2>4 DEF SequencesOK, Unique
  <1>14. MemoryOK'
    <2> DEFINE T == TablesOf(tables, Files(manifest))
               U == TablesOf(tables', Files(manifest'))
               I == UNION db.imm
               J == UNION db'.imm
               C == CertainIn(logs, {db.logfile})
               H == HardIn(logs, {db.logfile})
    <2>1. /\ promised \subseteq Batches(T \cup I \cup db.mem)
          /\ promised \subseteq Batches(T \cup I \cup C)
          /\ synced \subseteq Batches(T \cup I \cup H)
      BY <1>1 DEF MemoryOK
    <2>2. CertainIn(logs', {db.logfile}) = C /\ HardIn(logs', {db.logfile}) = H
      BY <1>6, <1>11 DEF CertainIn, HardIn
    <2>3. T \cup I \subseteq U \cup J
      <3>1. U = TablesOf(tables, Files(v))
        BY <1>2, <1>6, SameTables
      <3> QED
        BY <1>3, <3>1
    <2> HIDE DEF T, U, I, J, C, H
    <2>4. /\ Batches(T \cup I \cup db.mem) \subseteq Batches(U \cup J \cup db.mem)
          /\ Batches(T \cup I \cup C) \subseteq Batches(U \cup J \cup C)
          /\ Batches(T \cup I \cup H) \subseteq Batches(U \cup J \cup H)
      BY <2>3 DEF Batches
    <2>5. /\ promised' \subseteq Batches(U \cup J \cup db'.mem)
          /\ promised' \subseteq Batches(U \cup J \cup CertainIn(logs', {db'.logfile}))
          /\ synced' \subseteq Batches(U \cup J \cup HardIn(logs', {db'.logfile}))
      BY <1>2, <2>1, <2>2, <2>4
    <2> QED
      BY <2>5 DEF MemoryOK, U, J
  <1> QED
    BY <1>7, <1>8, <1>9, <1>10, <1>12, <1>13, <1>14 DEF StoreOK

LEMMA FlushInstalledStep ==
    ASSUME LevelIInv, FlushInstalled PROVE LevelIInv'
  <1>1. /\ MemoryTyped /\ CallsTyped /\ FilesTyped /\ MergeOK /\ FlushOK /\ NumbersOK
        /\ db.status = "open" /\ bg.flush = "install"
    BY BackgroundIsOpen DEF LevelIInv, FlushInstalled
  <1> DEFINE v == Install(vs, bg.edit)
             d == [db EXCEPT !.imm = {}]
  <1>2. /\ UNCHANGED <<writers, calls>> /\ EditWritten /\ vs' = v /\ AfterFlush(d, v)
        /\ \/ UNCHANGED <<logs, tables>>
           \/ ~db.bgError /\ DeleteObsoleteFiles(vs', db.pending)
    BY DEF FlushInstalled
  <1>3. /\ d \in DbRecords /\ d.status = db.status /\ d.mem = db.mem /\ d.imm = {}
        /\ d.logfile = db.logfile /\ d.pending = db.pending /\ d.bgError = db.bgError
    BY <1>1 DEF MemoryTyped, DbRecords
  <1> HIDE DEF d
  <1>4. /\ bg' \in BgRecords /\ bg'.flush = "none" /\ bg'.merge = bg.merge /\ writer' = SignalAll
        /\ bg.merge = "none" => bg'.mergeIn = {}
        /\ bg.merge # "none" => bg'.mergeIn = bg.mergeIn /\ bg'.mergeOut = bg.mergeOut
        /\ db' \in DbRecords /\ db'.status = db.status /\ db'.mem = db.mem /\ db'.imm = {}
        /\ db'.logfile = db.logfile /\ db'.pending = db.pending /\ db'.bgError = db.bgError
    BY <1>1, <1>2, <1>3, AfterFlushIs
  <1>5. /\ v \in Versions /\ Files(v) = Files(vs) \cup {bg.flushOut}
        /\ Files(manifest') = Files(manifest) \cup {bg.flushOut}
    BY <1>1, <1>2, EditLeads DEF EditWritten
  <1> HIDE DEF v
  <1>6. MergeOK' /\ bg'.merge # "install"
    <2>1. CASE bg.merge = "none"
      BY <1>4, <2>1 DEF MergeOK
    <2>2. CASE bg.merge # "none"
      <3>1. /\ bg.merge # "install" /\ bg.mergeIn \subseteq Files(vs) /\ bg.mergeOut \in DOMAIN tables
            /\ bg.mergeOut \in db.pending /\ bg.mergeOut \notin Files(vs) \cup Files(manifest)
            /\ bg.merge = "built" => tables[bg.mergeOut] = TablesOf(tables, bg.mergeIn)
            /\ bg.flushOut # bg.mergeOut /\ Files(vs) \subseteq DOMAIN tables
        BY <1>1, <2>2 DEF MergeOK, FlushOK, NumbersOK
      <3>2. /\ bg.mergeIn \cup {bg.mergeOut} \subseteq DOMAIN tables'
            /\ \A f \in bg.mergeIn \cup {bg.mergeOut} : tables'[f] = tables[f]
        <4>1. CASE UNCHANGED <<logs, tables>>
          BY <3>1, <4>1
        <4>2. CASE DeleteObsoleteFiles(vs', db.pending)
          <5>1. /\ DOMAIN tables' = DOMAIN tables \cap (Files(v) \cup db.pending)
                /\ \A f \in DOMAIN tables' : tables'[f] = tables[f]
            BY <1>1, <1>2, <1>5, <4>2, ObsoleteDeleted
          <5> QED
            BY <1>5, <3>1, <5>1
        <4> QED
          BY <1>2, <4>1, <4>2
      <3>3. TablesOf(tables', bg.mergeIn) = TablesOf(tables, bg.mergeIn)
        BY <3>2, SameTables
      <3> QED
        BY <1>2, <1>4, <1>5, <2>2, <3>1, <3>2, <3>3 DEF MergeOK
    <2> QED
      BY <2>1, <2>2
  <1>7. StoreOK' /\ NotOpenIsQuiet'
    BY <1>1, <1>2, <1>4, <1>6, EditInForce DEF v
  <1>8. CallsTyped' /\ QueueOK'
    BY <1>1, <1>2, <1>4, SignalledQueue DEF CallsTyped
  <1> QED
    BY <1>7, <1>8 DEF LevelIInv, StoreOK

LEMMA MergeInstalledStep ==
    ASSUME LevelIInv, MergeInstalled PROVE LevelIInv'
  <1>1. MemoryTyped /\ CallsTyped /\ db.status = "open" /\ bg.merge = "install"
    BY BackgroundIsOpen DEF LevelIInv, MergeInstalled
  <1> DEFINE v == Install(vs, bg.edit)
             d == Unpend(bg.mergeOut)
  <1>2. /\ UNCHANGED <<writers, calls>> /\ EditWritten /\ vs' = v /\ BackgroundDone(d, v)
        /\ \/ UNCHANGED <<logs, tables>>
           \/ ~db.bgError /\ DeleteObsoleteFiles(vs', d.pending)
    BY DEF MergeInstalled
  <1>3. /\ d \in DbRecords /\ d.status = db.status /\ d.mem = db.mem /\ d.imm = db.imm
        /\ d.logfile = db.logfile /\ d.bgError = db.bgError
    BY <1>1, UnpendIs
  <1> HIDE DEF d, v
  <1>4. /\ bg' = IdleBg /\ bg' \in BgRecords /\ writer' = SignalAll
        /\ db' \in DbRecords /\ db'.status = db.status /\ db'.mem = db.mem /\ db'.imm = db.imm
        /\ db'.logfile = db.logfile /\ db'.bgError = db.bgError
    BY <1>2, <1>3, DoneIs
  <1>5. bg'.flush = "none" /\ bg'.merge = "none" /\ bg'.mergeIn = {}
    BY <1>4 DEF IdleBg
  <1>6. MergeOK'
    BY <1>5 DEF MergeOK
  <1>7. StoreOK' /\ NotOpenIsQuiet'
    BY <1>1, <1>2, <1>4, <1>5, <1>6, EditInForce DEF v
  <1>8. CallsTyped' /\ QueueOK'
    BY <1>1, <1>2, <1>4, SignalledQueue DEF CallsTyped
  <1> QED
    BY <1>7, <1>8 DEF LevelIInv, StoreOK

\* What may be left of an edit that fails.
LEMMA EditFailsIs ==
    ASSUME PromisesOK, FilesTyped, EditFails
    PROVE  \/ EditWritten
           \/ /\ UNCHANGED manifest /\ damage' \in {"none", "torn", "corrupt"}
              /\ promised' \subseteq promised /\ synced' \subseteq synced /\ synced' \subseteq promised'
  <1>1. CASE UNCHANGED <<manifest, damage, promised, synced>>
    BY <1>1 DEF PromisesOK, FilesTyped
  <1>2. CASE /\ damage' = IF damage = "none" THEN "torn" ELSE "corrupt"
             /\ IF damage = "none" THEN UNCHANGED <<promised, synced>>
                ELSE promised' = {} /\ synced' = {}
             /\ UNCHANGED manifest
    BY <1>2 DEF PromisesOK
  <1> QED
    BY <1>1, <1>2 DEF EditFails

LEMMA FlushInstallFailsStep ==
    ASSUME LevelIInv, FlushInstallFails PROVE LevelIInv'
  <1>1. /\ MemoryTyped /\ CallsTyped /\ FilesTyped /\ PromisesOK /\ MergeOK /\ FlushOK /\ NumbersOK
        /\ db.status = "open" /\ bg.flush = "install"
    BY BackgroundIsOpen DEF LevelIInv, FlushInstallFails
  <1> DEFINE d == Failed(db)
  <1>2. UNCHANGED <<logs, tables, vs, writers>> /\ EditFails /\ AfterFlush(d, vs)
    BY DEF FlushInstallFails
  <1>3. /\ d \in DbRecords /\ d.status = db.status /\ d.mem = db.mem /\ d.imm = db.imm
        /\ d.logfile = db.logfile /\ d.pending = db.pending /\ d.bgError
    BY <1>1, UnpendIs DEF MemoryTyped
  <1> HIDE DEF d
  <1>4. /\ bg' \in BgRecords /\ bg'.flush = "none" /\ bg'.merge = bg.merge /\ writer' = SignalAll
        /\ bg.merge = "none" => bg'.mergeIn = {}
        /\ bg.merge # "none" => bg'.mergeIn = bg.mergeIn /\ bg'.mergeOut = bg.mergeOut
        /\ db' \in DbRecords /\ db'.status = db.status /\ db'.mem = db.mem /\ db'.imm = db.imm
        /\ db'.logfile = db.logfile /\ db'.pending = db.pending /\ db'.bgError
    BY <1>1, <1>2, <1>3, AfterFlushIs
  <1>5. /\ calls' \in [batches : Nat, stops : Nat, errors : Nat]
        /\ calls'.batches = calls.batches
    BY <1>1, <1>2, IoErrorIs DEF EditFails
  <1>6. ASSUME EditWritten PROVE StoreOK' /\ NotOpenIsQuiet'
    <2>1. Files(manifest') = Files(manifest) \cup {bg.flushOut}
      BY <1>1, <1>6, EditLeads DEF EditWritten
    <2>2. MergeOK' /\ bg'.merge # "install"
      BY <1>1, <1>2, <1>4, <2>1 DEF MergeOK, FlushOK
    <2> QED
      BY <1>1, <1>2, <1>4, <1>5, <1>6, <2>2, EditInForce
  <1>7. ASSUME ~EditWritten PROVE StoreOK' /\ NotOpenIsQuiet'
    <2>1. /\ UNCHANGED manifest /\ damage' \in {"none", "torn", "corrupt"}
          /\ promised' \subseteq promised /\ synced' \subseteq synced /\ synced' \subseteq promised'
      BY <1>1, <1>2, <1>7, EditFailsIs
    <2>2. MergeOK' /\ bg'.merge # "install"
      BY <1>1, <1>2, <1>4, <2>1 DEF MergeOK, FlushOK
    <2> QED
      BY <1>1, <1>2, <1>4, <1>5, <2>1, <2>2, BackgroundEnds
  <1>8. CallsTyped' /\ QueueOK'
    BY <1>2, <1>4, <1>5, SignalledQueue
  <1> QED
    BY <1>6, <1>7, <1>8 DEF LevelIInv, StoreOK

LEMMA MergeInstallFailsStep ==
    ASSUME LevelIInv, MergeInstallFails PROVE LevelIInv'
  <1>1. /\ MemoryTyped /\ CallsTyped /\ FilesTyped /\ PromisesOK
        /\ db.status = "open" /\ bg.merge = "install"
    BY BackgroundIsOpen DEF LevelIInv, MergeInstallFails
  <1> DEFINE d == Failed(Unpend(bg.mergeOut))
  <1>2. UNCHANGED <<logs, tables, vs, writers>> /\ EditFails /\ BackgroundDone(d, vs)
    BY DEF MergeInstallFails
  <1>3. /\ d \in DbRecords /\ d.status = db.status /\ d.mem = db.mem /\ d.imm = db.imm
        /\ d.logfile = db.logfile /\ d.bgError
    BY <1>1, UnpendIs
  <1> HIDE DEF d
  <1>4. /\ bg' = IdleBg /\ bg' \in BgRecords /\ writer' = SignalAll
        /\ db' \in DbRecords /\ db'.status = db.status /\ db'.mem = db.mem /\ db'.imm = db.imm
        /\ db'.logfile = db.logfile /\ db'.bgError
    BY <1>2, <1>3, DoneIs
  <1>5. bg'.flush = "none" /\ bg'.merge = "none" /\ bg'.mergeIn = {}
    BY <1>4 DEF IdleBg
  <1>6. MergeOK'
    BY <1>5 DEF MergeOK
  <1>7. /\ calls' \in [batches : Nat, stops : Nat, errors : Nat]
        /\ calls'.batches = calls.batches
    BY <1>1, <1>2, IoErrorIs DEF EditFails
  <1>8. ASSUME EditWritten PROVE StoreOK' /\ NotOpenIsQuiet'
    BY <1>1, <1>2, <1>4, <1>5, <1>6, <1>7, <1>8, EditInForce
  <1>9. ASSUME ~EditWritten PROVE StoreOK' /\ NotOpenIsQuiet'
    <2>1. /\ UNCHANGED manifest /\ damage' \in {"none", "torn", "corrupt"}
          /\ promised' \subseteq promised /\ synced' \subseteq synced /\ synced' \subseteq promised'
      BY <1>1, <1>2, <1>9, EditFailsIs
    <2> QED
      BY <1>1, <1>2, <1>4, <1>5, <1>6, <1>7, <2>1, BackgroundEnds
  <1>10. CallsTyped' /\ QueueOK'
    BY <1>2, <1>4, <1>7, SignalledQueue
  <1> QED
    BY <1>8, <1>9, <1>10 DEF LevelIInv, StoreOK

-----------------------------------------------------------------------------
(***************************************************************************)
(* Stopping.                                                               *)
(***************************************************************************)
LEMMA IdleIs ==
    /\ IdleBg \in BgRecords /\ ClosedDb \in DbRecords /\ IdleWriter \in WriterRecords
    /\ IdleBg.flush = "none" /\ IdleBg.merge = "none" /\ IdleBg.mergeIn = {}
    /\ IdleBg.edit = NoEdit /\ NoEdit \in Edits /\ NoEdit.add0 = {} /\ NoEdit.add1 = {} /\ NoEdit.del = {}
    /\ ClosedDb.status = "closed" /\ ClosedDb.mem = {} /\ ClosedDb.imm = {} /\ ~ClosedDb.bgError
    /\ ~ClosedDb.scheduled /\ IdleWriter.pc = "idle"
  <1>1. NoEdit \in Edits
    BY DEF NoEdit, Edits
  <1> QED
    BY <1>1 DEF IdleBg, BgRecords, ClosedDb, DbRecords, IdleWriter, WriterRecords, NoEdit

\* A database that is not open has what is on disk, and nothing else to keep.
LEMMA StoppedIs ==
    ASSUME Stopped, MemoryTyped, FilesTyped', PromisesOK', ManifestOK(manifest)',
           calls' \in [batches : Nat, stops : Nat, errors : Nat]
    PROVE  LevelIInv'
  <1>1. /\ db' = ClosedDb /\ bg' = IdleBg /\ writers' = <<>>
        /\ writer' = [w \in Writers |-> IdleWriter] /\ UNCHANGED <<tables, vs>>
    BY DEF Stopped
  <1>2. MemoryTyped'
    BY <1>1, IdleIs DEF MemoryTyped
  <1>3. CallsTyped'
    BY <1>1, IdleIs DEF CallsTyped
  <1>4. QueueOK'
    <2>1. \A w \in Writers : writer'[w].pc = "idle"
      BY <1>1, IdleIs
    <2>2. DOMAIN writers' = {}
      BY <1>1
    <2> QED
      BY <2>1, <2>2 DEF QueueOK
  <1>5. NotOpenIsQuiet'
    BY <1>1, IdleIs DEF NotOpenIsQuiet
  <1>6. RecoveringOK' /\ OpeningOK' /\ NumbersOK' /\ SequencesOK' /\ MemoryOK'
    BY <1>1, IdleIs DEF RecoveringOK, OpeningOK, NumbersOK, SequencesOK, MemoryOK
  <1>7. FlushOK' /\ MergeOK' /\ EditOK'
    BY <1>1, IdleIs DEF FlushOK, MergeOK, EditOK, Editing
  <1> QED
    BY <1>2, <1>3, <1>4, <1>5, <1>6, <1>7 DEF LevelIInv

\* The MANIFEST that a crash leaves.
LEMMA CrashedManifest ==
    ASSUME LevelIInv, MaybeEdited
    PROVE  /\ manifest' \in Versions /\ damage' \in {"none", "torn", "corrupt"}
           /\ DiskOK(tables, logs, manifest', promised, synced)
           /\ TablesOf(tables, Files(manifest)) \subseteq TablesOf(tables, Files(manifest'))
           /\ db.status = "open" => manifest'.logNumber <= db.logfile
  <1>1. FilesTyped /\ MemoryTyped /\ NumbersOK /\ RecoveringOK /\ EditOK /\ ManifestOK(manifest)
    BY DEF LevelIInv
  <1>2. CASE UNCHANGED <<manifest, damage>>
    BY <1>1, <1>2 DEF FilesTyped, NumbersOK, ManifestOK
  <1>3. CASE bg.flush = "install" \/ bg.merge = "install"
    <2>1. CASE manifest' = Apply(manifest, bg.edit) /\ damage' \in {"none", "corrupt"}
      <3>1. ManifestOK(Apply(manifest, bg.edit))
        BY <1>1, <1>3 DEF EditOK, Editing
      <3>2. /\ Apply(manifest, bg.edit) \in Versions
            /\ Apply(manifest, bg.edit).logNumber = bg.edit.logNumber /\ bg.edit.logNumber <= db.logfile
            /\ TablesOf(tables, Files(manifest)) \subseteq TablesOf(tables, Files(Apply(manifest, bg.edit)))
        BY <1>3, EditLeads
      <3> QED
        BY <2>1, <3>1, <3>2 DEF ManifestOK
    <2> QED
      BY <1>2, <2>1 DEF MaybeEdited
  <1>4. CASE db.status = "opening" /\ manifest' = Apply(manifest, bg.edit) /\ damage' = "none"
    <2>1. ManifestOK(Apply(manifest, bg.edit))
      BY <1>1, <1>4 DEF EditOK, Editing
    <2>2. manifest \in Versions /\ bg.edit \in Edits /\ bg.edit.del = {}
      BY <1>1, <1>4 DEF FilesTyped, MemoryTyped, BgRecords, RecoveringOK
    <2>3. /\ Apply(manifest, bg.edit) \in Versions
          /\ Files(Apply(manifest, bg.edit)) = (Files(manifest) \ bg.edit.del) \cup bg.edit.add0 \cup bg.edit.add1
      BY <2>2, ApplyIs
    <2>4. Files(manifest) \subseteq Files(manifest')
      BY <1>4, <2>2, <2>3
    <2>5. TablesOf(tables, Files(manifest)) \subseteq TablesOf(tables, Files(manifest'))
      BY <2>4, InIsMonotone
    <2> QED
      BY <1>4, <2>1, <2>3, <2>5 DEF ManifestOK
  <1> QED
    BY <1>2, <1>3, <1>4 DEF MaybeEdited

\* The logs that a crash leaves, before the machine cuts them.
LEMMA CrashedLogs ==
    ASSUME LevelIInv, NEW l \in MaybeLogged, NEW v, DiskOK(tables, logs, v, promised, synced),
           db.status = "open" => v.logNumber <= db.logfile, v \in Versions
    PROVE  /\ DOMAIN l = DOMAIN logs /\ l \in [DOMAIN l -> LogFiles]
           /\ \A n \in DOMAIN l : l[n].synced <= Len(l[n].records)
           /\ DiskOK(tables, l, v, promised, synced)
  <1>1. FilesTyped /\ MemoryTyped
    BY DEF LevelIInv
  <1>2. CASE l = logs
    BY <1>1, <1>2 DEF FilesTyped
  <1>3. CASE l # logs
    <2>1. PICK w \in Writers : /\ writer[w].pc = "logging"
                               /\ l = [logs EXCEPT ![db.logfile].records = Append(@, Record(w))]
      BY <1>3 DEF MaybeLogged
    <2> DEFINE r == Record(w)
               m == db.logfile
    <2>2. /\ db.status = "open" /\ m \in DOMAIN logs /\ logs[m] \in LogFiles
          /\ r \in LogRecords /\ Unique(Known \cup Entries(r))
      BY <2>1, RecordIs
    <2> HIDE DEF r
    <2> DEFINE k == [logs[m] EXCEPT !.records = Append(@, r)]
    <2>3. l = [logs EXCEPT ![m] = k] /\ logs \in [DOMAIN logs -> LogFiles]
      BY <1>1, <2>1, <2>2 DEF FilesTyped, r, LogFiles
    <2>4. /\ k \in LogFiles /\ k.records = Append(logs[m].records, r) /\ k.synced = logs[m].synced
          /\ Len(logs[m].records) \in Nat /\ Len(k.records) = Len(logs[m].records) + 1
      <3>1. logs[m].records \in Seq(LogRecords)
        BY <2>2 DEF LogFiles
      <3>2. Append(logs[m].records, r) \in Seq(LogRecords)
        BY <2>2, <3>1, AppendProperties
      <3>3. k \in LogFiles /\ k.records = Append(logs[m].records, r) /\ k.synced = logs[m].synced
        BY <2>2, <3>2 DEF LogFiles
      <3> QED
        BY <2>2, <3>1, <3>3, AppendProperties, LenProperties
    <2>5. logs[m].synced <= Len(logs[m].records) /\ logs[m].synced \in Nat
      BY <1>1, <2>2 DEF FilesTyped, LogFiles
    <2> HIDE DEF k, m
    <2>6. /\ DOMAIN l = DOMAIN logs /\ l[m] = k /\ \A n \in DOMAIN logs : n # m => l[n] = logs[n]
          /\ l \in [DOMAIN l -> LogFiles]
      BY <2>2, <2>3, <2>4
    <2>7. \A n \in DOMAIN l : l[n].synced <= Len(l[n].records)
      BY <1>1, <2>4, <2>5, <2>6 DEF FilesTyped
    <2>8. DiskOK(tables, l, v, promised, synced)
      <3>1. Files(v) \subseteq DOMAIN tables
        BY DEF DiskOK
      <3>2. TablesOf(tables, Files(v)) \subseteq TablesOf(tables, DOMAIN tables)
        BY <3>1, InIsMonotone
      <3>3. TablesOf(tables, Files(v)) \cup LoggedIn(logs, DOMAIN logs) \cup Entries(r) \subseteq Known \cup Entries(r)
        BY <3>2 DEF Known
      <3>4. Unique(TablesOf(tables, Files(v)) \cup LoggedIn(logs, DOMAIN logs) \cup Entries(r))
        BY <2>2, <3>3 DEF Unique
      <3>5. m >= v.logNumber
        BY <1>1, <2>2 DEF m, MemoryTyped, DbRecords, Versions
      <3>6. Appended(logs, m, r, l)
        BY <2>2, <2>3, <2>4, <2>5, <2>6 DEF Appended
      <3>7. PromisedMore(logs, m, r, l, promised, synced, promised, synced)
        BY DEF PromisedMore
      <3> QED
        BY <3>4, <3>5, <3>6, <3>7, DiskLogged
    <2> QED
      BY <2>6, <2>7, <2>8
  <1> QED
    BY <1>2, <1>3

LEMMA StopIs ==
    ASSUME CallsTyped, MayStop
    PROVE  calls' \in [batches : Nat, stops : Nat, errors : Nat] /\ calls'.batches = calls.batches
  BY DEF CallsTyped, MayStop

LEMMA ProcessCrashStep ==
    ASSUME LevelIInv, ProcessCrash PROVE LevelIInv'
  <1>1. FilesTyped /\ MemoryTyped /\ CallsTyped /\ PromisesOK
    BY DEF LevelIInv
  <1>2. MaybeEdited /\ Stopped /\ MayStop /\ logs' \in MaybeLogged
    BY DEF ProcessCrash, CrashStep
  <1>3. calls' \in [batches : Nat, stops : Nat, errors : Nat] /\ calls'.batches = calls.batches
    BY <1>1, <1>2, StopIs
  <1>4. /\ manifest' \in Versions /\ damage' \in {"none", "torn", "corrupt"}
        /\ DiskOK(tables, logs, manifest', promised, synced)
        /\ db.status = "open" => manifest'.logNumber <= db.logfile
    BY <1>2, CrashedManifest
  <1>5. /\ logs' \in [DOMAIN logs' -> LogFiles] /\ DOMAIN logs' = DOMAIN logs
        /\ \A n \in DOMAIN logs' : logs'[n].synced <= Len(logs'[n].records)
        /\ DiskOK(tables, logs', manifest', promised, synced)
    BY <1>2, <1>4, CrashedLogs
  <1>6. promised' \subseteq promised /\ synced' \subseteq synced /\ synced' \subseteq promised'
    BY <1>1 DEF ProcessCrash, Unreadable, PromisesOK
  <1>7. UNCHANGED tables
    BY <1>2 DEF Stopped
  <1>8. DiskOK(tables', logs', manifest', promised', synced')
    <2>1. Files(manifest') \subseteq DOMAIN tables
      BY <1>4 DEF DiskOK
    <2> QED
      BY <1>5, <1>6, <1>7, <2>1, DiskKept
  <1>9. FilesTyped' /\ PromisesOK' /\ ManifestOK(manifest)'
    BY <1>1, <1>3, <1>4, <1>5, <1>6, <1>7, <1>8 DEF FilesTyped, PromisesOK, ManifestOK
  <1> QED
    BY <1>1, <1>2, <1>3, <1>9, StoppedIs

\* The machine cuts the logs: what was synced is left, and all that is left is synced.
CutAt(L, c, K) ==
    /\ L \in [DOMAIN L -> LogFiles] /\ DOMAIN K = DOMAIN L
    /\ \A n \in DOMAIN L : /\ c[n] \in L[n].synced..Len(L[n].records)
                           /\ K[n].records = SubSeq(L[n].records, 1, c[n]) /\ K[n].synced = c[n]

LEMMA DiskCut ==
    ASSUME NEW T, NEW L, NEW v, NEW P, NEW S, DiskOK(T, L, v, P, S), NEW c, NEW K, CutAt(L, c, K),
           NEW Q, Q \subseteq S \cup Batches(TablesOf(T, Files(v))), NEW R, R \subseteq S
    PROVE  DiskOK(T, K, v, Q, R)
  <1> DEFINE N == Since(L, v.logNumber)
             F == TablesOf(T, Files(v))
  <1>1. Since(K, v.logNumber) = N /\ N \subseteq DOMAIN L
    BY DEF Since, CutAt
  <1>2. ASSUME NEW n \in DOMAIN L
        PROVE  /\ EntriesOf(ToSet(K[n].records)) \subseteq EntriesOf(ToSet(L[n].records))
               /\ CertainEntries(SubSeq(L[n].records, 1, L[n].synced)) \subseteq CertainEntries(K[n].records)
               /\ SubSeq(K[n].records, 1, K[n].synced) = K[n].records
    <2> DEFINE s == L[n].records
               k == L[n].synced
               m == c[n]
    <2>1. s \in Seq(LogRecords) /\ k \in Nat /\ Len(s) \in Nat /\ m \in k..Len(s)
      BY DEF LogFiles, CutAt
    <2>2. K[n].records = SubSeq(s, 1, m) /\ K[n].synced = m
      BY DEF CutAt
    <2> HIDE DEF s, k, m
    <2>3. m \in 0..Len(s) /\ k \in 0..m
      BY <2>1
    <2>4. ToSet(SubSeq(s, 1, m)) \subseteq ToSet(s) /\ SubSeq(SubSeq(s, 1, m), 1, m) = SubSeq(s, 1, m)
      BY <2>1, <2>3, ToSetPrefix
    <2>5. CertainEntries(SubSeq(s, 1, k)) \subseteq CertainEntries(SubSeq(s, 1, m))
      BY <2>1, <2>3, CertainPrefix
    <2>6. EntriesOf(ToSet(SubSeq(s, 1, m))) \subseteq EntriesOf(ToSet(s))
      BY <2>4, EntriesOfUnion
    <2> QED
      BY <2>2, <2>4, <2>5, <2>6 DEF s, k, m
  <1> HIDE DEF N
  <1>3. LoggedIn(K, N) \subseteq LoggedIn(L, N)
    BY <1>1, <1>2 DEF LoggedIn
  <1>4. HardIn(L, N) \subseteq HardIn(K, N)
    BY <1>1, <1>2 DEF HardIn
  <1>5. CertainIn(K, N) = HardIn(K, N)
    <2>1. \A n \in N : CertainEntries(SubSeq(K[n].records, 1, K[n].synced)) = CertainEntries(K[n].records)
      BY <1>1, <1>2
    <2> QED
      BY <2>1 DEF HardIn, CertainIn
  <1>6. Unique(F \cup LoggedIn(L, N)) /\ S \subseteq Batches(F \cup HardIn(L, N))
    BY DEF DiskOK, N
  <1> HIDE DEF F
  <1>7. Unique(F \cup LoggedIn(K, N))
    BY <1>3, <1>6 DEF Unique
  <1>8. S \subseteq Batches(F \cup HardIn(K, N)) /\ Batches(F) \subseteq Batches(F \cup HardIn(K, N))
    BY <1>4, <1>6 DEF Batches
  <1>9. Q \subseteq Batches(F \cup CertainIn(K, N)) /\ R \subseteq Batches(F \cup HardIn(K, N))
    BY <1>5, <1>8 DEF F
  <1> QED
    BY <1>1, <1>7, <1>9 DEF DiskOK, F

LEMMA MachineCrashStep ==
    ASSUME LevelIInv, MachineCrash PROVE LevelIInv'
  <1>1. FilesTyped /\ MemoryTyped /\ CallsTyped /\ PromisesOK /\ ManifestOK(manifest)
    BY DEF LevelIInv
  <1>2. MaybeEdited /\ Stopped /\ MayStop
    BY DEF MachineCrash, CrashStep
  <1>3. calls' \in [batches : Nat, stops : Nat, errors : Nat] /\ calls'.batches = calls.batches
    BY <1>1, <1>2, StopIs
  <1>4. /\ manifest' \in Versions /\ damage' \in {"none", "torn", "corrupt"}
        /\ DiskOK(tables, logs, manifest', promised, synced)
        /\ TablesOf(tables, Files(manifest)) \subseteq TablesOf(tables, Files(manifest'))
        /\ db.status = "open" => manifest'.logNumber <= db.logfile
    BY <1>2, CrashedManifest
  <1>5. PICK l \in MaybeLogged, c \in [DOMAIN logs -> 0..MaxBatches] :
          /\ \A n \in DOMAIN l : c[n] \in l[n].synced..Len(l[n].records)
          /\ logs' = [n \in DOMAIN l |-> [l[n] EXCEPT !.records = SubSeq(@, 1, c[n]), !.synced = c[n]]]
    BY DEF MachineCrash
  <1>6. /\ DOMAIN l = DOMAIN logs /\ l \in [DOMAIN l -> LogFiles]
        /\ \A n \in DOMAIN l : l[n].synced <= Len(l[n].records)
        /\ DiskOK(tables, l, manifest', promised, synced)
    BY <1>4, CrashedLogs
  <1>7. ASSUME NEW n \in DOMAIN l
        PROVE  /\ logs'[n] \in LogFiles /\ logs'[n].records = SubSeq(l[n].records, 1, c[n])
               /\ logs'[n].synced = c[n] /\ logs'[n].synced <= Len(logs'[n].records)
    <2>1. l[n] \in LogFiles /\ c[n] \in l[n].synced..Len(l[n].records)
      BY <1>5, <1>6
    <2>2. l[n].records \in Seq(LogRecords) /\ l[n].synced \in Nat /\ Len(l[n].records) \in Nat
      BY <2>1 DEF LogFiles
    <2>3. c[n] \in 0..Len(l[n].records) /\ c[n] \in Nat
      BY <2>1, <2>2
    <2>4. SubSeq(l[n].records, 1, c[n]) \in Seq(LogRecords) /\ Len(SubSeq(l[n].records, 1, c[n])) = c[n]
      BY <2>2, <2>3, ToSetPrefix
    <2>5. logs'[n] = [l[n] EXCEPT !.records = SubSeq(l[n].records, 1, c[n]), !.synced = c[n]]
      BY <1>5
    <2>6. /\ logs'[n].records = SubSeq(l[n].records, 1, c[n]) /\ logs'[n].synced = c[n]
          /\ logs'[n] \in LogFiles
      BY <2>1, <2>3, <2>4, <2>5 DEF LogFiles
    <2> QED
      BY <2>3, <2>4, <2>6
  <1>8. DOMAIN logs' = DOMAIN l /\ logs' \in [DOMAIN logs' -> LogFiles]
    <2>1. DOMAIN logs' = DOMAIN l /\ logs' = [n \in DOMAIN logs' |-> logs'[n]]
      BY <1>5
    <2> QED
      BY <1>7, <2>1
  <1>9. Files(manifest) \subseteq DOMAIN tables
    BY <1>1 DEF ManifestOK, DiskOK
  <1>10. TableEntries = TablesOf(tables, Files(manifest))
    BY <1>9 DEF TableEntries, TablesOf
  <1>11. /\ promised' \subseteq synced \cup Batches(TablesOf(tables, Files(manifest')))
         /\ promised' \subseteq promised /\ synced' \subseteq synced /\ synced' \subseteq promised'
    <2>1. Batches(TableEntries) \subseteq Batches(TablesOf(tables, Files(manifest')))
      BY <1>4, <1>10, BatchesUnion
    <2> QED
      BY <1>1, <2>1 DEF MachineCrash, Unreadable, PromisesOK
  <1>12. DiskOK(tables, logs', manifest', promised', synced')
    <2>1. CutAt(l, c, logs')
      BY <1>5, <1>6, <1>7, <1>8 DEF CutAt
    <2> QED
      BY <1>6, <1>11, <2>1, DiskCut
  <1>13. UNCHANGED tables
    BY <1>2 DEF Stopped
  <1>14. FilesTyped' /\ PromisesOK' /\ ManifestOK(manifest)'
    BY <1>1, <1>3, <1>4, <1>6, <1>7, <1>8, <1>11, <1>12, <1>13 DEF FilesTyped, PromisesOK, ManifestOK
  <1> QED
    BY <1>1, <1>2, <1>3, <1>14, StoppedIs

LEMMA OpenFailsStep ==
    ASSUME LevelIInv, OpenFails PROVE LevelIInv'
  <1>1. FilesTyped /\ MemoryTyped /\ CallsTyped /\ PromisesOK /\ ManifestOK(manifest)
    BY DEF LevelIInv
  <1>2. Stopped /\ UNCHANGED <<logs, tables, manifest, damage, promised, synced>>
    BY DEF OpenFails, Stopped
  <1>3. calls' \in [batches : Nat, stops : Nat, errors : Nat] /\ calls'.batches = calls.batches
    BY <1>1, IoErrorIs DEF OpenFails
  <1>4. FilesTyped' /\ PromisesOK' /\ ManifestOK(manifest)'
    BY <1>1, <1>2, <1>3 DEF FilesTyped, PromisesOK, ManifestOK
  <1> QED
    BY <1>1, <1>2, <1>3, <1>4, StoppedIs

LEMMA ClosedStep ==
    ASSUME LevelIInv, Closed PROVE LevelIInv'
  <1>1. FilesTyped /\ MemoryTyped /\ CallsTyped /\ PromisesOK /\ ManifestOK(manifest)
    BY DEF LevelIInv
  <1>2. Stopped /\ UNCHANGED <<logs, tables, manifest, damage, calls, promised, synced>>
    BY DEF Closed, Stopped
  <1>3. FilesTyped' /\ PromisesOK' /\ ManifestOK(manifest)'
    BY <1>1, <1>2 DEF FilesTyped, PromisesOK, ManifestOK
  <1> QED
    BY <1>1, <1>2, <1>3, StoppedIs DEF CallsTyped

LEMMA CloseStep ==
    ASSUME LevelIInv, Close PROVE LevelIInv'
  <1>1. /\ StoreOK /\ MemoryTyped /\ CallsTyped /\ QueueOK /\ NotOpenIsQuiet
    BY LevelParts DEF StoreOK
  <1>2. UNCHANGED <<logs, tables, manifest, damage, vs, bg, writers, writer, promised, synced>>
    BY DEF Close, diskVars
  <1>3. /\ db' \in DbRecords /\ db'.status = db.status /\ db'.mem = db.mem /\ db'.imm = db.imm
        /\ db'.logfile = db.logfile /\ db'.pending = db.pending /\ db'.bgError = db.bgError
        /\ db'.recover = db.recover /\ db'.status = "open"
    BY <1>1 DEF Close, MemoryTyped, DbRecords
  <1>4. calls' \in [batches : Nat, stops : Nat, errors : Nat] /\ calls'.batches = calls.batches
    BY <1>1, StopIs DEF Close
  <1>5. FilesTyped' /\ MemoryTyped' /\ PromisesOK'
    BY <1>1, <1>2, <1>3, <1>4 DEF StoreOK, FilesTyped, MemoryTyped, PromisesOK
  <1>6. ManifestOK(manifest)' /\ EditOK'
    BY <1>1, <1>2, <1>3 DEF StoreOK, ManifestOK, EditOK, Editing
  <1>7. RecoveringOK' /\ OpeningOK' /\ NotOpenIsQuiet'
    BY <1>3 DEF RecoveringOK, OpeningOK, NotOpenIsQuiet
  <1>8. NumbersOK' /\ SequencesOK' /\ MemoryOK'
    BY <1>1, <1>2, <1>3 DEF StoreOK, NumbersOK, SequencesOK, MemoryOK, Known
  <1>9. FlushOK' /\ MergeOK'
    BY <1>1, <1>2, <1>3 DEF StoreOK, FlushOK, MergeOK
  <1>10. CallsTyped' /\ QueueOK'
    BY <1>2, <1>4, SignalledQueue
  <1> QED
    BY <1>5, <1>6, <1>7, <1>8, <1>9, <1>10 DEF LevelIInv

-----------------------------------------------------------------------------
(***************************************************************************)
(* Opening.                                                                *)
(***************************************************************************)
LEMMA LiveIsSince == LiveLogs = Since(logs, manifest.logNumber)
  BY DEF LiveLogs, Since

LEMMA OpenStep ==
    ASSUME LevelIInv, Open PROVE LevelIInv'
  <1>1. /\ FilesTyped /\ MemoryTyped /\ CallsTyped /\ QueueOK /\ PromisesOK /\ ManifestOK(manifest)
        /\ db.status = "closed" /\ NotOpenIsQuiet
    BY DEF LevelIInv, Open
  <1>2. UNCHANGED <<logs, tables, manifest, damage, bg, writers, writer, calls, promised, synced>>
    BY DEF Open, diskVars
  <1>3. bg = IdleBg /\ writers = <<>>
    BY <1>1 DEF NotOpenIsQuiet
  <1>4. manifest \in Versions /\ manifest.nextFile \in Nat /\ manifest.logNumber \in Nat
    BY <1>1 DEF FilesTyped, Versions
  <1>5. /\ vs' \in Versions /\ vs'.l0 = manifest.l0 /\ vs'.l1 = manifest.l1
        /\ vs'.nextFile = manifest.nextFile + 1 /\ vs'.lastSequence = manifest.lastSequence
        /\ manifest.lastSequence \in Nat
    BY <1>4 DEF Open, VersionRecovered, Versions
  <1>6. /\ db' \in DbRecords /\ db'.status = "recovering" /\ db'.recover = LiveLogs
        /\ db'.mem = {} /\ db'.imm = {} /\ ~db'.bgError /\ ~db'.scheduled
    <2>1. LiveLogs \subseteq Nat
      BY <1>1 DEF LiveLogs, FilesTyped
    <2>2. db' = [ClosedDb EXCEPT !.status = "recovering", !.recover = LiveLogs]
      BY DEF Open
    <2> QED
      BY <2>1, <2>2, IdleIs DEF DbRecords
  <1>7. FilesTyped' /\ MemoryTyped' /\ CallsTyped' /\ PromisesOK' /\ ManifestOK(manifest)'
    BY <1>1, <1>2, <1>5, <1>6 DEF FilesTyped, MemoryTyped, CallsTyped, PromisesOK, ManifestOK
  <1>8. QueueOK'
    BY <1>1, <1>2 DEF QueueOK
  <1>9. NotOpenIsQuiet' /\ OpeningOK' /\ NumbersOK' /\ SequencesOK' /\ MemoryOK'
    BY <1>2, <1>3, <1>6, IdleIs DEF NotOpenIsQuiet, OpeningOK, NumbersOK, SequencesOK, MemoryOK
  <1>10. FlushOK' /\ MergeOK' /\ EditOK'
    BY <1>2, <1>3, <1>6, IdleIs DEF FlushOK, MergeOK, EditOK, Editing
  <1>11. RecoveringOK'
    <2>1. bg'.edit.add0 = {} /\ bg'.edit.add1 = {} /\ bg'.edit.del = {}
      BY <1>2, <1>3, IdleIs
    <2>2. LiveLogs' = LiveLogs
      BY <1>2 DEF LiveLogs
    <2>3. \A n \in DOMAIN logs : n < vs'.nextFile \/ n \in LiveLogs
      <3>1. manifest.logNumber < manifest.nextFile
        BY <1>1 DEF ManifestOK, DiskOK
      <3>2. \A n \in DOMAIN logs : n \in Nat
        BY <1>1 DEF FilesTyped
      <3> QED
        BY <1>4, <1>5, <3>1, <3>2 DEF LiveLogs
    <2>4. promised \subseteq Batches(TablesOf(tables, Files(manifest)) \cup CertainIn(logs, LiveLogs))
      BY <1>1, LiveIsSince DEF ManifestOK, DiskOK
    <2>5. Files(manifest') \cup bg'.edit.add0 = Files(manifest)
      BY <1>2, <2>1
    <2>6. promised' \subseteq Batches(TablesOf(tables', Files(manifest') \cup bg'.edit.add0)
                                        \cup CertainIn(logs', db'.recover))
      BY <1>2, <1>6, <2>4, <2>5
    <2>7. manifest'.nextFile < vs'.nextFile /\ manifest'.lastSequence <= vs'.lastSequence
      BY <1>2, <1>4, <1>5
    <2> QED
      BY <1>2, <1>5, <1>6, <2>1, <2>2, <2>3, <2>6, <2>7 DEF RecoveringOK
  <1> QED
    BY <1>7, <1>8, <1>9, <1>10, <1>11 DEF LevelIInv

\* The sequence numbers in a log have a bound.
LEMMA LogIsBounded ==
    ASSUME NEW s \in Seq(LogRecords)
    PROVE  \E b \in Nat : \A e \in EntriesOf(ToSet(s)) : e[1] <= b
  <1> DEFINE Bounded(k) == \E b \in Nat : \A i \in 1..k : s[i].first + Len(s[i].batches) <= b
             N == {k \in 0..Len(s) : ~Bounded(k)}
  <1>1. /\ Len(s) \in Nat /\ DOMAIN s = 1..Len(s)
        /\ \A i \in 1..Len(s) : s[i] \in LogRecords /\ s[i].first \in Nat /\ Len(s[i].batches) \in Nat
    <2>1. \A i \in 1..Len(s) : s[i] \in LogRecords
      OBVIOUS
    <2>2. \A r \in LogRecords : r.first \in Nat /\ Len(r.batches) \in Nat
      BY DEF LogRecords
    <2> QED
      BY <2>1, <2>2
  <1> HIDE DEF Bounded
  <1>2. N = {}
    <2> SUFFICES ASSUME N # {} PROVE FALSE
      OBVIOUS
    <2>1. N \subseteq Nat
      BY <1>1
    <2> HIDE DEF N
    <2>2. PICK k \in N : \A j \in N : k <= j
      BY <2>1, LeastNatural
    <2>3. k \in 0..Len(s) /\ ~Bounded(k)
      BY DEF N
    <2>4. k # 0
      <3>1. \A i \in 1..0 : s[i].first + Len(s[i].batches) <= 0
        OBVIOUS
      <3>2. Bounded(0)
        BY <3>1 DEF Bounded
      <3> QED
        BY <2>3, <3>2
    <2>5. k - 1 \in 0..Len(s) /\ k - 1 \notin N
      <3>1. k \in Nat /\ k <= Len(s)
        BY <1>1, <2>3
      <3>2. k - 1 \in 0..Len(s) /\ ~(k <= k - 1)
        BY <1>1, <2>4, <3>1
      <3> QED
        BY <2>2, <3>2
    <2>6. Bounded(k - 1)
      BY <2>5 DEF N
    <2>7. PICK b \in Nat : \A i \in 1..(k - 1) : s[i].first + Len(s[i].batches) <= b
      BY <2>6 DEF Bounded
    <2>8. k \in 1..Len(s)
      BY <1>1, <2>3, <2>4
    <2>9. PICK c \in Nat : c >= b /\ c >= s[k].first + Len(s[k].batches)
      <3>1. s[k].first + Len(s[k].batches) \in Nat
        BY <1>1, <2>8
      <3>2. CASE b >= s[k].first + Len(s[k].batches)
        BY <3>1, <3>2
      <3>3. CASE ~(b >= s[k].first + Len(s[k].batches))
        BY <3>1, <3>3
      <3> QED
        BY <3>2, <3>3
    <2>10. \A i \in 1..k : s[i].first + Len(s[i].batches) <= c
      <3> SUFFICES ASSUME NEW i \in 1..k PROVE s[i].first + Len(s[i].batches) <= c
        OBVIOUS
      <3>1. CASE i = k
        BY <1>1, <2>8, <2>9, <3>1
      <3>2. CASE i # k
        <4>1. i \in 1..(k - 1) /\ i \in 1..Len(s)
          BY <1>1, <2>8, <3>2
        <4> QED
          BY <1>1, <2>7, <2>9, <4>1
      <3> QED
        BY <3>1, <3>2
    <2> QED
      BY <2>3, <2>10 DEF Bounded
  <1>3. PICK b \in Nat : \A i \in 1..Len(s) : s[i].first + Len(s[i].batches) <= b
    <2>1. Len(s) \in 0..Len(s)
      BY <1>1
    <2>2. Bounded(Len(s))
      BY <1>2, <2>1
    <2> QED
      BY <2>2 DEF Bounded
  <1>4. \A e \in EntriesOf(ToSet(s)) : e[1] <= b
    <2> SUFFICES ASSUME NEW i \in 1..Len(s), NEW e \in Entries(s[i]) PROVE e[1] <= b
      BY <1>1 DEF EntriesOf, ToSet
    <2>1. s[i].batches \in Seq(Nat)
      BY <1>1 DEF LogRecords
    <2>2. PICK j \in 1..Len(s[i].batches) : e = <<s[i].first + j - 1, s[i].batches[j]>>
      BY <2>1 DEF Entries
    <2>3. e[1] = s[i].first + j - 1
      BY <2>2
    <2> QED
      BY <1>1, <1>3, <2>2, <2>3
  <1> QED
    BY <1>4

\* A log is read, as far as it can be: what is promised of it is in the new table.
LEMMA LogRecovered ==
    ASSUME LevelIInv, NEW n, NEW E, RecoverLogFile(n, E), E \subseteq EntriesOf(ToSet(logs[n].records)),
           promised' \subseteq promised, synced' \subseteq synced, synced' \subseteq promised',
           promised' \cap Batches(CertainEntries(logs[n].records)) \subseteq Batches(E),
           calls' \in [batches : Nat, stops : Nat, errors : Nat], calls'.batches = calls.batches
    PROVE  LevelIInv'
  <1>1. /\ FilesTyped /\ MemoryTyped /\ CallsTyped /\ QueueOK /\ PromisesOK /\ ManifestOK(manifest)
        /\ db.status = "recovering" /\ NotOpenIsQuiet /\ RecoveringOK
    BY DEF LevelIInv, RecoverLogFile
  <1>2. UNCHANGED <<logs, manifest, damage, writers, writer>> /\ n \in db.recover
    BY DEF RecoverLogFile
  <1>3. /\ vs.l0 = manifest.l0 /\ vs.l1 = manifest.l1
        /\ manifest.nextFile < vs.nextFile /\ manifest.lastSequence <= vs.lastSequence
        /\ bg.edit.add1 = {} /\ bg.edit.del = {}
        /\ bg.edit.add0 \subseteq DOMAIN tables
        /\ db.recover \subseteq LiveLogs
        /\ \A m \in DOMAIN logs : m < vs.nextFile \/ m \in db.recover
        /\ promised \subseteq Batches(TablesOf(tables, Files(manifest) \cup bg.edit.add0)
                                        \cup CertainIn(logs, db.recover))
    BY <1>1 DEF RecoveringOK
  <1>4. \A f \in bg.edit.add0 :
            /\ manifest.nextFile < f /\ f < vs.nextFile
            /\ tables[f] \subseteq LoggedIn(logs, LiveLogs)
            /\ \A e \in tables[f] : e[1] <= vs.lastSequence
    BY <1>1 DEF RecoveringOK
  <1>5. /\ n \in LiveLogs /\ n \in DOMAIN logs /\ n \in Nat /\ logs[n].records \in Seq(LogRecords)
        /\ LiveLogs \subseteq DOMAIN logs
    BY <1>1, <1>2, <1>3 DEF LiveLogs, FilesTyped, LogFiles
  <1>6. E \subseteq LoggedIn(logs, LiveLogs) /\ E \subseteq EntryPairs
    <2>1. E \subseteq LoggedIn(logs, LiveLogs)
      BY <1>5 DEF LoggedIn
    <2>2. LoggedIn(logs, LiveLogs) \subseteq EntryPairs
      BY <1>1, <1>5, LoggedTyped DEF FilesTyped
    <2> QED
      BY <2>1, <2>2
  <1> DEFINE used == IF E = {} THEN vs.nextFile ELSE vs.nextFile + 1
             next == IF used <= n THEN n + 1 ELSE used
             last == Max({vs.lastSequence} \cup {e[1] : e \in E})
  <1>7. vs.nextFile \in Nat /\ vs.lastSequence \in Nat /\ manifest.nextFile \in Nat /\ manifest.lastSequence \in Nat
    BY <1>1 DEF MemoryTyped, FilesTyped, Versions
  <1>8. next \in Nat /\ vs.nextFile <= next /\ n < next /\ (E # {} => vs.nextFile < next)
    BY <1>5, <1>7
  <1>9. last \in Nat /\ vs.lastSequence <= last /\ \A e \in E : e[1] <= last
    <2> DEFINE S == {vs.lastSequence} \cup {e[1] : e \in E}
    <2>1. PICK b \in Nat : \A e \in EntriesOf(ToSet(logs[n].records)) : e[1] <= b
      BY <1>5, LogIsBounded
    <2>2. \A e \in E : e[1] \in Nat
      BY <1>6 DEF EntryPairs
    <2>3. PICK c \in Nat : b <= c /\ vs.lastSequence <= c
      <3>1. CASE b <= vs.lastSequence
        BY <1>7, <3>1
      <3>2. CASE ~(b <= vs.lastSequence)
        BY <1>7, <3>2
      <3> QED
        BY <3>1, <3>2
    <2>4. S \subseteq Int /\ S # {} /\ S \subseteq Nat
      BY <1>7, <2>2
    <2>5. \A x \in S : x <= c
      BY <1>7, <2>1, <2>2, <2>3
    <2>6. \A e \in E : e[1] \in S
      OBVIOUS
    <2>7. vs.lastSequence \in S
      OBVIOUS
    <2> HIDE DEF S
    <2>8. Max(S) \in S /\ \A x \in S : x <= Max(S)
      <3>1. c \in Int /\ S \subseteq Int /\ S # {}
        BY <2>3, <2>4
      <3> QED
        BY <2>5, <3>1, BoundedMax
    <2>9. last = Max(S)
      BY DEF S
    <2> QED
      BY <2>4, <2>6, <2>7, <2>8, <2>9
  <1>10. vs' = [vs EXCEPT !.nextFile = next, !.lastSequence = last]
    BY DEF RecoverLogFile
  <1> HIDE DEF used, next, last
  <1>11. /\ vs' \in Versions /\ vs'.l0 = vs.l0 /\ vs'.l1 = vs.l1
         /\ vs'.nextFile = next /\ vs'.lastSequence = last
    BY <1>1, <1>8, <1>9, <1>10 DEF MemoryTyped, Versions
  <1>12. /\ db' \in DbRecords /\ db'.status = db.status /\ db'.mem = db.mem /\ db'.imm = db.imm
         /\ db'.bgError = db.bgError /\ db'.scheduled = db.scheduled /\ db'.recover = db.recover \ {n}
    BY <1>1 DEF RecoverLogFile, MemoryTyped, DbRecords
  <1> DEFINE k == vs.nextFile
             A == bg.edit.add0
             B == bg'.edit.add0
  <1>13. Files(manifest) \subseteq DOMAIN tables /\ \A f \in Files(manifest) : f < manifest.nextFile /\ f \in Nat
    BY <1>1, VersionFiles DEF ManifestOK, DiskOK, FilesTyped
  <1>14. /\ bg' \in BgRecords /\ bg'.flush = bg.flush /\ bg'.merge = bg.merge
         /\ bg'.mergeIn = bg.mergeIn
         /\ bg'.edit.add1 = {} /\ bg'.edit.del = {}
         /\ B = IF E = {} THEN A ELSE A \cup {k}
    <2>1. CASE E = {}
      <3>1. bg' = bg
        BY <2>1 DEF RecoverLogFile
      <3> QED
        BY <1>1, <1>3, <2>1, <3>1 DEF MemoryTyped
    <2>2. CASE E # {}
      <3> DEFINE x == [bg.edit EXCEPT !.add0 = @ \cup {k}]
      <3>1. bg \in BgRecords /\ bg.edit \in Edits
        BY <1>1 DEF MemoryTyped, BgRecords
      <3>2. /\ x \in Edits /\ x.add0 = A \cup {k} /\ x.add1 = bg.edit.add1 /\ x.del = bg.edit.del
        BY <1>7, <3>1 DEF Edits
      <3>3. bg' = [bg EXCEPT !.edit = x]
        BY <2>2, <3>1 DEF RecoverLogFile, BgRecords
      <3> HIDE DEF x
      <3>4. /\ bg' \in BgRecords /\ bg'.flush = bg.flush /\ bg'.merge = bg.merge
            /\ bg'.mergeIn = bg.mergeIn /\ bg'.edit = x
        BY <3>1, <3>2, <3>3 DEF BgRecords
      <3> QED
        BY <1>3, <2>2, <3>2, <3>4
    <2> QED
      BY <2>1, <2>2
  <1>15. /\ DOMAIN tables \subseteq DOMAIN tables' /\ \A f \in DOMAIN tables : f # k => tables'[f] = tables[f]
         /\ E # {} => k \in DOMAIN tables' /\ tables'[k] = E
         /\ tables' \in [DOMAIN tables' -> SUBSET EntryPairs] /\ DOMAIN tables' \subseteq Nat
    <2>1. CASE E = {}
      <3>1. tables' = tables
        BY <2>1 DEF RecoverLogFile
      <3> QED
        BY <1>1, <2>1, <3>1 DEF FilesTyped
    <2>2. CASE E # {}
      <3>1. tables' = With(tables, k, E)
        BY <2>2 DEF RecoverLogFile
      <3>2. k \in Nat
        BY <1>7
      <3> HIDE DEF k
      <3>3. /\ DOMAIN With(tables, k, E) = DOMAIN tables \cup {k} /\ With(tables, k, E)[k] = E
            /\ \A m \in DOMAIN tables : m # k => With(tables, k, E)[m] = tables[m]
            /\ With(tables, k, E) = [f \in DOMAIN With(tables, k, E) |-> With(tables, k, E)[f]]
        BY DEF With
      <3>4. /\ DOMAIN tables' = DOMAIN tables \cup {k} /\ tables'[k] = E
            /\ \A m \in DOMAIN tables : m # k => tables'[m] = tables[m]
            /\ tables' = [f \in DOMAIN tables' |-> tables'[f]]
        BY <3>1, <3>3
      <3>5. \A f \in DOMAIN tables' : tables'[f] \subseteq EntryPairs /\ f \in Nat
        BY <1>1, <1>6, <3>2, <3>4 DEF FilesTyped
      <3>6. tables' \in [DOMAIN tables' -> SUBSET EntryPairs]
        BY <3>4, <3>5
      <3> QED
        BY <3>4, <3>5, <3>6
    <2> QED
      BY <2>1, <2>2
  <1>16. A \subseteq Nat /\ \A f \in A : f # k
    <2>1. A \subseteq Nat
      BY <1>1 DEF MemoryTyped, BgRecords, Edits
    <2> QED
      BY <1>4, <1>7, <2>1
  <1>17. \A f \in Files(manifest) \cup A : tables'[f] = tables[f] /\ f \in DOMAIN tables'
    <2>1. \A f \in Files(manifest) : f # k
      BY <1>3, <1>7, <1>13
    <2> QED
      BY <1>3, <1>13, <1>15, <1>16, <2>1
  <1> HIDE DEF k
  <1>18. FilesTyped' /\ MemoryTyped' /\ CallsTyped' /\ PromisesOK' /\ QueueOK'
    BY <1>1, <1>2, <1>11, <1>12, <1>14, <1>15 DEF FilesTyped, MemoryTyped, CallsTyped, PromisesOK, QueueOK
  <1>19. ManifestOK(manifest)'
    <2>1. DiskOK(tables, logs, manifest, promised, synced)
      BY <1>1 DEF ManifestOK
    <2>2. Files(manifest) \subseteq DOMAIN tables' /\ \A f \in Files(manifest) : tables'[f] = tables[f]
      BY <1>17
    <2>3. DiskOK(tables', logs, manifest, promised', synced')
      BY <2>1, <2>2, DiskKept
    <2> QED
      BY <1>2, <2>3 DEF ManifestOK
  <1>20. /\ bg.flush = "none" /\ bg.merge = "none" /\ bg.mergeIn = {} /\ writers = <<>>
         /\ db.mem = {} /\ db.imm = {} /\ ~db.bgError /\ ~db.scheduled
    BY <1>1 DEF NotOpenIsQuiet
  <1>21. NotOpenIsQuiet' /\ OpeningOK' /\ NumbersOK' /\ SequencesOK' /\ MemoryOK'
    BY <1>1, <1>2, <1>12, <1>14, <1>20 DEF NotOpenIsQuiet, OpeningOK, NumbersOK, SequencesOK, MemoryOK
  <1>22. FlushOK' /\ MergeOK' /\ EditOK'
    BY <1>1, <1>12, <1>14, <1>20 DEF FlushOK, MergeOK, EditOK, Editing
  <1>23. ASSUME NEW f \in B
         PROVE  /\ f \in DOMAIN tables' /\ manifest.nextFile < f /\ f < next
                /\ tables'[f] \subseteq LoggedIn(logs, LiveLogs)
                /\ \A e \in tables'[f] : e[1] <= last
    <2>1. CASE f \in A
      <3>1. tables'[f] = tables[f] /\ f \in DOMAIN tables' /\ f \in Nat
        BY <1>16, <1>17, <2>1
      <3>2. \A e \in tables[f] : e[1] \in Nat
        BY <1>1, <1>3, <2>1 DEF FilesTyped, EntryPairs
      <3> QED
        BY <1>4, <1>7, <1>8, <1>9, <2>1, <3>1, <3>2
    <2>2. CASE f = k /\ E # {}
      BY <1>3, <1>6, <1>8, <1>9, <1>15, <2>2 DEF k
    <2> QED
      BY <1>14, <2>1, <2>2
  <1>24. promised' \subseteq Batches(TablesOf(tables', Files(manifest) \cup B) \cup CertainIn(logs, db.recover \ {n}))
    <2> DEFINE T == TablesOf(tables, Files(manifest) \cup A)
               U == TablesOf(tables', Files(manifest) \cup B)
               C == CertainIn(logs, db.recover \ {n})
               D == CertainEntries(logs[n].records)
    <2>1. T \subseteq U
      BY <1>14, <1>17 DEF TablesOf
    <2>2. E \subseteq U
      <3>1. CASE E = {}
        BY <3>1
      <3>2. CASE E # {}
        <4>1. k \in B /\ tables'[k] = E
          BY <1>14, <1>15, <3>2
        <4> QED
          BY <4>1 DEF TablesOf
      <3> QED
        BY <3>1, <3>2
    <2>3. CertainIn(logs, db.recover) = C \cup D
      BY <1>2 DEF CertainIn
    <2>4. promised \subseteq Batches(T \cup (C \cup D))
      BY <1>3, <2>3
    <2>5. promised' \cap Batches(D) \subseteq Batches(E)
      OBVIOUS
    <2> HIDE DEF T, U, C, D
    <2> SUFFICES ASSUME NEW p \in promised' PROVE p \in Batches(U \cup C)
      BY DEF U, C
    <2>6. p \in Batches(T) \/ p \in Batches(C) \/ p \in Batches(D)
      BY <2>4 DEF Batches
    <2>7. /\ Batches(T) \subseteq Batches(U \cup C) /\ Batches(C) \subseteq Batches(U \cup C)
          /\ Batches(E) \subseteq Batches(U \cup C)
      BY <2>1, <2>2 DEF Batches
    <2> QED
      BY <2>5, <2>6, <2>7
  <1>25. RecoveringOK'
    <2>1. LiveLogs' = LiveLogs /\ Files(manifest') = Files(manifest)
      BY <1>2 DEF LiveLogs
    <2>2. \A m \in DOMAIN logs : m < next \/ m \in db.recover \ {n}
      <3>1. \A m \in DOMAIN logs : m \in Nat
        BY <1>1 DEF FilesTyped
      <3> QED
        BY <1>3, <1>5, <1>7, <1>8, <3>1
    <2>3. manifest'.nextFile < vs'.nextFile /\ manifest'.lastSequence <= vs'.lastSequence
      BY <1>2, <1>3, <1>7, <1>8, <1>9, <1>11
    <2>4. \A f \in bg'.edit.add0 :
            /\ manifest'.nextFile < f /\ f < vs'.nextFile
            /\ tables'[f] \subseteq LoggedIn(logs', LiveLogs')
            /\ \A e \in tables'[f] : e[1] <= vs'.lastSequence
      BY <1>2, <1>11, <1>23, <2>1
    <2>5. bg'.edit.add0 \subseteq DOMAIN tables'
      BY <1>23
    <2>6. promised' \subseteq Batches(TablesOf(tables', Files(manifest') \cup bg'.edit.add0)
                                        \cup CertainIn(logs', db'.recover))
      BY <1>2, <1>12, <1>24, <2>1
    <2>7. /\ vs'.l0 = manifest'.l0 /\ vs'.l1 = manifest'.l1 /\ db'.recover \subseteq LiveLogs'
          /\ \A m \in DOMAIN logs' : m < vs'.nextFile \/ m \in db'.recover
      BY <1>2, <1>3, <1>11, <1>12, <2>1, <2>2
    <2> QED
      BY <1>14, <2>3, <2>4, <2>5, <2>6, <2>7 DEF RecoveringOK
  <1> QED
    BY <1>18, <1>19, <1>21, <1>22, <1>25 DEF LevelIInv

LEMMA LogReadStep ==
    ASSUME LevelIInv, NEW n, LogRead(n) PROVE LevelIInv'
  <1> DEFINE R == ToSet(logs[n].records)
  <1>1. PICK dropped \in SUBSET Doubtful(R) : RecoverLogFile(n, EntriesOf(R \ dropped))
    BY DEF LogRead
  <1>2. UNCHANGED <<calls, promised, synced>> /\ CallsTyped /\ PromisesOK
    BY DEF LogRead, LevelIInv
  <1> DEFINE E == EntriesOf(R \ dropped)
  <1>3. E \subseteq EntriesOf(R) /\ CertainEntries(logs[n].records) \subseteq E
    <2>1. R \ dropped \subseteq R /\ R \ Doubtful(R) \subseteq R \ dropped
      OBVIOUS
    <2>2. CertainEntries(logs[n].records) = EntriesOf(R \ Doubtful(R))
      BY DEF CertainEntries
    <2> HIDE DEF R
    <2> QED
      BY <2>1, <2>2, EntriesOfUnion
  <1>4. RecoverLogFile(n, E)
    BY <1>1
  <1> HIDE DEF E
  <1>5. promised' \cap Batches(CertainEntries(logs[n].records)) \subseteq Batches(E)
    BY <1>3, BatchesUnion
  <1> QED
    BY <1>2, <1>3, <1>4, <1>5, LogRecovered DEF CallsTyped, PromisesOK, R

LEMMA LogUnreadableStep ==
    ASSUME LevelIInv, NEW n, LogUnreadable(n) PROVE LevelIInv'
  <1> DEFINE gone == Batches(EntriesOf(ToSet(logs[n].records)))
  <1>1. RecoverLogFile(n, {}) /\ promised' = promised \ gone /\ synced' = synced \ gone
    BY DEF LogUnreadable
  <1>2. CallsTyped /\ PromisesOK
    BY DEF LevelIInv
  <1>3. /\ calls' \in [batches : Nat, stops : Nat, errors : Nat]
        /\ calls'.batches = calls.batches
    BY <1>2, IoErrorIs DEF LogUnreadable
  <1>4. Batches(CertainEntries(logs[n].records)) \subseteq gone
    BY CertainIsLogged, BatchesUnion
  <1>5. promised' \cap Batches(CertainEntries(logs[n].records)) \subseteq Batches({})
    BY <1>1, <1>4
  <1>6. promised' \subseteq promised /\ synced' \subseteq synced /\ synced' \subseteq promised'
    BY <1>1, <1>2 DEF PromisesOK
  <1>7. {} \subseteq EntriesOf(ToSet(logs[n].records))
    OBVIOUS
  <1> QED
    BY <1>1, <1>3, <1>5, <1>6, <1>7, LogRecovered

\* A new log counts, and has nothing in it.
LEMMA NewLogRecovered ==
    ASSUME LevelIInv, LogCreated
    PROVE  /\ vs.nextFile \notin DOMAIN logs /\ vs.nextFile \in Nat /\ FilesTyped'
           /\ DOMAIN logs' = DOMAIN logs \cup {vs.nextFile} /\ logs'[vs.nextFile] = NewLog
           /\ \A m \in DOMAIN logs : logs'[m] = logs[m] /\ m < vs.nextFile
           /\ manifest.logNumber < vs.nextFile
           /\ LiveLogs' = LiveLogs \cup {vs.nextFile} /\ LiveLogs \subseteq DOMAIN logs
           /\ LoggedIn(logs', LiveLogs') = LoggedIn(logs, LiveLogs)
           /\ DiskOK(tables, logs', manifest, promised, synced)
  <1> DEFINE n == vs.nextFile
  <1>1. /\ FilesTyped /\ MemoryTyped /\ RecoveringOK /\ ManifestOK(manifest)
        /\ db.status = "recovering" /\ db.recover = {}
        /\ UNCHANGED <<tables, manifest, damage, promised, synced>>
    BY DEF LevelIInv, LogCreated
  <1>2. n \in Nat /\ manifest.nextFile \in Nat /\ manifest.logNumber \in Nat
    BY <1>1 DEF MemoryTyped, FilesTyped, Versions
  <1>3. /\ \A m \in DOMAIN logs : m < n /\ m \in Nat
        /\ manifest.logNumber < n
    BY <1>1, <1>2 DEF RecoveringOK, ManifestOK, DiskOK, FilesTyped
  <1>4. n \notin DOMAIN logs
    BY <1>2, <1>3
  <1>5. logs' = With(logs, n, NewLog)
    BY DEF LogCreated
  <1> HIDE DEF n
  <1>6. /\ DOMAIN With(logs, n, NewLog) = DOMAIN logs \cup {n} /\ With(logs, n, NewLog)[n] = NewLog
        /\ \A m \in DOMAIN logs : m # n => With(logs, n, NewLog)[m] = logs[m]
        /\ With(logs, n, NewLog) = [m \in DOMAIN With(logs, n, NewLog) |-> With(logs, n, NewLog)[m]]
    BY DEF With
  <1>7. /\ DOMAIN logs' = DOMAIN logs \cup {n} /\ logs'[n] = NewLog
        /\ \A m \in DOMAIN logs : logs'[m] = logs[m]
        /\ logs' = [m \in DOMAIN logs' |-> logs'[m]]
    BY <1>4, <1>5, <1>6
  <1>8. NewLog \in LogFiles /\ NewLog.synced <= Len(NewLog.records)
    BY DEF NewLog, LogFiles
  <1>9. FilesTyped'
    BY <1>1, <1>2, <1>7, <1>8 DEF FilesTyped
  <1>10. LiveLogs' = LiveLogs \cup {n} /\ LiveLogs \subseteq DOMAIN logs
    BY <1>1, <1>2, <1>3, <1>7 DEF LiveLogs
  <1>11. LoggedIn(logs', LiveLogs') = LoggedIn(logs, LiveLogs)
    <2>1. LiveLogs' \subseteq DOMAIN logs' /\ LiveLogs' \ {n} = LiveLogs
      BY <1>4, <1>7, <1>10
    <2>2. LoggedIn(logs', LiveLogs') = LoggedIn(logs, LiveLogs' \ {n})
      BY <1>4, <1>7, <2>1, NewLogIsEmpty
    <2> QED
      BY <2>1, <2>2
  <1>12. DiskOK(tables, logs', manifest, promised, synced)
    <2>1. DiskOK(tables, logs, manifest, promised, synced) /\ Files(manifest) \subseteq DOMAIN tables
      BY <1>1 DEF ManifestOK, DiskOK
    <2> QED
      BY <1>7, <2>1, DiskOtherLogs DEF Since
  <1> QED
    BY <1>2, <1>3, <1>4, <1>7, <1>9, <1>10, <1>11, <1>12 DEF n

\* Everything promised is in tables once the logs are read: the MANIFEST that names
\* them can do without the logs.
LEMMA LogCreatedStep ==
    ASSUME LevelIInv, LogCreated PROVE LevelIInv'
  <1> DEFINE n == vs.nextFile
             A == bg.edit.add0
  <1>1. /\ FilesTyped /\ MemoryTyped /\ CallsTyped /\ QueueOK /\ PromisesOK /\ ManifestOK(manifest)
        /\ NotOpenIsQuiet /\ RecoveringOK
        /\ db.status = "recovering" /\ db.recover = {}
        /\ UNCHANGED <<tables, manifest, damage, writers, writer, calls, promised, synced>>
    BY DEF LevelIInv, LogCreated
  <1>2. /\ n \notin DOMAIN logs /\ n \in Nat /\ FilesTyped'
        /\ DOMAIN logs' = DOMAIN logs \cup {n} /\ logs'[n] = NewLog
        /\ \A m \in DOMAIN logs : logs'[m] = logs[m] /\ m < n
        /\ manifest.logNumber < n
        /\ LiveLogs' = LiveLogs \cup {n} /\ LiveLogs \subseteq DOMAIN logs
        /\ LoggedIn(logs', LiveLogs') = LoggedIn(logs, LiveLogs)
        /\ DiskOK(tables, logs', manifest, promised, synced)
    BY NewLogRecovered
  <1>3. /\ vs' \in Versions /\ vs'.l0 = vs.l0 /\ vs'.l1 = vs.l1 /\ vs'.nextFile = n + 1
        /\ vs'.lastSequence = vs.lastSequence /\ vs.lastSequence \in Nat
    BY <1>1 DEF LogCreated, MemoryTyped, Versions
  <1>4. /\ db' \in DbRecords /\ db'.status = "opening" /\ db'.logfile = n /\ db'.recover = {}
        /\ db'.mem = db.mem /\ db'.imm = db.imm /\ db'.bgError = db.bgError /\ db'.scheduled = db.scheduled
    BY <1>1, <1>2 DEF LogCreated, MemoryTyped, DbRecords
  <1>5. /\ bg' \in BgRecords /\ bg'.flush = bg.flush /\ bg'.merge = bg.merge /\ bg'.mergeIn = bg.mergeIn
        /\ bg'.edit.add0 = A /\ bg'.edit.add1 = bg.edit.add1 /\ bg'.edit.del = bg.edit.del
        /\ bg'.edit.logNumber = n /\ bg'.edit.nextFile = n + 1 /\ bg'.edit.lastSequence = vs.lastSequence
        /\ bg'.edit \in Edits
    <2> DEFINE x == [bg.edit EXCEPT !.logNumber = n, !.nextFile = n + 1, !.lastSequence = vs.lastSequence]
    <2>1. bg \in BgRecords /\ bg.edit \in Edits
      BY <1>1 DEF MemoryTyped, BgRecords
    <2>2. /\ x \in Edits /\ x.add0 = A /\ x.add1 = bg.edit.add1 /\ x.del = bg.edit.del
          /\ x.logNumber = n /\ x.nextFile = n + 1 /\ x.lastSequence = vs.lastSequence
      <3>1. n + 1 \in Nat /\ n \in Nat /\ vs.lastSequence \in Nat
        BY <1>2, <1>3
      <3> HIDE DEF n
      <3> QED
        BY <2>1, <3>1 DEF Edits
    <2>3. bg' = [bg EXCEPT !.edit = x]
      BY <2>1 DEF LogCreated, BgRecords, Edits
    <2> HIDE DEF x
    <2>4. /\ bg' \in BgRecords /\ bg'.flush = bg.flush /\ bg'.merge = bg.merge
          /\ bg'.mergeIn = bg.mergeIn /\ bg'.edit = x
      BY <2>1, <2>2, <2>3 DEF BgRecords
    <2> QED
      BY <2>2, <2>4
  <1>6. /\ vs.l0 = manifest.l0 /\ vs.l1 = manifest.l1
        /\ manifest.nextFile < n /\ manifest.lastSequence <= vs.lastSequence
        /\ bg.edit.add1 = {} /\ bg.edit.del = {}
        /\ A \subseteq DOMAIN tables
        /\ \A f \in A :
            /\ manifest.nextFile < f /\ f < n
            /\ tables[f] \subseteq LoggedIn(logs, LiveLogs)
            /\ \A e \in tables[f] : e[1] <= vs.lastSequence
        /\ promised \subseteq Batches(TablesOf(tables, Files(manifest) \cup A) \cup CertainIn(logs, db.recover))
    BY <1>1 DEF RecoveringOK
  <1>7. promised \subseteq Batches(TablesOf(tables, Files(manifest) \cup A))
    <2>1. CertainIn(logs, db.recover) = {}
      BY <1>1, InIsMonotone
    <2> QED
      BY <1>6, <2>1
  <1> HIDE DEF n, A
  <1>8. MemoryTyped' /\ CallsTyped' /\ QueueOK' /\ PromisesOK'
    BY <1>1, <1>3, <1>4, <1>5 DEF MemoryTyped, CallsTyped, QueueOK, PromisesOK
  <1>9. ManifestOK(manifest)'
    BY <1>1, <1>2 DEF ManifestOK
  <1>10. NotOpenIsQuiet'
    BY <1>1, <1>4, <1>5 DEF NotOpenIsQuiet
  <1>11. OpeningOK'
    <2>1. \A m \in DOMAIN logs' : m <= n
      BY <1>1, <1>2 DEF FilesTyped
    <2> QED
      BY <1>2, <1>3, <1>4, <1>5, <2>1 DEF OpeningOK
  <1>12. NumbersOK' /\ SequencesOK' /\ MemoryOK'
    BY <1>4 DEF NumbersOK, SequencesOK, MemoryOK
  <1>13. FlushOK' /\ MergeOK'
    BY <1>1, <1>5 DEF FlushOK, MergeOK, NotOpenIsQuiet
  <1>14. RecoveringOK'
    <2>1. manifest.nextFile \in Nat /\ A \subseteq Nat
      BY <1>1, <1>6 DEF FilesTyped, Versions
    <2>2. \A f \in A : f < n + 1
      BY <1>2, <1>6, <2>1
    <2>3. manifest.nextFile < n + 1 /\ \A m \in DOMAIN logs' : m < n + 1
      BY <1>1, <1>2, <1>6, <2>1 DEF FilesTyped
    <2>4. promised \subseteq Batches(TablesOf(tables, Files(manifest) \cup A) \cup CertainIn(logs', {}))
      BY <1>7, BatchesUnion
    <2>5. \A f \in bg'.edit.add0 :
            /\ manifest'.nextFile < f /\ f < vs'.nextFile
            /\ tables'[f] \subseteq LoggedIn(logs', LiveLogs')
            /\ \A e \in tables'[f] : e[1] <= vs'.lastSequence
      BY <1>1, <1>2, <1>3, <1>5, <1>6, <2>2
    <2>6. promised' \subseteq Batches(TablesOf(tables', Files(manifest') \cup bg'.edit.add0)
                                        \cup CertainIn(logs', db'.recover))
      BY <1>1, <1>4, <1>5, <2>4
    <2>7. /\ vs'.l0 = manifest'.l0 /\ vs'.l1 = manifest'.l1
          /\ manifest'.nextFile < vs'.nextFile /\ manifest'.lastSequence <= vs'.lastSequence
          /\ bg'.edit.add1 = {} /\ bg'.edit.del = {} /\ bg'.edit.add0 \subseteq DOMAIN tables'
          /\ db'.recover \subseteq LiveLogs'
          /\ \A m \in DOMAIN logs' : m < vs'.nextFile \/ m \in db'.recover
      BY <1>1, <1>3, <1>4, <1>5, <1>6, <2>3
    <2> QED
      BY <2>5, <2>6, <2>7 DEF RecoveringOK
  <1>15. EditOK'
    <2> DEFINE v == Apply(manifest, bg'.edit)
    <2>1. manifest \in Versions /\ bg'.edit \in Edits
      BY <1>1, <1>5 DEF FilesTyped
    <2>2. /\ v \in Versions /\ Files(v) = (Files(manifest) \ bg'.edit.del) \cup bg'.edit.add0 \cup bg'.edit.add1
          /\ v.logNumber = n /\ v.nextFile = n + 1 /\ v.lastSequence = vs.lastSequence
      BY <1>5, <2>1, ApplyIs
    <2>3. Files(v) = Files(manifest) \cup A
      BY <1>5, <1>6, <2>2
    <2> HIDE DEF v
    <2>4. Since(logs', n) = {n}
      BY <1>1, <1>2 DEF Since, FilesTyped
    <2>5. LoggedIn(logs', {n}) = {} /\ CertainIn(logs', {n}) = {} /\ HardIn(logs', {n}) = {}
      BY <1>2, EmptyLog
    <2> DEFINE T == TablesOf(tables, Files(v))
    <2>6. T \subseteq TablesOf(tables, Files(manifest)) \cup LoggedIn(logs, LiveLogs)
      BY <1>6, <2>3 DEF TablesOf
    <2>7. Unique(TablesOf(tables, Files(manifest)) \cup LoggedIn(logs, LiveLogs))
      BY <1>1, LiveIsSince DEF ManifestOK, DiskOK
    <2>8. Unique(T)
      BY <2>6, <2>7 DEF Unique
    <2>9. promised \subseteq Batches(T) /\ synced \subseteq Batches(T)
      BY <1>1, <1>7, <2>3 DEF PromisesOK
    <2>10. Files(v) \subseteq DOMAIN tables /\ v.logNumber < v.nextFile
      <3>1. Files(manifest) \subseteq DOMAIN tables
        BY <1>1 DEF ManifestOK, DiskOK
      <3> QED
        BY <1>2, <1>6, <2>2, <2>3, <3>1
    <2>11. ASSUME NEW f \in Files(v)
           PROVE  f < v.nextFile /\ \A e \in tables[f] : e[1] <= v.lastSequence
      <3>1. f \in Nat /\ \A e \in tables[f] : e[1] \in Nat
        BY <1>1, <2>10 DEF FilesTyped, EntryPairs
      <3>2. manifest.nextFile \in Nat /\ manifest.lastSequence \in Nat
        BY <1>1 DEF FilesTyped, Versions
      <3>3. CASE f \in Files(manifest)
        <4>1. f < manifest.nextFile /\ \A e \in tables[f] : e[1] <= manifest.lastSequence
          BY <1>1, <3>3 DEF ManifestOK, DiskOK
        <4> QED
          BY <1>2, <1>3, <1>6, <2>2, <3>1, <3>2, <4>1
      <3>4. CASE f \in A
        BY <1>2, <1>6, <2>2, <3>1, <3>4
      <3> QED
        BY <2>3, <3>3, <3>4
    <2> HIDE DEF T
    <2>12. DiskOK(tables, logs', v, promised, synced)
      <3>1. T \cup {} = T
        OBVIOUS
      <3> QED
        BY <2>2, <2>4, <2>5, <2>8, <2>9, <2>10, <2>11, <3>1 DEF DiskOK, T
    <2> QED
      BY <1>1, <2>12 DEF EditOK, ManifestOK, v
  <1> QED
    BY <1>2, <1>8, <1>9, <1>10, <1>11, <1>12, <1>13, <1>14, <1>15 DEF LevelIInv

LEMMA OpenInstalledStep ==
    ASSUME LevelIInv, OpenInstalled PROVE LevelIInv'
  <1> DEFINE v == Apply(manifest, bg.edit)
             u == Install(vs, bg.edit)
             n == db.logfile
  <1>1. /\ FilesTyped /\ MemoryTyped /\ CallsTyped /\ QueueOK /\ PromisesOK
        /\ NotOpenIsQuiet /\ RecoveringOK /\ OpeningOK /\ EditOK /\ db.status = "opening"
        /\ UNCHANGED <<writers, writer, calls, promised, synced>>
        /\ manifest' = v /\ vs' = u /\ damage' = "none" /\ bg' = IdleBg /\ DeleteObsoleteFiles(u, {})
    BY DEF LevelIInv, OpenInstalled
  <1>2. /\ bg.edit.add1 = {} /\ bg.edit.del = {} /\ vs.l0 = manifest.l0 /\ vs.l1 = manifest.l1
        /\ n \in DOMAIN logs /\ logs[n] = NewLog /\ \A m \in DOMAIN logs : m <= n
        /\ bg.edit.logNumber = n /\ bg.edit.nextFile = vs.nextFile /\ vs.nextFile = n + 1
        /\ bg.edit.lastSequence = vs.lastSequence
    BY <1>1 DEF RecoveringOK, OpeningOK
  <1>3. DiskOK(tables, logs, v, promised, synced)
    BY <1>1 DEF EditOK, Editing, ManifestOK
  <1>4. manifest \in Versions /\ vs \in Versions /\ bg.edit \in Edits /\ db \in DbRecords /\ n \in Nat
    BY <1>1 DEF FilesTyped, MemoryTyped, BgRecords, DbRecords
  <1>5. /\ v \in Versions /\ v.logNumber = n /\ v.nextFile = n + 1 /\ v.lastSequence = vs.lastSequence
        /\ u \in Versions /\ u.logNumber = n /\ u.nextFile = n + 1 /\ u.lastSequence = vs.lastSequence
        /\ Files(v) = (Files(manifest) \ bg.edit.del) \cup bg.edit.add0 \cup bg.edit.add1
        /\ Files(u) = (Files(vs) \ bg.edit.del) \cup bg.edit.add0 \cup bg.edit.add1
    BY <1>2, <1>4, ApplyIs
  <1>6. Files(u) = Files(v)
    <2>1. Files(vs) = Files(manifest)
      BY <1>2 DEF Files
    <2> QED
      BY <1>5, <2>1
  <1>7. /\ db' \in DbRecords /\ db'.status = "open" /\ db'.mem = {} /\ db'.imm = {}
        /\ db'.logfile = n /\ ~db'.bgError
    <2> DEFINE d == [db EXCEPT !.status = "open"]
    <2>1. /\ d \in DbRecords /\ d.status = "open" /\ d.mem = db.mem /\ d.imm = db.imm
          /\ d.logfile = n /\ d.bgError = db.bgError
      BY <1>4 DEF DbRecords
    <2>2. db' = MaybeSchedule(d, u)
      BY DEF OpenInstalled
    <2>3. db.mem = {} /\ db.imm = {} /\ ~db.bgError
      BY <1>1 DEF NotOpenIsQuiet
    <2> HIDE DEF d, u, n
    <2> QED
      BY <2>1, <2>2, <2>3, ScheduleIs
  <1> HIDE DEF u, v, n
  <1>8. /\ Files(v) \subseteq DOMAIN tables
        /\ \A f \in Files(v) : f < v.nextFile /\ \A e \in tables[f] : e[1] <= v.lastSequence
        /\ Unique(TablesOf(tables, Files(v)) \cup LoggedIn(logs, Since(logs, v.logNumber)))
        /\ promised \subseteq Batches(TablesOf(tables, Files(v)) \cup CertainIn(logs, Since(logs, v.logNumber)))
        /\ synced \subseteq promised
    BY <1>1, <1>3 DEF DiskOK, PromisesOK
  <1>9. Since(logs, n) = {n}
    BY <1>1, <1>2, <1>4 DEF Since, FilesTyped
  <1>10. /\ DOMAIN tables' = Files(v) /\ \A f \in Files(v) : tables'[f] = tables[f]
         /\ DOMAIN logs' = {n} /\ logs'[n] = NewLog
         /\ tables' = [f \in DOMAIN tables' |-> tables'[f]]
         /\ logs' = [m \in DOMAIN logs' |-> logs'[m]]
    <2>1. /\ DOMAIN tables' = DOMAIN tables \cap (Files(u) \cup {})
          /\ DOMAIN logs' = Since(logs, u.logNumber)
          /\ \A f \in DOMAIN tables' : tables'[f] = tables[f]
          /\ \A m \in DOMAIN logs' : logs'[m] = logs[m]
          /\ tables' = [f \in DOMAIN tables' |-> tables'[f]]
          /\ logs' = [m \in DOMAIN logs' |-> logs'[m]]
      BY <1>1, <1>5, ObsoleteDeleted
    <2>2. DOMAIN tables' = Files(v)
      BY <1>6, <1>8, <2>1
    <2> QED
      BY <1>2, <1>5, <1>9, <2>1, <2>2
  <1>11. ASSUME NEW L, L[n] = NewLog
         PROVE  LoggedIn(L, {n}) = {} /\ CertainIn(L, {n}) = {} /\ HardIn(L, {n}) = {}
    BY <1>11, EmptyLog
  <1> DEFINE T == TablesOf(tables', Files(v))
  <1>12. T = TablesOf(tables, Files(v))
    BY <1>10, SameTables
  <1>13. Unique(T) /\ promised \subseteq Batches(T) /\ synced \subseteq Batches(T)
    <2> HIDE DEF T
    <2>1. LoggedIn(logs, {n}) = {} /\ CertainIn(logs, {n}) = {}
      BY <1>2, <1>11
    <2> QED
      BY <1>5, <1>8, <1>9, <1>12, <2>1
  <1>14. FilesTyped'
    <2>1. NewLog \in LogFiles /\ NewLog.synced <= Len(NewLog.records)
      BY DEF NewLog, LogFiles
    <2>2. \A f \in DOMAIN tables' : tables'[f] \subseteq EntryPairs /\ f \in Nat
      BY <1>1, <1>8, <1>10 DEF FilesTyped
    <2>3. tables' \in [DOMAIN tables' -> SUBSET EntryPairs] /\ logs' \in [DOMAIN logs' -> LogFiles]
      BY <1>10, <2>1, <2>2
    <2> QED
      BY <1>1, <1>4, <1>5, <1>10, <2>1, <2>2, <2>3 DEF FilesTyped
  <1>15. MemoryTyped' /\ CallsTyped' /\ QueueOK' /\ PromisesOK'
    BY <1>1, <1>5, <1>7, IdleIs DEF MemoryTyped, CallsTyped, QueueOK, PromisesOK
  <1>16. ManifestOK(manifest)'
    <2>1. Since(logs, v.logNumber) = {n} /\ \A m \in Since(logs', v.logNumber) : m = n
      BY <1>5, <1>9, <1>10 DEF Since
    <2>2. DiskOK(tables', logs', v, promised, synced)
      BY <1>2, <1>3, <1>10, <2>1, DiskOtherLogs
    <2> QED
      BY <1>1, <2>2 DEF ManifestOK
  <1>17. NotOpenIsQuiet' /\ RecoveringOK' /\ OpeningOK'
    BY <1>7 DEF NotOpenIsQuiet, RecoveringOK, OpeningOK
  <1>18. NumbersOK'
    <2>1. \A f \in DOMAIN tables' : f < vs'.nextFile
      BY <1>1, <1>5, <1>8, <1>10
    <2> QED
      BY <1>1, <1>4, <1>5, <1>6, <1>7, <1>10, <2>1 DEF NumbersOK
  <1>19. LoggedIn(logs', {n}) = {} /\ CertainIn(logs', {n}) = {} /\ HardIn(logs', {n}) = {}
    BY <1>10, <1>11
  <1>20. SequencesOK'
    <2>1. Known' = T
      <3>1. UNION db'.imm = {} /\ db'.mem = {}
        BY <1>7
      <3> QED
        BY <1>10, <1>19, <3>1 DEF Known
    <2>2. \A e \in T : e[1] <= vs'.lastSequence
      BY <1>1, <1>5, <1>8, <1>12 DEF TablesOf
    <2> QED
      BY <1>13, <2>1, <2>2 DEF SequencesOK
  <1>21. MemoryOK'
    <2>1. UNION db'.imm = {} /\ db'.mem = {} /\ TablesOf(tables', Files(manifest')) = T
      BY <1>1, <1>7
    <2> HIDE DEF T
    <2>2. T \cup {} \cup {} = T
      OBVIOUS
    <2> QED
      BY <1>1, <1>7, <1>13, <1>19, <2>1, <2>2 DEF MemoryOK
  <1>22. FlushOK' /\ MergeOK' /\ EditOK'
    BY <1>1, <1>7, IdleIs DEF FlushOK, MergeOK, EditOK, Editing
  <1> QED
    BY <1>14, <1>15, <1>16, <1>17, <1>18, <1>20, <1>21, <1>22 DEF LevelIInv

-----------------------------------------------------------------------------
(***************************************************************************)
(* The invariant.                                                          *)
(***************************************************************************)
LEMMA LevelInit == Init => LevelIInv
  <1> SUFFICES ASSUME Init PROVE LevelIInv
    OBVIOUS
  <1>1. /\ DOMAIN logs = {} /\ DOMAIN tables = {} /\ damage = "none" /\ vs = manifest
        /\ manifest = [l0 |-> {}, l1 |-> {}, logNumber |-> 0, nextFile |-> 2, lastSequence |-> 0]
        /\ db = ClosedDb /\ bg = IdleBg /\ writers = <<>> /\ writer = [w \in Writers |-> IdleWriter]
        /\ calls = [batches |-> 0, stops |-> 0, errors |-> 0] /\ promised = {} /\ synced = {}
        /\ logs = <<>> /\ tables = <<>>
    BY DEF Init
  <1>2. manifest \in Versions /\ Files(manifest) = {}
    BY <1>1 DEF Versions, Files
  <1>3. logs \in [{} -> LogFiles] /\ tables \in [{} -> SUBSET EntryPairs]
    BY <1>1
  <1>4. FilesTyped
    BY <1>1, <1>2, <1>3 DEF FilesTyped
  <1>5. MemoryTyped /\ CallsTyped /\ PromisesOK
    BY <1>1, <1>2, IdleIs DEF MemoryTyped, CallsTyped, PromisesOK
  <1>6. QueueOK
    <2>1. \A w \in Writers : writer[w].pc = "idle"
      BY <1>1, IdleIs
    <2>2. DOMAIN writers = {}
      BY <1>1
    <2> QED
      BY <2>1, <2>2 DEF QueueOK
  <1>7. ManifestOK(manifest)
    <2>1. Since(logs, manifest.logNumber) = {} /\ manifest.logNumber < manifest.nextFile
      BY <1>1 DEF Since
    <2>2. TablesOf(tables, {}) = {} /\ LoggedIn(logs, {}) = {}
      BY DEF TablesOf, LoggedIn
    <2> QED
      BY <1>1, <1>2, <2>1, <2>2 DEF ManifestOK, DiskOK, Unique
  <1>8. NotOpenIsQuiet /\ RecoveringOK /\ OpeningOK /\ NumbersOK /\ SequencesOK /\ MemoryOK
    BY <1>1, IdleIs DEF NotOpenIsQuiet, RecoveringOK, OpeningOK, NumbersOK, SequencesOK, MemoryOK
  <1>9. FlushOK /\ MergeOK /\ EditOK
    BY <1>1, IdleIs DEF FlushOK, MergeOK, EditOK, Editing
  <1> QED
    BY <1>4, <1>5, <1>6, <1>7, <1>8, <1>9 DEF LevelIInv

LEMMA LevelStutter ==
    ASSUME LevelIInv, UNCHANGED vars PROVE LevelIInv'
  <1>1. UNCHANGED <<logs, tables, manifest, damage, vs, db, bg, writers, writer, calls, promised, synced>>
    BY DEF vars, diskVars, memVars
  <1>2. LiveLogs' = LiveLogs /\ Known' = Known
    BY <1>1 DEF LiveLogs, Known
  <1>3. /\ FilesTyped' /\ MemoryTyped' /\ CallsTyped' /\ QueueOK' /\ PromisesOK'
        /\ ManifestOK(manifest)' /\ NotOpenIsQuiet' /\ OpeningOK' /\ NumbersOK'
    BY <1>1 DEF LevelIInv, FilesTyped, MemoryTyped, CallsTyped, QueueOK, PromisesOK, ManifestOK,
                NotOpenIsQuiet, OpeningOK, NumbersOK
  <1>4. RecoveringOK' /\ SequencesOK' /\ MemoryOK' /\ FlushOK' /\ MergeOK' /\ EditOK'
    BY <1>1, <1>2 DEF LevelIInv, RecoveringOK, SequencesOK, MemoryOK, FlushOK, MergeOK, EditOK, Editing,
                      ManifestOK
  <1> QED
    BY <1>3, <1>4 DEF LevelIInv

LEMMA LevelStep ==
    ASSUME LevelIInv, [Next]_vars PROVE LevelIInv'
  <1>1. CASE \E w \in Writers : (\E sync \in BOOLEAN : Write(w, sync)) \/ WriterStep(w)
    <2>1. PICK w \in Writers : (\E sync \in BOOLEAN : Write(w, sync)) \/ WriterStep(w)
      BY <1>1
    <2>2. ASSUME NEW sync \in BOOLEAN, Write(w, sync) PROVE LevelIInv'
      BY <2>2, WriteStep
    <2>3. CASE WriterStep(w)
      BY <2>3, RoomErrorStep, RoomNowStep, RoomWaitStep, RoomRollStep, RoomRollFailsStep,
         LoggedStep, LogFailsStep, SyncFailsStep DEF WriterStep
    <2> QED
      BY <2>1, <2>2, <2>3
  <1>2. CASE BackgroundStep
    BY <1>2, BackgroundNothingStep, FlushBeginsStep, FlushBuiltStep, FlushAbortedStep,
       FlushFailsStep, FlushInstalledStep, FlushInstallFailsStep, MergeBeginsStep,
       MergeBuiltStep, MergeInstallsStep, MergeInstalledStep, MergeInstallFailsStep,
       MergeFailsStep DEF BackgroundStep
  <1>3. CASE ProcessCrash \/ MachineCrash
    BY <1>3, ProcessCrashStep, MachineCrashStep
  <1>4. CASE Open \/ (\E n \in db.recover : LogRead(n) \/ LogUnreadable(n)) \/ LogCreated
    BY <1>4, OpenStep, LogReadStep, LogUnreadableStep, LogCreatedStep
  <1>5. CASE OpenInstalled \/ OpenFails \/ Close \/ Closed
    BY <1>5, OpenInstalledStep, OpenFailsStep, CloseStep, ClosedStep
  <1>6. CASE UNCHANGED vars
    BY <1>6, LevelStutter
  <1> QED
    BY <1>1, <1>2, <1>3, <1>4, <1>5, <1>6 DEF Next

\* Opened, written to, flushed, merged, closed or interrupted at any step, the files,
\* the memory of DBImpl and VersionSet and the edit under way agree.
THEOREM LevelInvariant == Spec => []LevelIInv
  <1>1. Init => LevelIInv
    BY LevelInit
  <1>2. LevelIInv /\ [Next]_vars => LevelIInv'
    BY LevelStep
  <1> QED
    BY <1>1, <1>2, PTL DEF Spec

-----------------------------------------------------------------------------
(***************************************************************************)
(* What the database promises.                                             *)
(***************************************************************************)
LEMMA TableEntriesAre ==
    ASSUME LevelIInv
    PROVE  TableEntries = TablesOf(tables, Files(manifest))
  <1>1. Files(manifest) \cap DOMAIN tables = Files(manifest)
    BY DEF LevelIInv, ManifestOK, DiskOK
  <1> QED
    BY <1>1 DEF TableEntries, TablesOf

\* The state of DBImpl is of its type, writers_ has one thread awake, its head, and
\* what must survive was written.
THEOREM LevelTypes == Spec => []LevelTypeOK
  <1>1. LevelIInv => LevelTypeOK
    <2> SUFFICES ASSUME LevelIInv PROVE LevelTypeOK
      OBVIOUS
    <2>1. FilesTyped /\ MemoryTyped /\ CallsTyped /\ QueueOK /\ PromisesOK
      BY DEF LevelIInv
    <2>2. db.status \in {"closed", "recovering", "opening", "open"}
      BY <2>1 DEF MemoryTyped, DbRecords
    <2>3. \A w \in Writers : writer[w].pc \in {"idle", "asleep", "front", "waitBg", "logging"}
      BY <2>1 DEF CallsTyped, WriterRecords
    <2> QED
      BY <2>1, <2>2, <2>3 DEF FilesTyped, QueueOK, PromisesOK, LevelTypeOK
  <1> QED
    BY <1>1, LevelInvariant, PTL

\* Whatever step the process dies at, opening the database finds every write that was
\* acknowledged (options.h: "no writes will be lost even if sync==false").
THEOREM AcknowledgedWritesSurvive == Spec => []AcknowledgedSurvive
  <1>1. LevelIInv => AcknowledgedSurvive
    <2> SUFFICES ASSUME LevelIInv PROVE AcknowledgedSurvive
      OBVIOUS
    <2>1. promised \subseteq Batches(TablesOf(tables, Files(manifest))
                                       \cup CertainIn(logs, Since(logs, manifest.logNumber)))
      BY DEF LevelIInv, ManifestOK, DiskOK
    <2>2. Recoverable = TablesOf(tables, Files(manifest)) \cup CertainIn(logs, LiveLogs)
      BY TableEntriesAre DEF Recoverable, CertainIn
    <2> QED
      BY <2>1, <2>2, LiveIsSince DEF AcknowledgedSurvive
  <1> QED
    BY <1>1, LevelInvariant, PTL

\* A write with sync set, logged by whichever head, survives a stop of the machine.
THEOREM SyncedWritesSurvive == Spec => []SyncedSurvive
  <1>1. LevelIInv => SyncedSurvive
    <2> SUFFICES ASSUME LevelIInv PROVE SyncedSurvive
      OBVIOUS
    <2>1. synced \subseteq Batches(TablesOf(tables, Files(manifest))
                                     \cup HardIn(logs, Since(logs, manifest.logNumber)))
      BY DEF LevelIInv, ManifestOK, DiskOK
    <2>2. MachineRecoverable = TablesOf(tables, Files(manifest)) \cup HardIn(logs, LiveLogs)
      BY TableEntriesAre DEF MachineRecoverable, HardIn
    <2> QED
      BY <2>1, <2>2, LiveIsSince DEF SyncedSurvive
  <1> QED
    BY <1>1, LevelInvariant, PTL

\* A sequence number names one batch, over crashes, failed appends and replays of a
\* log that a table holds already, and none in use is above LastSequence.
THEOREM SequencesAreFresh == Spec => []SequencesFresh
  <1>1. LevelIInv => SequencesFresh
    <2> SUFFICES ASSUME LevelIInv PROVE SequencesFresh
      OBVIOUS
    <2>1. AllEntries = TablesOf(tables, Files(manifest)) \cup LoggedIn(logs, LiveLogs)
                         \cup db.mem \cup (UNION db.imm)
      BY TableEntriesAre DEF AllEntries, LoggedIn
    <2>2. Files(manifest) \subseteq DOMAIN tables /\ LiveLogs \subseteq DOMAIN logs
      BY DEF LevelIInv, ManifestOK, DiskOK, LiveLogs
    <2>3. CASE db.status = "open"
      <3>1. AllEntries \subseteq Known
        BY <2>1, <2>2 DEF Known, TablesOf, LoggedIn
      <3> QED
        BY <2>3, <3>1 DEF LevelIInv, SequencesOK, Unique, SequencesFresh
    <2>4. CASE db.status # "open"
      <3>1. db.mem = {} /\ UNION db.imm = {}
        BY <2>4 DEF LevelIInv, NotOpenIsQuiet
      <3>2. AllEntries = TablesOf(tables, Files(manifest)) \cup LoggedIn(logs, LiveLogs)
        BY <2>1, <3>1
      <3>3. Unique(AllEntries)
        BY <3>2, LiveIsSince DEF LevelIInv, ManifestOK, DiskOK
      <3> QED
        BY <2>4, <3>3 DEF Unique, SequencesFresh
    <2> QED
      BY <2>3, <2>4
  <1> QED
    BY <1>1, LevelInvariant, PTL

\* DeleteObsoleteFiles never removes a table that MANIFEST, the current version or a
\* merge under way names.
THEOREM NamedTablesStay == Spec => []NamedTablesExist
  <1>1. LevelIInv => NamedTablesExist
    <2> SUFFICES ASSUME LevelIInv PROVE NamedTablesExist
      OBVIOUS
    <2>1. Files(manifest) \subseteq DOMAIN tables
      BY DEF LevelIInv, ManifestOK, DiskOK
    <2>2. db.status = "open" => Files(vs) \subseteq DOMAIN tables
      BY DEF LevelIInv, NumbersOK
    <2>3. bg.mergeIn \subseteq Files(vs) \/ bg.mergeIn = {}
      BY DEF LevelIInv, MergeOK
    <2> QED
      BY <2>1, <2>2, <2>3 DEF NamedTablesExist
  <1> QED
    BY <1>1, LevelInvariant, PTL

=============================================================================
