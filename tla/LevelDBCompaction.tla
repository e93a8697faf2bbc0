------------------------- MODULE LevelDBCompaction -------------------------
(***************************************************************************)
(* Which entries leveldb's compactions may drop.  A key has an entry for   *)
(* every write; entries move from the memtable to a table of some level    *)
(* and from level to level, and a read takes the first entry it meets on   *)
(* the way down that is not younger than its snapshot.                     *)
(*                                                                         *)
(* An entry is its sequence number, a table the set of its entries.  A     *)
(* file of level 0 is known by the last sequence number at its flush,      *)
(* which grows as file numbers do.  Which table is due (by size, by        *)
(* seeks, by compact_pointer_) and where the byte limits split outputs or  *)
(* keep inputs from growing is left open.  Only the background thread      *)
(* changes the version, so a flush is one step, and a compaction two       *)
(* between which flushes, writes and snapshots happen.                     *)
(***************************************************************************)
EXTENDS Integers, Sequences, FiniteSets, FiniteSetsExt, Functions

CONSTANTS
    Keys,           \* user keys, in their order
    NumLevels,      \* kNumLevels
    MaxMemLevel,    \* kMaxMemCompactLevel
    MaxSequence,    \* bounds: writes,
    MaxDeletes,     \*   deletions among them,
    MaxSnapshots    \*   and snapshots held at a time

ASSUME LevelAssumption ==
    /\ Keys \subseteq Int
    /\ NumLevels \in Nat \ {0} /\ MaxMemLevel \in 0..(NumLevels - 1)

VARIABLES
    written,      \* the write of each sequence number: key, and whether it deletes
    mem,          \* mem_ (and imm_)
    level0,       \* files_[0]: the table of each file number
    levels,       \* files_[1..]
    snapshots,    \* snapshots_
    compaction,   \* the Compaction under way
    split         \* history: keys whose entries a merge has put into two tables
                  \*   because a snapshot was held

vars == <<written, mem, level0, levels, snapshots, compaction, split>>

NoCompaction == [level |-> -1, in0 |-> {}, in1 |-> {}, base |-> {}, smallest |-> 0]

Init ==
    /\ written = <<>>
    /\ mem = {}
    /\ level0 = <<>>
    /\ levels = [l \in 1..(NumLevels - 1) |-> {}]
    /\ snapshots = {}
    /\ compaction = NoCompaction
    /\ split = {}

LastSequence == Len(written)

Key(e) == written[e].key

\* InternalKeyComparator: by key, youngest entry first.
Before(d, e) == Key(d) < Key(e) \/ (Key(d) = Key(e) /\ d > e)

UserKeys(T) == {Key(e) : e \in T}
FirstKey(T) == Min(UserKeys(T))
LastKey(T) == Max(UserKeys(T))
Largest(T) == CHOOSE e \in T : \A d \in T : d = e \/ Before(d, e)
Smallest(T) == CHOOSE e \in T : \A d \in T : d = e \/ Before(e, d)

Files(l) == IF l = 0 THEN Range(level0) ELSE levels[l]

Overlaps(T, range) == LastKey(T) >= range.lo /\ FirstKey(T) <= range.hi

OverlapInLevel(l, range) == \E T \in Files(l) : Overlaps(T, range)

\* GetRange: the keys from the first to the last of some tables.
GetRange(S) == [lo |-> Min(UserKeys(UNION S)), hi |-> Max(UserKeys(UNION S))]

Hit(l, range) == {T \in Files(l) : Overlaps(T, range)}

\* The range, made to span the tables S as well.
Widened(range, S) ==
    [lo |-> Min({range.lo} \cup UserKeys(UNION S)),
     hi |-> Max({range.hi} \cup UserKeys(UNION S))]

\* GetOverlappingInputs; in level 0 the search starts again whenever a table it
\* has found widens the range, so it ends with the least set that widens it no more.
GetOverlappingInputs(l, range) ==
    IF l > 0 THEN Hit(l, range)
    ELSE {T \in Files(0) :
            \A S \in SUBSET Files(0) : Hit(0, Widened(range, S)) \subseteq S => T \in S}

-----------------------------------------------------------------------------
(***************************************************************************)
(* Reading.                                                                *)
(***************************************************************************)
\* The entry of a table that a seek to (k, s) ends at, if it is one of k's.
Visible(T, k, s) == {e \in T : Key(e) = k /\ e <= s}

\* FindFile: the first table of a sorted level that does not end before (k, s).
FindFile(l, k, s) ==
    LET Ends(T) == Key(Largest(T)) > k \/ (Key(Largest(T)) = k /\ Largest(T) <= s)
        Late == {T \in levels[l] : Ends(T)} IN
    {T \in Late : \A U \in Late : U = T \/ Before(Largest(T), Largest(U))}

\* What it has of k.
Found(l, k, s) == UNION {Visible(T, k, s) : T \in FindFile(l, k, s)}

\* Get: the value found for k at sequence number s, or 0 for none. It asks the
\* memtable, level 0 from the youngest file on, and one table of each level below.
Get(k, s) ==
    LET files0 == {n \in DOMAIN level0 : Visible(level0[n], k, s) # {}}
        below == {l \in DOMAIN levels : Found(l, k, s) # {}}
        E == IF Visible(mem, k, s) # {} THEN Visible(mem, k, s)
             ELSE IF files0 # {} THEN Visible(level0[Max(files0)], k, s)
             ELSE IF below # {} THEN Found(Min(below), k, s)
             ELSE {} IN
    IF E = {} \/ written[Max(E)].deletes THEN 0 ELSE Max(E)

-----------------------------------------------------------------------------
(***************************************************************************)
(* Writing, and what the application holds.                                *)
(***************************************************************************)
Write(k, deletes) ==
    /\ LastSequence < MaxSequence
    /\ deletes => Len(SelectSeq(written, LAMBDA w : w.deletes)) < MaxDeletes
    /\ written' = Append(written, [key |-> k, deletes |-> deletes])
    /\ mem' = mem \cup {LastSequence + 1}
    /\ UNCHANGED <<level0, levels, snapshots, compaction, split>>

GetSnapshot ==
    /\ Cardinality(snapshots \cup {LastSequence}) <= MaxSnapshots
    /\ snapshots' = snapshots \cup {LastSequence}
    /\ UNCHANGED <<written, mem, level0, levels, compaction, split>>

ReleaseSnapshot(s) ==
    /\ s \in snapshots
    /\ snapshots' = snapshots \ {s}
    /\ UNCHANGED <<written, mem, level0, levels, compaction, split>>

-----------------------------------------------------------------------------
(***************************************************************************)
(* The background thread.                                                  *)
(***************************************************************************)
\* (Mutant: only the level the table is put into is looked at.)
MemTableLevelsUnlessOverlapped(range) ==
    {l \in 0..MaxMemLevel : l = 0 \/ ~OverlapInLevel(l, range)}

\* PickLevelForMemTableOutput: down while nothing overlaps; too much overlap two
\* levels down may end the descent early.
PickLevelForMemTableOutput(range) ==
    {l \in 0..MaxMemLevel :
        /\ l = 0 \/ \A m \in 0..l : ~OverlapInLevel(m, range)
        /\ \/ l = MaxMemLevel
           \/ OverlapInLevel(0, range)
           \/ OverlapInLevel(l + 1, range)
           \/ l + 2 < NumLevels /\ OverlapInLevel(l + 2, range)}

SplitKeys(S) == {k \in Keys : \E T, U \in S : T # U /\ k \in UserKeys(T) \cap UserKeys(U)}

AddFile(n, T) == [m \in DOMAIN level0 \cup {n} |-> IF m = n THEN T ELSE level0[m]]
WithoutFiles(S) == Restrict(level0, {n \in DOMAIN level0 : level0[n] \notin S})

\* CompactMemTable, when the thread is idle or between two keys of a compaction.
Flush ==
    /\ mem # {}
    /\ \E l \in PickLevelForMemTableOutput(GetRange({mem})) :
        IF l = 0 THEN level0' = AddFile(LastSequence, mem) /\ UNCHANGED levels
        ELSE levels' = [levels EXCEPT ![l] = @ \cup {mem}] /\ UNCHANGED level0
    /\ mem' = {}
    /\ UNCHANGED <<written, snapshots, compaction, split>>

\* PickCompaction: a table of the level, in level 0 with all it overlaps.
Picked(l, T) == IF l = 0 THEN GetOverlappingInputs(0, GetRange({T})) ELSE {T}

\* SetupOtherInputs: what overlaps in the next level, and more of this level if
\* that adds nothing there (and the limit on bytes allows it: grow).
SetupOtherInputs(l, in0, grow) ==
    LET in1 == GetOverlappingInputs(l + 1, GetRange(in0))
        wide0 == GetOverlappingInputs(l, GetRange(in0 \cup in1))
        wide1 == GetOverlappingInputs(l + 1, GetRange(wide0)) IN
    IF /\ in1 # {} /\ grow
       /\ Cardinality(wide0) > Cardinality(in0)
       /\ Cardinality(wide1) = Cardinality(in1)
    THEN [in0 |-> wide0, in1 |-> wide1]
    ELSE [in0 |-> in0, in1 |-> in1]

\* IsBaseLevelForKey, on the version the compaction was picked from.
IsBaseLevelForKey(l, k) ==
    \A m \in (l + 2)..(NumLevels - 1) : \A T \in levels[m] : ~Overlaps(T, [lo |-> k, hi |-> k])

\* DoCompactionWork begins: inputs and smallest_snapshot are fixed.
CompactionBegins ==
    /\ compaction = NoCompaction
    /\ \E l \in 0..(NumLevels - 2) : \E T \in Files(l), grow \in BOOLEAN :
        LET c == SetupOtherInputs(l, Picked(l, T), grow) IN
        compaction' = [level |-> l, in0 |-> c.in0, in1 |-> c.in1,
                       base |-> {k \in Keys : IsBaseLevelForKey(l, k)},
                       smallest |-> IF snapshots = {} THEN LastSequence ELSE Min(snapshots)]
    /\ UNCHANGED <<written, mem, level0, levels, snapshots, split>>

\* IsTrivialMove: a lone table moves down as it is.
TrivialMove ==
    /\ compaction = NoCompaction
    /\ \E l \in 0..(NumLevels - 2) : \E T \in Files(l) :
        /\ SetupOtherInputs(l, Picked(l, T), FALSE) = [in0 |-> {T}, in1 |-> {}]
        /\ level0' = IF l = 0 THEN WithoutFiles({T}) ELSE level0
        /\ levels' = [m \in DOMAIN levels |->
                        IF m = l THEN levels[m] \ {T}
                        ELSE IF m = l + 1 THEN levels[m] \cup {T} ELSE levels[m]]
    /\ UNCHANGED <<written, mem, snapshots, compaction, split>>

\* (Mutant: a deletion is dropped whatever lies below.)
DroppedEvenIfNeeded(E, c) ==
    {e \in E :
        \/ \E d \in E : Key(d) = Key(e) /\ d > e /\ d <= c.smallest
        \/ written[e].deletes /\ e <= c.smallest}

\* DoCompactionWork, (A): hidden from all snapshots by a younger entry; or a deletion
\* that all snapshots see, with nothing left to hide in the levels below.
Dropped(E, c) ==
    {e \in E :
        \/ \E d \in E : Key(d) = Key(e) /\ d > e /\ d <= c.smallest
        \/ written[e].deletes /\ e <= c.smallest /\ Key(e) \in c.base}

\* The outputs, in order; after any entry one may be full (MaxOutputFileSize) or
\* stop (ShouldStopBefore).
Outputs(K, cuts) ==
    {{e \in K : {d \in cuts : Before(d, e)} = {d \in cuts : Before(d, f)}} : f \in K}

\* InstallCompactionResults: the inputs go, the outputs are in the next level.
CompactionInstalls ==
    LET c == compaction
        E == UNION (c.in0 \cup c.in1)
        K == E \ Dropped(E, c) IN
    /\ c # NoCompaction
    /\ level0' = IF c.level = 0 THEN WithoutFiles(c.in0) ELSE level0
    /\ \E cuts \in SUBSET K :
        levels' = [m \in DOMAIN levels |->
                     IF m = c.level THEN levels[m] \ c.in0
                     ELSE IF m = c.level + 1 THEN (levels[m] \ c.in1) \cup Outputs(K, cuts)
                     ELSE levels[m]]
    /\ split' = IF Max(E) <= c.smallest THEN split
                ELSE split \cup SplitKeys(levels'[c.level + 1])
    /\ compaction' = NoCompaction
    /\ UNCHANGED <<written, mem, snapshots>>

Next ==
    \/ \E k \in Keys, deletes \in BOOLEAN : Write(k, deletes)
    \/ GetSnapshot
    \/ \E s \in snapshots : ReleaseSnapshot(s)
    \/ Flush
    \/ CompactionBegins \/ TrivialMove \/ CompactionInstalls

Spec == Init /\ [][Next]_vars

-----------------------------------------------------------------------------
(***************************************************************************)
(* Properties.                                                             *)
(***************************************************************************)
\* What was last written to k as of s.
Latest(k, s) ==
    LET E == {e \in 1..s : Key(e) = k} IN
    IF E = {} \/ written[Max(E)].deletes THEN 0 ELSE Max(E)

\* "Entries never hop across levels" (Version::Get): whatever is flushed, merged,
\* moved and dropped, in whatever order, a read at every snapshot held and at the
\* last sequence returns what was last written by then. Excepted is a key whose
\* entries a merge under a held snapshot has split over two tables of a level:
\* this version of leveldb then may move the younger one below the older.
ReadsKept ==
    \A k \in Keys, s \in snapshots \cup {LastSequence} :
        Get(k, s) = Latest(k, s) \/ k \in split

\* The tables of a level below 0 do not overlap ("overlapping ranges in same level",
\* Builder::SaveTo), also when a memtable is flushed while a merge is under way:
\* FindFile asks only one of them.
LevelsSorted ==
    \A l \in DOMAIN levels : \A T, U \in levels[l] :
        T = U \/ Before(Largest(T), Smallest(U)) \/ Before(Largest(U), Smallest(T))
=============================================================================
