----------------------------- MODULE MCLevelDB -----------------------------
(***************************************************************************)
(* The database, and the format of its logs on which it relies: LevelDB    *)
(* takes a record as read for certain unless an append has failed before   *)
(* it, and LevelDBLog is where that comes from.                            *)
(***************************************************************************)
EXTENDS LevelDB, LevelDBLog

CONSTANT RecordSizes    \* sizes of the records that are tried

\* Records are numbered; this is record r as the caller gave it.
Whole(r, size) == [i \in 1..size |-> <<r, i>>]

\* Records first..last appended to a log, all of them with success.
Appended(log, sizes, first, last) ==
    FoldLeft(LAMBDA l, r : AddRecord(l, r, sizes[r], 0, 0), log,
             [i \in 1..(last - first + 1) |-> first + i - 1])

\* What a reader gets of any part of the file: nothing but whole records, in order,
\* each once, and records 1..sure if they are there.
ReadsBack(file, sizes, sure) ==
    \A cut \in 0..Len(file) :
        LET got == ReadRecords(SubSeq(file, 1, cut)) IN
        /\ \A i \in DOMAIN got : \E r \in 1..3 : got[i] = Whole(r, sizes[r])
        /\ \A i, j \in DOMAIN got : i < j => got[i][1][1] < got[j][1][1]
        /\ \A r \in 1..sure :
            Len(Appended(EmptyLog, sizes, 1, r).file) <= cut => Whole(r, sizes[r]) \in ToSet(got)

\* The reader inverts the writer, whatever tail a crash takes away, and an append that
\* fails at any byte of any fragment, with appends behind it that succeed, harms no
\* record before it and makes none up (a record behind it may be missing). This is
\* about the format alone, so one state is enough to check it in.
LogReadsBack ==
    logs = <<>> =>
    \A sizes \in [1..3 -> RecordSizes] :
        /\ ReadsBack(Appended(EmptyLog, sizes, 1, 3).file, sizes, 3)
        /\ \A r \in 1..3 :
            LET before == Appended(EmptyLog, sizes, 1, r - 1)
                fs == FragmentsOf(r, sizes[r], before.offset) IN
            \A k \in DOMAIN fs : \A some \in 0..Len(Bytes(fs[k])) :
                ReadsBack(Appended(AddRecord(before, r, sizes[r], k, some), sizes, r + 1, 3).file,
                          sizes, r - 1)
=============================================================================
