----------------------------- MODULE LevelDBLog -----------------------------
(***************************************************************************)
(* The format of leveldb's logs and MANIFEST: log::Writer cuts a record    *)
(* into fragments that do not cross blocks, log::Reader puts them together *)
(* again from whatever a crash or a failed append has left of the file.    *)
(*                                                                         *)
(* A byte is known by the fragment it belongs to and its place there. The  *)
(* checksum of bytes that are not a whole fragment never fits; where those *)
(* bytes claim to end, and of what type they claim to be, makes no         *)
(* difference then.                                                        *)
(***************************************************************************)
EXTENDS Integers, Sequences, FiniteSets, SequencesExt

CONSTANTS
    BlockSize,     \* kBlockSize
    HeaderSize,    \* kHeaderSize
    MaxRecord      \* bytes of the longest record

ASSUME BlockAssumption ==
    /\ HeaderSize \in Nat \ {0} /\ BlockSize \in Nat /\ MaxRecord \in Nat
    /\ HeaderSize < BlockSize

-----------------------------------------------------------------------------
(***************************************************************************)
(* log::Writer.                                                            *)
(***************************************************************************)
FragmentType(begin, end) ==
    IF begin THEN (IF end THEN "full" ELSE "first") ELSE (IF end THEN "last" ELSE "middle")

\* AddRecord's loop at block_offset_ `offset' with `left' bytes to go: how each
\* fragment is padded, typed, sized, and where the next one begins.
Fragments[offset \in 0..BlockSize, left \in 0..MaxRecord, begin \in BOOLEAN] ==
    LET leftover == BlockSize - offset
        pad == IF leftover < HeaderSize THEN leftover ELSE 0
        start == IF leftover < HeaderSize THEN 0 ELSE offset
        avail == BlockSize - start - HeaderSize
        size == IF left < avail THEN left ELSE avail
        f == [pad |-> pad, type |-> FragmentType(begin, left = size),
              size |-> size, next |-> start + HeaderSize + size] IN
    IF left = size THEN <<f>> ELSE <<f>> \o Fragments[f.next, left - size, FALSE]

\* The fragments of record r, each with the bytes of the record it carries.
FragmentsOf(r, size, offset) ==
    LET fs == Fragments[offset, size, TRUE]
        before[i \in 1..Len(fs)] == IF i = 1 THEN 0 ELSE before[i - 1] + fs[i - 1].size IN
    [i \in DOMAIN fs |->
        [pad |-> fs[i].pad, type |-> fs[i].type, next |-> fs[i].next,
         data |-> [j \in 1..fs[i].size |-> <<r, before[i] + j>>]]]

Zero == [of |-> <<>>, at |-> 0]

\* EmitPhysicalRecord: header and payload, behind the padding.
Bytes(f) ==
    [i \in 1..f.pad |-> Zero]
      \o [i \in 1..(HeaderSize + Len(f.data)) |-> [of |-> <<f.type, f.data>>, at |-> i]]

\* AddRecord to a log [file, offset]. `fails' is the number of the fragment that
\* cannot be written (0 for none) and `some' how many of its bytes are: the record
\* ends there, but block_offset_ counts the fragment as if it were whole.
AddRecord(log, r, size, fails, some) ==
    LET fs == FragmentsOf(r, size, log.offset)
        done == IF fails = 0 THEN Len(fs) ELSE fails - 1
        whole == FoldLeft(LAMBDA acc, f : acc \o Bytes(f), <<>>, SubSeq(fs, 1, done))
        part == IF fails = 0 THEN <<>> ELSE SubSeq(Bytes(fs[fails]), 1, some) IN
    [file |-> log.file \o whole \o part,
     offset |-> fs[IF fails = 0 THEN Len(fs) ELSE fails].next]

EmptyLog == [file |-> <<>>, offset |-> 0]

-----------------------------------------------------------------------------
(***************************************************************************)
(* log::Reader.                                                            *)
(***************************************************************************)
\* The end of the block that the byte behind `pos' is in.
BlockEnd(file, pos) ==
    LET end == (pos \div BlockSize + 1) * BlockSize IN
    IF end < Len(file) THEN end ELSE Len(file)

\* Whether a whole fragment lies behind `pos', and within the block.
WholeAt(file, pos) ==
    LET b == file[pos + 1] IN
    /\ b.at = 1
    /\ pos + HeaderSize + Len(b.of[2]) <= BlockEnd(file, pos)
    /\ \A i \in 1..(HeaderSize + Len(b.of[2])) : file[pos + i] = [of |-> b.of, at |-> i]

Bad == <<"bad", <<>>>>

\* ReadPhysicalRecord, again and again from `pos' on: too few bytes for a header are
\* a trailer, unless the file ends there; a bad fragment takes the rest of its
\* block along.
PhysicalRecords(file) ==
    LET from[pos \in 0..(Len(file) + BlockSize)] ==
            LET end == BlockEnd(file, pos)
                skip == (pos \div BlockSize + 1) * BlockSize IN
            IF pos >= Len(file) THEN <<>>
            ELSE IF end - pos < HeaderSize THEN from[skip]
            ELSE IF WholeAt(file, pos)
                 THEN <<file[pos + 1].of>> \o from[pos + HeaderSize + Len(file[pos + 1].of[2])]
            ELSE <<Bad>> \o from[skip] IN
    from[0]

NothingRead == [out |-> <<>>, inRecord |-> FALSE, scratch |-> <<>>]

\* (Mutant: the first fragment is appended to what a failed append has left.)
ReassembledOnto(s, f) ==
    CASE f[1] = "full"   -> [NothingRead EXCEPT !.out = Append(s.out, f[2])]
      [] f[1] \in {"first", "middle"} -> [s EXCEPT !.inRecord = TRUE, !.scratch = @ \o f[2]]
      [] f[1] = "last"   -> IF s.inRecord
                            THEN [NothingRead EXCEPT !.out = Append(s.out, s.scratch \o f[2])]
                            ELSE s
      [] f[1] = "bad"    -> [NothingRead EXCEPT !.out = s.out]

\* ReadRecord's switch: what a fragment does to the record being put together.
Reassembled(s, f) ==
    CASE f[1] = "full"   -> [NothingRead EXCEPT !.out = Append(s.out, f[2])]
      [] f[1] = "first"  -> [s EXCEPT !.inRecord = TRUE, !.scratch = f[2]]
      [] f[1] = "middle" -> IF s.inRecord THEN [s EXCEPT !.scratch = @ \o f[2]] ELSE s
      [] f[1] = "last"   -> IF s.inRecord
                            THEN [NothingRead EXCEPT !.out = Append(s.out, s.scratch \o f[2])]
                            ELSE s
      [] f[1] = "bad"    -> [NothingRead EXCEPT !.out = s.out]

\* All records that ReadRecord returns.
ReadRecords(file) == FoldLeft(Reassembled, NothingRead, PhysicalRecords(file)).out
=============================================================================
