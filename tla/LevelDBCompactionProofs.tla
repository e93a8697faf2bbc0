---------------------- MODULE LevelDBCompactionProofs ----------------------
(***************************************************************************)
(* Proofs about LevelDBCompaction, for any keys, any number of levels and  *)
(* any number of writes, deletions and snapshots.                          *)
(*                                                                         *)
(* Ranges are compared by their first and last keys; the proofs compare    *)
(* tables entry by entry instead, so that a write, which gives no entry    *)
(* there is a new key, changes nothing.                                    *)
(***************************************************************************)
EXTENDS LevelDBCompaction, WellFoundedInduction, TLAPS

Tables == (SUBSET (1..LastSequence)) \ {{}}

Typed ==
    /\ written \in Seq([key : Keys, deletes : BOOLEAN])
    /\ mem \subseteq 1..LastSequence
    /\ level0 \in [DOMAIN level0 -> Tables]
    /\ DOMAIN level0 \subseteq 1..LastSequence
    /\ levels \in [1..(NumLevels - 1) -> SUBSET Tables]
    /\ snapshots \subseteq 0..LastSequence

-----------------------------------------------------------------------------
(***************************************************************************)
(* The order of tables.                                                    *)
(***************************************************************************)
Precedes(T, U) == \A d \in T, e \in U : Before(d, e)

\* No entry of T has its key between two of X.
KeysApart(T, X) ==
    \/ \A d \in T, e \in X : Key(d) < Key(e)
    \/ \A d \in T, e \in X : Key(e) < Key(d)

Spans(T, k) == (\E d \in T : Key(d) <= k) /\ (\E e \in T : k <= Key(e))

\* There is no gap between the tables of S that none of them covers.
Covered(S) == \A k \in Keys : Spans(UNION S, k) => \E T \in S : Spans(T, k)

-----------------------------------------------------------------------------
(***************************************************************************)
(* The inductive invariant.                                                *)
(***************************************************************************)
InLevel(l) == UNION Files(l)

Below == {d \in 1..LastSequence : \E l \in 0..(NumLevels - 1) : d \in InLevel(l)}

Present == mem \cup Below

\* A level below 0 is sorted.
Sorted ==
    \A l \in DOMAIN levels : \A T, U \in levels[l] : T = U \/ Precedes(T, U) \/ Precedes(U, T)

\* What the memtable has is younger than what is in tables.
MemYoungest ==
    /\ mem # {} => LastSequence \in mem
    /\ \A e \in mem : \A l \in 0..(NumLevels - 1) : \A d \in InLevel(l) : d < e

\* A file of level 0 ends with its number and is younger than those with lower ones.
Level0Ordered ==
    /\ \A n \in DOMAIN level0 : n \in level0[n]
    /\ \A m, n \in DOMAIN level0 : m < n => \A d \in level0[m], e \in level0[n] : d < e

\* Of one key, level 0 has the younger entries.
Level0Young ==
    \A l \in DOMAIN levels : \A e \in InLevel(0), d \in InLevel(l) : Key(d) = Key(e) => d < e

\* "Entries never hop across levels", but for split keys.
LevelsOrdered ==
    \A l, m \in DOMAIN levels : l < m =>
        \A e \in InLevel(l), d \in InLevel(m) : Key(d) = Key(e) => d < e \/ Key(e) \in split

Unsplit ==
    \A l \in DOMAIN levels : \A T, U \in levels[l] : \A d \in T, e \in U :
        Key(d) = Key(e) => T = U \/ Key(e) \in split

\* What a reader at s must find is there; a deletion may be gone once there is
\* nothing left for it to hide.
Kept ==
    \A s \in snapshots \cup {LastSequence} : \A e \in 1..s :
        \/ \E d \in 1..s : Key(d) = Key(e) /\ d > e
        \/ e \in Present
        \/ Key(e) \in split
        \/ written[e].deletes /\ \A d \in Present : Key(d) = Key(e) => d > e

Merged == UNION (compaction.in0 \cup compaction.in1)

\* The tables of the next level that a compaction leaves there.
Stays == levels[compaction.level + 1] \ compaction.in1

InputsOK ==
    /\ compaction.level \in 0..(NumLevels - 2)
    /\ compaction.in0 \subseteq Files(compaction.level) /\ compaction.in0 # {}
    /\ compaction.in1 \subseteq levels[compaction.level + 1]
    /\ compaction.smallest \in Nat
    /\ \A s \in snapshots \cup {LastSequence} : compaction.smallest <= s

\* The merged tables can go into the next level,
PlaceOK ==
    /\ Covered(compaction.in0 \cup compaction.in1)
    /\ \A W \in Stays : Precedes(W, Merged) \/ Precedes(Merged, W)

\* and what they have is still younger than what is below, older than what is above.
AgeOK ==
    /\ \A W \in Stays : \A d \in W, e \in UNION compaction.in0 : Key(d) # Key(e)
    /\ compaction.level = 0 =>
         \A W \in Files(0) \ compaction.in0 : \A d \in W, e \in UNION compaction.in0 :
            Key(d) = Key(e) => e < d

BaseOK ==
    \A m \in (compaction.level + 2)..(NumLevels - 1) : \A d \in InLevel(m), e \in Merged :
        Key(d) = Key(e) => Key(e) \notin compaction.base

MergeOK == compaction # NoCompaction => InputsOK /\ PlaceOK /\ AgeOK /\ BaseOK

AgesOK == MemYoungest /\ Level0Ordered /\ Level0Young /\ LevelsOrdered /\ Unsplit

CInv == Typed /\ Sorted /\ AgesOK /\ Kept /\ MergeOK

-----------------------------------------------------------------------------
(***************************************************************************)
(* Facts about sets.                                                       *)
(***************************************************************************)
\* A set of natural numbers has a least element.
LEMMA LeastNatural ==
    ASSUME NEW N, N \subseteq Nat, N # {}
    PROVE  \E n \in N : \A m \in N : n <= m
  <1> DEFINE R == {ss \in Nat \X Nat : ss[1] < ss[2]}
  <1>1. IsWellFoundedOn(R, Nat)
    BY NatLessThanWellFounded DEF OpToRel
  <1>2. PICK x \in N : \A y \in N : ~(<<y, x>> \in R)
    BY <1>1, WFMin
  <1>3. \A m \in N : m < x => <<m, x>> \in R
    OBVIOUS
  <1> HIDE DEF R
  <1>4. \A m \in N : ~(m < x)
    BY <1>2, <1>3
  <1> QED
    BY <1>4

TotalOn(R, T) ==
    /\ \A d, e \in T : d = e \/ <<d, e>> \in R \/ <<e, d>> \in R
    /\ \A c, d, e \in T : <<c, d>> \in R /\ <<d, e>> \in R => <<c, e>> \in R

\* A total order R on a set of numbers up to n has a greatest element in every
\* nonempty subset.
LEMMA Greatest ==
    ASSUME NEW R, NEW n \in Nat, NEW T \in SUBSET (1..n), T # {}, TotalOn(R, T)
    PROVE  \E e \in T : \A d \in T : d = e \/ <<d, e>> \in R
  <1> DEFINE Has(S) == \E e \in S : \A d \in S : d = e \/ <<d, e>> \in R
             Bad == {m \in Nat : \E S \in SUBSET T : S # {} /\ S \subseteq 1..m /\ ~Has(S)}
  <1> SUFFICES ASSUME ~Has(T) PROVE FALSE
    OBVIOUS
  <1>1. n \in Bad
    OBVIOUS
  <1> HIDE DEF Has
  <1>2. Bad \subseteq Nat
    OBVIOUS
  <1>3. PICK m \in Bad : \A k \in Bad : m <= k
    BY <1>1, <1>2, LeastNatural
  <1>4. PICK S \in SUBSET T : S # {} /\ S \subseteq 1..m /\ ~Has(S)
    OBVIOUS
  <1>5. m \in Nat \ {0} /\ m - 1 \in Nat
    <2>1. m \in Nat
      BY <1>2
    <2>2. PICK x \in S : x \in 1..m
      BY <1>4
    <2> QED
      BY <2>1, <2>2
  <1>6. m - 1 \notin Bad
    BY <1>3, <1>5
  <1>7. m \in S
    <2>1. SUFFICES ASSUME m \notin S PROVE FALSE
      OBVIOUS
    <2>2. S \subseteq 1..(m - 1)
      BY <1>4, <1>5, <2>1
    <2> QED
      BY <1>4, <1>5, <1>6, <2>2
  <1>8. S \ {m} # {}
    BY <1>4, <1>7 DEF Has
  <1>9. S \ {m} \subseteq 1..(m - 1) /\ S \ {m} \in SUBSET T
    BY <1>4, <1>5
  <1>10. Has(S \ {m})
    BY <1>5, <1>6, <1>8, <1>9
  <1>11. PICK g \in S \ {m} : \A d \in S \ {m} : d = g \/ <<d, g>> \in R
    BY <1>10 DEF Has
  <1>12. CASE <<m, g>> \in R
    BY <1>4, <1>11, <1>12 DEF Has
  <1>13. CASE <<g, m>> \in R
    <2>1. \A d \in S : d = m \/ <<d, m>> \in R
      BY <1>7, <1>11, <1>13 DEF TotalOn
    <2> QED
      BY <1>4, <1>7, <2>1 DEF Has
  <1> QED
    BY <1>7, <1>11, <1>12, <1>13 DEF TotalOn

\* Max and Min of a set with a greatest and a least element.
LEMMA MaxIs ==
    ASSUME NEW S, S \subseteq Int, NEW m \in S, \A x \in S : x <= m
    PROVE  Max(S) = m
  <1>1. \E x \in S : \A y \in S : x >= y
    OBVIOUS
  <1>2. Max(S) \in S /\ \A y \in S : Max(S) >= y
    BY <1>1 DEF Max
  <1>3. Max(S) \in Int /\ m \in Int /\ Max(S) <= m /\ m <= Max(S)
    BY <1>2
  <1> QED
    BY <1>3

LEMMA MinIs ==
    ASSUME NEW S, S \subseteq Int, NEW m \in S, \A x \in S : m <= x
    PROVE  Min(S) = m
  <1>1. \E x \in S : \A y \in S : x =< y
    OBVIOUS
  <1>2. Min(S) \in S /\ \A y \in S : Min(S) =< y
    BY <1>1 DEF Min
  <1>3. Min(S) \in Int /\ m \in Int /\ Min(S) <= m /\ m <= Min(S)
    BY <1>2
  <1> QED
    BY <1>3

\* Max and Min of a nonempty set of entries.
LEMMA EntryExtremes ==
    ASSUME NEW n \in Nat, NEW T \in SUBSET (1..n), T # {}
    PROVE  /\ Max(T) \in T /\ \A x \in T : x <= Max(T)
           /\ Min(T) \in T /\ \A x \in T : Min(T) <= x
  <1> DEFINE R == {p \in (1..n) \X (1..n) : p[1] < p[2]}
             Q == {p \in (1..n) \X (1..n) : p[1] > p[2]}
  <1>1. \A d, e \in 1..n : (<<d, e>> \in R <=> d < e) /\ (<<d, e>> \in Q <=> d > e)
    OBVIOUS
  <1> HIDE DEF R, Q
  <1>2. TotalOn(R, T)
    BY <1>1 DEF TotalOn
  <1>3. TotalOn(Q, T)
    BY <1>1 DEF TotalOn
  <1>4. PICK m \in T : \A d \in T : d = m \/ <<d, m>> \in R
    BY <1>2, Greatest
  <1>5. PICK k \in T : \A d \in T : d = k \/ <<d, k>> \in Q
    BY <1>3, Greatest
  <1>6. \A x \in T : x \in Int /\ x <= m /\ k <= x
    <2> SUFFICES ASSUME NEW x \in T PROVE x \in Int /\ x <= m /\ k <= x
      OBVIOUS
    <2>1. x \in 1..n /\ m \in 1..n /\ k \in 1..n
      OBVIOUS
    <2>2. x = m \/ x < m
      BY <1>1, <1>4, <2>1
    <2>3. x = k \/ x > k
      BY <1>1, <1>5, <2>1
    <2> QED
      BY <2>1, <2>2, <2>3
  <1>7. Max(T) = m
    BY <1>6, MaxIs
  <1>8. Min(T) = k
    BY <1>6, MinIs
  <1> QED
    BY <1>6, <1>7, <1>8

-----------------------------------------------------------------------------
(***************************************************************************)
(* Keys and ranges.                                                        *)
(***************************************************************************)
\* A write has a key, which is a number.
LEMMA KeyType ==
    ASSUME Typed
    PROVE  /\ LastSequence \in Nat
           /\ \A e \in 1..LastSequence :
                written[e] \in [key : Keys, deletes : BOOLEAN] /\ Key(e) \in Keys /\ Key(e) \in Int
  <1> DEFINE R == [key : Keys, deletes : BOOLEAN]
  <1>1. written \in Seq(R)
    BY DEF Typed
  <1>2. \A e \in 1..Len(written) : written[e] \in R
    <2> HIDE DEF R
    <2> QED
      BY <1>1
  <1>3. Keys \subseteq Int
    BY LevelAssumption
  <1>4. Len(written) \in Nat
    BY <1>1
  <1> QED
    BY <1>2, <1>3, <1>4 DEF LastSequence, Key

\* Before is a total order of the entries.
LEMMA BeforeOrder ==
    ASSUME Typed
    PROVE  /\ \A d, e \in 1..LastSequence : d = e \/ Before(d, e) \/ Before(e, d)
           /\ \A d, e \in 1..LastSequence : ~(Before(d, e) /\ Before(e, d))
           /\ \A c, d, e \in 1..LastSequence : Before(c, d) /\ Before(d, e) => Before(c, e)
  BY KeyType DEF Before

\* The last entry of a table, and the first one.
LEMMA LargestIs ==
    ASSUME Typed, NEW T \in Tables
    PROVE  Largest(T) \in T /\ \A d \in T : d = Largest(T) \/ Before(d, Largest(T))
  <1> DEFINE n == LastSequence
             R == {p \in (1..n) \X (1..n) : Before(p[1], p[2])}
  <1>1. n \in Nat /\ T \in SUBSET (1..n) /\ T # {}
    BY KeyType DEF Tables
  <1>2. \A d, e \in 1..n : <<d, e>> \in R <=> Before(d, e)
    OBVIOUS
  <1> HIDE DEF n, R
  <1>3. TotalOn(R, T)
    BY <1>1, <1>2, BeforeOrder DEF TotalOn, n
  <1>4. PICK e \in T : \A d \in T : d = e \/ <<d, e>> \in R
    BY <1>1, <1>3, Greatest
  <1>5. \A d \in T : d = e \/ Before(d, e)
    BY <1>1, <1>2, <1>4
  <1> QED
    BY <1>5 DEF Largest

LEMMA SmallestIs ==
    ASSUME Typed, NEW T \in Tables
    PROVE  Smallest(T) \in T /\ \A d \in T : d = Smallest(T) \/ Before(Smallest(T), d)
  <1> DEFINE n == LastSequence
             R == {p \in (1..n) \X (1..n) : Before(p[2], p[1])}
  <1>1. n \in Nat /\ T \in SUBSET (1..n) /\ T # {}
    BY KeyType DEF Tables
  <1>2. \A d, e \in 1..n : <<d, e>> \in R <=> Before(e, d)
    OBVIOUS
  <1> HIDE DEF n, R
  <1>3. TotalOn(R, T)
    BY <1>1, <1>2, BeforeOrder DEF TotalOn, n
  <1>4. PICK e \in T : \A d \in T : d = e \/ <<d, e>> \in R
    BY <1>1, <1>3, Greatest
  <1>5. \A d \in T : d = e \/ Before(e, d)
    BY <1>1, <1>2, <1>4
  <1> QED
    BY <1>5 DEF Smallest

\* The first and the last key of a table are keys of it and bound the others.
LEMMA KeyBounds ==
    ASSUME Typed, NEW T \in Tables
    PROVE  /\ \E a \in T : FirstKey(T) = Key(a)
           /\ \E b \in T : LastKey(T) = Key(b)
           /\ \A e \in T : FirstKey(T) <= Key(e) /\ Key(e) <= LastKey(T)
           /\ FirstKey(T) \in Int /\ LastKey(T) \in Int
  <1>1. \A e \in T : e \in 1..LastSequence /\ Key(e) \in Int
    BY KeyType DEF Tables
  <1>2. PICK a \in T : \A e \in T : Key(a) <= Key(e)
    BY <1>1, SmallestIs DEF Before
  <1>3. PICK b \in T : \A e \in T : Key(e) <= Key(b)
    BY <1>1, LargestIs DEF Before
  <1>4. UserKeys(T) \subseteq Int /\ Key(a) \in UserKeys(T) /\ Key(b) \in UserKeys(T)
    BY <1>1 DEF UserKeys
  <1>5. \A x \in UserKeys(T) : Key(a) <= x /\ x <= Key(b)
    BY <1>2, <1>3 DEF UserKeys
  <1>6. FirstKey(T) = Key(a)
    BY <1>4, <1>5, MinIs DEF FirstKey
  <1>7. LastKey(T) = Key(b)
    BY <1>4, <1>5, MaxIs DEF LastKey
  <1> QED
    BY <1>1, <1>2, <1>3, <1>6, <1>7

RangeOf(X) == [lo |-> FirstKey(X), hi |-> LastKey(X)]

\* What Overlaps compares: ranges overlap unless one set of keys lies before the other.
LEMMA OverlapIs ==
    ASSUME Typed, NEW T \in Tables, NEW X \in Tables
    PROVE  Overlaps(T, RangeOf(X)) <=> ~KeysApart(T, X)
  <1>1. \A e \in T \cup X : Key(e) \in Int
    BY KeyType DEF Tables
  <1>2. PICK a1 \in T, b1 \in T :
            FirstKey(T) = Key(a1) /\ LastKey(T) = Key(b1)
            /\ \A e \in T : Key(a1) <= Key(e) /\ Key(e) <= Key(b1)
    BY KeyBounds
  <1>3. PICK a2 \in X, b2 \in X :
            FirstKey(X) = Key(a2) /\ LastKey(X) = Key(b2)
            /\ \A e \in X : Key(a2) <= Key(e) /\ Key(e) <= Key(b2)
    BY KeyBounds
  <1>4. Overlaps(T, RangeOf(X)) <=> Key(b1) >= Key(a2) /\ Key(a1) <= Key(b2)
    BY <1>2, <1>3 DEF Overlaps, RangeOf
  <1> QED
    BY <1>1, <1>2, <1>3, <1>4 DEF KeysApart

\* GetRange and Widened return the range of all entries of the tables.
LEMMA GetRangeIs ==
    ASSUME NEW S
    PROVE  GetRange(S) = RangeOf(UNION S)
  BY DEF GetRange, RangeOf, FirstKey, LastKey

LEMMA WidenedIs ==
    ASSUME Typed, NEW S, NEW C, UNION S \in Tables, UNION C \subseteq 1..LastSequence
    PROVE  Widened(GetRange(S), C) = RangeOf(UNION (S \cup C))
  <1> DEFINE X == UNION S
             Y == UNION C
             Z == UNION (S \cup C)
  <1>1. Z = X \cup Y
    OBVIOUS
  <1> HIDE DEF X, Y, Z
  <1>2. X \in Tables /\ Y \subseteq 1..LastSequence /\ Z \in Tables
    BY <1>1 DEF X, Y, Tables
  <1>3. \A e \in Z : Key(e) \in Int
    BY <1>2, KeyType DEF Tables
  <1>4. PICK a1 \in X, b1 \in X :
            FirstKey(X) = Key(a1) /\ LastKey(X) = Key(b1)
            /\ \A e \in X : Key(a1) <= Key(e) /\ Key(e) <= Key(b1)
    BY <1>2, KeyBounds
  <1>5. PICK a2 \in Z, b2 \in Z :
            FirstKey(Z) = Key(a2) /\ LastKey(Z) = Key(b2)
            /\ \A e \in Z : Key(a2) <= Key(e) /\ Key(e) <= Key(b2)
    BY <1>2, KeyBounds
  <1>6. Min({Key(a1)} \cup UserKeys(Y)) = Key(a2)
    <2>1. {Key(a1)} \cup UserKeys(Y) \subseteq Int
      BY <1>1, <1>3 DEF UserKeys
    <2>2. \A x \in {Key(a1)} \cup UserKeys(Y) : Key(a2) <= x
      BY <1>1, <1>5 DEF UserKeys
    <2>3. Key(a2) \in {Key(a1)} \cup UserKeys(Y)
      BY <1>1, <1>3, <1>4, <1>5 DEF UserKeys
    <2> QED
      BY <2>1, <2>2, <2>3, MinIs
  <1>7. Max({Key(b1)} \cup UserKeys(Y)) = Key(b2)
    <2>1. {Key(b1)} \cup UserKeys(Y) \subseteq Int
      BY <1>1, <1>3 DEF UserKeys
    <2>2. \A x \in {Key(b1)} \cup UserKeys(Y) : x <= Key(b2)
      BY <1>1, <1>5 DEF UserKeys
    <2>3. Key(b2) \in {Key(b1)} \cup UserKeys(Y)
      BY <1>1, <1>3, <1>4, <1>5 DEF UserKeys
    <2> QED
      BY <2>1, <2>2, <2>3, MaxIs
  <1>8. GetRange(S) = [lo |-> Key(a1), hi |-> Key(b1)]
    BY <1>4, GetRangeIs DEF RangeOf, X
  <1>9. GetRange(S).lo = Key(a1) /\ GetRange(S).hi = Key(b1)
    BY <1>8
  <1>10. Widened(GetRange(S), C) = [lo |-> Key(a2), hi |-> Key(b2)]
    BY <1>6, <1>7, <1>9 DEF Widened, Y
  <1> QED
    BY <1>5, <1>10 DEF RangeOf, Z

-----------------------------------------------------------------------------
(***************************************************************************)
(* Which tables a compaction takes.                                        *)
(***************************************************************************)
\* The tables of a level.
LEMMA FilesAre ==
    ASSUME Typed, NEW l \in 0..(NumLevels - 1)
    PROVE  /\ Files(l) \subseteq Tables
           /\ l # 0 => l \in DOMAIN levels /\ Files(l) = levels[l]
           /\ InLevel(l) \subseteq 1..LastSequence
  <1>1. Files(l) \subseteq Tables /\ (l # 0 => l \in DOMAIN levels /\ Files(l) = levels[l])
    <2>1. CASE l = 0
      BY <2>1 DEF Typed, Files, Range
    <2>2. CASE l # 0
      BY <2>2, LevelAssumption DEF Typed, Files
    <2> QED
      BY <2>1, <2>2
  <1> QED
    BY <1>1 DEF InLevel, Tables

\* A set of tables that is not empty has entries like a table.
LEMMA UnionIs ==
    ASSUME NEW S, S \subseteq Tables, S # {}
    PROVE  UNION S \in Tables
  BY DEF Tables

\* The tables of a level that overlap the range of the tables S.
LEMMA HitIs ==
    ASSUME Typed, NEW l \in 0..(NumLevels - 1), NEW S, S \subseteq Tables, S # {}
    PROVE  Hit(l, GetRange(S)) = {T \in Files(l) : ~KeysApart(T, UNION S)}
  <1>1. UNION S \in Tables
    BY UnionIs
  <1>2. \A T \in Files(l) : Overlaps(T, GetRange(S)) <=> ~KeysApart(T, UNION S)
    BY <1>1, GetRangeIs, OverlapIs, FilesAre
  <1> QED
    BY <1>2 DEF Hit

\* C is as GetOverlappingInputs of level 0 returns it: with the tables S there is
\* no other that overlaps them, and no smaller set is like that.
Closure(S, C) ==
    /\ C \subseteq Files(0)
    /\ \A U \in Files(0) : ~KeysApart(U, UNION (S \cup C)) => U \in C
    /\ \A D \in SUBSET Files(0) :
         (\A U \in Files(0) : ~KeysApart(U, UNION (S \cup D)) => U \in D) => C \subseteq D

\* GetOverlappingInputs of level 0.
LEMMA OverlappingIs ==
    ASSUME Typed, NEW S, S \subseteq Tables, S # {}
    PROVE  Closure(S, GetOverlappingInputs(0, GetRange(S)))
  <1> DEFINE C == GetOverlappingInputs(0, GetRange(S))
             Closed(D) == \A U \in Files(0) : ~KeysApart(U, UNION (S \cup D)) => U \in D
  <1>1. UNION S \in Tables
    BY UnionIs
  <1>2. 0 \in 0..(NumLevels - 1) /\ Files(0) \subseteq Tables
    BY FilesAre, LevelAssumption
  <1>3. \A D \in SUBSET Files(0) : Hit(0, Widened(GetRange(S), D)) \subseteq D <=> Closed(D)
    <2> SUFFICES ASSUME NEW D \in SUBSET Files(0)
                 PROVE  Hit(0, Widened(GetRange(S), D)) \subseteq D <=> Closed(D)
      OBVIOUS
    <2>1. UNION D \subseteq 1..LastSequence
      BY <1>2 DEF Tables
    <2>2. Widened(GetRange(S), D) = GetRange(S \cup D)
      BY <1>1, <2>1, WidenedIs, GetRangeIs
    <2>3. Hit(0, GetRange(S \cup D)) = {T \in Files(0) : ~KeysApart(T, UNION (S \cup D))}
      <3>1. S \cup D \subseteq Tables /\ S \cup D # {}
        BY <1>2
      <3> QED
        BY <1>2, <3>1, HitIs
    <2> QED
      BY <2>2, <2>3
  <1>4. C = {T \in Files(0) : \A D \in SUBSET Files(0) : Closed(D) => T \in D}
    <2> HIDE DEF Closed
    <2>1. C = {T \in Files(0) : \A D \in SUBSET Files(0) :
                   Hit(0, Widened(GetRange(S), D)) \subseteq D => T \in D}
      BY DEF GetOverlappingInputs
    <2> QED
      BY <1>3, <2>1
  <1> HIDE DEF C
  <1>5. C \subseteq Files(0)
    BY <1>4
  <1>6. \A D \in SUBSET Files(0) : Closed(D) => C \subseteq D
    BY <1>4
  <1>7. Closed(C)
    <2> SUFFICES ASSUME NEW U \in Files(0), ~KeysApart(U, UNION (S \cup C)),
                        NEW D \in SUBSET Files(0), Closed(D)
                 PROVE  U \in D
      BY <1>4
    <2>1. UNION (S \cup C) \subseteq UNION (S \cup D)
      BY <1>6
    <2>2. ~KeysApart(U, UNION (S \cup D))
      BY <2>1 DEF KeysApart
    <2> QED
      BY <2>2
  <1>8. Closure(S, C)
    BY <1>5, <1>6, <1>7 DEF Closure
  <1> QED
    BY <1>8 DEF C

\* Tables that overlap those of S leave no gap next to them.
LEMMA CoveredGrows ==
    ASSUME Typed, NEW S, S \subseteq Tables, Covered(S),
           NEW H, H \subseteq Tables, \A U \in H : ~KeysApart(U, UNION S)
    PROVE  Covered(S \cup H)
  <1> SUFFICES ASSUME NEW k \in Keys, Spans(UNION (S \cup H), k),
                      \A T \in S \cup H : ~Spans(T, k)
               PROVE  FALSE
    BY DEF Covered
  <1>1. k \in Int /\ \A T \in S \cup H : \A e \in T : Key(e) \in Int
    BY LevelAssumption, KeyType DEF Tables
  <1>2. ~Spans(UNION S, k)
    BY DEF Covered
  <1>3. PICK d \in UNION (S \cup H), e \in UNION (S \cup H) : Key(d) <= k /\ k <= Key(e)
    BY DEF Spans
  <1>4. CASE \A a \in UNION S : k < Key(a)
    <2>1. PICK U \in H : d \in U
      BY <1>1, <1>3, <1>4
    <2>2. PICK b \in U, a \in UNION S : Key(a) <= Key(b)
      BY <1>1, <2>1 DEF KeysApart
    <2>3. k <= Key(b)
      BY <1>1, <1>4, <2>2
    <2> QED
      BY <1>3, <2>1, <2>2, <2>3 DEF Spans
  <1>5. CASE \A a \in UNION S : Key(a) < k
    <2>1. PICK U \in H : e \in U
      BY <1>1, <1>3, <1>5
    <2>2. PICK b \in U, a \in UNION S : Key(b) <= Key(a)
      BY <1>1, <2>1 DEF KeysApart
    <2>3. Key(b) <= k
      BY <1>1, <1>5, <2>2
    <2> QED
      BY <1>3, <2>1, <2>2, <2>3 DEF Spans
  <1> QED
    BY <1>1, <1>2, <1>4, <1>5 DEF Spans

\* The search of level 0 leaves no gap: the tables on one side of it would do.
LEMMA CoveredClosure ==
    ASSUME Typed, NEW S, S \subseteq Tables, Covered(S), NEW C, Closure(S, C)
    PROVE  Covered(S \cup C)
  <1> SUFFICES ASSUME NEW k \in Keys, Spans(UNION (S \cup C), k),
                      \A T \in S \cup C : ~Spans(T, k)
               PROVE  FALSE
    BY DEF Covered
  <1>1. Files(0) \subseteq Tables /\ C \subseteq Files(0)
    BY FilesAre, LevelAssumption DEF Closure
  <1>2. k \in Int /\ \A T \in S \cup C : \A e \in T : Key(e) \in Int
    BY <1>1, LevelAssumption, KeyType DEF Tables
  <1>3. ~Spans(UNION S, k)
    BY DEF Covered
  <1>4. PICK d \in UNION (S \cup C), e \in UNION (S \cup C) : Key(d) <= k /\ k <= Key(e)
    BY DEF Spans
  <1>5. ASSUME \A a \in UNION S : k < Key(a) PROVE FALSE
    <2> DEFINE D == {U \in C : \A a \in U : k < Key(a)}
    <2>1. \A a \in UNION (S \cup D) : k < Key(a)
      BY <1>5
    <2>2. D \in SUBSET Files(0)
      BY <1>1
    <2>3. ASSUME NEW U \in Files(0), ~KeysApart(U, UNION (S \cup D)) PROVE U \in D
      <3>1. UNION (S \cup D) \subseteq UNION (S \cup C)
        OBVIOUS
      <3>2. ~KeysApart(U, UNION (S \cup C))
        BY <2>3, <3>1 DEF KeysApart
      <3>3. U \in C
        BY <3>2 DEF Closure
      <3> HIDE DEF D
      <3>4. \A a \in UNION (S \cup D) : Key(a) \in Int
        BY <1>2 DEF D
      <3>5. PICK b \in U, a \in UNION (S \cup D) : Key(a) <= Key(b)
        BY <1>2, <2>3, <3>3, <3>4 DEF KeysApart
      <3>6. k <= Key(b)
        BY <1>2, <2>1, <3>3, <3>4, <3>5
      <3>7. \A x \in U : ~(Key(x) <= k)
        BY <3>3, <3>5, <3>6 DEF Spans
      <3> QED
        BY <1>2, <3>3, <3>7 DEF D
    <2> HIDE DEF D
    <2>4. C \subseteq D
      BY <2>2, <2>3 DEF Closure
    <2> QED
      BY <1>2, <1>4, <2>1, <2>4
  <1>6. ASSUME \A a \in UNION S : Key(a) < k PROVE FALSE
    <2> DEFINE D == {U \in C : \A a \in U : Key(a) < k}
    <2>1. \A a \in UNION (S \cup D) : Key(a) < k
      BY <1>6
    <2>2. D \in SUBSET Files(0)
      BY <1>1
    <2>3. ASSUME NEW U \in Files(0), ~KeysApart(U, UNION (S \cup D)) PROVE U \in D
      <3>1. UNION (S \cup D) \subseteq UNION (S \cup C)
        OBVIOUS
      <3>2. ~KeysApart(U, UNION (S \cup C))
        BY <2>3, <3>1 DEF KeysApart
      <3>3. U \in C
        BY <3>2 DEF Closure
      <3> HIDE DEF D
      <3>4. \A a \in UNION (S \cup D) : Key(a) \in Int
        BY <1>2 DEF D
      <3>5. PICK b \in U, a \in UNION (S \cup D) : Key(b) <= Key(a)
        BY <1>2, <2>3, <3>3, <3>4 DEF KeysApart
      <3>6. Key(b) <= k
        BY <1>2, <2>1, <3>3, <3>4, <3>5
      <3>7. \A x \in U : ~(k <= Key(x))
        BY <3>3, <3>5, <3>6 DEF Spans
      <3> QED
        BY <1>2, <3>3, <3>7 DEF D
    <2> HIDE DEF D
    <2>4. C \subseteq D
      BY <2>2, <2>3 DEF Closure
    <2> QED
      BY <1>2, <1>4, <2>1, <2>4
  <1> QED
    BY <1>2, <1>3, <1>5, <1>6 DEF Spans

\* What SetupOtherInputs takes from the next level goes with in0.
LEMMA NextLevel ==
    ASSUME Typed, Sorted, NEW l \in 1..(NumLevels - 1), NEW S, S \subseteq Tables, S # {},
           NEW H, H = Hit(l, GetRange(S)), NEW W \in levels[l] \ H
    PROVE  /\ KeysApart(W, UNION S)
           /\ Precedes(W, UNION (S \cup H)) \/ Precedes(UNION (S \cup H), W)
  <1>1. /\ l \in DOMAIN levels /\ Files(l) = levels[l] /\ levels[l] \subseteq Tables
        /\ H = {T \in levels[l] : ~KeysApart(T, UNION S)}
    <2>1. l \in 0..(NumLevels - 1) /\ l # 0
      BY LevelAssumption
    <2>2. l \in DOMAIN levels /\ Files(l) = levels[l] /\ Files(l) \subseteq Tables
      BY <2>1, FilesAre
    <2> QED
      BY <2>1, <2>2, HitIs
  <1>2. KeysApart(W, UNION S)
    BY <1>1
  <1>3. PICK x : x \in W
    BY <1>1 DEF Tables
  <1>4. /\ \A e \in W : e \in 1..LastSequence /\ Key(e) \in Int
        /\ \A T \in S \cup H : \A e \in T : e \in 1..LastSequence /\ Key(e) \in Int
    BY <1>1, KeyType DEF Tables
  <1>5. \A U \in H : Precedes(W, U) \/ Precedes(U, W)
    BY <1>1 DEF Sorted
  <1>6. CASE \A d \in W, e \in UNION S : Key(d) < Key(e)
    <2>1. ASSUME NEW U \in H PROVE Precedes(W, U)
      <3> SUFFICES ASSUME Precedes(U, W) PROVE FALSE
        BY <1>5
      <3>1. \A d \in U : Key(d) <= Key(x)
        BY <1>3, <1>4 DEF Precedes, Before
      <3>2. \A d \in U, e \in UNION S : Key(d) < Key(e)
        BY <1>3, <1>4, <1>6, <3>1
      <3> QED
        BY <1>1, <3>2 DEF KeysApart
    <2>2. \A d \in W, e \in UNION S : Before(d, e)
      BY <1>6 DEF Before
    <2> QED
      BY <1>2, <2>1, <2>2 DEF Precedes
  <1>7. CASE \A d \in W, e \in UNION S : Key(e) < Key(d)
    <2>1. ASSUME NEW U \in H PROVE Precedes(U, W)
      <3> SUFFICES ASSUME Precedes(W, U) PROVE FALSE
        BY <1>5
      <3>1. \A d \in U : Key(x) <= Key(d)
        BY <1>3, <1>4 DEF Precedes, Before
      <3>2. \A d \in U, e \in UNION S : Key(e) < Key(d)
        BY <1>3, <1>4, <1>7, <3>1
      <3> QED
        BY <1>1, <3>2 DEF KeysApart
    <2>2. \A d \in W, e \in UNION S : Before(e, d)
      BY <1>7 DEF Before
    <2> QED
      BY <1>2, <2>1, <2>2 DEF Precedes
  <1> QED
    BY <1>2, <1>6, <1>7 DEF KeysApart

\* in0 is a set of tables of level l with nothing left in level 0 that overlaps it.
Takes(l, in0) ==
    /\ in0 \subseteq Files(l) /\ in0 # {}
    /\ l = 0 => \A W \in Files(0) \ in0 : KeysApart(W, UNION in0)

\* A table overlaps the range of any tables it is among.
LEMMA SelfOverlap ==
    ASSUME Typed, NEW S, S \subseteq Tables, NEW T \in S
    PROVE  ~KeysApart(T, UNION S)
  <1>1. PICK x \in T : Key(x) \in Int
    BY KeyType DEF Tables
  <1>2. x \in UNION S
    OBVIOUS
  <1> QED
    BY <1>1, <1>2 DEF KeysApart

\* PickCompaction takes what overlaps in level 0.
LEMMA PickedIs ==
    ASSUME Typed, NEW l \in 0..(NumLevels - 2), NEW T \in Files(l)
    PROVE  Takes(l, Picked(l, T)) /\ T \in Picked(l, T) /\ Covered(Picked(l, T))
  <1>1. Files(l) \subseteq Tables
    <2>1. l \in 0..(NumLevels - 1)
      BY LevelAssumption
    <2> QED
      BY <2>1, FilesAre
  <1>2. Covered({T})
    BY DEF Covered
  <1>3. CASE l # 0
    BY <1>2, <1>3 DEF Picked, Takes
  <1>4. CASE l = 0
    <2> DEFINE C == Picked(0, T)
    <2>1. Closure({T}, C)
      BY <1>1, <1>4, OverlappingIs DEF Picked
    <2> HIDE DEF C
    <2>2. C \subseteq Files(0) /\ {T} \cup C \subseteq Tables
      BY <1>1, <1>4, <2>1 DEF Closure
    <2>3. T \in C
      BY <1>4, <2>1, <2>2, SelfOverlap DEF Closure
    <2>4. {T} \cup C = C
      BY <2>3
    <2>5. \A W \in Files(0) \ C : KeysApart(W, UNION C)
      BY <2>1, <2>4 DEF Closure
    <2>6. Covered(C)
      BY <1>1, <1>2, <2>1, <2>4, CoveredClosure
    <2> QED
      BY <1>4, <2>2, <2>3, <2>5, <2>6 DEF Takes, C
  <1> QED
    BY <1>3, <1>4

\* SetupOtherInputs keeps to what Takes and Covered say, whether it grows or not,
\* and takes all that overlaps in the next level.
LEMMA SetupIs ==
    ASSUME Typed, NEW l \in 0..(NumLevels - 2), NEW S, Takes(l, S), Covered(S),
           NEW grow \in BOOLEAN, NEW c, c = SetupOtherInputs(l, S, grow)
    PROVE  /\ Takes(l, c.in0) /\ S \subseteq c.in0
           /\ c.in1 = Hit(l + 1, GetRange(c.in0))
           /\ Covered(c.in0 \cup c.in1)
  <1> DEFINE H == Hit(l + 1, GetRange(S))
             wide0 == GetOverlappingInputs(l, GetRange(S \cup H))
             wide1 == Hit(l + 1, GetRange(wide0))
  <1>1. /\ l \in 0..(NumLevels - 1) /\ l + 1 \in 0..(NumLevels - 1) /\ l + 1 > 0
        /\ \A r : GetOverlappingInputs(l + 1, r) = Hit(l + 1, r)
    BY LevelAssumption DEF GetOverlappingInputs
  <1>2. Files(l) \subseteq Tables /\ Files(l + 1) \subseteq Tables
    BY <1>1, FilesAre
  <1>3. S \subseteq Tables /\ S # {}
    BY <1>2 DEF Takes
  <1>4. H = {T \in Files(l + 1) : ~KeysApart(T, UNION S)}
    BY <1>1, <1>3, HitIs
  <1>5. Covered(S \cup H)
    BY <1>2, <1>3, <1>4, CoveredGrows
  <1>6. c = [in0 |-> S, in1 |-> H] \/ c = [in0 |-> wide0, in1 |-> wide1]
    BY <1>1 DEF SetupOtherInputs
  <1> HIDE DEF H, wide0, wide1
  <1>7. CASE c = [in0 |-> S, in1 |-> H]
    BY <1>5, <1>7 DEF H
  <1>8. S \cup H \subseteq Tables /\ S \cup H # {}
    BY <1>2, <1>3, <1>4
  <1>9. \A T \in S : ~KeysApart(T, UNION (S \cup H))
    BY <1>8, SelfOverlap
  <1>10. Takes(l, wide0) /\ S \subseteq wide0 /\ Covered(S \cup H \cup wide0)
    <2>1. CASE l # 0
      <3>1. wide0 = {T \in Files(l) : ~KeysApart(T, UNION (S \cup H))}
        <4>1. wide0 = Hit(l, GetRange(S \cup H))
          BY <2>1 DEF wide0, GetOverlappingInputs
        <4> QED
          BY <1>1, <1>8, <4>1, HitIs
      <3>2. S \subseteq wide0 /\ wide0 \subseteq Files(l)
        BY <1>9, <3>1 DEF Takes
      <3>3. Covered((S \cup H) \cup wide0)
        BY <1>2, <1>5, <1>8, <3>1, CoveredGrows
      <3> QED
        BY <1>3, <2>1, <3>2, <3>3 DEF Takes
    <2>2. CASE l = 0
      <3>1. Closure(S \cup H, wide0)
        BY <1>8, <2>2, OverlappingIs DEF wide0
      <3>2. wide0 \subseteq Files(0)
        BY <3>1 DEF Closure
      <3>3. \A T \in S : ~KeysApart(T, UNION ((S \cup H) \cup wide0))
        <4>1. (S \cup H) \cup wide0 \subseteq Tables
          BY <1>2, <1>8, <2>2, <3>2
        <4> QED
          BY <4>1, SelfOverlap
      <3>4. S \subseteq wide0
        BY <2>2, <3>1, <3>3 DEF Closure, Takes
      <3>5. \A W \in Files(0) \ wide0 : KeysApart(W, UNION wide0)
        <4>1. UNION wide0 \subseteq UNION ((S \cup H) \cup wide0)
          OBVIOUS
        <4> QED
          BY <3>1, <4>1 DEF Closure, KeysApart
      <3>6. Covered((S \cup H) \cup wide0)
        BY <1>5, <1>8, <3>1, CoveredClosure
      <3> QED
        BY <1>3, <2>2, <3>2, <3>4, <3>5, <3>6 DEF Takes
    <2> QED
      BY <2>1, <2>2
  <1>11. wide0 \subseteq Tables /\ wide0 # {}
    BY <1>2, <1>10 DEF Takes
  <1>12. wide1 = {T \in Files(l + 1) : ~KeysApart(T, UNION wide0)}
    BY <1>1, <1>11, HitIs DEF wide1
  <1>13. H \subseteq wide1
    <2>1. UNION S \subseteq UNION wide0
      BY <1>10
    <2> QED
      BY <1>4, <1>12, <2>1 DEF KeysApart
  <1>14. Covered((S \cup H \cup wide0) \cup wide1)
    <2>1. UNION wide0 \subseteq UNION (S \cup H \cup wide0)
      OBVIOUS
    <2>2. \A U \in wide1 : ~KeysApart(U, UNION (S \cup H \cup wide0))
      BY <1>12, <2>1 DEF KeysApart
    <2>3. S \cup H \cup wide0 \subseteq Tables /\ wide1 \subseteq Tables
      BY <1>2, <1>8, <1>11, <1>12
    <2> QED
      BY <1>10, <2>2, <2>3, CoveredGrows
  <1>15. (S \cup H \cup wide0) \cup wide1 = wide0 \cup wide1
    BY <1>10, <1>13
  <1>16. CASE c = [in0 |-> wide0, in1 |-> wide1]
    <2>1. c.in0 = wide0 /\ c.in1 = wide1
      BY <1>16
    <2>2. Covered(wide0 \cup wide1)
      BY <1>14, <1>15
    <2> QED
      BY <1>10, <2>1, <2>2 DEF wide1
  <1> QED
    BY <1>6, <1>7, <1>16

\* The outputs of a merge are its entries, cut into tables one after another.
LEMMA OutputsAre ==
    ASSUME Typed, NEW K, K \subseteq 1..LastSequence, NEW cuts \in SUBSET K
    PROVE  /\ Outputs(K, cuts) \subseteq Tables
           /\ UNION Outputs(K, cuts) = K
           /\ \A O, P \in Outputs(K, cuts) : O = P \/ Precedes(O, P) \/ Precedes(P, O)
           /\ \A O, P \in Outputs(K, cuts) : O = P \/ O \cap P = {}
  <1> DEFINE cb(e) == {d \in cuts : Before(d, e)}
             cl(f) == {e \in K : cb(e) = cb(f)}
  <1>1. Outputs(K, cuts) = {cl(f) : f \in K}
    BY DEF Outputs
  <1> HIDE DEF cb
  <1>2. Outputs(K, cuts) \subseteq Tables /\ UNION Outputs(K, cuts) = K
    <2>1. \A f \in K : f \in cl(f) /\ cl(f) \subseteq K
      OBVIOUS
    <2> HIDE DEF cl
    <2>2. \A O \in Outputs(K, cuts) : \E f \in K : O = cl(f)
      BY <1>1
    <2>3. \A O \in Outputs(K, cuts) : O \subseteq K /\ O # {}
      BY <2>1, <2>2
    <2>4. \A f \in K : cl(f) \in Outputs(K, cuts)
      BY <1>1
    <2>5. UNION Outputs(K, cuts) = K
      BY <2>1, <2>3, <2>4
    <2> QED
      BY <2>3, <2>5 DEF Tables
  <1>3. \A e, f \in K : Before(e, f) => cb(e) \subseteq cb(f)
    BY BeforeOrder DEF cb
  <1>4. ASSUME NEW f \in K, NEW g \in K, cb(f) # cb(g), Before(f, g)
        PROVE  Precedes(cl(f), cl(g))
    <2> SUFFICES ASSUME NEW a \in K, NEW b \in K, cb(a) = cb(f), cb(b) = cb(g)
                 PROVE  Before(a, b)
      BY DEF Precedes
    <2>1. cb(f) \subseteq cb(g)
      BY <1>3, <1>4
    <2>2. ~Before(b, a)
      BY <1>3, <1>4, <2>1
    <2> QED
      BY <1>4, <2>2, BeforeOrder
  <1>5. ASSUME NEW f \in K, NEW g \in K
        PROVE  cl(f) = cl(g) \/ Precedes(cl(f), cl(g)) \/ Precedes(cl(g), cl(f))
    <2>1. CASE cb(f) = cb(g)
      BY <2>1
    <2>2. CASE cb(f) # cb(g)
      <3>1. Before(f, g) \/ Before(g, f)
        BY <2>2, BeforeOrder
      <3> QED
        BY <2>2, <3>1, <1>4
    <2> QED
      BY <2>1, <2>2
  <1>6. \A f, g \in K : cl(f) = cl(g) \/ cl(f) \cap cl(g) = {}
    OBVIOUS
  <1> HIDE DEF cl
  <1>7. \A O \in Outputs(K, cuts) : \E f \in K : O = cl(f)
    BY <1>1
  <1> QED
    BY <1>2, <1>5, <1>6, <1>7

-----------------------------------------------------------------------------
(***************************************************************************)
(* The steps of the application.                                           *)
(***************************************************************************)
\* A new database is empty.
LEMMA CompactionInit == Init => CInv
  <1> SUFFICES ASSUME Init PROVE CInv
    OBVIOUS
  <1>1. /\ LastSequence = 0 /\ mem = {} /\ snapshots = {} /\ compaction = NoCompaction
        /\ written = <<>> /\ level0 = <<>> /\ DOMAIN level0 = {}
        /\ levels = [l \in 1..(NumLevels - 1) |-> {}]
    BY DEF Init, LastSequence
  <1>2. \A l \in 0..(NumLevels - 1) : Files(l) = {} /\ InLevel(l) = {}
    BY <1>1, LevelAssumption DEF Files, InLevel, Range
  <1>3. \A l \in DOMAIN levels : l \in 0..(NumLevels - 1) /\ levels[l] = {}
    BY <1>1, LevelAssumption
  <1>4. Typed
    <2>1. written \in Seq([key : Keys, deletes : BOOLEAN])
      BY <1>1
    <2>2. level0 \in [DOMAIN level0 -> Tables]
      BY <1>1
    <2>3. levels \in [1..(NumLevels - 1) -> SUBSET Tables]
      BY <1>1
    <2> QED
      BY <1>1, <2>1, <2>2, <2>3 DEF Typed
  <1>5. Sorted /\ AgesOK
    BY <1>1, <1>2, <1>3 DEF Sorted, AgesOK, MemYoungest, Level0Ordered, Level0Young,
                            LevelsOrdered, Unsplit
  <1>6. Kept
    BY <1>1 DEF Kept
  <1>7. MergeOK
    BY <1>1 DEF MergeOK
  <1> QED
    BY <1>4, <1>5, <1>6, <1>7 DEF CInv

\* What does not depend on the variables of a step.
LEMMA CompactionStutter ==
    ASSUME CInv, UNCHANGED vars
    PROVE  CInv'
  <1> USE DEF vars
  <1>1. Typed'
    BY DEF CInv, Typed, Tables, LastSequence
  <1>2. Sorted'
    BY DEF CInv, Sorted, Precedes, Before, Key
  <1>3. AgesOK'
    BY DEF CInv, AgesOK, MemYoungest, Level0Ordered, Level0Young, LevelsOrdered, Unsplit,
           InLevel, Files, Key, LastSequence
  <1>4. Kept'
    BY DEF CInv, Kept, Present, Below, InLevel, Files, Key, LastSequence
  <1>5. MergeOK'
    BY DEF CInv, MergeOK, InputsOK, PlaceOK, AgeOK, BaseOK, Covered, Spans, Stays, Merged,
           Precedes, Before, InLevel, Files, Key, LastSequence
  <1> QED
    BY <1>1, <1>2, <1>3, <1>4, <1>5 DEF CInv

\* Snapshots come and go.
LEMMA SnapshotStep ==
    ASSUME CInv, snapshots' \subseteq snapshots \cup {LastSequence},
           UNCHANGED <<written, mem, level0, levels, compaction, split>>
    PROVE  CInv'
  <1>1. Typed'
    BY KeyType DEF CInv, Typed, Tables, LastSequence
  <1>2. Sorted'
    BY DEF CInv, Sorted, Precedes, Before, Key
  <1>3. AgesOK'
    BY DEF CInv, AgesOK, MemYoungest, Level0Ordered, Level0Young, LevelsOrdered, Unsplit,
           InLevel, Files, Key, LastSequence
  <1>4. Kept'
    BY DEF CInv, Kept, Present, Below, InLevel, Files, Key, LastSequence
  <1>5. MergeOK'
    BY DEF CInv, MergeOK, InputsOK, PlaceOK, AgeOK, BaseOK, Covered, Spans, Stays, Merged,
           Precedes, Before, InLevel, Files, Key, LastSequence
  <1> QED
    BY <1>1, <1>2, <1>3, <1>4, <1>5 DEF CInv

\* A write gives no entry that was there another key.
LEMMA WriteStep ==
    ASSUME CInv, NEW k \in Keys, NEW deletes \in BOOLEAN, Write(k, deletes)
    PROVE  CInv'
  <1> DEFINE n == LastSequence
             R == [key : Keys, deletes : BOOLEAN]
  <1>1. /\ Typed /\ Sorted /\ Kept /\ MergeOK
        /\ MemYoungest /\ Level0Ordered /\ Level0Young /\ LevelsOrdered /\ Unsplit
    BY DEF CInv, AgesOK
  <1>2. /\ written' = Append(written, [key |-> k, deletes |-> deletes])
        /\ mem' = mem \cup {n + 1}
        /\ level0' = level0 /\ levels' = levels /\ snapshots' = snapshots
        /\ compaction' = compaction /\ split' = split
    BY DEF Write
  <1>3. /\ n \in Nat /\ LastSequence' = n + 1 /\ written' \in Seq(R)
        /\ \A e \in 1..n : written'[e] = written[e]
    <2>1. [key |-> k, deletes |-> deletes] \in R
      OBVIOUS
    <2>2. written \in Seq(R)
      BY <1>1 DEF Typed
    <2> HIDE DEF R
    <2> QED
      BY <1>2, <2>1, <2>2 DEF LastSequence
  <1> HIDE DEF n
  <1>4. \A e \in 1..n : Key(e)' = Key(e)
    BY <1>3 DEF Key
  <1>5. \A d, e \in 1..n : Before(d, e)' <=> Before(d, e)
    BY <1>4 DEF Before
  <1>6. /\ \A l : Files(l)' = Files(l) /\ InLevel(l)' = InLevel(l)
        /\ \A l \in 0..(NumLevels - 1) : Files(l) \subseteq Tables /\ InLevel(l) \subseteq 1..n
    BY <1>1, <1>2, FilesAre DEF Files, InLevel, n
  <1>7. /\ DOMAIN levels = 1..(NumLevels - 1)
        /\ \A l \in DOMAIN levels : l \in 0..(NumLevels - 1) /\ levels[l] \subseteq Tables
        /\ 0 \in 0..(NumLevels - 1)
        /\ \A n0 \in DOMAIN level0 : level0[n0] \in Tables
    BY <1>1, LevelAssumption DEF Typed
  <1>8. \A T \in Tables : T \subseteq 1..n /\ T \in Tables'
    BY <1>3 DEF Tables, n
  <1>9. Typed'
    <2>1. mem' \subseteq 1..(n + 1)
      BY <1>1, <1>2, <1>3 DEF Typed, n
    <2>2. level0' \in [DOMAIN level0' -> Tables'] /\ DOMAIN level0' \subseteq 1..(n + 1)
      BY <1>1, <1>2, <1>3, <1>8 DEF Typed, n
    <2>3. levels' \in [1..(NumLevels - 1) -> SUBSET (Tables')]
      <3>1. SUBSET Tables \subseteq SUBSET (Tables')
        BY <1>8
      <3> QED
        BY <1>1, <1>2, <3>1 DEF Typed
    <2>4. snapshots' \subseteq 0..(n + 1)
      BY <1>1, <1>2, <1>3 DEF Typed, n
    <2> QED
      BY <1>3, <2>1, <2>2, <2>3, <2>4 DEF Typed
  <1>10. \A T, U \in SUBSET (1..n) : Precedes(T, U)' <=> Precedes(T, U)
    BY <1>5 DEF Precedes
  <1>11. Sorted'
    BY <1>1, <1>2, <1>7, <1>8, <1>10 DEF Sorted
  <1>12. MemYoungest'
    BY <1>1, <1>2, <1>3, <1>6 DEF MemYoungest
  <1>13. Level0Ordered'
    BY <1>1, <1>2 DEF Level0Ordered
  <1>14. Level0Young'
    BY <1>1, <1>2, <1>4, <1>6, <1>7 DEF Level0Young
  <1>15. LevelsOrdered'
    BY <1>1, <1>2, <1>4, <1>6, <1>7 DEF LevelsOrdered
  <1>16. Unsplit'
    BY <1>1, <1>2, <1>4, <1>7, <1>8 DEF Unsplit
  <1>17. Kept'
    <2>1. Below' = Below
      BY <1>3, <1>6 DEF Below, n
    <2>2. Present' = Present \cup {n + 1} /\ Present \subseteq 1..n
      BY <1>1, <1>2, <2>1 DEF Present, Typed, Below, n
    <2> SUFFICES ASSUME NEW s \in snapshots' \cup {LastSequence'}, NEW e \in 1..s,
                        e \notin Present', Key(e)' \notin split',
                        ~ \E d \in 1..s : Key(d)' = Key(e)' /\ d > e
                 PROVE  written'[e].deletes /\ \A d \in Present' : Key(d)' = Key(e)' => d > e
      BY DEF Kept
    <2>3. s \in Nat /\ (s = n + 1 \/ (s \in snapshots /\ s <= n))
      BY <1>1, <1>2, <1>3 DEF Typed, n
    <2>4. e \in 1..n
      BY <1>3, <2>2, <2>3
    <2>5. PICK r \in snapshots \cup {n} : r <= n /\ r <= s /\ e \in 1..r
      <3>1. CASE s = n + 1
        <4>1. n \in snapshots \cup {n} /\ n <= n /\ n <= s /\ e \in 1..n
          BY <1>3, <2>4, <3>1
        <4> QED
          BY <4>1
      <3>2. CASE s \in snapshots /\ s <= n
        <4>1. s \in snapshots \cup {n} /\ s <= n /\ s <= s /\ e \in 1..s
          BY <2>3, <3>2
        <4> QED
          BY <4>1
      <3> QED
        BY <2>3, <3>1, <3>2
    <2>6. \A d \in 1..r : d \in 1..s /\ d \in 1..n /\ Key(d)' = Key(d)
      BY <1>1, <1>3, <1>4, <2>3, <2>5 DEF Typed, n
    <2>7. ~ \E d \in 1..r : Key(d) = Key(e) /\ d > e
      BY <1>4, <2>4, <2>6
    <2>8. e \notin Present /\ Key(e) \notin split
      BY <1>2, <1>4, <2>2, <2>4
    <2>9. written[e].deletes /\ \A d \in Present : Key(d) = Key(e) => d > e
      BY <1>1, <2>5, <2>7, <2>8 DEF Kept, n
    <2>10. \A d \in Present : Key(d)' = Key(e)' => d > e
      BY <1>4, <2>2, <2>4, <2>9
    <2>11. n + 1 > e
      BY <1>3, <2>4
    <2> QED
      BY <1>3, <2>2, <2>4, <2>9, <2>10, <2>11
  <1>18. MergeOK'
    <2> SUFFICES ASSUME compaction # NoCompaction
                 PROVE  InputsOK' /\ PlaceOK' /\ AgeOK' /\ BaseOK'
      BY <1>2 DEF MergeOK, NoCompaction
    <2>1. InputsOK /\ PlaceOK /\ AgeOK /\ BaseOK
      BY <1>1 DEF MergeOK
    <2>2. InputsOK'
      <3>1. \A s \in snapshots' \cup {LastSequence'} : compaction.smallest <= s
        <4>1. compaction.smallest \in Nat /\ compaction.smallest <= n
          BY <2>1 DEF InputsOK, n
        <4>2. compaction.smallest <= n + 1
          BY <1>3, <4>1
        <4> QED
          BY <1>2, <1>3, <2>1, <4>2 DEF InputsOK
      <3>2. Files(compaction.level)' = Files(compaction.level)
        BY <1>2, <1>6 DEF Files
      <3> QED
        BY <1>2, <2>1, <3>1, <3>2 DEF InputsOK
    <2>3. /\ compaction.level \in 0..(NumLevels - 1) /\ compaction.level + 1 \in DOMAIN levels
          /\ compaction.in0 \subseteq Tables /\ compaction.in1 \subseteq Tables
          /\ Stays \subseteq Tables
      BY <1>6, <1>7, <2>1, LevelAssumption DEF InputsOK, Stays
    <2>4. Merged' = Merged /\ Stays' = Stays /\ Merged \subseteq 1..n
      BY <1>2, <1>8, <2>3 DEF Merged, Stays
    <2>5. PlaceOK'
      <3>1. \A T \in SUBSET (1..n), x \in Keys : Spans(T, x)' <=> Spans(T, x)
        BY <1>4 DEF Spans
      <3>2. \A T \in compaction.in0 \cup compaction.in1 : T \in SUBSET (1..n)
        BY <1>8, <2>3
      <3>3. Covered(compaction.in0 \cup compaction.in1)'
        BY <1>2, <2>1, <2>4, <3>1, <3>2 DEF PlaceOK, Covered, Merged
      <3>4. \A W \in Stays : Precedes(W, Merged)' \/ Precedes(Merged, W)'
        BY <1>8, <1>10, <2>1, <2>3, <2>4 DEF PlaceOK
      <3> QED
        BY <1>2, <2>4, <3>3, <3>4 DEF PlaceOK, Precedes
    <2>6. AgeOK'
      <3>1. \A d \in UNION compaction.in0 : d \in 1..n
        BY <1>8, <2>3
      <3>2. \A W \in Files(0) \cup Stays : \A d \in W : d \in 1..n
        BY <1>6, <1>7, <1>8, <2>3
      <3> QED
        BY <1>2, <1>4, <1>6, <2>1, <2>4, <3>1, <3>2 DEF AgeOK
    <2>7. BaseOK'
      <3>1. \A m \in (compaction.level + 2)..(NumLevels - 1) : m \in 0..(NumLevels - 1)
        BY <2>3, LevelAssumption
      <3> QED
        BY <1>2, <1>4, <1>6, <2>1, <2>4, <3>1 DEF BaseOK
    <2> QED
      BY <2>2, <2>5, <2>6, <2>7
  <1> QED
    BY <1>9, <1>11, <1>12, <1>13, <1>14, <1>15, <1>16, <1>17, <1>18 DEF CInv, AgesOK

-----------------------------------------------------------------------------
(***************************************************************************)
(* The steps of the background thread.                                     *)
(***************************************************************************)
\* Tables with keys apart can stand next to each other.
LEMMA ApartPrecedes ==
    ASSUME Typed, NEW T, NEW U, KeysApart(T, U)
    PROVE  /\ Precedes(T, U) \/ Precedes(U, T)
           /\ T \subseteq 1..LastSequence => \A d \in T, e \in U : Key(d) # Key(e)
  BY KeyType DEF KeysApart, Precedes, Before

\* A table that overlaps no input can go next to a merge of all of them.
LEMMA OutsideMerge ==
    ASSUME Typed, NEW S, S \subseteq Tables, S # {}, Covered(S), NEW M \in Tables,
           \A T \in S : KeysApart(T, M)
    PROVE  KeysApart(M, UNION S)
  <1>1. \A e \in M : Key(e) \in Keys /\ Key(e) \in Int
    BY KeyType DEF Tables
  <1>2. \A T \in S : \A e \in T : Key(e) \in Int
    BY KeyType DEF Tables
  <1>3. \A e \in M, T \in S : ~Spans(T, Key(e))
    BY <1>1, <1>2 DEF KeysApart, Spans
  <1>4. \A e \in M : ~Spans(UNION S, Key(e))
    BY <1>1, <1>3 DEF Covered
  <1>5. \A e \in M : (\A d \in UNION S : Key(e) < Key(d)) \/ (\A d \in UNION S : Key(d) < Key(e))
    BY <1>1, <1>2, <1>4 DEF Spans
  <1>6. PICK T \in S : \E x : x \in T
    BY DEF Tables
  <1> PICK x : x \in T
    BY <1>6
  <1>7. CASE \A d \in T, e \in M : Key(d) < Key(e)
    <2>1. \A e \in M : ~(Key(e) < Key(x))
      BY <1>1, <1>2, <1>6, <1>7
    <2>2. \A e \in M, d \in UNION S : Key(d) < Key(e)
      BY <1>5, <1>6, <2>1
    <2> QED
      BY <2>2 DEF KeysApart
  <1>8. CASE \A d \in T, e \in M : Key(e) < Key(d)
    <2>1. \A e \in M : ~(Key(x) < Key(e))
      BY <1>1, <1>2, <1>6, <1>8
    <2>2. \A e \in M, d \in UNION S : Key(e) < Key(d)
      BY <1>5, <1>6, <2>1
    <2> QED
      BY <2>2 DEF KeysApart
  <1> QED
    BY <1>6, <1>7, <1>8 DEF KeysApart

\* A memtable goes down only past tables it does not overlap; a merge under way has those
\* of its two levels on one side of it.
LEMMA FlushStep ==
    ASSUME CInv, Flush
    PROVE  CInv'
  <1> DEFINE n == LastSequence
  <1>1. /\ Typed /\ Sorted /\ Kept /\ MergeOK
        /\ MemYoungest /\ Level0Ordered /\ Level0Young /\ LevelsOrdered /\ Unsplit
    BY DEF CInv, AgesOK
  <1>2. /\ mem # {} /\ mem' = {} /\ written' = written /\ snapshots' = snapshots
        /\ compaction' = compaction /\ split' = split
    BY DEF Flush
  <1>3. PICK l \in PickLevelForMemTableOutput(GetRange({mem})) :
            /\ l = 0 => level0' = AddFile(n, mem) /\ levels' = levels
            /\ l # 0 => levels' = [levels EXCEPT ![l] = @ \cup {mem}] /\ level0' = level0
    BY DEF Flush
  <1>4. /\ l \in 0..(NumLevels - 1)
        /\ l = 0 \/ \A m \in 0..l : ~OverlapInLevel(m, GetRange({mem}))
    BY LevelAssumption DEF PickLevelForMemTableOutput
  <1>5. /\ n \in Nat /\ LastSequence' = n /\ mem \in Tables
        /\ \A d, e : (Before(d, e)' <=> Before(d, e))
        /\ \A e : Key(e)' = Key(e)
    BY <1>1, <1>2, KeyType DEF Typed, Tables, LastSequence, Before, Key
  <1>6. l # 0 => \A m \in 0..l : \A T \in Files(m) : KeysApart(T, mem)
    <2> SUFFICES ASSUME l # 0, NEW m \in 0..l, NEW T \in Files(m) PROVE KeysApart(T, mem)
      OBVIOUS
    <2>1. m \in 0..(NumLevels - 1)
      BY <1>4, LevelAssumption
    <2>2. T \in Tables
      BY <1>1, <2>1, FilesAre
    <2>3. GetRange({mem}) = RangeOf(mem)
      <3>1. UNION {mem} = mem
        OBVIOUS
      <3> QED
        BY <3>1, GetRangeIs
    <2>4. ~Overlaps(T, RangeOf(mem))
      BY <1>4, <2>3 DEF OverlapInLevel
    <2> QED
      BY <1>1, <1>5, <2>2, <2>4, OverlapIs
  <1>7. /\ DOMAIN levels = 1..(NumLevels - 1) /\ DOMAIN levels' = DOMAIN levels
        /\ 0 \in 0..(NumLevels - 1) /\ \A x \in DOMAIN levels : x \in 0..(NumLevels - 1) /\ x # 0
        /\ \A x \in DOMAIN levels : levels[x] \subseteq Tables
    BY <1>1, <1>3, LevelAssumption DEF Typed
  <1>8. /\ n \notin DOMAIN level0
        /\ l = 0 => /\ DOMAIN level0' = DOMAIN level0 \cup {n}
                    /\ level0'[n] = mem
                    /\ \A m \in DOMAIN level0 : level0'[m] = level0[m]
    <2>1. n \notin DOMAIN level0
      <3> SUFFICES ASSUME n \in DOMAIN level0 PROVE FALSE
        OBVIOUS
      <3>1. n \in mem
        BY <1>1, <1>2 DEF MemYoungest
      <3>2. n \in InLevel(0)
        BY <1>1 DEF Level0Ordered, InLevel, Files, Range
      <3>3. n < n
        BY <1>1, <1>7, <3>1, <3>2 DEF MemYoungest
      <3> QED
        BY <1>5, <3>3
    <2> QED
      BY <1>3, <2>1 DEF AddFile
  <1>9. \A x \in 0..(NumLevels - 1) :
            Files(x)' = IF x = l THEN Files(x) \cup {mem} ELSE Files(x)
    <2>1. Range(level0)' = IF l = 0 THEN Range(level0) \cup {mem} ELSE Range(level0)
      <3>1. CASE l = 0
        <4>1. Range(level0') = {level0'[m] : m \in DOMAIN level0'}
          BY DEF Range
        <4>2. Range(level0') = Range(level0) \cup {mem}
          BY <1>8, <3>1, <4>1 DEF Range
        <4> QED
          BY <3>1, <4>2 DEF Range
      <3>2. CASE l # 0
        BY <1>3, <3>2 DEF Range
      <3> QED
        BY <3>1, <3>2
    <2>2. \A x \in DOMAIN levels : levels'[x] = IF x = l THEN levels[x] \cup {mem} ELSE levels[x]
      BY <1>1, <1>3, <1>7 DEF Typed
    <2> QED
      BY <1>1, <1>7, <2>1, <2>2, FilesAre DEF Files
  <1>10. /\ \A x \in 0..(NumLevels - 1) : \A d \in InLevel(x)' :
              d \in InLevel(x) \/ (x = l /\ d \in mem)
         /\ \A x \in 0..(NumLevels - 1) : \A d \in InLevel(x) : d \in InLevel(x)'
         /\ \A d \in mem : d \in InLevel(l)'
    BY <1>4, <1>9 DEF InLevel
  <1>11. /\ \A x \in 0..(NumLevels - 1) : \A d \in InLevel(x), e \in mem : d < e
         /\ l # 0 => \A x \in 0..l : \A d \in InLevel(x), e \in mem : Key(d) # Key(e)
    <2>1. l # 0 => \A x \in 0..l : \A d \in InLevel(x), e \in mem : Key(d) # Key(e)
      <3> SUFFICES ASSUME l # 0, NEW x \in 0..l, NEW T \in Files(x), NEW d \in T, NEW e \in mem
                   PROVE  Key(d) # Key(e)
        BY DEF InLevel
      <3>1. T \in Tables
        BY <1>1, <1>4, FilesAre, LevelAssumption
      <3> QED
        BY <1>1, <1>6, <3>1, ApartPrecedes DEF Tables
    <2> QED
      BY <1>1, <2>1 DEF MemYoungest
  <1>12. Typed'
    <2>1. Tables' = Tables
      BY <1>5 DEF Tables
    <2>2. level0' \in [DOMAIN level0' -> Tables] /\ DOMAIN level0' \subseteq 1..n
      <3>1. CASE l = 0
        <4>1. n \in 1..n
          BY <1>1, <1>2 DEF MemYoungest, Typed
        <4>2. level0' = [m \in DOMAIN level0 \cup {n} |-> IF m = n THEN mem ELSE level0[m]]
          BY <1>3, <3>1 DEF AddFile
        <4>3. \A m \in DOMAIN level0 : level0[m] \in Tables
          BY <1>1 DEF Typed
        <4> QED
          BY <1>1, <1>5, <4>1, <4>2, <4>3 DEF Typed
      <3>2. CASE l # 0
        BY <1>1, <1>3, <3>2 DEF Typed
      <3> QED
        BY <3>1, <3>2
    <2>3. levels' \in [1..(NumLevels - 1) -> SUBSET Tables]
      BY <1>1, <1>3, <1>5 DEF Typed
    <2> QED
      BY <1>1, <1>2, <1>5, <2>1, <2>2, <2>3 DEF Typed
  <1> HIDE DEF n
  <1>13. Sorted'
    <2> SUFFICES ASSUME NEW x \in DOMAIN levels', NEW T \in levels'[x], NEW U \in levels'[x], T # U
                 PROVE  Precedes(T, U) \/ Precedes(U, T)
      BY <1>5 DEF Sorted, Precedes
    <2>1. levels'[x] = IF x = l THEN levels[x] \cup {mem} ELSE levels[x]
      BY <1>1, <1>3, <1>7 DEF Typed
    <2>2. CASE T \in levels[x] /\ U \in levels[x]
      BY <1>1, <1>7, <2>2 DEF Sorted
    <2>3. ASSUME NEW V \in levels[x], x = l PROVE Precedes(V, mem) \/ Precedes(mem, V)
      <3>1. V \in Files(x) /\ x \in 0..l /\ l # 0
        BY <1>1, <1>4, <1>7, <2>3, FilesAre
      <3> QED
        BY <1>1, <1>6, <3>1, ApartPrecedes
    <2> QED
      BY <2>1, <2>2, <2>3
  <1>14. MemYoungest'
    BY <1>2 DEF MemYoungest
  <1>15. Level0Ordered'
    <2>1. CASE l # 0
      BY <1>1, <1>3, <2>1 DEF Level0Ordered
    <2>2. CASE l = 0
      <3>1. n \in mem
        BY <1>1, <1>2 DEF MemYoungest, n
      <3>2. \A m \in DOMAIN level0 : ~(n < m) /\ \A d \in level0[m], e \in mem : d < e
        <4> SUFFICES ASSUME NEW m \in DOMAIN level0
                     PROVE  ~(n < m) /\ \A d \in level0[m], e \in mem : d < e
          OBVIOUS
        <4>1. m \in 1..n
          BY <1>1 DEF Typed, n
        <4>2. \A d \in level0[m] : d \in InLevel(0)
          BY DEF InLevel, Files, Range
        <4> QED
          BY <1>5, <1>7, <1>11, <4>1, <4>2
      <3>3. \A m \in DOMAIN level0' : m \in level0'[m]
        BY <1>1, <1>8, <2>2, <3>1 DEF Level0Ordered
      <3>4. \A x, y \in DOMAIN level0' : x < y => \A d \in level0'[x], e \in level0'[y] : d < e
        <4> SUFFICES ASSUME NEW x \in DOMAIN level0', NEW y \in DOMAIN level0', x < y,
                            NEW d \in level0'[x], NEW e \in level0'[y]
                     PROVE  d < e
          OBVIOUS
        <4>1. x \in DOMAIN level0
          BY <1>5, <1>8, <2>2, <3>2
        <4>2. CASE y \in DOMAIN level0
          BY <1>1, <1>8, <2>2, <4>1, <4>2 DEF Level0Ordered
        <4>3. CASE y = n
          BY <1>8, <2>2, <3>2, <4>1, <4>3
        <4> QED
          BY <1>8, <2>2, <4>2, <4>3
      <3> QED
        BY <3>3, <3>4 DEF Level0Ordered
    <2> QED
      BY <2>1, <2>2
  <1>16. Level0Young'
    <2> SUFFICES ASSUME NEW x \in DOMAIN levels, NEW e \in InLevel(0)', NEW d \in InLevel(x)',
                        Key(d) = Key(e)
                 PROVE  d < e
      BY <1>5, <1>7 DEF Level0Young
    <2>1. CASE e \in InLevel(0) /\ d \in InLevel(x)
      BY <1>1, <2>1 DEF Level0Young
    <2>2. CASE l = 0 /\ e \in mem /\ d \in InLevel(x)
      BY <1>7, <1>11, <2>2
    <2>3. CASE x = l /\ d \in mem /\ e \in InLevel(0)
      BY <1>4, <1>7, <1>11, <2>3
    <2> QED
      BY <1>7, <1>10, <2>1, <2>2, <2>3
  <1>17. LevelsOrdered'
    <2> SUFFICES ASSUME NEW x \in DOMAIN levels, NEW y \in DOMAIN levels, x < y,
                        NEW e \in InLevel(x)', NEW d \in InLevel(y)', Key(d) = Key(e)
                 PROVE  d < e \/ Key(e) \in split
      BY <1>2, <1>5, <1>7 DEF LevelsOrdered
    <2>1. CASE e \in InLevel(x) /\ d \in InLevel(y)
      BY <1>1, <2>1 DEF LevelsOrdered
    <2>2. CASE x = l /\ e \in mem /\ d \in InLevel(y)
      BY <1>7, <1>11, <2>2
    <2>3. CASE y = l /\ d \in mem /\ e \in InLevel(x)
      BY <1>4, <1>7, <1>11, <2>3
    <2> QED
      BY <1>7, <1>10, <2>1, <2>2, <2>3
  <1>18. Unsplit'
    <2> SUFFICES ASSUME NEW x \in DOMAIN levels, NEW T \in levels'[x], NEW U \in levels'[x],
                        NEW d \in T, NEW e \in U, Key(d) = Key(e), T # U
                 PROVE  Key(e) \in split
      BY <1>2, <1>5, <1>7 DEF Unsplit
    <2>1. levels'[x] = IF x = l THEN levels[x] \cup {mem} ELSE levels[x]
      BY <1>1, <1>3, <1>7 DEF Typed
    <2>2. CASE T \in levels[x] /\ U \in levels[x]
      BY <1>1, <2>2 DEF Unsplit
    <2>3. ASSUME NEW V \in levels[x], x = l, NEW a \in V, NEW b \in mem PROVE Key(a) # Key(b)
      <3>1. a \in InLevel(x) /\ x \in 0..l /\ l # 0
        BY <1>1, <1>4, <1>7, <2>3, FilesAre DEF InLevel
      <3> QED
        BY <1>11, <3>1
    <2> QED
      BY <2>1, <2>2, <2>3
  <1>19. Kept'
    <2>1. Present' = Present
      <3>1. Below' = Below \cup mem
        <4>1. mem \subseteq 1..n
          BY <1>1 DEF Typed, n
        <4> QED
          BY <1>4, <1>5, <1>10, <4>1 DEF Below, n
      <3> QED
        BY <1>2, <3>1 DEF Present
    <2> QED
      BY <1>1, <1>2, <1>5, <2>1 DEF Kept, n
  <1>20. MergeOK'
    <2> SUFFICES ASSUME compaction # NoCompaction
                 PROVE  InputsOK' /\ PlaceOK' /\ AgeOK' /\ BaseOK'
      BY <1>2 DEF MergeOK, NoCompaction
    <2> DEFINE lev == compaction.level
    <2>1. InputsOK /\ PlaceOK /\ AgeOK /\ BaseOK
      BY <1>1 DEF MergeOK
    <2>2. lev \in 0..(NumLevels - 2) /\ lev \in 0..(NumLevels - 1) /\ lev + 1 \in DOMAIN levels
      BY <1>7, <2>1, LevelAssumption DEF InputsOK
    <2>3. /\ Files(lev) \subseteq Files(lev)'
          /\ levels'[lev + 1] = IF lev + 1 = l THEN levels[lev + 1] \cup {mem} ELSE levels[lev + 1]
      <3>1. \A x \in 0..(NumLevels - 1) : Files(x) \subseteq Files(x)'
        BY <1>9
      <3>2. Files(lev) \subseteq Files(lev)'
        BY <1>2, <2>2, <3>1 DEF Files
      <3> QED
        BY <1>1, <1>3, <1>7, <2>2, <3>2 DEF Typed
    <2>4. InputsOK'
      <3>1. Files(compaction.level)' = Files(lev)'
        BY <1>2 DEF Files
      <3>2. compaction.in0 \subseteq Files(compaction.level)'
        BY <2>1, <2>3, <3>1 DEF InputsOK
      <3> QED
        BY <1>2, <1>5, <2>1, <2>3, <3>2 DEF InputsOK, n
    <2>5. Merged' = Merged
      BY <1>2 DEF Merged
    <2>6. \A W \in Stays' : W \in Stays \/ (lev + 1 = l /\ W = mem)
      BY <1>2, <2>3 DEF Stays
    <2>7. compaction.in0 \cup compaction.in1 \subseteq Tables /\ compaction.in0 # {}
      BY <1>1, <1>7, <2>1, <2>2, FilesAre DEF InputsOK
    <2>8. \A d \in UNION compaction.in0 : d \in InLevel(lev)
      BY <2>1 DEF InputsOK, InLevel
    <2>9. \A d \in Merged : d \in InLevel(lev) \/ d \in InLevel(lev + 1)
      <3>1. Files(lev + 1) = levels[lev + 1]
        BY <1>1, <1>7, <2>2, FilesAre
      <3> QED
        BY <2>1, <3>1 DEF InputsOK, InLevel, Merged
    <2>10. PlaceOK'
      <3>1. Covered(compaction.in0 \cup compaction.in1)'
        BY <1>2, <1>5, <2>1 DEF PlaceOK, Covered, Spans
      <3>2. ASSUME lev + 1 = l PROVE Precedes(mem, Merged) \/ Precedes(Merged, mem)
        <4>1. l # 0 /\ lev \in 0..l /\ l \in 0..l
          BY <1>4, <2>2, <3>2
        <4>2. \A T \in compaction.in0 \cup compaction.in1 : T \in Files(lev) \cup Files(l)
          <5>1. Files(l) = levels[l]
            BY <1>1, <1>4, <4>1, FilesAre
          <5> QED
            BY <2>1, <3>2, <5>1 DEF InputsOK
        <4>3. \A T \in compaction.in0 \cup compaction.in1 : KeysApart(T, mem)
          BY <1>6, <4>1, <4>2
        <4>4. KeysApart(mem, Merged)
          BY <1>1, <1>5, <2>1, <2>7, <4>3, OutsideMerge DEF PlaceOK, Merged
        <4> QED
          BY <1>1, <4>4, ApartPrecedes
      <3>3. \A W \in Stays' : Precedes(W, Merged) \/ Precedes(Merged, W)
        BY <2>1, <2>6, <3>2 DEF PlaceOK
      <3> QED
        BY <1>5, <2>5, <3>1, <3>3 DEF PlaceOK, Precedes
    <2>11. AgeOK'
      <3>1. \A W \in Stays' : \A d \in W, e \in UNION compaction.in0 : Key(d) # Key(e)
        <4> SUFFICES ASSUME lev + 1 = l, NEW d \in mem, NEW e \in UNION compaction.in0
                     PROVE  Key(d) # Key(e)
          BY <2>1, <2>6 DEF AgeOK
        <4>1. l # 0 /\ lev \in 0..l
          BY <1>4, <2>2
        <4> QED
          BY <1>11, <2>8, <4>1
      <3>2. ASSUME lev = 0
            PROVE  \A W \in Files(0)' \ compaction.in0 : \A d \in W, e \in UNION compaction.in0 :
                     Key(d) = Key(e) => e < d
        <4> SUFFICES ASSUME NEW W \in Files(0)' \ compaction.in0, NEW d \in W,
                            NEW e \in UNION compaction.in0, Key(d) = Key(e)
                     PROVE  e < d
          OBVIOUS
        <4>1. CASE W \in Files(0)
          BY <2>1, <3>2, <4>1 DEF AgeOK
        <4>2. CASE W = mem
          BY <1>7, <1>11, <2>8, <3>2, <4>2
        <4> QED
          BY <1>7, <1>9, <4>1, <4>2
      <3> QED
        BY <1>2, <1>5, <3>1, <3>2 DEF AgeOK
    <2>12. BaseOK'
      <3> SUFFICES ASSUME NEW m \in (lev + 2)..(NumLevels - 1), NEW d \in InLevel(m)',
                          NEW e \in Merged, Key(d) = Key(e)
                   PROVE  Key(e) \notin compaction.base
        BY <1>2, <1>5, <2>5 DEF BaseOK
      <3>1. m \in 0..(NumLevels - 1) /\ m # 0 /\ (m = l => lev \in 0..l /\ lev + 1 \in 0..l)
        BY <2>2, LevelAssumption
      <3>2. CASE d \in InLevel(m)
        BY <2>1, <3>2 DEF BaseOK
      <3>3. CASE m = l /\ d \in mem
        BY <1>11, <2>9, <3>1, <3>3
      <3> QED
        BY <1>10, <3>1, <3>2, <3>3
    <2> QED
      BY <2>4, <2>10, <2>11, <2>12
  <1> QED
    BY <1>12, <1>13, <1>14, <1>15, <1>16, <1>17, <1>18, <1>19, <1>20 DEF CInv, AgesOK

\* What PickCompaction and SetupOtherInputs choose can be merged.
LEMMA BeginsStep ==
    ASSUME CInv, CompactionBegins
    PROVE  CInv'
  <1>1. /\ Typed /\ Sorted /\ Kept /\ AgesOK /\ Level0Ordered
    BY DEF CInv, AgesOK
  <1>2. /\ written' = written /\ mem' = mem /\ level0' = level0 /\ levels' = levels
        /\ snapshots' = snapshots /\ split' = split
    BY DEF CompactionBegins
  <1>3. PICK l \in 0..(NumLevels - 2) : \E T \in Files(l), grow \in BOOLEAN :
            LET c == SetupOtherInputs(l, Picked(l, T), grow) IN
            compaction' = [level |-> l, in0 |-> c.in0, in1 |-> c.in1,
                           base |-> {k \in Keys : IsBaseLevelForKey(l, k)},
                           smallest |-> IF snapshots = {} THEN LastSequence ELSE Min(snapshots)]
    BY DEF CompactionBegins
  <1>4. PICK T \in Files(l), grow \in BOOLEAN :
            LET c == SetupOtherInputs(l, Picked(l, T), grow) IN
            compaction' = [level |-> l, in0 |-> c.in0, in1 |-> c.in1,
                           base |-> {k \in Keys : IsBaseLevelForKey(l, k)},
                           smallest |-> IF snapshots = {} THEN LastSequence ELSE Min(snapshots)]
    BY <1>3
  <1> DEFINE in0 == compaction'.in0
             in1 == compaction'.in1
             base == compaction'.base
             smallest == compaction'.smallest
  <1>5. /\ compaction'.level = l
        /\ in0 = SetupOtherInputs(l, Picked(l, T), grow).in0
        /\ in1 = SetupOtherInputs(l, Picked(l, T), grow).in1
        /\ base = {k \in Keys : IsBaseLevelForKey(l, k)}
        /\ smallest = IF snapshots = {} THEN LastSequence ELSE Min(snapshots)
    BY <1>4
  <1> HIDE DEF in0, in1, base, smallest
  <1>6. /\ l \in 0..(NumLevels - 1) /\ l + 1 \in 0..(NumLevels - 1) /\ l + 1 \in 1..(NumLevels - 1)
        /\ l + 1 \in DOMAIN levels /\ Files(l + 1) = levels[l + 1]
        /\ Files(l) \subseteq Tables /\ levels[l + 1] \subseteq Tables
    <2>1. l \in 0..(NumLevels - 1) /\ l + 1 \in 0..(NumLevels - 1) /\ l + 1 # 0
      BY LevelAssumption
    <2> QED
      BY <1>1, <2>1, FilesAre
  <1>7. Takes(l, in0) /\ in1 = Hit(l + 1, GetRange(in0)) /\ Covered(in0 \cup in1)
    <2>1. Takes(l, Picked(l, T)) /\ Covered(Picked(l, T))
      BY <1>1, PickedIs
    <2> QED
      BY <1>1, <1>5, <2>1, SetupIs
  <1>8. /\ in0 \subseteq Files(l) /\ in0 \subseteq Tables /\ in0 # {}
        /\ in1 = {U \in levels[l + 1] : ~KeysApart(U, UNION in0)}
        /\ in1 \subseteq Tables
    <2>1. in0 \subseteq Files(l) /\ in0 \subseteq Tables /\ in0 # {}
      BY <1>6, <1>7 DEF Takes
    <2>2. Hit(l + 1, GetRange(in0)) = {U \in Files(l + 1) : ~KeysApart(U, UNION in0)}
      BY <1>1, <1>6, <2>1, HitIs
    <2> QED
      BY <1>6, <1>7, <2>1, <2>2
  <1>9. smallest \in Nat /\ \A s \in snapshots \cup {LastSequence} : smallest <= s
    <2>1. LastSequence \in Nat /\ snapshots \subseteq 0..LastSequence
      BY <1>1, KeyType DEF Typed
    <2>2. CASE snapshots = {}
      BY <1>5, <2>1, <2>2
    <2>3. CASE snapshots # {}
      <3>1. snapshots \subseteq Nat /\ snapshots \subseteq Int
        BY <2>1
      <3>2. PICK m \in snapshots : \A s \in snapshots : m <= s
        BY <2>3, <3>1, LeastNatural
      <3>3. Min(snapshots) = m
        BY <3>1, <3>2, MinIs
      <3> QED
        BY <1>5, <2>1, <2>3, <3>2, <3>3
    <2> QED
      BY <2>2, <2>3
  <1>10. Typed' /\ Sorted' /\ Kept' /\ AgesOK'
    <2>1. Typed'
      BY <1>1, <1>2 DEF Typed, Tables, LastSequence
    <2>2. Sorted'
      BY <1>1, <1>2 DEF Sorted, Precedes, Before, Key
    <2>3. Kept'
      BY <1>1, <1>2 DEF Kept, Present, Below, InLevel, Files, Key, LastSequence
    <2>4. AgesOK'
      BY <1>1, <1>2 DEF AgesOK, MemYoungest, Level0Ordered, Level0Young, LevelsOrdered, Unsplit,
                        InLevel, Files, Key, LastSequence
    <2> QED
      BY <2>1, <2>2, <2>3, <2>4
  <1>11. InputsOK'
    <2>1. Files(compaction.level)' = Files(l) /\ LastSequence' = LastSequence
      BY <1>2, <1>5 DEF Files, LastSequence
    <2> QED
      BY <1>2, <1>5, <1>8, <1>9, <2>1 DEF InputsOK, in0, in1, smallest
  <1>12. /\ Merged' = UNION (in0 \cup in1) /\ Stays' = levels[l + 1] \ in1
         /\ \A e : Key(e)' = Key(e)
         /\ \A x, y : Precedes(x, y)' <=> Precedes(x, y)
         /\ \A x : InLevel(x)' = InLevel(x) /\ Files(x)' = Files(x)
    BY <1>2, <1>5 DEF Merged, Stays, in0, in1, Key, Precedes, Before, InLevel, Files
  <1>13. \A W \in levels[l + 1] \ in1 :
            /\ KeysApart(W, UNION in0)
            /\ Precedes(W, UNION (in0 \cup in1)) \/ Precedes(UNION (in0 \cup in1), W)
    BY <1>1, <1>6, <1>7, <1>8, NextLevel
  <1>14. PlaceOK'
    <2>1. Covered(compaction.in0 \cup compaction.in1)'
      BY <1>7, <1>12 DEF Covered, Spans, in0, in1
    <2>2. \A W \in Stays' : Precedes(W, Merged)' \/ Precedes(Merged, W)'
      BY <1>12, <1>13 DEF Precedes
    <2> QED
      BY <1>12, <2>1, <2>2 DEF PlaceOK, Precedes
  <1>15. AgeOK'
    <2>1. \A W \in levels[l + 1] \ in1 : \A d \in W, e \in UNION in0 : Key(d) # Key(e)
      BY <1>1, <1>6, <1>13, ApartPrecedes DEF Tables
    <2>2. l = 0 => \A W \in Files(0) \ in0 : \A d \in W, e \in UNION in0 : Key(d) # Key(e)
      BY <1>1, <1>6, <1>7, ApartPrecedes DEF Takes, Tables
    <2>3. compaction'.in0 = in0
      BY DEF in0
    <2> QED
      BY <1>5, <1>12, <2>1, <2>2, <2>3 DEF AgeOK
  <1>16. BaseOK'
    <2> SUFFICES ASSUME NEW m \in (l + 2)..(NumLevels - 1), NEW d \in InLevel(m),
                        NEW k, k = Key(d), k \in base
                 PROVE  FALSE
      BY <1>5, <1>12 DEF BaseOK, base
    <2>1. m \in 0..(NumLevels - 1) /\ m # 0
      BY <1>6, LevelAssumption
    <2>2. Files(m) = levels[m] /\ levels[m] \subseteq Tables
      BY <1>1, <2>1, FilesAre
    <2>3. PICK U \in levels[m] : d \in U
      BY <2>2 DEF InLevel
    <2>4. U \in Tables /\ FirstKey(U) <= k /\ k <= LastKey(U) /\ k \in Int /\ LastKey(U) \in Int
      BY <1>1, <2>2, <2>3, KeyBounds, KeyType DEF Tables
    <2>5. Overlaps(U, [lo |-> k, hi |-> k])
      BY <2>4 DEF Overlaps
    <2> QED
      BY <1>5, <2>3, <2>5 DEF IsBaseLevelForKey
  <1> QED
    BY <1>10, <1>11, <1>14, <1>15, <1>16 DEF CInv, MergeOK

\* Level 0 without some files.
LEMMA WithoutAre ==
    ASSUME Typed, NEW S, level0' = WithoutFiles(S)
    PROVE  /\ DOMAIN level0' \subseteq DOMAIN level0
           /\ \A m \in DOMAIN level0' : level0'[m] = level0[m]
           /\ level0' \in [DOMAIN level0' -> Tables]
           /\ Range(level0') = Range(level0) \ S
  <1>1. /\ DOMAIN level0' = {m \in DOMAIN level0 : level0[m] \notin S}
        /\ level0' = [m \in DOMAIN level0' |-> level0[m]]
    BY DEF WithoutFiles, Restrict
  <1>2. \A m \in DOMAIN level0' : m \in DOMAIN level0 /\ level0'[m] = level0[m]
    BY <1>1
  <1>3. \A m \in DOMAIN level0 : level0[m] \in Tables
    BY DEF Typed
  <1>4. Range(level0') = Range(level0) \ S
    BY <1>1, <1>2 DEF Range
  <1> QED
    BY <1>1, <1>2, <1>3, <1>4

\* The tables in0 of level l and in1 of the next may become tables of the next level.
MayMove(l, in0, in1) ==
    /\ l \in 0..(NumLevels - 2)
    /\ in0 \subseteq Files(l) /\ in1 \subseteq levels[l + 1]
    /\ \A W \in levels[l + 1] \ in1 :
         /\ Precedes(W, UNION (in0 \cup in1)) \/ Precedes(UNION (in0 \cup in1), W)
         /\ \A d \in W, e \in UNION in0 : Key(d) # Key(e)
    /\ l = 0 => \A W \in Files(0) \ in0 : \A d \in W, e \in UNION in0 : Key(d) = Key(e) => e < d

\* O is what they become, in order.
Becomes(in0, in1, O) ==
    /\ O \subseteq Tables
    /\ UNION O \subseteq UNION (in0 \cup in1)
    /\ \A P, Q \in O : P = Q \/ Precedes(P, Q) \/ Precedes(Q, P)

Moved(l, in0, in1, O) ==
    /\ level0' = IF l = 0 THEN WithoutFiles(in0) ELSE level0
    /\ levels' = [m \in DOMAIN levels |->
                    IF m = l THEN levels[m] \ in0
                    ELSE IF m = l + 1 THEN (levels[m] \ in1) \cup O ELSE levels[m]]
    /\ written' = written /\ mem' = mem /\ snapshots' = snapshots

\* The tables of each level after a move.
LEMMA MovedFiles ==
    ASSUME Typed, NEW l \in 0..(NumLevels - 2), NEW in0, NEW in1, NEW O, O \subseteq Tables,
           Moved(l, in0, in1, O)
    PROVE  /\ \A x \in 0..(NumLevels - 1) :
                Files(x)' = IF x = l THEN Files(x) \ in0
                            ELSE IF x = l + 1 THEN (Files(x) \ in1) \cup O ELSE Files(x)
           /\ Typed'
  <1>1. /\ DOMAIN levels = 1..(NumLevels - 1) /\ DOMAIN levels' = DOMAIN levels
        /\ \A x \in DOMAIN levels : x # 0 /\ levels[x] \subseteq Tables
        /\ \A x \in 0..(NumLevels - 1) : x # 0 => x \in DOMAIN levels
    BY LevelAssumption DEF Typed, Moved
  <1>2. Range(level0)' = IF l = 0 THEN Range(level0) \ in0 ELSE Range(level0)
    <2>1. Range(level0)' = Range(level0')
      BY DEF Range
    <2> QED
      BY <2>1, WithoutAre DEF Moved
  <1>3. \A x \in DOMAIN levels :
            levels'[x] = IF x = l THEN levels[x] \ in0
                         ELSE IF x = l + 1 THEN (levels[x] \ in1) \cup O ELSE levels[x]
    BY DEF Moved
  <1>4. Typed'
    <2>1. LastSequence' = LastSequence /\ Tables' = Tables
      BY DEF Moved, LastSequence, Tables
    <2>2. level0' \in [DOMAIN level0' -> Tables] /\ DOMAIN level0' \subseteq DOMAIN level0
      <3>1. CASE l = 0
        <4>1. level0' = WithoutFiles(in0)
          BY <3>1 DEF Moved
        <4> QED
          BY <4>1, WithoutAre
      <3>2. CASE l # 0
        BY <3>2 DEF Moved, Typed
      <3> QED
        BY <3>1, <3>2
    <2>3. levels' \in [1..(NumLevels - 1) -> SUBSET Tables]
      <3>1. \A x \in DOMAIN levels : levels'[x] \in SUBSET Tables
        BY <1>1, <1>3
      <3>2. levels' = [x \in DOMAIN levels |-> levels'[x]]
        BY DEF Moved
      <3> QED
        BY <1>1, <3>1, <3>2
    <2> QED
      BY <2>1, <2>2, <2>3 DEF Typed, Moved
  <1>5. \A x \in 0..(NumLevels - 1) :
            Files(x)' = IF x = l THEN Files(x) \ in0
                        ELSE IF x = l + 1 THEN (Files(x) \ in1) \cup O ELSE Files(x)
    <2> SUFFICES ASSUME NEW x \in 0..(NumLevels - 1)
                 PROVE  Files(x)' = IF x = l THEN Files(x) \ in0
                                    ELSE IF x = l + 1 THEN (Files(x) \ in1) \cup O ELSE Files(x)
      OBVIOUS
    <2>1. CASE x = 0
      BY <1>2, <2>1 DEF Files
    <2>2. CASE x # 0
      BY <1>1, <1>3, <2>2 DEF Files
    <2> QED
      BY <2>1, <2>2
  <1> QED
    BY <1>4, <1>5

\* A move keeps the levels sorted and their entries in the order of age.
LEMMA MoveStep ==
    ASSUME Typed, Sorted, AgesOK, NEW l, NEW in0, NEW in1, MayMove(l, in0, in1),
           NEW O, Becomes(in0, in1, O), Moved(l, in0, in1, O), split \subseteq split',
           \A P, Q \in O : \A d \in P, e \in Q : Key(d) = Key(e) => P = Q \/ Key(e) \in split'
    PROVE  Typed' /\ Sorted' /\ AgesOK'
  <1> DEFINE M == UNION (in0 \cup in1)
  <1>1. /\ l \in 0..(NumLevels - 2) /\ l \in 0..(NumLevels - 1) /\ l + 1 \in 0..(NumLevels - 1)
        /\ l + 1 # 0 /\ l # l + 1 /\ 0 \in 0..(NumLevels - 1)
        /\ in0 \subseteq Files(l) /\ in1 \subseteq Files(l + 1) /\ O \subseteq Tables
    BY LevelAssumption, FilesAre DEF MayMove, Becomes
  <1>2. /\ Typed'
        /\ \A x \in 0..(NumLevels - 1) :
             Files(x)' = IF x = l THEN Files(x) \ in0
                         ELSE IF x = l + 1 THEN (Files(x) \ in1) \cup O ELSE Files(x)
    BY <1>1, MovedFiles
  <1>3. /\ DOMAIN levels = 1..(NumLevels - 1) /\ DOMAIN levels' = DOMAIN levels
        /\ \A x \in DOMAIN levels : x \in 0..(NumLevels - 1) /\ x # 0 /\ x \in Int
        /\ \A x \in DOMAIN levels : Files(x) = levels[x] /\ Files(x)' = levels'[x]
    <2>1. /\ DOMAIN levels = 1..(NumLevels - 1) /\ DOMAIN levels' = DOMAIN levels
          /\ \A x \in DOMAIN levels : x \in 0..(NumLevels - 1) /\ x # 0 /\ x \in Int
      BY LevelAssumption DEF Typed, Moved
    <2> QED
      BY <2>1 DEF Files
  <1>4. /\ \A e : Key(e)' = Key(e)
        /\ \A x, y : Precedes(x, y)' <=> Precedes(x, y)
        /\ mem' = mem /\ LastSequence' = LastSequence
    BY DEF Moved, Key, Precedes, Before, LastSequence
  <1>5. MemYoungest /\ Level0Ordered /\ Level0Young /\ LevelsOrdered /\ Unsplit
    BY DEF AgesOK
  <1>6. \A P \in O : P \subseteq M
    BY DEF Becomes
  <1>7. \A d \in M : d \in UNION in0 \/ d \in UNION in1
    OBVIOUS
  <1>8. (\A d \in UNION in0 : d \in InLevel(l)) /\ (\A d \in UNION in1 : d \in InLevel(l + 1))
    BY <1>1 DEF InLevel
  <1> HIDE DEF M
  <1>9. /\ \A x \in 0..(NumLevels - 1) : \A d \in InLevel(x)' :
             d \in InLevel(x) \/ (x = l + 1 /\ d \in UNION in0)
        /\ \A d \in InLevel(l)' : \E W \in Files(l) \ in0 : d \in W
    <2>1. \A x \in 0..(NumLevels - 1) : InLevel(x)' = UNION (Files(x)')
      BY DEF InLevel
    <2>2. ASSUME NEW x \in 0..(NumLevels - 1), NEW d \in InLevel(x)'
          PROVE  d \in InLevel(x) \/ (x = l + 1 /\ d \in UNION in0)
      <3>1. PICK W \in Files(x)' : d \in W
        BY <2>1
      <3>2. CASE W \in Files(x)
        BY <3>1, <3>2 DEF InLevel
      <3>3. CASE W \in O /\ x = l + 1
        BY <1>6, <1>7, <1>8, <3>1, <3>3
      <3> QED
        BY <1>2, <3>2, <3>3
    <2>3. \A d \in InLevel(l)' : \E W \in Files(l) \ in0 : d \in W
      BY <1>1, <1>2, <2>1
    <2> QED
      BY <2>2, <2>3
  <1>10. Sorted'
    <2> SUFFICES ASSUME NEW x \in DOMAIN levels, NEW T \in levels'[x], NEW U \in levels'[x], T # U
                 PROVE  Precedes(T, U) \/ Precedes(U, T)
      BY <1>3, <1>4 DEF Sorted
    <2>1. T \in Files(x)' /\ U \in Files(x)'
      BY <1>3
    <2>2. CASE T \in levels[x] /\ U \in levels[x]
      BY <2>2 DEF Sorted
    <2>3. CASE x = l + 1
      <3>1. \A V \in Files(x)' : V \in O \/ V \in levels[x] \ in1
        BY <1>2, <1>3, <2>3
      <3>2. ASSUME NEW V \in levels[x] \ in1, NEW P \in O PROVE Precedes(V, P) \/ Precedes(P, V)
        <4>1. Precedes(V, M) \/ Precedes(M, V)
          BY <2>3 DEF MayMove, M
        <4> QED
          BY <1>6, <4>1 DEF Precedes
      <3> QED
        BY <2>1, <2>2, <3>1, <3>2 DEF Becomes
    <2>4. CASE x # l + 1
      BY <1>2, <1>3, <2>1, <2>2, <2>4
    <2> QED
      BY <2>3, <2>4
  <1>11. MemYoungest'
    <2> SUFFICES ASSUME NEW e \in mem, NEW x \in 0..(NumLevels - 1), NEW d \in InLevel(x)'
                 PROVE  d < e
      BY <1>4, <1>5 DEF MemYoungest
    <2>1. \E y \in 0..(NumLevels - 1) : d \in InLevel(y)
      BY <1>1, <1>8, <1>9
    <2> QED
      BY <1>5, <2>1 DEF MemYoungest
  <1>12. Level0Ordered'
    <2>1. /\ DOMAIN level0' \subseteq DOMAIN level0
          /\ \A m \in DOMAIN level0' : level0'[m] = level0[m]
      <3>1. CASE l = 0
        BY <3>1, WithoutAre DEF Moved
      <3>2. CASE l # 0
        BY <3>2 DEF Moved
      <3> QED
        BY <3>1, <3>2
    <2> QED
      BY <1>5, <2>1 DEF Level0Ordered
  <1>13. Level0Young'
    <2> SUFFICES ASSUME NEW x \in DOMAIN levels, NEW e \in InLevel(0)', NEW d \in InLevel(x)',
                        Key(d) = Key(e)
                 PROVE  d < e
      BY <1>3, <1>4 DEF Level0Young
    <2>1. e \in InLevel(0)
      BY <1>1, <1>9
    <2>2. CASE d \in InLevel(x)
      BY <1>5, <2>1, <2>2 DEF Level0Young
    <2>3. CASE d \in UNION in0 /\ l = 0
      <3>1. PICK W \in Files(0) \ in0 : e \in W
        BY <1>9, <2>3
      <3> QED
        BY <2>3, <3>1 DEF MayMove
    <2>4. CASE d \in UNION in0 /\ l # 0
      <3>1. d \in InLevel(l) /\ l \in DOMAIN levels
        BY <1>1, <1>3, <1>8, <2>4
      <3> QED
        BY <1>5, <2>1, <3>1 DEF Level0Young
    <2> QED
      BY <1>3, <1>9, <2>2, <2>3, <2>4
  <1>14. LevelsOrdered'
    <2> SUFFICES ASSUME NEW x \in DOMAIN levels, NEW y \in DOMAIN levels, x < y,
                        NEW e \in InLevel(x)', NEW d \in InLevel(y)', Key(d) = Key(e)
                 PROVE  d < e \/ Key(e) \in split
      BY <1>3, <1>4 DEF LevelsOrdered
    <2>1. ASSUME e \in InLevel(x), d \in InLevel(y) PROVE d < e \/ Key(e) \in split
      BY <1>5, <2>1 DEF LevelsOrdered
    <2>2. ASSUME x = l + 1, e \in UNION in0 PROVE d < e \/ Key(e) \in split
      <3>1. d \in InLevel(y) /\ e \in InLevel(l)
        BY <1>3, <1>8, <1>9, <2>2
      <3>2. CASE l = 0
        BY <1>5, <3>1, <3>2 DEF Level0Young
      <3>3. CASE l # 0
        <4>1. l \in DOMAIN levels /\ l < y
          BY <1>1, <1>3, <2>2, <3>3
        <4> QED
          BY <1>5, <3>1, <4>1 DEF LevelsOrdered
      <3> QED
        BY <3>2, <3>3
    <2>3. ASSUME y = l + 1, d \in UNION in0, e \in InLevel(x) PROVE d < e \/ Key(e) \in split
      <3>1. d \in InLevel(l) /\ l \in DOMAIN levels /\ (x = l \/ x < l)
        BY <1>1, <1>3, <1>8, <2>3
      <3>2. CASE x < l
        BY <1>5, <2>3, <3>1, <3>2 DEF LevelsOrdered
      <3>3. CASE x = l
        <4>1. PICK W \in levels[l] \ in0 : e \in W
          BY <1>3, <1>9, <3>1, <3>3
        <4>2. PICK T \in in0 : d \in T
          BY <2>3
        <4>3. T \in levels[l] /\ T # W
          BY <1>1, <1>3, <3>1, <4>1, <4>2
        <4> QED
          BY <1>5, <3>1, <4>1, <4>2, <4>3 DEF Unsplit
      <3> QED
        BY <3>1, <3>2, <3>3
    <2> QED
      BY <1>3, <1>9, <2>1, <2>2, <2>3
  <1>15. Unsplit'
    <2> SUFFICES ASSUME NEW x \in DOMAIN levels, NEW T \in levels'[x], NEW U \in levels'[x],
                        NEW d \in T, NEW e \in U, Key(d) = Key(e), T # U
                 PROVE  Key(e) \in split'
      BY <1>3, <1>4 DEF Unsplit
    <2>1. T \in Files(x)' /\ U \in Files(x)'
      BY <1>3
    <2>2. CASE T \in levels[x] /\ U \in levels[x]
      BY <1>5, <2>2 DEF Unsplit
    <2>3. CASE x = l + 1
      <3>1. \A V \in Files(x)' : V \in O \/ V \in levels[x] \ in1
        BY <1>2, <1>3, <2>3
      <3>2. ASSUME NEW V \in levels[x] \ in1, NEW a \in V, NEW b \in M, Key(a) = Key(b)
            PROVE  Key(b) \in split
        <4>1. b \notin UNION in0
          BY <2>3, <3>2 DEF MayMove
        <4>2. PICK W \in in1 : b \in W
          BY <1>7, <3>2, <4>1
        <4>3. W \in levels[x] /\ W # V
          BY <2>3, <3>2, <4>2 DEF MayMove
        <4> QED
          BY <1>5, <3>2, <4>2, <4>3 DEF Unsplit
      <3>3. CASE T \in O /\ U \in levels[x] \ in1
        BY <1>6, <3>2, <3>3
      <3>4. CASE U \in O /\ T \in levels[x] \ in1
        BY <1>6, <3>2, <3>4
      <3>5. CASE T \in O /\ U \in O
        BY <3>5
      <3> QED
        BY <2>1, <2>2, <3>1, <3>3, <3>4, <3>5
    <2>4. CASE x # l + 1
      BY <1>2, <1>3, <2>1, <2>2, <2>4
    <2> QED
      BY <2>3, <2>4
  <1> QED
    BY <1>2, <1>10, <1>11, <1>12, <1>13, <1>14, <1>15 DEF AgesOK

\* A lone table overlaps nothing in the next level.
LEMMA TrivialMoveStep ==
    ASSUME CInv, TrivialMove
    PROVE  CInv'
  <1>1. Typed /\ Sorted /\ Kept /\ AgesOK
    BY DEF CInv
  <1>2. PICK l \in 0..(NumLevels - 2) : \E T \in Files(l) :
            /\ SetupOtherInputs(l, Picked(l, T), FALSE) = [in0 |-> {T}, in1 |-> {}]
            /\ level0' = IF l = 0 THEN WithoutFiles({T}) ELSE level0
            /\ levels' = [m \in DOMAIN levels |->
                            IF m = l THEN levels[m] \ {T}
                            ELSE IF m = l + 1 THEN levels[m] \cup {T} ELSE levels[m]]
    BY DEF TrivialMove
  <1>3. PICK T \in Files(l) :
            /\ SetupOtherInputs(l, Picked(l, T), FALSE) = [in0 |-> {T}, in1 |-> {}]
            /\ level0' = IF l = 0 THEN WithoutFiles({T}) ELSE level0
            /\ levels' = [m \in DOMAIN levels |->
                            IF m = l THEN levels[m] \ {T}
                            ELSE IF m = l + 1 THEN levels[m] \cup {T} ELSE levels[m]]
    BY <1>2
  <1>4. /\ l \in 0..(NumLevels - 1) /\ l + 1 \in 0..(NumLevels - 1) /\ l + 1 \in 1..(NumLevels - 1)
        /\ levels[l + 1] \subseteq Tables /\ T \in Tables
    <2>1. l \in 0..(NumLevels - 1) /\ l + 1 \in 0..(NumLevels - 1) /\ l + 1 # 0
      BY LevelAssumption
    <2> QED
      BY <1>1, <1>3, <2>1, FilesAre
  <1>5. Takes(l, {T}) /\ {} = Hit(l + 1, GetRange({T}))
    <2>1. Takes(l, Picked(l, T)) /\ Covered(Picked(l, T))
      BY <1>1, PickedIs
    <2>2. PICK c : c = SetupOtherInputs(l, Picked(l, T), FALSE)
      OBVIOUS
    <2>3. c.in0 = {T} /\ c.in1 = {}
      <3>1. c = [in0 |-> {T}, in1 |-> {}]
        BY <1>3, <2>2
      <3> QED
        BY <3>1
    <2>4. Takes(l, c.in0) /\ c.in1 = Hit(l + 1, GetRange(c.in0))
      BY <1>1, <2>1, <2>2, SetupIs
    <2> QED
      BY <2>3, <2>4
  <1>6. MayMove(l, {T}, {})
    <2>1. \A W \in levels[l + 1] : KeysApart(W, UNION {T})
      BY <1>1, <1>4, <1>5, NextLevel
    <2>2. \A W \in levels[l + 1] :
            /\ Precedes(W, UNION {T}) \/ Precedes(UNION {T}, W)
            /\ \A d \in W, e \in UNION {T} : Key(d) # Key(e)
      BY <1>1, <1>4, <2>1, ApartPrecedes DEF Tables
    <2>3. l = 0 => \A W \in Files(0) \ {T} : \A d \in W, e \in UNION {T} : Key(d) # Key(e)
      BY <1>1, <1>4, <1>5, ApartPrecedes, FilesAre DEF Takes, Tables
    <2>4. {T} \cup {} = {T} /\ levels[l + 1] \ {} = levels[l + 1]
      OBVIOUS
    <2> QED
      BY <2>2, <2>3, <2>4 DEF MayMove
  <1>7. Becomes({T}, {}, {T})
    BY <1>4 DEF Becomes
  <1>8. Moved(l, {T}, {}, {T})
    BY <1>3 DEF Moved, TrivialMove
  <1>9. split' = split /\ compaction' = NoCompaction
    BY DEF TrivialMove
  <1>10. \A P, Q \in {T} : \A d \in P, e \in Q : Key(d) = Key(e) => P = Q \/ Key(e) \in split'
    OBVIOUS
  <1>11. Typed' /\ Sorted' /\ AgesOK'
    BY <1>1, <1>6, <1>7, <1>8, <1>9, <1>10, MoveStep
  <1>12. Kept'
    <2>1. \A x \in 0..(NumLevels - 1) :
            Files(x)' = IF x = l THEN Files(x) \ {T}
                        ELSE IF x = l + 1 THEN (Files(x) \ {}) \cup {T} ELSE Files(x)
      BY <1>1, <1>4, <1>8, MovedFiles
    <2>2. written' = written /\ mem' = mem /\ snapshots' = snapshots
      BY <1>8 DEF Moved
    <2>3. Below' = Below
      <3>1. LastSequence' = LastSequence
        BY <2>2 DEF LastSequence
      <3>2. ASSUME NEW x \in 0..(NumLevels - 1), NEW d \in InLevel(x)'
            PROVE  \E y \in 0..(NumLevels - 1) : d \in InLevel(y)
        BY <1>4, <2>1, <3>2 DEF InLevel
      <3>3. ASSUME NEW x \in 0..(NumLevels - 1), NEW d \in InLevel(x)
            PROVE  \E y \in 0..(NumLevels - 1) : d \in InLevel(y)'
        <4>1. PICK W \in Files(x) : d \in W
          BY DEF InLevel
        <4>2. CASE W = T /\ x = l
          <5>1. T \in Files(l + 1)'
            BY <1>4, <2>1
          <5>2. d \in InLevel(l + 1)'
            BY <4>1, <4>2, <5>1 DEF InLevel
          <5> QED
            BY <1>4, <5>2
        <4>3. CASE W # T \/ x # l
          <5>1. W \in Files(x)'
            BY <2>1, <4>1, <4>3
          <5> QED
            BY <4>1, <5>1 DEF InLevel
        <4> QED
          BY <4>2, <4>3
      <3> QED
        BY <3>1, <3>2, <3>3 DEF Below
    <2>4. Present' = Present
      BY <2>2, <2>3 DEF Present
    <2> QED
      BY <1>1, <1>9, <2>2, <2>4 DEF Kept, Key, LastSequence
  <1> QED
    BY <1>9, <1>11, <1>12 DEF CInv, MergeOK, NoCompaction

\* A merge drops what no reader misses: what a younger entry hides, and a deletion
\* with nothing older of its key outside the merge.
LEMMA InstallsStep ==
    ASSUME CInv, CompactionInstalls
    PROVE  CInv'
  <1> DEFINE l == compaction.level
             in0 == compaction.in0
             in1 == compaction.in1
             E == UNION (in0 \cup in1)
             K == E \ Dropped(E, compaction)
  <1>1. /\ Typed /\ Sorted /\ Kept /\ AgesOK
        /\ MemYoungest /\ Level0Young /\ LevelsOrdered /\ Unsplit
        /\ InputsOK /\ PlaceOK /\ AgeOK /\ BaseOK
    BY DEF CInv, AgesOK, MergeOK, CompactionInstalls
  <1>2. PICK cuts \in SUBSET K :
            levels' = [m \in DOMAIN levels |->
                         IF m = l THEN levels[m] \ in0
                         ELSE IF m = l + 1 THEN (levels[m] \ in1) \cup Outputs(K, cuts)
                         ELSE levels[m]]
    BY DEF CompactionInstalls
  <1>3. Moved(l, in0, in1, Outputs(K, cuts))
    BY <1>2 DEF Moved, CompactionInstalls
  <1>4. /\ split' = IF Max(E) <= compaction.smallest THEN split
                    ELSE split \cup SplitKeys(levels'[l + 1])
        /\ compaction' = NoCompaction /\ written' = written /\ mem' = mem /\ snapshots' = snapshots
    BY DEF CompactionInstalls
  <1>5. /\ l \in 0..(NumLevels - 2) /\ l \in 0..(NumLevels - 1) /\ l + 1 \in 0..(NumLevels - 1)
        /\ l + 1 # 0 /\ l + 1 \in DOMAIN levels /\ Files(l + 1) = levels[l + 1]
        /\ in0 \subseteq Files(l) /\ in1 \subseteq Files(l + 1)
        /\ in0 \cup in1 \subseteq Tables /\ in0 # {} /\ 0 \in 0..(NumLevels - 1)
    <2>1. /\ l \in 0..(NumLevels - 2) /\ l \in 0..(NumLevels - 1) /\ l + 1 \in 0..(NumLevels - 1)
          /\ l + 1 # 0 /\ 0 \in 0..(NumLevels - 1)
      BY <1>1, LevelAssumption DEF InputsOK
    <2>2. /\ l + 1 \in DOMAIN levels /\ Files(l + 1) = levels[l + 1]
          /\ Files(l) \subseteq Tables /\ Files(l + 1) \subseteq Tables
      BY <1>1, <2>1, FilesAre
    <2> QED
      BY <1>1, <2>1, <2>2 DEF InputsOK
  <1>6. /\ E \in Tables /\ E \subseteq 1..LastSequence /\ K \subseteq E
        /\ \A e \in E : e \in Int /\ Key(e) \in Keys
    <2>1. E \in Tables
      BY <1>5, UnionIs
    <2> QED
      BY <1>1, <2>1, KeyType DEF Tables
  <1>7. MayMove(l, in0, in1)
    <2>1. Merged = E /\ Stays = levels[l + 1] \ in1
      BY DEF Merged, Stays
    <2> QED
      BY <1>1, <1>5, <2>1 DEF MayMove, InputsOK, PlaceOK, AgeOK
  <1> DEFINE O == Outputs(K, cuts)
  <1>8. /\ O \subseteq Tables /\ UNION O = K
        /\ \A P, Q \in O : P = Q \/ Precedes(P, Q) \/ Precedes(Q, P)
        /\ \A P, Q \in O : P = Q \/ P \cap Q = {}
    <2>1. K \subseteq 1..LastSequence
      BY <1>6
    <2> HIDE DEF K
    <2> QED
      BY <1>1, <2>1, OutputsAre
  <1>9. Becomes(in0, in1, O)
    BY <1>6, <1>8 DEF Becomes
  <1>10. \A e \in E : e \in K \/
            \/ \E d \in E : Key(d) = Key(e) /\ d > e /\ d <= compaction.smallest
            \/ written[e].deletes /\ e <= compaction.smallest /\ Key(e) \in compaction.base
    BY DEF Dropped
  <1>11. \A e \in K : ~ \E d \in E : Key(d) = Key(e) /\ d > e /\ d <= compaction.smallest
    BY DEF Dropped
  <1> HIDE DEF K, O
  <1>12. split \subseteq split'
    BY <1>4
  <1>13. \A P, Q \in O : \A d \in P, e \in Q : Key(d) = Key(e) => P = Q \/ Key(e) \in split'
    <2> SUFFICES ASSUME NEW P \in O, NEW Q \in O, NEW d \in P, NEW e \in Q, Key(d) = Key(e), P # Q
                 PROVE  Key(e) \in split'
      OBVIOUS
    <2>1. d \in K /\ e \in K /\ d # e /\ d \in E /\ e \in E /\ Key(e) \in Keys
      BY <1>6, <1>8
    <2>2. CASE ~(Max(E) <= compaction.smallest)
      <3>1. P \in levels'[l + 1] /\ Q \in levels'[l + 1]
        BY <1>2, <1>5 DEF O
      <3>2. Key(e) \in SplitKeys(levels'[l + 1])
        BY <2>1, <3>1 DEF SplitKeys, UserKeys
      <3> QED
        BY <1>4, <2>2, <3>2
    <2>3. CASE Max(E) <= compaction.smallest
      <3>1. \A x \in E : x <= compaction.smallest
        <4>1. LastSequence \in Nat /\ compaction.smallest \in Int
          BY <1>1, KeyType DEF InputsOK
        <4>2. Max(E) \in E /\ \A x \in E : x <= Max(E)
          <5>1. E \in SUBSET (1..LastSequence) /\ E # {}
            BY <1>6 DEF Tables
          <5> HIDE DEF E
          <5> QED
            BY <4>1, <5>1, EntryExtremes
        <4>3. Max(E) \in Int /\ \A x \in E : x \in Int
          BY <1>6, <4>2
        <4> HIDE DEF E
        <4> QED
          BY <2>3, <4>1, <4>2, <4>3
      <3> QED
        BY <1>6, <1>11, <2>1, <3>1
    <2> QED
      BY <2>2, <2>3
  <1>14. Typed' /\ Sorted' /\ AgesOK'
    BY <1>1, <1>3, <1>7, <1>9, <1>12, <1>13, MoveStep DEF O
  <1>15. Kept'
    <2>1. /\ \A x \in 0..(NumLevels - 1) :
               Files(x)' = IF x = l THEN Files(x) \ in0
                           ELSE IF x = l + 1 THEN (Files(x) \ in1) \cup O ELSE Files(x)
          /\ LastSequence' = LastSequence
          /\ \A e : Key(e)' = Key(e)
      BY <1>1, <1>3, <1>4, <1>5, <1>8, MovedFiles DEF O, LastSequence, Key
    <2>2. ASSUME NEW x \in 0..(NumLevels - 1), NEW d \in InLevel(x)'
          PROVE  \/ d \in K
                 \/ d \in InLevel(x) /\ x # l /\ x # l + 1
                 \/ x = l /\ \E W \in Files(l) \ in0 : d \in W
                 \/ x = l + 1 /\ \E W \in levels[l + 1] \ in1 : d \in W
      BY <1>5, <1>8, <2>1, <2>2 DEF InLevel
    <2>3. Below' \subseteq Below
      <3> SUFFICES ASSUME NEW x \in 0..(NumLevels - 1), NEW d \in InLevel(x)'
                   PROVE  \E y \in 0..(NumLevels - 1) : d \in InLevel(y)
        BY <2>1 DEF Below
      <3>1. \A e \in K : e \in InLevel(l) \/ e \in InLevel(l + 1)
        BY <1>5, <1>6 DEF InLevel
      <3> QED
        BY <1>5, <2>2, <3>1 DEF InLevel
    <2>4. Present' \subseteq Present
      BY <1>4, <2>3 DEF Present
    <2>5. ASSUME NEW e \in Present, e \notin Present' PROVE e \in E \ K
      <3>1. e \in Below /\ e \notin Below'
        BY <1>4, <2>5 DEF Present
      <3>2. PICK x \in 0..(NumLevels - 1) : e \in InLevel(x)
        BY <3>1 DEF Below
      <3>3. \A y \in 0..(NumLevels - 1) : e \notin InLevel(y)'
        BY <2>1, <3>1 DEF Below
      <3>4. PICK W \in Files(x) : e \in W
        BY <3>2 DEF InLevel
      <3>5. W \notin Files(x)'
        BY <3>3, <3>4 DEF InLevel
      <3>6. W \in in0 \cup in1
        BY <2>1, <3>4, <3>5
      <3>7. e \notin K
        <4> SUFFICES ASSUME e \in K PROVE FALSE
          OBVIOUS
        <4>1. PICK P \in O : e \in P
          BY <1>8
        <4>2. PICK y \in 0..(NumLevels - 1) : y = l + 1 /\ y # l
          BY <1>5
        <4>3. P \in Files(y)'
          BY <2>1, <4>1, <4>2
        <4> QED
          BY <3>3, <4>1, <4>3 DEF InLevel
      <3> QED
        BY <3>4, <3>6, <3>7
    <2>6. ASSUME NEW e \in E \ K, written[e].deletes, e <= compaction.smallest,
                 Key(e) \in compaction.base, Key(e) \notin split,
                 NEW d \in Present', Key(d) = Key(e), e \notin Present'
          PROVE  d > e
      <3>1. e \in InLevel(l) \/ e \in InLevel(l + 1)
        BY <1>5 DEF InLevel
      <3>2. e \in Int /\ d \in Int /\ d # e
        BY <1>1, <1>6, <1>14, <2>6 DEF Present, Below, Typed
      <3>3. CASE d \in mem
        BY <1>1, <1>5, <3>1, <3>2, <3>3 DEF MemYoungest
      <3>4. ASSUME NEW x \in 0..(NumLevels - 1), d \in InLevel(x)' PROVE d > e
        <4>1. CASE d \in K
          BY <1>6, <1>11, <2>6, <3>2, <4>1
        <4>2. ASSUME x = l, NEW W \in Files(l) \ in0, d \in W PROVE d > e
          <5>1. d \in InLevel(l)
            BY <4>2 DEF InLevel
          <5>2. CASE e \in UNION in0 /\ l = 0
            BY <1>1, <2>6, <4>2, <5>2 DEF AgeOK
          <5>3. CASE e \in UNION in0 /\ l # 0
            <6>1. l \in DOMAIN levels /\ Files(l) = levels[l]
              BY <1>1, <1>5, <5>3, FilesAre
            <6>2. PICK T \in in0 : e \in T
              BY <5>3
            <6> QED
              BY <1>1, <1>5, <2>6, <4>2, <6>1, <6>2 DEF Unsplit
          <5>4. CASE e \in UNION in1 /\ l = 0
            <6>1. e \in InLevel(l + 1)
              BY <1>5, <5>4 DEF InLevel
            <6> QED
              BY <1>1, <1>5, <2>6, <3>2, <5>1, <5>4, <6>1 DEF Level0Young
          <5>5. CASE e \in UNION in1 /\ l # 0
            <6>1. e \in InLevel(l + 1) /\ l \in DOMAIN levels /\ l < l + 1
              BY <1>1, <1>5, <5>5, FilesAre DEF InLevel
            <6>2. e < d \/ Key(d) \in split
              BY <1>1, <1>5, <2>6, <5>1, <6>1 DEF LevelsOrdered
            <6> QED
              BY <2>6, <3>2, <6>2
          <5> QED
            BY <5>2, <5>3, <5>4, <5>5
        <4>3. ASSUME x = l + 1, NEW W \in levels[l + 1] \ in1, d \in W PROVE d > e
          <5>1. CASE e \in UNION in0
            BY <1>7, <2>6, <4>3, <5>1 DEF MayMove
          <5>2. CASE e \in UNION in1
            <6>1. PICK T \in in1 : e \in T
              BY <5>2
            <6>2. T \in levels[l + 1] /\ T # W
              BY <1>5, <4>3, <6>1
            <6> QED
              BY <1>1, <1>5, <2>6, <4>3, <6>1, <6>2 DEF Unsplit
          <5> QED
            BY <5>1, <5>2
        <4>4. ASSUME x < l, d \in InLevel(x) PROVE d > e
          <5>1. PICK y \in {l, l + 1} : e \in InLevel(y)
            BY <3>1
          <5>2. y \in DOMAIN levels /\ x < y
            BY <1>1, <1>5, <4>4, <5>1, LevelAssumption DEF Typed
          <5>3. CASE x = 0
            BY <1>1, <2>6, <3>2, <4>4, <5>1, <5>2, <5>3 DEF Level0Young
          <5>4. CASE x # 0
            <6>1. x \in DOMAIN levels
              BY <1>1, <5>4, FilesAre
            <6>2. e < d \/ Key(d) \in split
              BY <1>1, <2>6, <4>4, <5>1, <5>2, <6>1 DEF LevelsOrdered
            <6> QED
              BY <2>6, <3>2, <6>2
          <5> QED
            BY <5>3, <5>4
        <4>5. ASSUME x > l + 1, d \in InLevel(x) PROVE d > e
          <5>1. x \in (l + 2)..(NumLevels - 1) /\ e \in Merged
            BY <1>5, <4>5, LevelAssumption DEF Merged
          <5> QED
            BY <1>1, <2>6, <4>5, <5>1 DEF BaseOK
        <4>6. x < l \/ x = l \/ x = l + 1 \/ x > l + 1
          BY <1>5
        <4> QED
          BY <2>2, <3>4, <4>1, <4>2, <4>3, <4>4, <4>5, <4>6
      <3> QED
        BY <1>4, <2>6, <3>3, <3>4 DEF Present, Below
    <2> SUFFICES ASSUME NEW s \in snapshots \cup {LastSequence}, NEW e \in 1..s,
                        e \notin Present', Key(e) \notin split',
                        ~ \E d \in 1..s : Key(d) = Key(e) /\ d > e
                 PROVE  written[e].deletes /\ \A d \in Present' : Key(d) = Key(e) => d > e
      BY <1>4, <2>1 DEF Kept
    <2>7. CASE e \in Present
      <3>1. e \in E \ K
        BY <2>5, <2>7
      <3>2. ~ \E d \in E : Key(d) = Key(e) /\ d > e /\ d <= compaction.smallest
        <4> SUFFICES ASSUME NEW d \in E, Key(d) = Key(e), d > e, d <= compaction.smallest
                     PROVE  FALSE
          OBVIOUS
        <4>1. s \in Int /\ compaction.smallest \in Int /\ compaction.smallest <= s
          BY <1>1, KeyType DEF InputsOK, Typed
        <4>2. d \in 1..s
          BY <1>6, <4>1
        <4> QED
          BY <4>2
      <3>3. written[e].deletes /\ e <= compaction.smallest /\ Key(e) \in compaction.base
        BY <1>10, <3>1, <3>2
      <3> QED
        BY <1>12, <2>6, <3>1, <3>3
    <2>8. CASE e \notin Present
      BY <1>1, <1>12, <2>4, <2>8 DEF Kept
    <2> QED
      BY <2>7, <2>8
  <1> QED
    BY <1>4, <1>14, <1>15 DEF CInv, MergeOK, NoCompaction

\* Every step keeps the invariant.
LEMMA CompactionStep ==
    ASSUME CInv, [Next]_vars
    PROVE  CInv'
  <1>1. CASE \E k \in Keys, deletes \in BOOLEAN : Write(k, deletes)
    BY <1>1, WriteStep
  <1>2. CASE GetSnapshot
    BY <1>2, SnapshotStep DEF GetSnapshot
  <1>3. CASE \E s \in snapshots : ReleaseSnapshot(s)
    BY <1>3, SnapshotStep DEF ReleaseSnapshot
  <1>4. CASE Flush
    BY <1>4, FlushStep
  <1>5. CASE CompactionBegins
    BY <1>5, BeginsStep
  <1>6. CASE TrivialMove
    BY <1>6, TrivialMoveStep
  <1>7. CASE CompactionInstalls
    BY <1>7, InstallsStep
  <1>8. CASE UNCHANGED vars
    BY <1>8, CompactionStutter
  <1> QED
    BY <1>1, <1>2, <1>3, <1>4, <1>5, <1>6, <1>7, <1>8 DEF Next

\* The invariant holds in every reachable state.
THEOREM CompactionInvariant == Spec => []CInv
  <1>1. Init => CInv
    BY CompactionInit
  <1>2. CInv /\ [Next]_vars => CInv'
    BY CompactionStep
  <1> QED
    BY <1>1, <1>2, PTL DEF Spec

-----------------------------------------------------------------------------
(***************************************************************************)
(* What the invariant says of levels and of reads.                         *)
(***************************************************************************)
\* "Overlapping ranges in same level" cannot happen, whatever is flushed, moved or
\* merged, and also when a memtable is flushed into a level that a merge writes to.
THEOREM LevelsStaySorted == Spec => []LevelsSorted
  <1>1. CInv => LevelsSorted
    <2> SUFFICES ASSUME CInv, NEW l \in DOMAIN levels, NEW T \in levels[l], NEW U \in levels[l],
                        T # U
                 PROVE  Before(Largest(T), Smallest(U)) \/ Before(Largest(U), Smallest(T))
      BY DEF LevelsSorted
    <2>1. Typed /\ T \in Tables /\ U \in Tables
      BY DEF CInv, Typed
    <2>2. Precedes(T, U) \/ Precedes(U, T)
      BY DEF CInv, Sorted
    <2> QED
      BY <2>1, <2>2, LargestIs, SmallestIs DEF Precedes
  <1> QED
    BY <1>1, CompactionInvariant, PTL

\* FindFile asks the table that has the entry.
LEMMA FindFileFinds ==
    ASSUME CInv, NEW l \in DOMAIN levels, NEW k \in Keys \ split, NEW s \in Int,
           NEW T \in levels[l], NEW m \in T, Key(m) = k, m <= s
    PROVE  FindFile(l, k, s) = {T}
  <1> DEFINE Ends(V) == Key(Largest(V)) > k \/ (Key(Largest(V)) = k /\ Largest(V) <= s)
             Late == {V \in levels[l] : Ends(V)}
  <1>1. Typed /\ Sorted /\ Unsplit
    BY DEF CInv, AgesOK
  <1>2. levels[l] \subseteq Tables
    BY <1>1 DEF Typed
  <1>3. \A V \in levels[l] : \A e \in V : e \in 1..LastSequence /\ e \in Int /\ Key(e) \in Int
    BY <1>1, <1>2, KeyType DEF Tables
  <1>4. \A V \in levels[l] :
            Largest(V) \in V /\ \A d \in V : d = Largest(V) \/ Before(d, Largest(V))
    BY <1>1, <1>2, LargestIs
  <1>5. T \in Late
    <2>1. Largest(T) \in Int /\ Key(Largest(T)) \in Int /\ m \in Int /\ k \in Int
      BY <1>3, <1>4
    <2>2. m = Largest(T) \/ Before(m, Largest(T))
      BY <1>4
    <2> QED
      BY <2>1, <2>2 DEF Before
  <1>6. ASSUME NEW U \in Late, U # T PROVE Before(Largest(T), Largest(U))
    <2>1. U \in levels[l] /\ Ends(U)
      OBVIOUS
    <2>2. CASE Precedes(T, U)
      BY <1>4, <2>1, <2>2 DEF Precedes
    <2>3. CASE Precedes(U, T)
      <3>1. Before(Largest(U), m)
        BY <1>4, <2>1, <2>3 DEF Precedes
      <3>2. Key(Largest(U)) # k
        BY <1>1, <1>4, <1>6, <2>1 DEF Unsplit
      <3>3. Key(Largest(U)) < k
        BY <3>1, <3>2 DEF Before
      <3>4. Key(Largest(U)) \in Int /\ k \in Int
        BY <1>3, <1>4, <2>1
      <3> QED
        BY <2>1, <3>2, <3>3, <3>4
    <2> QED
      BY <1>1, <1>6, <2>1, <2>2, <2>3 DEF Sorted
  <1>7. FindFile(l, k, s) = {V \in Late : \A U \in Late : U = V \/ Before(Largest(V), Largest(U))}
    BY DEF FindFile
  <1>8. Late \subseteq levels[l]
    OBVIOUS
  <1> HIDE DEF Late
  <1>9. \A U \in Late : U = T \/ ~Before(Largest(U), Largest(T))
    BY <1>1, <1>3, <1>4, <1>6, <1>8, BeforeOrder
  <1> QED
    BY <1>5, <1>6, <1>7, <1>9

\* Where the youngest entry of a key is present, Get ends at it.
LEMMA GetFinds ==
    ASSUME CInv, NEW k \in Keys \ split, NEW s \in 0..LastSequence, NEW m \in 1..s, m \in Present,
           Key(m) = k, \A d \in 1..s : Key(d) = k => d <= m
    PROVE  Get(k, s) = IF written[m].deletes THEN 0 ELSE m
  <1> DEFINE files0 == {n \in DOMAIN level0 : Visible(level0[n], k, s) # {}}
             below == {l \in DOMAIN levels : Found(l, k, s) # {}}
             E == IF Visible(mem, k, s) # {} THEN Visible(mem, k, s)
                  ELSE IF files0 # {} THEN Visible(level0[Max(files0)], k, s)
                  ELSE IF below # {} THEN Found(Min(below), k, s)
                  ELSE {}
  <1>1. Typed /\ MemYoungest /\ Level0Ordered /\ Level0Young /\ LevelsOrdered
    BY DEF CInv, AgesOK
  <1>2. LastSequence \in Nat /\ s \in Int /\ m \in Int /\ m <= s
    BY <1>1, KeyType
  <1>3. ASSUME NEW T \in SUBSET (1..LastSequence)
        PROVE  /\ Visible(T, k, s) \subseteq 1..s
               /\ \A d \in Visible(T, k, s) : d <= m /\ d \in T /\ d \in Int /\ Key(d) = k
               /\ m \in T => m \in Visible(T, k, s)
    <2>1. \A d \in Visible(T, k, s) : d \in T /\ d \in 1..LastSequence /\ Key(d) = k /\ d <= s
      BY <1>3 DEF Visible
    <2>2. \A d \in Visible(T, k, s) : d \in 1..s /\ d \in Int
      BY <1>2, <2>1
    <2>3. m \in T => m \in Visible(T, k, s)
      BY <1>2 DEF Visible
    <2> QED
      BY <2>1, <2>2, <2>3
  <1>4. /\ mem \in SUBSET (1..LastSequence)
        /\ \A n \in DOMAIN level0 : level0[n] \in SUBSET (1..LastSequence)
        /\ DOMAIN levels = 1..(NumLevels - 1)
        /\ \A l \in DOMAIN levels : l \in 0..(NumLevels - 1) /\ Files(l) = levels[l]
        /\ \A l \in DOMAIN levels : \A T \in levels[l] : T \in SUBSET (1..LastSequence)
        /\ 0 \in 0..(NumLevels - 1)
        /\ \A n \in DOMAIN level0 : \A d \in level0[n] : d \in InLevel(0)
    <2>1. /\ mem \in SUBSET (1..LastSequence)
          /\ \A n \in DOMAIN level0 : level0[n] \in SUBSET (1..LastSequence)
      BY <1>1 DEF Typed, Tables
    <2>2. DOMAIN levels = 1..(NumLevels - 1) /\ \A l \in DOMAIN levels : levels[l] \subseteq Tables
      BY <1>1 DEF Typed
    <2>3. \A l \in DOMAIN levels : l \in 0..(NumLevels - 1) /\ l # 0
      BY <2>2, LevelAssumption
    <2>4. \A l \in DOMAIN levels : Files(l) = levels[l]
      BY <2>3 DEF Files
    <2> QED
      BY <2>1, <2>2, <2>3, <2>4, LevelAssumption DEF Tables, InLevel, Files, Range
  <1>5. \A l \in DOMAIN levels : \A d \in Found(l, k, s) :
            d \in InLevel(l) /\ Key(d) = k /\ d <= m /\ d \in Int
    <2> SUFFICES ASSUME NEW l \in DOMAIN levels, NEW T \in FindFile(l, k, s),
                        NEW d \in Visible(T, k, s)
                 PROVE  d \in InLevel(l) /\ Key(d) = k /\ d <= m /\ d \in Int
      BY DEF Found
    <2>1. T \in levels[l]
      BY DEF FindFile
    <2> QED
      BY <1>3, <1>4, <2>1 DEF InLevel
  <1>6. Get(k, s) = IF E = {} \/ written[Max(E)].deletes THEN 0 ELSE Max(E)
    BY DEF Get
  <1>7. CASE m \in mem
    <2>1. m \in Visible(mem, k, s)
      BY <1>3, <1>4, <1>7
    <2>2. E = Visible(mem, k, s)
      BY <2>1
    <2> HIDE DEF E
    <2>3. Max(E) = m /\ E # {}
      BY <1>3, <1>4, <2>1, <2>2, MaxIs
    <2> QED
      BY <1>6, <2>3
  <1>8. ASSUME m \notin mem PROVE Visible(mem, k, s) = {}
    <2>1. PICK l \in 0..(NumLevels - 1) : m \in InLevel(l)
      BY <1>8 DEF Present, Below
    <2>2. \A d \in mem : m < d
      BY <1>1, <2>1 DEF MemYoungest
    <2> QED
      BY <1>2, <1>3, <1>4, <2>2
  <1>9. CASE m \notin mem /\ m \in InLevel(0)
    <2>1. PICK n \in DOMAIN level0 : m \in level0[n]
      BY <1>9 DEF InLevel, Files, Range
    <2>2. n \in files0
      BY <1>3, <1>4, <2>1
    <2>3. \A x \in DOMAIN level0 : x \in Int
      BY <1>1 DEF Typed
    <2>4. \A x \in files0 : x <= n
      <3> SUFFICES ASSUME NEW x \in files0, n < x PROVE FALSE
        BY <2>3
      <3>1. PICK d \in Visible(level0[x], k, s) : TRUE
        OBVIOUS
      <3>2. d \in level0[x] /\ d <= m /\ d \in Int
        BY <1>3, <1>4, <3>1
      <3>3. m < d
        BY <1>1, <2>1, <3>2 DEF Level0Ordered
      <3> QED
        BY <1>2, <3>2, <3>3
    <2>5. files0 \subseteq Int
      BY <2>3
    <2> HIDE DEF files0
    <2>6. Max(files0) = n
      BY <2>2, <2>4, <2>5, MaxIs
    <2>7. E = Visible(level0[n], k, s)
      BY <1>8, <1>9, <2>2, <2>6
    <2> HIDE DEF E
    <2>8. Max(E) = m /\ E # {}
      BY <1>3, <1>4, <2>1, <2>7, MaxIs
    <2> QED
      BY <1>6, <2>8
  <1>10. CASE m \notin mem /\ m \notin InLevel(0)
    <2>1. PICK l \in 0..(NumLevels - 1) : m \in InLevel(l)
      BY <1>10 DEF Present, Below
    <2>2. l \in DOMAIN levels
      BY <1>1, <1>10, <2>1, FilesAre
    <2>3. files0 = {}
      <3> SUFFICES ASSUME NEW n \in DOMAIN level0, NEW d \in Visible(level0[n], k, s) PROVE FALSE
        OBVIOUS
      <3>1. d \in InLevel(0) /\ Key(d) = k /\ d <= m /\ d \in Int
        BY <1>3, <1>4
      <3>2. m < d
        BY <1>1, <2>1, <2>2, <3>1 DEF Level0Young
      <3> QED
        BY <1>2, <3>1, <3>2
    <2>4. PICK T \in levels[l] : m \in T
      BY <1>4, <2>1, <2>2 DEF InLevel
    <2>5. Found(l, k, s) = Visible(T, k, s)
      <3>1. FindFile(l, k, s) = {T}
        BY <1>2, <2>2, <2>4, FindFileFinds
      <3> QED
        BY <3>1 DEF Found
    <2>6. m \in Found(l, k, s)
      BY <1>3, <1>4, <2>2, <2>4, <2>5
    <2>7. l \in below
      BY <2>2, <2>6
    <2>8. \A x \in below : l <= x
      <3> SUFFICES ASSUME NEW x \in below, x < l PROVE FALSE
        BY <1>4, <2>2
      <3>1. PICK d \in Found(x, k, s) : TRUE
        OBVIOUS
      <3>2. d \in InLevel(x) /\ Key(d) = k /\ d <= m /\ d \in Int /\ x \in DOMAIN levels
        BY <1>5, <3>1
      <3>3. m < d
        BY <1>1, <2>1, <2>2, <3>2 DEF LevelsOrdered
      <3> QED
        BY <1>2, <3>2, <3>3
    <2>9. below \subseteq Int
      BY <1>4
    <2> HIDE DEF below, files0
    <2>10. Min(below) = l
      BY <2>7, <2>8, <2>9, MinIs
    <2>11. E = Found(l, k, s)
      BY <1>8, <1>10, <2>3, <2>7, <2>10
    <2> HIDE DEF E
    <2>12. Max(E) = m /\ E # {}
      BY <1>5, <2>2, <2>6, <2>11, MaxIs
    <2> QED
      BY <1>6, <2>12
  <1> QED
    BY <1>7, <1>9, <1>10

\* Where no entry of a key is left that a reader may see, Get finds nothing.
LEMMA GetFindsNothing ==
    ASSUME CInv, NEW k \in Keys, NEW s \in 0..LastSequence,
           \A d \in Present : Key(d) = k => d > s
    PROVE  Get(k, s) = 0
  <1>1. Typed /\ LastSequence \in Nat /\ s \in Int
    BY KeyType DEF CInv
  <1>2. ASSUME NEW T, \A d \in T : d \in Present PROVE Visible(T, k, s) = {}
    <2>1. Present \subseteq 1..LastSequence
      BY <1>1 DEF Present, Below, Typed
    <2>2. ASSUME NEW d \in T, Key(d) = k, d <= s PROVE FALSE
      <3>1. d \in Present
        BY <1>2
      <3>2. d \in Int /\ s \in Int
        BY <1>1, <2>1, <3>1
      <3>3. d > s
        BY <2>2, <3>1
      <3> QED
        BY <2>2, <3>2, <3>3
    <2> QED
      BY <2>2 DEF Visible
  <1>3. Visible(mem, k, s) = {}
    BY <1>2 DEF Present
  <1>4. ASSUME NEW l \in 0..(NumLevels - 1), NEW T \in Files(l) PROVE Visible(T, k, s) = {}
    <2>1. \A d \in T : d \in Below
      BY <1>1, FilesAre DEF Below, InLevel
    <2> QED
      BY <1>2, <2>1 DEF Present
  <1>5. \A n \in DOMAIN level0 : Visible(level0[n], k, s) = {}
    BY <1>4, LevelAssumption DEF Files, Range
  <1>6. \A l \in DOMAIN levels : Found(l, k, s) = {}
    <2> SUFFICES ASSUME NEW l \in DOMAIN levels, NEW T \in FindFile(l, k, s)
                 PROVE  Visible(T, k, s) = {}
      BY DEF Found
    <2>1. l \in 0..(NumLevels - 1) /\ l # 0
      BY <1>1, LevelAssumption DEF Typed
    <2>2. T \in Files(l)
      BY <2>1 DEF FindFile, Files
    <2> QED
      BY <1>4, <2>1, <2>2
  <1> QED
    BY <1>3, <1>5, <1>6 DEF Get

\* A read at any snapshot that is held, and at the last sequence number, returns what
\* was last written to the key, or nothing if that was a deletion, whatever has been
\* flushed, merged, moved and dropped; but for keys that a merge has split.
THEOREM SnapshotReadsKept == Spec => []ReadsKept
  <1>1. CInv => ReadsKept
    <2> SUFFICES ASSUME CInv, NEW k \in Keys \ split, NEW s \in snapshots \cup {LastSequence}
                 PROVE  Get(k, s) = Latest(k, s)
      BY DEF ReadsKept
    <2> DEFINE E == {e \in 1..s : Key(e) = k}
    <2>1. Typed /\ Kept
      BY DEF CInv
    <2>2. LastSequence \in Nat /\ s \in Nat /\ s \in 0..LastSequence
      BY <2>1, KeyType DEF Typed
    <2>3. Latest(k, s) = IF E = {} \/ written[Max(E)].deletes THEN 0 ELSE Max(E)
      BY DEF Latest
    <2>4. Present \subseteq 1..LastSequence
      BY <2>1 DEF Present, Below, Typed
    <2>5. CASE E = {}
      <3>1. \A d \in Present : Key(d) = k => d > s
        BY <2>2, <2>4, <2>5
      <3>2. Get(k, s) = 0
        BY <2>2, <3>1, GetFindsNothing
      <3> QED
        BY <2>3, <2>5, <3>2
    <2>6. CASE E # {}
      <3>1. PICK m \in E : m = Max(E) /\ \A x \in E : x <= m
        BY <2>2, <2>6, EntryExtremes
      <3>2. m \in 1..s /\ Key(m) = k /\ \A d \in 1..s : Key(d) = k => d <= m
        BY <3>1
      <3>3. Latest(k, s) = IF written[m].deletes THEN 0 ELSE m
        BY <2>3, <2>6, <3>1
      <3> HIDE DEF E
      <3>4. CASE m \in Present
        BY <2>2, <3>2, <3>3, <3>4, GetFinds
      <3>5. CASE m \notin Present
        <4>1. ~ \E d \in 1..s : Key(d) = Key(m) /\ d > m
          BY <2>2, <3>2
        <4>2. written[m].deletes /\ \A d \in Present : Key(d) = k => d > m
          BY <2>1, <3>2, <3>5, <4>1 DEF Kept
        <4>3. \A d \in Present : Key(d) = k => d > s
          BY <2>2, <2>4, <3>2, <4>2
        <4>4. Get(k, s) = 0
          BY <2>2, <4>3, GetFindsNothing
        <4> QED
          BY <3>3, <4>2, <4>4
      <3> QED
        BY <3>4, <3>5
    <2> QED
      BY <2>5, <2>6
  <1> QED
    BY <1>1, CompactionInvariant, PTL

=============================================================================
