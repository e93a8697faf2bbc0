------------------------- MODULE MediaUploadProofs -------------------------
(***************************************************************************)
(* Proofs about MediaUpload, for any set of uploads: how the temporary     *)
(* files fare although all uploads share one `uploadBlob'.                 *)
(***************************************************************************)
EXTENDS MediaUpload, SequenceTheorems, TLAPS

MediaTypeOK ==
    /\ stage \in [Uploads -> Active \cup Ended \cup {"unused"}]
    /\ read \subseteq Uploads
    /\ tempFiles \subseteq Uploads
    /\ uploadBlob \in Uploads \cup {NoBlob}
    /\ puts \in Seq(Uploads)

\* The blob the global names is that of the put that began last.
BlobIsNewest == uploadBlob # NoBlob => puts # <<>> /\ uploadBlob = Last(puts)

\* A put under way has its place among the puts, and the global names a blob.
PuttingIsKnown ==
    \A u \in Uploads :
        stage[u] = "put" => uploadBlob # NoBlob /\ \E i \in DOMAIN puts : puts[i] = u

\* A put that ended and left its file was overtaken, already before the upload
\* resolves.
LeftIsOvertaken ==
    \A u \in Uploads :
        stage[u] \in {"getDownloadURL", "resolved"} /\ u \in tempFiles
            => \E v \in Uploads : BeganBefore(u, v)

\* The inductive invariant.
MediaIInv == MediaTypeOK /\ BlobIsNewest /\ PuttingIsKnown /\ LeftIsOvertaken

-----------------------------------------------------------------------------
\* The invariant holds when the app starts.
LEMMA InitMediaIInv == Init => MediaIInv
  BY DEF Init, MediaIInv, MediaTypeOK, BlobIsNewest, PuttingIsKnown, LeftIsOvertaken,
         Active, Ended

\* An upload that a put leaves while another blob is the newest has been overtaken.
LEMMA NotNewestIsOvertaken ==
    ASSUME MediaIInv, NEW u \in Uploads, stage[u] = "put", uploadBlob # u
    PROVE  \E v \in Uploads : BeganBefore(u, v)
  <1> USE DEF MediaIInv
  <1>1. PICK i \in DOMAIN puts : puts[i] = u
    BY DEF PuttingIsKnown
  <1>2. puts \in Seq(Uploads) /\ puts # <<>> /\ uploadBlob = puts[Len(puts)]
    BY DEF PuttingIsKnown, BlobIsNewest, MediaTypeOK, Last
  <1>3. Len(puts) \in DOMAIN puts /\ puts[Len(puts)] \in Uploads /\ DOMAIN puts = 1..Len(puts)
    BY <1>2, EmptySeq, LenProperties
  <1>4. i < Len(puts)
    BY <1>1, <1>2, <1>3
  <1> QED
    BY <1>1, <1>3, <1>4 DEF BeganBefore

\* Blob.build: the new put is the newest, and what was overtaken stays so.
LEMMA BlobBuiltMediaIInv ==
    ASSUME MediaIInv, NEW u \in Uploads, BlobBuilt(u)
    PROVE  MediaIInv'
  <1> USE DEF MediaIInv, BlobBuilt, Goes
  <1>1. /\ puts \in Seq(Uploads) /\ puts' \in Seq(Uploads) /\ puts' # <<>>
        /\ Len(puts') = Len(puts) + 1 /\ puts'[Len(puts) + 1] = u
        /\ \A i \in DOMAIN puts : puts'[i] = puts[i]
    BY AppendProperties DEF MediaTypeOK
  <1>2. Len(puts) \in Nat /\ DOMAIN puts = 1..Len(puts) /\ DOMAIN puts' = 1..Len(puts')
    BY <1>1, LenProperties
  <1>3. MediaTypeOK' /\ BlobIsNewest'
    BY <1>1, NoBlobAssumption DEF MediaTypeOK, BlobIsNewest, Last, Active
  <1>4. PuttingIsKnown'
    <2> SUFFICES ASSUME NEW w \in Uploads, stage'[w] = "put"
                 PROVE  uploadBlob' # NoBlob /\ \E i \in DOMAIN puts' : puts'[i] = w
      BY DEF PuttingIsKnown
    <2>1. uploadBlob' # NoBlob
      BY NoBlobAssumption
    <2>2. CASE w = u
      BY <2>1, <2>2, <1>1, <1>2
    <2>3. CASE w # u
      BY <2>1, <2>3, <1>1, <1>2 DEF PuttingIsKnown, MediaTypeOK
    <2> QED
      BY <2>2, <2>3
  <1>5. ASSUME NEW w \in Uploads, stage'[w] \in {"getDownloadURL", "resolved"}, w \in tempFiles'
        PROVE  \E v \in Uploads : BeganBefore(w, v)'
    <2>1. w # u /\ stage[w] = stage'[w] /\ w \in tempFiles
      BY <1>5 DEF MediaTypeOK
    <2>2. PICK v \in Uploads : BeganBefore(w, v)
      BY <2>1, <1>5 DEF LeftIsOvertaken
    <2> QED
      BY <2>2, <1>1, <1>2 DEF BeganBefore
  <1> QED
    BY <1>3, <1>4, <1>5 DEF LeftIsOvertaken

\* The end of a put closes the newest blob: its own, or it was overtaken.
LEMMA PutDoneMediaIInv ==
    ASSUME MediaIInv, NEW u \in Uploads, PutDone(u)
    PROVE  MediaIInv'
  <1> USE DEF MediaIInv, PutDone, Goes
  <1>1. MediaTypeOK' /\ BlobIsNewest' /\ PuttingIsKnown'
    BY DEF MediaTypeOK, BlobIsNewest, PuttingIsKnown, Active
  <1>2. u \in tempFiles' => uploadBlob # u
    OBVIOUS
  <1>3. u \in tempFiles' => \E v \in Uploads : BeganBefore(u, v)
    BY <1>2, NotNewestIsOvertaken
  <1>4. LeftIsOvertaken'
    BY <1>3 DEF LeftIsOvertaken, MediaTypeOK, BeganBefore
  <1> QED
    BY <1>1, <1>4

\* The steps that leave files, blob and history alone, or only read the file.
LEMMA OtherMediaIInv ==
    ASSUME MediaIInv, NEW u \in Uploads,
           Upload(u) \/ FileRead(u) \/ PutReads(u) \/ UrlFound(u) \/ Fails(u)
    PROVE  MediaIInv'
  <1> USE DEF MediaIInv, MediaTypeOK, BlobIsNewest, PuttingIsKnown, LeftIsOvertaken, BeganBefore,
              Goes, Active, Ended
  <1>1. CASE Upload(u)
    BY <1>1 DEF Upload
  <1>2. CASE FileRead(u)
    BY <1>2 DEF FileRead
  <1>3. CASE PutReads(u)
    BY <1>3 DEF PutReads
  <1>4. CASE UrlFound(u)
    BY <1>4 DEF UrlFound
  <1>5. CASE Fails(u)
    BY <1>5 DEF Fails
  <1> QED
    BY <1>1, <1>2, <1>3, <1>4, <1>5

\* A restart forgets the blob, and with it every put.
LEMMA RestartMediaIInv ==
    ASSUME MediaIInv, Restart
    PROVE  MediaIInv'
  BY DEF MediaIInv, MediaTypeOK, BlobIsNewest, PuttingIsKnown, LeftIsOvertaken, BeganBefore,
         Restart, Active, Ended

\* Every step keeps the invariant.
LEMMA NextMediaIInv == MediaIInv /\ [Next]_vars => MediaIInv'
  <1> SUFFICES ASSUME MediaIInv, [Next]_vars PROVE MediaIInv'
    OBVIOUS
  <1>1. CASE UNCHANGED vars
    BY <1>1 DEF vars, MediaIInv, MediaTypeOK, BlobIsNewest, PuttingIsKnown, LeftIsOvertaken,
                BeganBefore
  <1>2. CASE Next
    BY <1>2, BlobBuiltMediaIInv, PutDoneMediaIInv, OtherMediaIInv, RestartMediaIInv DEF Next
  <1> QED
    BY <1>1, <1>2

\* The inductive invariant holds always: stage, files, blob and history have their
\* types, and the shared `uploadBlob' is always the blob of the newest put.
THEOREM MediaInvariant == Spec => []MediaIInv
  BY InitMediaIInv, NextMediaIInv, PTL DEF Spec

\* uploadImage and uploadVideo: an upload that resolved has left its temporary file
\* behind only if another put began after its own.
THEOREM FileLeftOnlyIfOvertakenHolds == Spec => []FileLeftOnlyIfOvertaken
  <1>1. MediaIInv => FileLeftOnlyIfOvertaken
    BY DEF MediaIInv, LeftIsOvertaken, FileLeftOnlyIfOvertaken
  <1> QED
    BY <1>1, MediaInvariant, PTL

\* Only the end of a put deletes a file, that of the newest put: if that still reads,
\* the one that ends is another, which began before.
LEMMA LosesToOverlap ==
    ASSUME MediaIInv, Next, NEW u \in Uploads,
           stage[u] = "put", u \notin read, u \in tempFiles \ tempFiles'
    PROVE  /\ Last(puts) = u
           /\ \E v \in Uploads : BeganBefore(v, u) /\ stage[v] = "put" /\ stage'[v] # "put"
  <1> USE DEF MediaIInv
  <1>1. PICK v \in Uploads : PutDone(v)
    BY DEF Next, Upload, FileRead, BlobBuilt, PutReads, UrlFound, Fails, Restart
  <1>2. uploadBlob = u /\ v # u /\ stage[v] = "put" /\ stage'[v] # "put"
    BY <1>1 DEF PutDone, Goes, MediaTypeOK
  <1>3. puts # <<>> /\ puts \in Seq(Uploads) /\ u = puts[Len(puts)] /\ Last(puts) = u
    BY <1>2, NoBlobAssumption DEF BlobIsNewest, Last, MediaTypeOK
  <1>4. PICK i \in DOMAIN puts : puts[i] = v
    BY <1>2 DEF PuttingIsKnown
  <1>5. Len(puts) \in DOMAIN puts /\ i < Len(puts)
    BY <1>2, <1>3, <1>4, EmptySeq, LenProperties
  <1>6. BeganBefore(v, u)
    BY <1>3, <1>4, <1>5 DEF BeganBefore
  <1> QED
    BY <1>2, <1>3, <1>6

\* uploadBlob.close(): a put that still reads its file loses it only while it is the
\* newest, and only to a put that began before it and ends while it runs.
THEOREM FileLostOnlyToOverlapHolds == Spec => FileLostOnlyToOverlap
  <1> DEFINE Lost == \A u \in Uploads :
         stage[u] = "put" /\ u \notin read /\ u \in tempFiles \ tempFiles' =>
            /\ Last(puts) = u
            /\ \E v \in Uploads : /\ BeganBefore(v, u)
                                  /\ stage[v] = "put"
                                  /\ stage'[v] # "put"
  <1>1. MediaIInv /\ [Next]_vars => [Lost]_vars
    BY LosesToOverlap
  <1> HIDE DEF Lost
  <1>2. Spec => [][Lost]_vars
    BY <1>1, MediaInvariant, PTL DEF Spec
  <1> QED
    BY <1>2 DEF FileLostOnlyToOverlap, Lost
=============================================================================
