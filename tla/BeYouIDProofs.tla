--------------------------- MODULE BeYouIDProofs ---------------------------
(***************************************************************************)
(* Proofs about the composed app, for any accounts, instances of screens   *)
(* and operations: what the screens keep of one document although each of  *)
(* them reads and writes it whole, when it likes.                          *)
(***************************************************************************)
EXTENDS BeYouID, AccountProofs, SequenceTheorems, WellFoundedInduction

(***************************************************************************)
(* The inductive invariant, part by part.                                  *)
(***************************************************************************)
Clips == TxIds \cup {Clip}

\* A document that has a `user' never disables SAVE.
GoodDoc(d) ==
    /\ d \in Docs
    /\ "user" \in DOMAIN d => d.user \in Users
    /\ "user" \in DOMAIN d /\ "isFetching" \in DOMAIN d => d.isFetching = No
    /\ "videos" \in DOMAIN d => d.videos \in Seq(Clips)

\* The state of an InfoScreen: it always has both fields.
FormDoc(d) == GoodDoc(d) /\ "user" \in DOMAIN d /\ "isFetching" \in DOMAIN d

\* What docRef.update is given.
UpdateDoc(d) == GoodDoc(d) /\ DOMAIN d \subseteq {"location", "videos"}

\* The backend's documents, and their update times.
ServerOK ==
    /\ store \in [Keys -> Docs \cup {NoDoc}]
    /\ version \in [Keys -> Nat]
    /\ clock \in Nat
    /\ \A k \in Keys :
        /\ store[k] = NoDoc <=> version[k] = 0
        /\ version[k] <= clock
        /\ store[k] # NoDoc => GoodDoc(store[k])

\* d was read from document k at version v. It is what is there as long as the
\* version is the same, and later the document has at least its fields.
Remembered(k, d, v) ==
    /\ v \in Nat /\ v <= clock
    /\ v = 0 <=> d = NoDoc
    /\ version[k] = v => store[k] = d
    /\ d # NoDoc =>
        /\ GoodDoc(d)
        /\ store[k] # NoDoc
        /\ DOMAIN d \subseteq DOMAIN store[k]
        /\ "user" \in DOMAIN store[k] => "user" \in DOMAIN d

\* A transaction object between two steps: writes are buffered and sent in one.
IsTx(r) ==
    /\ r = [phase |-> r.phase, retries |-> r.retries, readVersions |-> r.readVersions,
            reads |-> r.reads, mutations |-> r.mutations,
            lastWriteError |-> r.lastWriteError, reply |-> r.reply]
    /\ r.phase \in {"idle", "running", "committing", "committed", "failed", "lost"}
    /\ r.mutations = Empty
    /\ r.lastWriteError = "none"

Blank(r) == r.reads = Empty /\ r.readVersions = Empty

HasRead(r, k) ==
    /\ r.phase = "running"
    /\ DOMAIN r.reads = {k} /\ DOMAIN r.readVersions = {k}
    /\ Remembered(k, r.reads[k], r.readVersions[k])

TxOK(t) == IsTx(tx[t]) /\ (Blank(tx[t]) \/ HasRead(tx[t], job[t].key))

ClientOK == DOMAIN tx = TxIds /\ \A t \in TxIds : TxOK(t)

\* The write of a block that was given d: it creates, or it patches with fields
\* that cannot make a document loadable that was not.
BlockWrite(mu, d) ==
    \/ mu.op = "set" /\ d = NoDoc /\ GoodDoc(mu.data)
    \/ /\ mu.op = "patch"
       /\ d # NoDoc
       /\ GoodDoc(mu.data)
       /\ "user" \in DOMAIN mu.data => "user" \in DOMAIN d
       /\ "isFetching" \in DOMAIN mu.data => mu.data.isFetching = No

\* What the writes of an operation of this kind bring.
WriteOfKind(kind, mu, d) ==
    /\ kind = "facebook" => "facebookToken" \in DOMAIN mu.data
    /\ kind = "linkedin" => "linkdintoken" \in DOMAIN mu.data
    /\ kind \in {"infoLoad", "verifyLoad"} /\ d # NoDoc => mu.data = d

\* The request of an operation of the given kind on document k.
RequestOf(m, kind, k) ==
    LET mu == m.mutations[k]
        d == m.reads[k] IN
    /\ DOMAIN m.mutations = {k}
    /\ mu.pre.type = "updateTime"
    /\ Remembered(k, d, mu.pre.version)
    /\ BlockWrite(mu, d)
    /\ WriteOfKind(kind, mu, d)

RequestOK(m) ==
    /\ m.tx \in TxIds
    /\ tx[m.tx].phase # "idle"
    /\ RequestOf(m, job[m.tx].kind, job[m.tx].key)

RequestsOK == \A m \in commits : RequestOK(m)

Confirmed(r) == r.phase = "committed" \/ (r.phase = "committing" /\ r.reply = "ok")

\* The token of a verification the backend has confirmed is stored.
TokenStored(j) ==
    /\ j.kind = "facebook" => HasField(j.key, "facebookToken")
    /\ j.kind = "linkedin" => HasField(j.key, "linkdintoken")

AnswersOK == \A t \in TxIds : Confirmed(tx[t]) => TokenStored(job[t])

\* Transactions, the network and the backend.
FsOK == ServerOK /\ ClientOK /\ RequestsOK /\ AnswersOK

\* Somebody is signed in from the first HomeMain on.
Born(h) == home[h].status # "unborn"

BornSignedIn ==
    \A h \in Homes : Born(h) => currentUser \in accounts /\ home[h].user \in Users

\* InfoScreen: its state has no trace before HomeMain is mounted.
InfoOK ==
    /\ DOMAIN infoState = Homes
    /\ \A h \in Homes : IF Born(h) THEN FormDoc(infoState[h]) ELSE infoState[h] = Empty

\* VerifyScreen.
Visited(h) == h \in Homes /\ verify[h].status = "mounted"

VerifyOK ==
    /\ DOMAIN verify = Homes
    /\ fbToken \in Users \cup {Null}
    /\ \A h \in Homes :
        /\ verify[h] = [status |-> verify[h].status, user |-> verify[h].user,
                        facebookbutton |-> verify[h].facebookbutton,
                        linkdinbutton |-> verify[h].linkdinbutton,
                        isFetching |-> verify[h].isFetching,
                        location |-> verify[h].location, stuck |-> verify[h].stuck]
        /\ verify[h].isFetching \in {Yes, No}
        /\ verify[h].location \in {Null, Here}
        /\ IF Visited(h) THEN Born(h) /\ verify[h].user \in Users ELSE verify[h] = Unborn

\* RecordScreen.
Opened(r) == r \in Records /\ record[r].status # "unborn"

RecordOK ==
    /\ DOMAIN record = Records
    /\ \A r \in Records :
        /\ record[r] = [status |-> record[r].status, home |-> record[r].home,
                        user |-> record[r].user, videos |-> record[r].videos,
                        late |-> record[r].late]
        /\ record[r].videos \in Seq(Clips)
        /\ Opened(r) => Visited(record[r].home) /\ record[r].user \in Users

\* How far an operation of each kind can be, whose it is, and on which document.
JobKinds == {"infoLoad", "save", "image", "verifyLoad", "facebook", "linkedin", "location",
             "recordLoad", "video"}

JobOf(j) ==
    /\ j.kind \in {"infoLoad", "save"} =>
        j.owner \in Homes /\ Born(j.owner) /\ j.key \in Users /\ j.stage \in {"transaction", "done"}
    /\ j.kind = "infoLoad" => j.key = home[j.owner].user
    /\ j.kind = "image" =>
        j.owner \in Homes /\ Born(j.owner) /\ j.key \in Users /\ j.stage \in {"put", "done"}
    /\ j.kind \in {"verifyLoad", "facebook", "linkedin", "location"} => Visited(j.owner)
    /\ j.kind = "verifyLoad" =>
        j.key = verify[j.owner].user /\ j.stage \in {"transaction", "done"}
    /\ j.kind = "facebook" =>
        /\ j.stage \in {"dialog", "granted", "transaction", "done"}
        /\ j.stage \in {"dialog", "granted"} => j.key = NoUser
        /\ j.data \in Users \cup {Null}
    /\ j.kind = "linkedin" =>
        /\ j.stage \in {"signIn", "timer", "transaction", "done"}
        /\ j.stage \in {"signIn", "timer"} => j.key = NoUser
        /\ j.stage \in {"timer", "transaction"} => j.data = verify[j.owner].user
    /\ j.kind = "location" =>
        j.key = verify[j.owner].user /\ j.stage \in {"position", "write", "done"}
    /\ j.kind \in {"recordLoad", "video"} => Opened(j.owner) /\ j.key = record[j.owner].user
    /\ j.kind = "recordLoad" =>
        /\ j.stage \in {"get", "snapshot", "done"}
        /\ j.stage = "snapshot" => j.data = NoDoc \/ GoodDoc(j.data)
    /\ j.kind = "video" => j.stage \in {"put", "write", "acknowledged", "done"}

JobOK(j, phase) ==
    /\ j = [kind |-> j.kind, owner |-> j.owner, key |-> j.key, stage |-> j.stage,
            data |-> j.data]
    /\ j = NoJob \/ (j.kind \in JobKinds \cap Kinds /\ j.stage # "unused")
    /\ j.key \in Users \cup {NoUser}
    /\ j.stage = "transaction" => phase # "idle"
    /\ phase # "idle" => j.stage \in {"transaction", "done"} /\ j.key \in Users
    /\ JobOf(j)

JobsOK == DOMAIN job = TxIds /\ \A t \in TxIds : JobOK(job[t], tx[t].phase)

\* The queues, the answers of the current stream, and the cache.
Writes == {w \in [id : TxIds, key : Users, data : Docs] : UpdateDoc(w.data)}

\* The documents a client may have of each.
Copies == [Keys -> {d \in Docs \cup {NoDoc} : d # NoDoc => GoodDoc(d)}]

Caches == [remote : Copies, shown : Copies, known : Nat, listening : BOOLEAN]

QueueOK ==
    /\ queue \in [Users -> Seq(Writes)]
    /\ outcomes \in Seq({"ok", "notFound"})
    /\ Len(outcomes) <= Len(ActiveQueue)
    /\ cache \in Caches
    /\ cache.known <= Len(outcomes)

\* The app.
AppIInv ==
    /\ AccountIInv
    /\ BornSignedIn
    /\ FsOK
    /\ InfoOK /\ VerifyOK /\ RecordOK
    /\ JobsOK
    /\ QueueOK
    /\ VerifiedIsStored
    /\ FetchingIsExplained

-----------------------------------------------------------------------------
(***************************************************************************)
(* Documents.                                                              *)
(***************************************************************************)

\* Documents are the functions from some fields to values; none of them is NoDoc.
LEMMA DocsAre ==
    ASSUME NEW d
    PROVE  /\ d \in Docs => /\ DOMAIN d \subseteq FieldNames
                            /\ \A f \in DOMAIN d : d[f] \in FieldValues
                            /\ d = [f \in DOMAIN d |-> d[f]]
                            /\ d # NoDoc
           /\ \A D \in SUBSET FieldNames : d \in [D -> FieldValues] => d \in Docs
  BY ValuesAssumption DEF Docs

\* A patch leaves a document with the fields of both.
LEMMA MergeFields ==
    ASSUME NEW d, NEW e
    PROVE  /\ DOMAIN Merge(d, e) = DOMAIN d \cup DOMAIN e
           /\ \A f \in DOMAIN e : Merge(d, e)[f] = e[f]
           /\ \A f \in DOMAIN d \ DOMAIN e : Merge(d, e)[f] = d[f]
  BY DEF Merge

LEMMA MergeDocs ==
    ASSUME NEW d \in Docs, NEW e \in Docs
    PROVE  Merge(d, e) \in Docs
  <1> DEFINE D == DOMAIN d \cup DOMAIN e
  <1>1. D \in SUBSET FieldNames
    BY DocsAre
  <1>2. Merge(d, e) \in [D -> FieldValues]
    BY DocsAre DEF Merge
  <1> QED
    BY <1>1, <1>2, DocsAre

\* A good document stays good under a patch that brings no new `user'.
LEMMA MergeGood ==
    ASSUME NEW d, GoodDoc(d), NEW e, GoodDoc(e),
           "user" \in DOMAIN e => "user" \in DOMAIN d,
           "isFetching" \in DOMAIN e => e.isFetching = No
    PROVE  GoodDoc(Merge(d, e)) /\ Merge(d, e) # NoDoc
  <1>1. Merge(d, e) \in Docs
    BY MergeDocs DEF GoodDoc
  <1>2. PICK x : x = Merge(d, e)
    OBVIOUS
  <1>3. /\ DOMAIN x = DOMAIN d \cup DOMAIN e
        /\ \A f \in DOMAIN e : x[f] = e[f]
        /\ \A f \in DOMAIN d \ DOMAIN e : x[f] = d[f]
    BY <1>2 DEF Merge
  <1>4. "user" \in DOMAIN x => x.user \in Users
    BY <1>3 DEF GoodDoc
  <1>5. "user" \in DOMAIN x /\ "isFetching" \in DOMAIN x => x.isFetching = No
    BY <1>3 DEF GoodDoc
  <1>6. "videos" \in DOMAIN x => x.videos \in Seq(Clips)
    BY <1>3 DEF GoodDoc
  <1> QED
    BY <1>1, <1>2, <1>4, <1>5, <1>6, DocsAre DEF GoodDoc

\* A patch with what is there changes nothing.
LEMMA MergeSame ==
    ASSUME NEW d \in Docs
    PROVE  Merge(d, d) = d
  BY DocsAre DEF Merge

\* What docRef.update writes, and the tokens.
LEMMA LocationDoc == UpdateDoc([location |-> Here])
  <1>1. [location |-> Here] \in [{"location"} -> FieldValues]
    BY DEF FieldValues
  <1>2. [location |-> Here] \in Docs
    BY <1>1, DocsAre DEF FieldNames
  <1> QED
    BY <1>2 DEF UpdateDoc, GoodDoc

LEMMA VideosDoc ==
    ASSUME NEW a \in Seq(Clips)
    PROVE  UpdateDoc([videos |-> a])
  <1>1. [videos |-> a] \in [{"videos"} -> FieldValues]
    BY DEF FieldValues, Clips
  <1>2. [videos |-> a] \in Docs
    BY <1>1, DocsAre DEF FieldNames
  <1> QED
    BY <1>2 DEF UpdateDoc, GoodDoc

LEMMA TokenDocs ==
    ASSUME NEW v \in Users
    PROVE  /\ GoodDoc([facebookToken |-> v])
           /\ GoodDoc([linkdintoken |-> v])
  <1>1. /\ [facebookToken |-> v] \in [{"facebookToken"} -> FieldValues]
        /\ [linkdintoken |-> v] \in [{"linkdintoken"} -> FieldValues]
    BY DEF FieldValues
  <1>2. [facebookToken |-> v] \in Docs /\ [linkdintoken |-> v] \in Docs
    BY <1>1, DocsAre DEF FieldNames
  <1> QED
    BY <1>2 DEF GoodDoc

\* The states of new InfoScreens and of VerifyScreens are documents.
LEMMA ConstructorDoc ==
    ASSUME NEW u \in Users
    PROVE  FormDoc(InfoConstructor(u)) /\ InfoConstructor(u) # Empty
  <1> DEFINE D == {"user", "firstName", "haveKids", "smoker", "logo", "isFetching"}
  <1>1. InfoConstructor(u) \in [D -> FieldValues]
    BY DEF InfoConstructor, FieldValues
  <1>2. InfoConstructor(u) \in Docs
    BY <1>1, DocsAre DEF FieldNames
  <1>3. DOMAIN InfoConstructor(u) # {}
    BY DEF InfoConstructor
  <1> QED
    BY <1>2, <1>3 DEF FormDoc, GoodDoc, InfoConstructor, Empty

LEMMA VerifyDocGood ==
    ASSUME VerifyOK, NEW h \in Homes
    PROVE  GoodDoc(VerifyDoc(h))
  <1>1. VerifyDoc(h) \in [{"location", "isFetching"} -> FieldValues]
    BY DEF VerifyDoc, FieldValues, VerifyOK
  <1>2. VerifyDoc(h) \in Docs
    BY <1>1, DocsAre DEF FieldNames
  <1> QED
    BY <1>2 DEF GoodDoc, VerifyDoc

\* What setState brings into an InfoScreen besides documents.
LEMMA FormMerge ==
    ASSUME NEW d, FormDoc(d), NEW e \in Docs,
           "user" \in DOMAIN e => e.user \in Users,
           "isFetching" \in DOMAIN e => e.isFetching = No,
           "videos" \in DOMAIN e => e.videos \in Seq(Clips)
    PROVE  FormDoc(Merge(d, e))
  <1>1. GoodDoc(e)
    BY DEF GoodDoc
  <1>2. GoodDoc(Merge(d, e))
    BY <1>1, MergeGood DEF FormDoc
  <1> QED
    BY <1>2, MergeFields DEF FormDoc

-----------------------------------------------------------------------------
(***************************************************************************)
(* The local view of a document: the queued writes laid over it, by        *)
(* induction over the queue.                                               *)
(***************************************************************************)

\* A set of naturals has a least element.
LEMMA LeastNatural ==
    ASSUME NEW S \in SUBSET Nat, S # {}
    PROVE  \E n \in S : \A m \in S : n <= m
  <1> DEFINE R == {ss \in Nat \X Nat : ss[1] < ss[2]}
  <1>1. IsWellFoundedOn(R, Nat)
    BY NatLessThanWellFounded DEF OpToRel
  <1>2. PICK x \in S : \A y \in S : ~(<<y, x>> \in R)
    BY <1>1, WFMin
  <1>3. \A m \in S : m < x => <<m, x>> \in R
    OBVIOUS
  <1> HIDE DEF R
  <1>4. \A m \in S : ~(m < x)
    BY <1>2, <1>3
  <1> QED
    BY <1>4

\* Induction, for a set in place of a predicate.
LEMMA NatsIn ==
    ASSUME NEW S, 0 \in S, \A n \in Nat : n \in S => n + 1 \in S
    PROVE  Nat \subseteq S
  <1> SUFFICES ASSUME ~(Nat \subseteq S) PROVE FALSE
    OBVIOUS
  <1> DEFINE T == Nat \ S
  <1>1. PICK n \in T : \A m \in T : n <= m
    BY LeastNatural
  <1>2. n # 0 /\ n \in Nat
    BY <1>1
  <1>3. n - 1 \in Nat /\ n - 1 \notin T
    BY <1>1, <1>2
  <1>4. (n - 1) + 1 \in S
    BY <1>3
  <1> QED
    BY <1>1, <1>2, <1>4

\* f lays the first m writes of W over d, a copy of document k, one after the other.
LaidBy(W, k, d, n) == IF W[n].key = k THEN Laid(d, W[n].data) ELSE d

IsView(f, m, W, k, d) ==
    f = [n \in 0 .. m |-> IF n = 0 THEN d ELSE LaidBy(W, k, f[n - 1], n)]

LEMMA ViewExists ==
    ASSUME NEW W, NEW k, NEW d, NEW m \in Nat
    PROVE  \E f : IsView(f, m, W, k, d)
  <1> DEFINE S == {n \in Nat : \E f : IsView(f, n, W, k, d)}
  <1>1. 0 \in S
    <2> DEFINE f == [n \in 0 .. 0 |-> d]
    <2>1. IsView(f, 0, W, k, d)
      BY DEF IsView
    <2> QED
      BY <2>1
  <1>2. ASSUME NEW n \in Nat, n \in S PROVE n + 1 \in S
    <2>1. PICK g : IsView(g, n, W, k, d)
      BY <1>2
    <2> DEFINE f == [i \in 0 .. (n + 1) |-> IF i = n + 1 THEN LaidBy(W, k, g[n], i) ELSE g[i]]
    <2>2. \A i \in 0 .. (n + 1) : f[i] = IF i = 0 THEN d ELSE LaidBy(W, k, f[i - 1], i)
      BY <2>1 DEF IsView
    <2>3. IsView(f, n + 1, W, k, d)
      BY <2>2 DEF IsView
    <2> QED
      BY <2>3
  <1> HIDE DEF S
  <1>3. Nat \subseteq S
    BY <1>1, <1>2, NatsIn
  <1> QED
    BY <1>3 DEF S

\* Queued writes over a good document give a good document, over none none.
LEMMA ViewGood ==
    ASSUME QueueOK, KnownAccountOnly, accounts \subseteq Users, NEW k \in Keys,
           NEW d, d = NoDoc \/ GoodDoc(d)
    PROVE  ViewOver(d, k) = NoDoc \/ GoodDoc(ViewOver(d, k))
  <1>1. PICK W : W = ActiveQueue
    OBVIOUS
  <1>2. W \in Seq(Writes)
    BY <1>1 DEF ActiveQueue, QueueOK, KnownAccountOnly
  <1>3. PICK m \in Nat : m = Len(W)
    BY <1>2
  <1>4. \A n \in 1 .. m : W[n] \in Writes
    BY <1>2, <1>3
  <1>5. PICK f : IsView(f, m, W, k, d) /\ ViewOver(d, k) = f[m]
    <2>1. \E g : IsView(g, m, W, k, d)
      BY ViewExists
    <2> QED
      BY <2>1, <1>1, <1>3 DEF ViewOver, IsView, LaidBy
  <1> DEFINE S == {n \in Nat : n <= m => f[n] = NoDoc \/ GoodDoc(f[n])}
  <1>6. 0 \in S
    BY <1>5 DEF IsView
  <1>7. ASSUME NEW n \in Nat, n \in S PROVE n + 1 \in S
    <2> SUFFICES ASSUME n + 1 <= m PROVE f[n + 1] = NoDoc \/ GoodDoc(f[n + 1])
      OBVIOUS
    <2>1. f[n + 1] = LaidBy(W, k, f[n], n + 1)
      BY <1>5 DEF IsView
    <2>2. f[n] = NoDoc \/ GoodDoc(f[n])
      BY <1>7
    <2>3. UpdateDoc(W[n + 1].data)
      BY <1>4 DEF Writes
    <2>4. f[n] # NoDoc => GoodDoc(Merge(f[n], W[n + 1].data))
      BY <2>2, <2>3, MergeGood DEF UpdateDoc
    <2> QED
      BY <2>1, <2>2, <2>4 DEF LaidBy, Laid
  <1> HIDE DEF S
  <1>8. m \in S
    BY <1>6, <1>7, NatsIn
  <1> QED
    BY <1>5, <1>8 DEF S

\* docRef.get() gives a good document, or none.
LEMMA LocalViewGood ==
    ASSUME ServerOK, QueueOK, KnownAccountOnly, accounts \subseteq Users, NEW k \in Keys
    PROVE  /\ LocalView(k) = NoDoc \/ GoodDoc(LocalView(k))
           /\ CachedView(k) = NoDoc \/ GoodDoc(CachedView(k))
  <1>1. store[k] = NoDoc \/ GoodDoc(store[k])
    BY DEF ServerOK
  <1>2. cache.shown[k] = NoDoc \/ GoodDoc(cache.shown[k])
    BY DEF QueueOK, Caches, Copies
  <1> QED
    BY <1>1, <1>2, ViewGood DEF LocalView, CachedView

-----------------------------------------------------------------------------
(***************************************************************************)
(* Transactions and the backend.                                           *)
(***************************************************************************)

\* What a step of the backend may do to document k.
Grows(k) ==
    \/ store'[k] = store[k] /\ version'[k] = version[k]
    \/ /\ clock' = clock + 1
       /\ version'[k] = clock'
       /\ GoodDoc(store'[k])
       /\ store[k] # NoDoc => /\ DOMAIN store[k] \subseteq DOMAIN store'[k]
                              /\ "user" \in DOMAIN store'[k] => "user" \in DOMAIN store[k]

BackendGrows ==
    /\ store' \in [Keys -> Docs \cup {NoDoc}]
    /\ version' \in [Keys -> Nat]
    /\ clock' = clock \/ clock' = clock + 1
    /\ \A k \in Keys : Grows(k)

\* The document and kind of an operation are fixed once its transaction runs.
KeysKept ==
    \A t \in TxIds : tx[t].phase # "idle" =>
        job'[t].key = job[t].key /\ job'[t].kind = job[t].kind

NoneBecomesIdle == \A t \in TxIds : tx[t].phase # "idle" => tx'[t].phase # "idle"

LEMMA NoGrowth ==
    ASSUME ServerOK, UNCHANGED backendVars
    PROVE  BackendGrows
  BY DEF ServerOK, BackendGrows, Grows, backendVars

LEMMA ServerGrows ==
    ASSUME ServerOK, BackendGrows
    PROVE  ServerOK'
  <1> SUFFICES ASSUME NEW k \in Keys
               PROVE  /\ store'[k] = NoDoc <=> version'[k] = 0
                      /\ version'[k] <= clock'
                      /\ store'[k] # NoDoc => GoodDoc(store'[k])
    BY DEF ServerOK, BackendGrows, GoodDoc
  <1>1. GoodDoc(store'[k]) => store'[k] # NoDoc
    BY DocsAre DEF GoodDoc
  <1> QED
    BY <1>1 DEF ServerOK, BackendGrows, Grows

LEMMA RememberedStays ==
    ASSUME ServerOK, BackendGrows, NEW k \in Keys, NEW d, NEW v, Remembered(k, d, v)
    PROVE  Remembered(k, d, v)'
  <1>1. GoodDoc(store'[k]) => store'[k] # NoDoc
    BY DocsAre DEF GoodDoc
  <1>2. GoodDoc(d)' <=> GoodDoc(d)
    BY DEF GoodDoc
  <1> QED
    BY <1>1, <1>2 DEF ServerOK, BackendGrows, Grows, Remembered

LEMMA FieldStays ==
    ASSUME ServerOK, BackendGrows, NEW k \in Keys, NEW f, HasField(k, f)
    PROVE  HasField(k, f)'
  <1>1. GoodDoc(store'[k]) => store'[k] # NoDoc
    BY DocsAre DEF GoodDoc
  <1> QED
    BY <1>1 DEF ServerOK, BackendGrows, Grows, HasField

\* A request on its way stays what it is.
LEMMA RequestStays ==
    ASSUME ServerOK, JobsOK, BackendGrows, KeysKept, NoneBecomesIdle,
           NEW m, RequestOK(m)
    PROVE  RequestOK(m)'
  <1>1. PICK k : k = job[m.tx].key
    OBVIOUS
  <1>2. k \in Keys /\ job'[m.tx].key = k /\ job'[m.tx].kind = job[m.tx].kind
    BY <1>1, KeysAreUids DEF RequestOK, JobsOK, JobOK, KeysKept
  <1>3. PICK d, v : d = m.reads[k] /\ v = m.mutations[k].pre.version
    OBVIOUS
  <1>4. Remembered(k, d, v)
    BY <1>1, <1>3 DEF RequestOK, RequestOf
  <1>5. Remembered(k, d, v)'
    BY <1>2, <1>4, RememberedStays
  <1>6. Remembered(k, m.reads[k], m.mutations[k].pre.version)'
    BY <1>3, <1>5
  <1> QED
    BY <1>1, <1>2, <1>6
       DEF RequestOK, RequestOf, NoneBecomesIdle, BlockWrite, WriteOfKind, GoodDoc

LEMMA RequestsStay ==
    ASSUME ServerOK, JobsOK, BackendGrows, KeysKept, NoneBecomesIdle, RequestsOK,
           commits' \subseteq commits
    PROVE  RequestsOK'
  BY RequestStays DEF RequestsOK

\* A transaction that has read stays as good as it was.
LEMMA TxStays ==
    ASSUME ServerOK, JobsOK, BackendGrows, KeysKept, NEW t \in TxIds, TxOK(t),
           \/ tx'[t] = tx[t]
           \/ /\ tx[t].phase = "committing"
              /\ \E a : tx'[t] = [tx[t] EXCEPT !.reply = a]
    PROVE  TxOK(t)'
  <1>1. CASE Blank(tx[t])
    BY <1>1 DEF TxOK, IsTx, Blank
  <1>2. CASE HasRead(tx[t], job[t].key)
    <2>1. tx'[t] = tx[t] /\ job'[t].key = job[t].key /\ job[t].key \in Keys
      BY <1>2, KeysAreUids DEF HasRead, KeysKept, JobsOK, JobOK
    <2>2. PICK k, r : k = job[t].key /\ r = tx[t]
      OBVIOUS
    <2>3. PICK d, v : d = r.reads[k] /\ v = r.readVersions[k]
      OBVIOUS
    <2>4. Remembered(k, d, v)
      BY <1>2, <2>2, <2>3 DEF HasRead
    <2>5. Remembered(k, d, v)'
      BY <2>1, <2>2, <2>4, RememberedStays
    <2>6. Remembered(k, r.reads[k], r.readVersions[k])'
      BY <2>3, <2>5
    <2>7. HasRead(r, k)'
      BY <1>2, <2>2, <2>6 DEF HasRead
    <2> QED
      BY <2>1, <2>2, <2>7 DEF TxOK, IsTx, HasRead
  <1> QED
    BY <1>1, <1>2 DEF TxOK

\* The token of a confirmed verification stays stored.
LEMMA TokenStays ==
    ASSUME ServerOK, JobsOK, BackendGrows, KeysKept, NEW t \in TxIds,
           tx[t].phase # "idle", TokenStored(job[t])
    PROVE  TokenStored(job[t])'
  <1>1. PICK k : k = job[t].key
    OBVIOUS
  <1>2. k \in Keys /\ job'[t].key = k /\ job'[t].kind = job[t].kind
    BY <1>1, KeysAreUids DEF JobsOK, JobOK, KeysKept
  <1>3. /\ HasField(k, "facebookToken") => HasField(k, "facebookToken")'
        /\ HasField(k, "linkdintoken") => HasField(k, "linkdintoken")'
    BY <1>2, FieldStays
  <1> QED
    BY <1>1, <1>2, <1>3 DEF TokenStored, HasField

\* A new attempt, a failure, an answer taken: a transaction object without reads.
LEMMA BlankTx ==
    ASSUME NEW p \in {"idle", "running", "committing", "committed", "failed", "lost"}, NEW n
    PROVE  LET r == Transaction(p, n) IN
           IsTx(r) /\ Blank(r) /\ r.phase = p /\ r.reply = "none"
  BY DEF Transaction, IsTx, Blank

LEMMA RetryTx ==
    ASSUME NEW q
    PROVE  LET r == Retry(q) IN
           IsTx(r) /\ Blank(r) /\ r.phase \in {"running", "failed"} /\ r.reply = "none"
  BY BlankTx DEF Retry

\* Steps outside the SDK.
LEMMA FsFrame ==
    ASSUME FsOK, JobsOK, UNCHANGED fsVars, KeysKept
    PROVE  FsOK'
  <1>1. BackendGrows /\ NoneBecomesIdle
    BY NoGrowth DEF FsOK, fsVars, backendVars, NoneBecomesIdle
  <1>2. ServerOK' /\ RequestsOK'
    BY <1>1, ServerGrows, RequestsStay DEF FsOK, fsVars
  <1>3. ClientOK'
    BY <1>1, TxStays DEF FsOK, ClientOK, fsVars
  <1>4. AnswersOK'
    BY <1>1, TokenStays DEF FsOK, AnswersOK, fsVars, Confirmed
  <1> QED
    BY <1>2, <1>3, <1>4 DEF FsOK

\* The object of t is replaced by one without reads.
LEMMA TxStep ==
    ASSUME FsOK, JobsOK, KeysKept, UNCHANGED <<backendVars, commits>>,
           NEW t \in TxIds, NEW r, tx' = [tx EXCEPT ![t] = r],
           IsTx(r), Blank(r), r.phase # "idle", Confirmed(r) => Confirmed(tx[t])
    PROVE  FsOK'
  <1>1. /\ tx'[t] = r /\ DOMAIN tx' = TxIds
        /\ \A s \in TxIds \ {t} : tx'[s] = tx[s]
    BY DEF FsOK, ClientOK
  <1>2. BackendGrows /\ NoneBecomesIdle
    BY <1>1, NoGrowth DEF FsOK, NoneBecomesIdle
  <1>3. ServerOK' /\ RequestsOK'
    BY <1>2, ServerGrows, RequestsStay DEF FsOK
  <1>4. TxOK(t)'
    BY <1>1 DEF TxOK, IsTx, Blank
  <1>5. \A s \in TxIds \ {t} : TxOK(s)'
    BY <1>1, <1>2, TxStays DEF FsOK, ClientOK
  <1>6. ClientOK'
    BY <1>1, <1>4, <1>5 DEF ClientOK
  <1>7. ASSUME NEW s \in TxIds, Confirmed(tx'[s]) PROVE TokenStored(job[s])'
    <2>1. Confirmed(tx[s])
      BY <1>1, <1>7
    <2> QED
      BY <2>1, <1>2, TokenStays DEF FsOK, AnswersOK, Confirmed
  <1>8. AnswersOK'
    BY <1>7 DEF AnswersOK, Confirmed
  <1> QED
    BY <1>3, <1>6, <1>8 DEF FsOK

\* The get of a block: the version it notes is that of the document it is given.
LEMMA GetReads ==
    ASSUME FsOK, JobsOK, NEW t \in TxIds, Get(t, job[t].key), UNCHANGED job
    PROVE  FsOK'
  <1>1. PICK k : k = job[t].key
    OBVIOUS
  <1>2. k \in Keys /\ tx[t].phase = "running"
    BY <1>1, KeysAreUids DEF Get, JobsOK, JobOK
  <1>3. PICK r : r = RecordVersion(tx[t], k)
    OBVIOUS
  <1>4. IsTx(tx[t]) /\ k \notin DOMAIN tx[t].readVersions /\ DOMAIN tx = TxIds
    BY <1>1 DEF FsOK, ClientOK, TxOK, Get
  <1>5. Blank(tx[t])
    BY <1>1, <1>4 DEF FsOK, ClientOK, TxOK, HasRead
  <1>6. /\ tx'[t] = r /\ DOMAIN tx' = TxIds
        /\ \A s \in TxIds \ {t} : tx'[s] = tx[s]
    BY <1>1, <1>3, <1>4 DEF Get
  <1>7. /\ IsTx(r) /\ r.phase = "running"
        /\ r.reads = Put(Empty, k, store[k])
        /\ r.readVersions = Put(Empty, k, version[k])
    BY <1>2, <1>3, <1>4, <1>5 DEF RecordVersion, IsTx, Blank
  <1>8. /\ DOMAIN r.reads = {k} /\ DOMAIN r.readVersions = {k}
        /\ r.reads[k] = store[k] /\ r.readVersions[k] = version[k]
    BY <1>7 DEF Put, Empty
  <1>9. Remembered(k, r.reads[k], r.readVersions[k])
    BY <1>2, <1>8 DEF Remembered, FsOK, ServerOK
  <1>10. UNCHANGED <<backendVars, commits>>
    BY DEF Get
  <1>11. BackendGrows /\ NoneBecomesIdle /\ KeysKept
    BY <1>6, <1>7, <1>10, NoGrowth DEF FsOK, NoneBecomesIdle, KeysKept
  <1>12. ServerOK' /\ RequestsOK'
    BY <1>10, <1>11, ServerGrows, RequestsStay DEF FsOK
  <1>13. Remembered(k, r.reads[k], r.readVersions[k])'
    BY <1>9, <1>10 DEF Remembered, backendVars, GoodDoc
  <1>14. TxOK(t)'
    BY <1>1, <1>6, <1>7, <1>8, <1>13 DEF TxOK, IsTx, HasRead
  <1>15. \A s \in TxIds \ {t} : TxOK(s)'
    BY <1>6, <1>11, TxStays DEF FsOK, ClientOK
  <1>16. ClientOK'
    BY <1>6, <1>14, <1>15 DEF ClientOK
  <1>17. ASSUME NEW s \in TxIds, Confirmed(tx'[s]) PROVE TokenStored(job[s])'
    <2>1. Confirmed(tx[s])
      BY <1>6, <1>7, <1>17 DEF Confirmed
    <2> QED
      BY <2>1, <1>11, TokenStays DEF FsOK, AnswersOK, Confirmed
  <1>18. AnswersOK'
    BY <1>17 DEF AnswersOK, Confirmed
  <1> QED
    BY <1>12, <1>16, <1>18 DEF FsOK

\* The write of the block of t, on the document it has read.
GoodWrite(t, mu) ==
    LET k == job[t].key IN
    /\ mu.pre = UpdateTime(tx[t].readVersions[k])
    /\ BlockWrite(mu, tx[t].reads[k])
    /\ WriteOfKind(job[t].kind, mu, tx[t].reads[k])

\* The block ends and its one write is sent.
LEMMA CommitSends ==
    ASSUME FsOK, JobsOK, UNCHANGED <<backendVars, job>>, NEW t \in TxIds,
           HasRead(tx[t], job[t].key), NEW r, NEW mu, GoodWrite(t, mu),
           r.reads = tx[t].reads, r.readVersions = tx[t].readVersions,
           r.lastWriteError = "none", r.mutations = Put(Empty, job[t].key, mu),
           Commit(t, r)
    PROVE  FsOK'
  <1>1. PICK k, d, v : k = job[t].key /\ d = tx[t].reads[k] /\ v = tx[t].readVersions[k]
    OBVIOUS
  <1>2. DOMAIN r.mutations = {k} /\ r.mutations[k] = mu /\ DOMAIN r.readVersions = {k}
    BY <1>1 DEF Put, Empty, HasRead
  <1>3. ~CommitRejected(r)
    BY <1>2 DEF CommitRejected
  <1>4. PICK m : m = [tx |-> t, retries |-> r.retries, reads |-> r.reads,
                      mutations |-> r.mutations]
    OBVIOUS
  <1>5. PICK q : q = Transaction("committing", r.retries)
    OBVIOUS
  <1>6. tx' = [tx EXCEPT ![t] = q] /\ commits' = commits \cup {m}
    BY <1>3, <1>4, <1>5 DEF Commit
  <1>7. IsTx(q) /\ Blank(q) /\ q.phase = "committing" /\ q.reply = "none"
    BY <1>5, BlankTx
  <1>8. /\ tx'[t] = q /\ DOMAIN tx' = TxIds
        /\ \A s \in TxIds \ {t} : tx'[s] = tx[s]
    BY <1>6 DEF FsOK, ClientOK
  <1>9. BackendGrows /\ NoneBecomesIdle /\ KeysKept
    BY <1>7, <1>8, NoGrowth DEF FsOK, NoneBecomesIdle, KeysKept
  <1>10. ServerOK' /\ \A x \in commits : RequestOK(x)'
    BY <1>9, ServerGrows, RequestStays DEF FsOK, RequestsOK
  <1>11. RequestOK(m)'
    <2>1. k \in Keys
      BY <1>1, KeysAreUids DEF HasRead, JobsOK, JobOK
    <2>2. Remembered(k, d, v)
      BY <1>1 DEF HasRead
    <2>3. Remembered(k, d, v)'
      BY <1>9, <2>1, <2>2, RememberedStays DEF FsOK
    <2>4. m.reads[k] = d /\ m.mutations[k] = mu /\ m.tx = t /\ DOMAIN m.mutations = {k}
      BY <1>1, <1>2, <1>4
    <2>5. mu.pre.type = "updateTime" /\ mu.pre.version = v
      BY <1>1 DEF GoodWrite, UpdateTime
    <2>6. Remembered(k, m.reads[k], m.mutations[k].pre.version)'
      BY <2>3, <2>4, <2>5
    <2>7. BlockWrite(mu, d) /\ WriteOfKind(job[t].kind, mu, d)
      BY <1>1 DEF GoodWrite
    <2>8. tx'[t].phase # "idle" /\ job' = job
      BY <1>7, <1>8
    <2> QED
      BY <1>1, <2>4, <2>5, <2>6, <2>7, <2>8
         DEF RequestOK, RequestOf, BlockWrite, WriteOfKind, GoodDoc
  <1>12. RequestsOK'
    BY <1>6, <1>10, <1>11 DEF RequestsOK
  <1>13. TxOK(t)'
    BY <1>7, <1>8 DEF TxOK, IsTx, Blank
  <1>14. \A s \in TxIds \ {t} : TxOK(s)'
    BY <1>8, <1>9, TxStays DEF FsOK, ClientOK
  <1>15. ClientOK'
    BY <1>8, <1>13, <1>14 DEF ClientOK
  <1>16. ASSUME NEW s \in TxIds, Confirmed(tx'[s]) PROVE TokenStored(job[s])'
    <2>1. Confirmed(tx[s])
      BY <1>7, <1>8, <1>16 DEF Confirmed
    <2> QED
      BY <2>1, <1>9, TokenStays DEF FsOK, AnswersOK, Confirmed
  <1>17. AnswersOK'
    BY <1>16 DEF AnswersOK, Confirmed
  <1> QED
    BY <1>10, <1>12, <1>15, <1>17 DEF FsOK

\* A block that was given its document.
LEMMA ResumedHasRead ==
    ASSUME FsOK, NEW t \in TxIds, NEW kind, BlockResumes(t, kind)
    PROVE  /\ HasRead(tx[t], job[t].key) /\ IsTx(tx[t])
           /\ job[t].kind = kind /\ job[t].stage = "transaction"
  <1>1. TxOK(t)
    BY DEF FsOK, ClientOK
  <1> QED
    BY <1>1 DEF TxOK, Blank, Empty, BlockResumes, At

\* transaction.set of a block that found no document.
LEMMA SetSends ==
    ASSUME FsOK, JobsOK, UNCHANGED <<backendVars, job>>, NEW t \in TxIds, NEW kind,
           BlockResumes(t, kind), kind \notin {"facebook", "linkedin"}, DocRead(t) = NoDoc,
           NEW data, GoodDoc(data), Commit(t, SetData(tx[t], job[t].key, data))
    PROVE  FsOK'
  <1>1. PICK k, q : k = job[t].key /\ q = tx[t]
    OBVIOUS
  <1>2. HasRead(q, k) /\ IsTx(q) /\ job[t].kind = kind /\ q.reads[k] = NoDoc
    BY <1>1, ResumedHasRead DEF DocRead
  <1>3. PICK mu : mu = [op |-> "set", data |-> data, pre |-> UpdateTime(q.readVersions[k])]
    OBVIOUS
  <1>4. PICK r : r = SetData(q, k, data)
    OBVIOUS
  <1>5. PreconditionForDocumentKey(q, k) = UpdateTime(q.readVersions[k])
    BY <1>2 DEF PreconditionForDocumentKey, HasRead
  <1>6. r = [q EXCEPT !.mutations = Put(Empty, k, mu)]
    BY <1>2, <1>3, <1>4, <1>5 DEF SetData, IsTx
  <1>7. /\ r.reads = q.reads /\ r.readVersions = q.readVersions
        /\ r.lastWriteError = "none" /\ r.mutations = Put(Empty, k, mu)
    BY <1>2, <1>6 DEF IsTx
  <1>8. GoodWrite(t, mu)
    BY <1>1, <1>2, <1>3 DEF GoodWrite, BlockWrite, WriteOfKind
  <1> QED
    BY <1>1, <1>2, <1>4, <1>7, <1>8, CommitSends

\* transaction.update of a block that found its document.
LEMMA UpdateSends ==
    ASSUME FsOK, JobsOK, UNCHANGED <<backendVars, job>>, NEW t \in TxIds, NEW kind,
           BlockResumes(t, kind), DocRead(t) # NoDoc,
           NEW data, GoodDoc(data),
           "user" \in DOMAIN data => "user" \in DOMAIN DocRead(t),
           "isFetching" \in DOMAIN data => data.isFetching = No,
           kind = "facebook" => "facebookToken" \in DOMAIN data,
           kind = "linkedin" => "linkdintoken" \in DOMAIN data,
           kind \in {"infoLoad", "verifyLoad"} => data = DocRead(t),
           Commit(t, UpdateData(tx[t], job[t].key, data))
    PROVE  FsOK'
  <1>1. PICK k, q, d : k = job[t].key /\ q = tx[t] /\ d = DocRead(t)
    OBVIOUS
  <1>2. HasRead(q, k) /\ IsTx(q) /\ job[t].kind = kind /\ q.reads[k] = d
    BY <1>1, ResumedHasRead DEF DocRead
  <1>3. PICK mu : mu = [op |-> "patch", data |-> data, pre |-> UpdateTime(q.readVersions[k])]
    OBVIOUS
  <1>4. PICK r : r = UpdateData(q, k, data)
    OBVIOUS
  <1>5. PreconditionForUpdate(q, k) = UpdateTime(q.readVersions[k])
    BY <1>2 DEF PreconditionForUpdate, HasRead
  <1>6. ~UpdateImpossible(q, k)
    BY <1>1, <1>2 DEF UpdateImpossible, HasRead, Remembered
  <1>7. r = [q EXCEPT !.mutations = Put(Empty, k, mu)]
    BY <1>2, <1>3, <1>4, <1>5, <1>6 DEF UpdateData, IsTx
  <1>8. /\ r.reads = q.reads /\ r.readVersions = q.readVersions
        /\ r.lastWriteError = "none" /\ r.mutations = Put(Empty, k, mu)
    BY <1>2, <1>7 DEF IsTx
  <1>9. GoodWrite(t, mu)
    BY <1>1, <1>2, <1>3 DEF GoodWrite, BlockWrite, WriteOfKind
  <1> QED
    BY <1>1, <1>2, <1>4, <1>8, <1>9, CommitSends

\* The block throws.
LEMMA BlockThrows ==
    ASSUME FsOK, JobsOK, NEW t \in TxIds, BlockFails(t), UNCHANGED job
    PROVE  FsOK'
  <1>1. PICK r : r = Transaction("failed", tx[t].retries)
    OBVIOUS
  <1>2. IsTx(r) /\ Blank(r) /\ r.phase = "failed"
    BY <1>1, BlankTx
  <1>3. tx' = [tx EXCEPT ![t] = r]
    BY <1>1 DEF BlockFails
  <1> QED
    BY <1>2, <1>3, TxStep DEF BlockFails, KeysKept, Confirmed

\* runTransaction.
LEMMA TransactionBegins ==
    ASSUME FsOK, JobsOK, NEW t \in TxIds, RunTransaction(t),
           \A s \in TxIds \ {t} : job'[s] = job[s]
    PROVE  FsOK'
  <1>1. PICK r : r = Transaction("running", MaxRetries)
    OBVIOUS
  <1>2. IsTx(r) /\ Blank(r) /\ r.phase = "running"
    BY <1>1, BlankTx
  <1>3. tx' = [tx EXCEPT ![t] = r]
    BY <1>1 DEF RunTransaction
  <1>4. KeysKept
    BY DEF KeysKept, RunTransaction
  <1> QED
    BY <1>2, <1>3, <1>4, TxStep DEF RunTransaction, Confirmed

\* An answer, or an error, reaches the client.
LEMMA RpcEnds ==
    ASSUME FsOK, JobsOK, NEW t \in TxIds, ReplyReceived(t) \/ RpcFails(t), UNCHANGED job
    PROVE  FsOK'
  <1>1. PICK q : q = tx[t]
    OBVIOUS
  <1>2. PICK r : r = IF ReplyReceived(t) /\ q.reply = "ok"
                     THEN Transaction("committed", q.retries) ELSE Retry(q)
    OBVIOUS
  <1>3. IsTx(r) /\ Blank(r) /\ r.phase \in {"committed", "running", "failed"}
    BY <1>2, BlankTx, RetryTx
  <1>4. tx' = [tx EXCEPT ![t] = r]
    <2>1. DOMAIN tx = TxIds
      BY DEF FsOK, ClientOK
    <2>2. CASE ReplyReceived(t)
      BY <1>1, <1>2, <2>1, <2>2 DEF ReplyReceived
    <2>3. CASE RpcFails(t) /\ ~ReplyReceived(t)
      BY <1>1, <1>2, <2>1, <2>3 DEF RpcFails
    <2> QED
      BY <2>2, <2>3
  <1>5. r.phase = "committed" => Confirmed(q)
    BY <1>1, <1>2, RetryTx DEF ReplyReceived, Confirmed
  <1>6. UNCHANGED <<backendVars, commits>> /\ KeysKept
    BY DEF ReplyReceived, RpcFails, KeysKept
  <1>7. Confirmed(r) => Confirmed(tx[t])
    BY <1>1, <1>3, <1>5 DEF Confirmed
  <1> QED
    BY <1>3, <1>4, <1>6, <1>7, TxStep

\* The backend and the network answer request m, at least if it still is awaited.
LEMMA AnswerComes ==
    ASSUME FsOK, JobsOK, BackendGrows, UNCHANGED job, NEW m \in commits, NEW answer,
           tx' = Answered(m, answer), commits' = commits \ {m},
           answer = "ok" => TokenStored(job[m.tx])'
    PROVE  FsOK'
  <1>1. RequestOK(m)
    BY DEF FsOK, RequestsOK
  <1>2. m.tx \in TxIds /\ IsTx(tx[m.tx]) /\ DOMAIN tx = TxIds
    BY <1>1 DEF RequestOK, FsOK, ClientOK, TxOK
  <1>3. /\ DOMAIN tx' = TxIds
        /\ \A s \in TxIds : s # m.tx => tx'[s] = tx[s]
        /\ \/ tx'[m.tx] = tx[m.tx]
           \/ tx[m.tx].phase = "committing" /\ tx'[m.tx] = [tx[m.tx] EXCEPT !.reply = answer]
    BY <1>2 DEF Answered
  <1>4. \/ tx'[m.tx] = tx[m.tx]
        \/ tx'[m.tx].phase = "committing" /\ tx'[m.tx].reply = answer
    BY <1>2, <1>3 DEF IsTx
  <1>5. \A s \in TxIds : \/ tx'[s] = tx[s]
                         \/ /\ tx[s].phase = "committing"
                            /\ \E a : tx'[s] = [tx[s] EXCEPT !.reply = a]
    BY <1>3
  <1>6. NoneBecomesIdle /\ KeysKept
    BY <1>3, <1>4 DEF NoneBecomesIdle, KeysKept
  <1>7. ServerOK' /\ RequestsOK'
    BY <1>6, ServerGrows, RequestsStay DEF FsOK
  <1>8. ClientOK'
    BY <1>3, <1>5, <1>6, TxStays DEF FsOK, ClientOK
  <1>9. ASSUME NEW s \in TxIds, Confirmed(tx'[s]) PROVE TokenStored(job[s])'
    <2>1. CASE tx'[s] = tx[s]
      BY <2>1, <1>6, <1>9, TokenStays DEF FsOK, AnswersOK, Confirmed
    <2>2. CASE tx'[s] # tx[s]
      <3>1. s = m.tx /\ answer = "ok"
        BY <2>2, <1>3, <1>4, <1>9 DEF Confirmed
      <3> QED
        BY <3>1
    <2> QED
      BY <2>1, <2>2
  <1>10. AnswersOK'
    BY <1>9 DEF AnswersOK, Confirmed
  <1> QED
    BY <1>7, <1>8, <1>10 DEF FsOK

\* The commit of m: the document is the one its block was given, so it keeps its
\* fields, and gets a `user' only if it is created.
LEMMA CommitGrows ==
    ASSUME FsOK, JobsOK, NEW m \in commits, BackendCommit(m), UNCHANGED job
    PROVE  /\ BackendGrows
           /\ TokenStored(job[m.tx])'
           /\ \A k \in Keys : store'[k] # store[k] => k = job[m.tx].key
           /\ \A k \in Keys : store[k] # NoDoc /\ store'[k] # store[k] =>
                /\ k = job[m.tx].key
                /\ store[k] = m.reads[k]
                /\ store'[k] = Merge(store[k], m.mutations[k].data)
           /\ \A k \in Keys : store[k] = NoDoc /\ store'[k] # store[k] =>
                store'[k] = m.mutations[k].data
  <1>1. PICK k, mu, d : k = job[m.tx].key /\ mu = m.mutations[k] /\ d = m.reads[k]
    OBVIOUS
  <1>2. RequestOf(m, job[m.tx].kind, k) /\ k \in Keys /\ m.tx \in TxIds
    BY <1>1, KeysAreUids DEF FsOK, RequestsOK, RequestOK, JobsOK, JobOK
  <1>3. /\ DOMAIN m.mutations = {k} /\ Remembered(k, d, mu.pre.version)
        /\ mu.pre.type = "updateTime"
        /\ BlockWrite(mu, d) /\ WriteOfKind(job[m.tx].kind, mu, d)
    BY <1>1, <1>2 DEF RequestOf
  <1>4. IsValidFor(mu.pre, k)
    BY <1>1, <1>3 DEF BackendCommit, Valid
  <1>5. version[k] = mu.pre.version
    BY <1>3, <1>4 DEF IsValidFor
  <1>6. store[k] = d
    BY <1>3, <1>5 DEF Remembered
  <1>7. PICK e : e = ApplyTo(mu, store[k])
    OBVIOUS
  <1>8. /\ store' = [x \in Keys |-> IF x = k THEN e ELSE store[x]]
        /\ version' = [x \in Keys |-> IF x = k THEN clock + 1 ELSE version[x]]
        /\ clock' = clock + 1
    <2>1. mu.op # "delete"
      BY <1>3 DEF BlockWrite
    <2> QED
      BY <1>1, <1>3, <1>7, <2>1 DEF BackendCommit
  <1>9. GoodDoc(e) /\ DOMAIN mu.data \subseteq DOMAIN e
        /\ (d # NoDoc => /\ e = Merge(d, mu.data)
                         /\ DOMAIN d \subseteq DOMAIN e
                         /\ "user" \in DOMAIN e => "user" \in DOMAIN d)
    <2>1. CASE mu.op = "set"
      BY <1>3, <1>7, <2>1 DEF BlockWrite, ApplyTo
    <2>2. CASE mu.op = "patch"
      <3>1. e = Merge(d, mu.data) /\ d # NoDoc /\ GoodDoc(mu.data)
        BY <1>3, <1>6, <1>7, <2>2 DEF BlockWrite, ApplyTo
      <3>2. GoodDoc(d)
        BY <1>3, <3>1 DEF Remembered
      <3>3. GoodDoc(e)
        BY <1>3, <2>2, <3>1, <3>2, MergeGood DEF BlockWrite
      <3>4. DOMAIN e = DOMAIN d \cup DOMAIN mu.data
        BY <3>1 DEF Merge
      <3> QED
        BY <1>3, <2>2, <3>1, <3>3, <3>4 DEF BlockWrite
    <2> QED
      BY <1>3, <2>1, <2>2 DEF BlockWrite
  <1>10. e \in Docs /\ e # NoDoc
    BY <1>9, DocsAre DEF GoodDoc
  <1>11. ServerOK
    BY DEF FsOK
  <1>12. \A x \in Keys : Grows(x)
    BY <1>2, <1>6, <1>8, <1>9, <1>11 DEF Grows, ServerOK
  <1>13. BackendGrows
    BY <1>2, <1>8, <1>10, <1>11, <1>12 DEF BackendGrows, ServerOK
  <1>14. store'[k] = e
    BY <1>2, <1>8
  <1>15. TokenStored(job[m.tx])'
    BY <1>1, <1>3, <1>9, <1>10, <1>14 DEF TokenStored, HasField, WriteOfKind
  <1>16. ASSUME NEW x \in Keys, store[x] # NoDoc, store'[x] # store[x]
         PROVE  /\ x = job[m.tx].key
                /\ store[x] = m.reads[x]
                /\ store'[x] = Merge(store[x], m.mutations[x].data)
    <2>1. x = k
      BY <1>8, <1>16
    <2> QED
      BY <1>1, <1>6, <1>9, <1>14, <1>16, <2>1
  <1>17. \A x \in Keys : store'[x] # store[x] => x = job[m.tx].key
    BY <1>1, <1>8
  <1>18. ASSUME NEW x \in Keys, store[x] = NoDoc, store'[x] # store[x]
         PROVE  store'[x] = m.mutations[x].data
    <2>1. x = k /\ mu.op = "set"
      BY <1>3, <1>6, <1>17, <1>1, <1>18 DEF BlockWrite
    <2> QED
      BY <1>1, <1>7, <1>14, <2>1 DEF ApplyTo
  <1> QED
    BY <1>13, <1>15, <1>16, <1>17, <1>18

LEMMA RpcOK ==
    ASSUME FsOK, JobsOK, RpcNext, UNCHANGED job
    PROVE  FsOK' /\ BackendGrows
  <1>1. ASSUME NEW t \in TxIds, ReplyReceived(t) \/ RpcFails(t) PROVE FsOK' /\ BackendGrows
    BY <1>1, RpcEnds, NoGrowth DEF FsOK, ReplyReceived, RpcFails
  <1>2. ASSUME NEW m \in commits, BackendCommit(m) PROVE FsOK' /\ BackendGrows
    BY <1>2, CommitGrows, AnswerComes DEF BackendCommit
  <1>3. ASSUME NEW m \in commits, BackendRefuse(m) PROVE FsOK' /\ BackendGrows
    BY <1>3, AnswerComes, NoGrowth DEF BackendRefuse, FsOK
  <1> QED
    BY <1>1, <1>2, <1>3 DEF RpcNext

-----------------------------------------------------------------------------
(***************************************************************************)
(* The write pipeline.                                                     *)
(***************************************************************************)

\* Whoever is signed in is a user, and has a queue.
LEMMA ActiveQueueType ==
    ASSUME QueueOK, AccountIInv
    PROVE  /\ currentUser \in Users \cup {NoUser}
           /\ ActiveQueue \in Seq(Writes)
           /\ Len(ActiveQueue) \in Nat
           /\ \A n \in 1 .. Len(ActiveQueue) : ActiveQueue[n] \in Writes
  <1>1. currentUser \in Users \cup {NoUser}
    BY DEF AccountIInv, AccountTypeOK
  <1>2. ActiveQueue \in Seq(Writes)
    BY <1>1 DEF ActiveQueue, QueueOK
  <1> QED
    BY <1>1, <1>2

LEMMA DeliverGrows ==
    ASSUME FsOK, JobsOK, QueueOK, AccountIInv, DeliverWrite
    PROVE  FsOK' /\ BackendGrows /\ outcomes' \in Seq({"ok", "notFound"})
           /\ Len(outcomes') <= Len(ActiveQueue)
  <1>1. PICK n : n = Len(outcomes) + 1
    OBVIOUS
  <1>2. n \in Nat /\ n >= 1 /\ n <= Len(ActiveQueue) /\ outcomes \in Seq({"ok", "notFound"})
    BY <1>1 DEF DeliverWrite, QueueOK
  <1>3. PICK w : w = ActiveQueue[n]
    OBVIOUS
  <1>4. w \in Writes
    BY <1>2, <1>3, ActiveQueueType
  <1>5. w.key \in Keys /\ UpdateDoc(w.data)
    BY <1>4, KeysAreUids DEF Writes
  <1>6. \E a \in {"ok", "notFound"} : outcomes' = Append(outcomes, a)
    BY DEF DeliverWrite
  <1>7. outcomes' \in Seq({"ok", "notFound"}) /\ Len(outcomes') = n
    BY <1>1, <1>2, <1>6
  <1>8. BackendGrows
    <2>1. CASE store[w.key] = NoDoc
      <3>1. UNCHANGED backendVars
        BY <1>1, <1>3, <2>1 DEF DeliverWrite
      <3> QED
        BY <3>1, NoGrowth DEF FsOK
    <2>2. CASE store[w.key] # NoDoc
      <3>1. PICK e : e = Merge(store[w.key], w.data)
        OBVIOUS
      <3>2. WriteDocument(w.key, e)
        BY <1>1, <1>3, <2>2, <3>1 DEF DeliverWrite
      <3>3. GoodDoc(store[w.key])
        BY <1>5, <2>2 DEF FsOK, ServerOK
      <3>4. GoodDoc(e) /\ e # NoDoc /\ e \in Docs
        BY <1>5, <3>1, <3>3, MergeGood DEF UpdateDoc, GoodDoc
      <3>5. /\ store' = [store EXCEPT ![w.key] = e]
            /\ version' = [version EXCEPT ![w.key] = clock + 1]
            /\ clock' = clock + 1
        BY <3>2, <3>4 DEF WriteDocument
      <3>6. /\ DOMAIN store[w.key] \subseteq DOMAIN e
            /\ "user" \in DOMAIN e => "user" \in DOMAIN store[w.key]
        BY <1>5, <3>1 DEF Merge, UpdateDoc
      <3>7. \A k \in Keys : Grows(k)
        BY <1>5, <3>4, <3>5, <3>6 DEF Grows, FsOK, ServerOK
      <3> QED
        BY <1>5, <3>4, <3>5, <3>7 DEF BackendGrows, FsOK, ServerOK
    <2> QED
      BY <2>1, <2>2
  <1>9. UNCHANGED <<tx, commits, job>>
    BY DEF DeliverWrite
  <1>10. NoneBecomesIdle /\ KeysKept
    BY <1>9 DEF NoneBecomesIdle, KeysKept
  <1>11. ServerOK' /\ RequestsOK'
    BY <1>8, <1>9, <1>10, ServerGrows, RequestsStay DEF FsOK
  <1>12. ClientOK'
    BY <1>8, <1>9, <1>10, TxStays DEF FsOK, ClientOK
  <1>13. AnswersOK'
    BY <1>8, <1>9, <1>10, TokenStays DEF FsOK, AnswersOK, Confirmed
  <1> QED
    BY <1>2, <1>7, <1>8, <1>11, <1>12, <1>13 DEF FsOK

\* What is laid over a copy, and what a snapshot and a closed stream leave in the cache.
LEMMA AcknowledgeCache ==
    ASSUME QueueOK, NEW w \in Writes, NEW outcome, Acknowledge(w, outcome)
    PROVE  /\ cache' \in Caches
           /\ cache'.known = IF cache.known = 0 THEN 0 ELSE cache.known - 1
  <1>1. PICK c : c = cache /\ c \in Caches
    BY DEF QueueOK
  <1>2. PICK a : a = Laid(c.shown[w.key], w.data)
    OBVIOUS
  <1>3. w.key \in Keys /\ UpdateDoc(w.data)
    BY KeysAreUids DEF Writes
  <1>4. a \in Docs \cup {NoDoc} /\ (a # NoDoc => GoodDoc(a))
    <2>1. CASE c.shown[w.key] = NoDoc
      BY <1>2, <2>1 DEF Laid
    <2>2. CASE c.shown[w.key] # NoDoc
      <3>1. GoodDoc(c.shown[w.key])
        BY <1>1, <1>3, <2>2 DEF Caches, Copies
      <3> QED
        BY <1>2, <1>3, <2>2, <3>1, MergeGood DEF Laid, UpdateDoc, GoodDoc
    <2> QED
      BY <2>1, <2>2
  <1>5. [c.shown EXCEPT ![w.key] = a] \in Copies /\ c.shown \in Copies /\ c.remote \in Copies
    BY <1>1, <1>3, <1>4 DEF Caches, Copies
  <1>6. PICK s : /\ s \in Copies
                 /\ cache' = [remote |-> IF c.listening THEN c.remote ELSE s, shown |-> s,
                              known |-> IF c.known = 0 THEN 0 ELSE c.known - 1,
                              listening |-> c.listening]
    BY <1>1, <1>2, <1>5 DEF Acknowledge
  <1>7. (IF c.known = 0 THEN 0 ELSE c.known - 1) \in Nat /\ c.listening \in BOOLEAN
    BY <1>1 DEF Caches
  <1> QED
    BY <1>1, <1>5, <1>6, <1>7 DEF Caches

LEMMA SnapshotCache ==
    ASSUME QueueOK, ServerOK, Snapshot, UNCHANGED outcomes
    PROVE  cache' \in Caches /\ cache'.known <= Len(outcomes')
  <1>1. store \in Copies
    BY DEF ServerOK, Copies
  <1>2. Len(outcomes) \in Nat /\ cache.listening \in BOOLEAN
    BY DEF QueueOK, Caches
  <1> QED
    BY <1>1, <1>2 DEF Snapshot, Caches

LEMMA CloseCache ==
    ASSUME QueueOK, NEW b \in BOOLEAN, StreamCloses(b)
    PROVE  outcomes' = <<>> /\ UNCHANGED queue /\ cache' \in Caches /\ cache'.known = 0
  BY DEF StreamCloses, QueueOK, Caches

\* The answer to the first write leaves with the write.
LEMMA AnswerQueue ==
    ASSUME QueueOK, AccountIInv, NEW t, NEW outcome, Answer(t, outcome),
           UNCHANGED currentUser
    PROVE  QueueOK'
  <1>1. PICK W : W = ActiveQueue
    OBVIOUS
  <1>2. /\ outcomes \in Seq({"ok", "notFound"}) /\ outcomes # <<>>
        /\ W \in Seq(Writes) /\ Len(outcomes) <= Len(W)
    BY <1>1, ActiveQueueType DEF QueueOK, Answer
  <1>3. Len(outcomes) \in Nat \ {0}
    BY <1>2
  <1>4. W # <<>>
    BY <1>2, <1>3
  <1>5. currentUser \in Users /\ W = queue[currentUser]
    BY <1>1, <1>4, ActiveQueueType DEF ActiveQueue
  <1>6. /\ Tail(W) \in Seq(Writes) /\ Len(Tail(W)) = Len(W) - 1
        /\ Tail(outcomes) \in Seq({"ok", "notFound"})
        /\ Len(Tail(outcomes)) = Len(outcomes) - 1
    BY <1>2, <1>4
  <1>7. queue' = [queue EXCEPT ![currentUser] = Tail(W)] /\ outcomes' = Tail(outcomes)
    BY <1>5 DEF Answer, QueueOK
  <1>8. queue' \in [Users -> Seq(Writes)]
    BY <1>6, <1>7 DEF QueueOK
  <1>9. ActiveQueue' = Tail(W)
    BY <1>5, <1>7, NoUserAssumption DEF ActiveQueue, QueueOK
  <1>10. Len(outcomes') <= Len(ActiveQueue')
    BY <1>2, <1>3, <1>6, <1>7, <1>9
  <1>11. cache' \in Caches /\ cache'.known <= Len(outcomes')
    <2>1. PICK w : w = Head(W) /\ Acknowledge(w, outcome) /\ w \in Writes
      BY <1>1, <1>2, <1>4 DEF Answer
    <2>2. cache' \in Caches /\ cache'.known = IF cache.known = 0 THEN 0 ELSE cache.known - 1
      BY <2>1, AcknowledgeCache
    <2> QED
      BY <1>2, <1>3, <1>6, <1>7, <2>2 DEF QueueOK, Caches
  <1> QED
    BY <1>6, <1>7, <1>8, <1>10, <1>11 DEF QueueOK, UpdateDoc, Caches, Copies, GoodDoc

\* docRef.update.
LEMMA EnqueueQueue ==
    ASSUME QueueOK, AccountIInv, NEW t \in TxIds, NEW k \in Users, NEW data, UpdateDoc(data),
           Enqueue(t, k, data), currentUser \in Users, UNCHANGED <<currentUser, outcomes, cache>>
    PROVE  QueueOK'
  <1>1. PICK W : W = queue[currentUser]
    OBVIOUS
  <1>2. PICK w : w = [id |-> t, key |-> k, data |-> data]
    OBVIOUS
  <1>3. w \in Writes
    BY <1>2 DEF Writes, UpdateDoc, GoodDoc
  <1>4. W \in Seq(Writes) /\ outcomes \in Seq({"ok", "notFound"})
    BY <1>1 DEF QueueOK
  <1>5. Append(W, w) \in Seq(Writes) /\ Len(Append(W, w)) = Len(W) + 1
    BY <1>3, <1>4
  <1>6. queue' = [queue EXCEPT ![currentUser] = Append(W, w)]
    BY <1>1, <1>2 DEF Enqueue, QueueOK
  <1>7. queue' \in [Users -> Seq(Writes)]
    BY <1>5, <1>6 DEF QueueOK
  <1>8. ActiveQueue = W /\ ActiveQueue' = Append(W, w)
    BY <1>1, <1>6, NoUserAssumption DEF ActiveQueue, QueueOK
  <1>9. Len(outcomes') <= Len(ActiveQueue')
    BY <1>4, <1>5, <1>8 DEF QueueOK
  <1> QED
    BY <1>4, <1>7, <1>9 DEF QueueOK, UpdateDoc, Caches, Copies, GoodDoc

\* The stream is closed, or breaks; or nothing happens to it.
LEMMA QuietQueue ==
    ASSUME QueueOK, AccountIInv, AccountIInv', UNCHANGED queue,
           \/ UNCHANGED <<outcomes, cache, currentUser>>
           \/ /\ cache' \in Caches /\ cache'.known <= Len(outcomes')
              /\ outcomes' = <<>> \/ UNCHANGED <<outcomes, currentUser>>
    PROVE  QueueOK'
  <1>1. queue' \in [Users -> Seq(Writes)]
    BY DEF QueueOK
  <1>2. ActiveQueue' \in Seq(Writes)
    BY <1>1 DEF ActiveQueue, AccountIInv, AccountTypeOK
  <1>3. cache' \in Caches /\ cache'.known <= Len(outcomes')
    BY DEF QueueOK
  <1>4. outcomes' \in Seq({"ok", "notFound"}) /\ Len(outcomes') <= Len(ActiveQueue')
    <2>1. CASE outcomes' = <<>>
      <3>1. Len(outcomes') = 0 /\ outcomes' \in Seq({"ok", "notFound"})
        BY <2>1
      <3>2. Len(ActiveQueue') \in Nat
        BY <1>2
      <3> QED
        BY <3>1, <3>2
    <2>2. CASE UNCHANGED <<outcomes, currentUser>>
      BY <2>2 DEF QueueOK, ActiveQueue
    <2> QED
      BY <2>1, <2>2
  <1> QED
    BY <1>1, <1>3, <1>4 DEF QueueOK, UpdateDoc, Caches, Copies, GoodDoc

-----------------------------------------------------------------------------
(***************************************************************************)
(* Instances and operations grow older: what an operation once referred to *)
(* stays.                                                                  *)
(***************************************************************************)
HomesAge ==
    /\ currentUser \in accounts => currentUser' \in accounts'
    /\ \A h \in Homes : Born(h) =>
        /\ Born(h)' /\ home'[h].user = home[h].user
        /\ home'[h].overlapped = home[h].overlapped

ScreensAge ==
    /\ HomesAge
    /\ \A h \in Homes : Visited(h) => Visited(h)' /\ verify'[h].user = verify[h].user
    /\ \A r \in Records : Opened(r) =>
        Opened(r)' /\ record'[r].home = record[r].home /\ record'[r].user = record[r].user

JobsAge ==
    \A t \in TxIds :
        /\ job[t].kind # "none" => job'[t].kind = job[t].kind /\ job'[t].owner = job[t].owner
        /\ job[t].key \in Users => job'[t].key = job[t].key

\* What every step of the app respects.
AppAges == ScreensAge /\ JobsAge /\ BackendGrows

\* No account step takes a HomeMain back, or signs out.
LEMMA AccountAges ==
    ASSUME AccountIInv, [AccountNext]_accountVars
    PROVE  HomesAge
  <1>1. AccountTypeOK /\ RequestsNameUsers /\ KnownAccountOnly
    BY DEF AccountIInv
  <1>2. CASE AuthStep
    BY <1>1, <1>2 DEF AuthStep, Press, AuthAccepted, AuthRejected, Registered, NavigateIgnored,
                      HomesAge, Born
  <1>3. ASSUME NEW q \in Requests, NEW h \in Homes, Navigate(q, h) PROVE HomesAge
    BY <1>1, <1>3 DEF Navigate, HomesAge, Born, AccountTypeOK
  <1>4. CASE SwipeBack
    <2>1. route \in Homes
      BY <1>1, <1>4 DEF AccountTypeOK, SwipeBack
    <2>2. PICK x : x = [home[route] EXCEPT !.status = "gone"]
      OBVIOUS
    <2>3. x.status = "gone" /\ x.user = home[route].user /\ x.overlapped = home[route].overlapped
      BY <1>1, <2>1, <2>2 DEF AccountTypeOK
    <2>4. home' = [home EXCEPT ![route] = x] /\ UNCHANGED <<currentUser, accounts>>
      BY <1>1, <1>4, <2>1, <2>2 DEF SwipeBack, AccountTypeOK
    <2> QED
      BY <1>1, <2>1, <2>3, <2>4 DEF HomesAge, Born, AccountTypeOK
  <1>5. CASE RestartAccount
    <2>1. accounts \subseteq accounts' /\ UNCHANGED currentUser
      BY <1>5 DEF RestartAccount
    <2>2. \A h \in Homes : home'[h] = IF Mounted(h) THEN [home[h] EXCEPT !.status = "gone"]
                                      ELSE home[h]
      BY <1>5 DEF RestartAccount
    <2>3. ASSUME NEW h \in Homes
          PROVE  LET x == [home[h] EXCEPT !.status = "gone"] IN
                 x.status = "gone" /\ x.user = home[h].user /\ x.overlapped = home[h].overlapped
      BY <1>1 DEF AccountTypeOK
    <2> QED
      BY <2>1, <2>2, <2>3 DEF HomesAge, Born
  <1>6. CASE UNCHANGED accountVars
    BY <1>6 DEF accountVars, HomesAge, Born
  <1> QED
    BY <1>2, <1>3, <1>4, <1>5, <1>6 DEF AccountNext

\* Every step of the app is, for the account, one of its steps or none.
LEMMA AppAccountStep ==
    ASSUME [Next]_vars
    PROVE  [AccountNext]_accountVars
  BY DEF Next, vars, Auth, MountHome, LeaveHome, Restart, Transact, AccountNext, accountVars

LEMMA BornStaysSignedIn ==
    ASSUME AccountIInv, AccountIInv', BornSignedIn, [AccountNext]_accountVars
    PROVE  BornSignedIn'
  <1>1. HomesAge
    BY AccountAges
  <1>2. ASSUME NEW h \in Homes, ~Born(h), Born(h)' PROVE Mounted(h)'
    <2>1. AccountTypeOK
      BY DEF AccountIInv
    <2>2. CASE AuthStep
      BY <2>2, <1>2 DEF AuthStep, Press, AuthAccepted, AuthRejected, Registered, NavigateIgnored,
                        Born
    <2>3. ASSUME NEW q \in Requests, NEW g \in Homes, Navigate(q, g) PROVE Mounted(h)'
      BY <2>1, <2>3, <1>2 DEF Navigate, Born, Mounted, AccountTypeOK
    <2>4. CASE SwipeBack
      BY <2>1, <2>4, <1>2 DEF SwipeBack, Born, Mounted, AccountTypeOK
    <2>5. CASE RestartAccount
      BY <2>1, <2>5, <1>2 DEF RestartAccount, Born, Mounted, AccountTypeOK
    <2>6. CASE UNCHANGED accountVars
      BY <2>6, <1>2 DEF accountVars, Born
    <2> QED
      BY <2>2, <2>3, <2>4, <2>5, <2>6 DEF AccountNext
  <1>3. ASSUME NEW h \in Homes, Born(h)'
        PROVE  currentUser' \in accounts' /\ home'[h].user \in Users
    <2>1. CASE Born(h)
      BY <1>1, <2>1 DEF BornSignedIn, HomesAge
    <2>2. CASE ~Born(h)
      <3>1. Mounted(h)'
        BY <1>2, <1>3, <2>2
      <3> QED
        BY <3>1 DEF AccountIInv, HomeIsSignedIn, AccountTypeOK
    <2> QED
      BY <2>1, <2>2
  <1> QED
    BY <1>3 DEF BornSignedIn, Born

\* An operation that does not move stays what it is.
LEMMA JobStays ==
    ASSUME ScreensAge, NEW j, NEW p, JobOK(j, p), NEW q, (q = "idle") <=> (p = "idle")
    PROVE  JobOK(j, q)'
  <1>1. JobOf(j) => JobOf(j)'
    <2>1. j.owner \in Homes /\ Born(j.owner) => Born(j.owner)' /\ home'[j.owner].user = home[j.owner].user
      BY DEF ScreensAge, HomesAge
    <2>2. Visited(j.owner) => Visited(j.owner)' /\ verify'[j.owner].user = verify[j.owner].user
      BY DEF ScreensAge, Visited
    <2>3. Opened(j.owner) => Opened(j.owner)' /\ record'[j.owner].user = record[j.owner].user
      BY DEF ScreensAge, Opened
    <2>4. GoodDoc(j.data)' <=> GoodDoc(j.data)
      BY DEF GoodDoc
    <2> QED
      BY <2>1, <2>2, <2>3, <2>4 DEF JobOf
  <1> QED
    BY <1>1 DEF JobOK

\* One operation moves.
LEMMA JobMoves ==
    ASSUME JobsOK, ScreensAge, DOMAIN tx = TxIds, NEW t \in TxIds,
           \A s \in TxIds \ {t} : (tx'[s].phase = "idle") <=> (tx[s].phase = "idle"),
           NEW j, job' = [job EXCEPT ![t] = j], NEW p, p = tx'[t].phase, JobOK(j, p)'
    PROVE  JobsOK' /\ job'[t] = j /\ \A s \in TxIds \ {t} : job'[s] = job[s]
  <1>1. DOMAIN job' = TxIds /\ job'[t] = j /\ \A s \in TxIds \ {t} : job'[s] = job[s]
    BY DEF JobsOK
  <1>2. JobOK(job[t], tx[t].phase)'
    BY <1>1
  <1>3. ASSUME NEW s \in TxIds \ {t} PROVE JobOK(job[s], tx[s].phase)'
    <2>1. PICK i, q, r : i = job[s] /\ q = tx[s].phase /\ r = tx'[s].phase
      OBVIOUS
    <2>2. JobOK(i, q) /\ ((r = "idle") <=> (q = "idle"))
      BY <2>1 DEF JobsOK
    <2>3. JobOK(i, r)'
      BY <2>2, JobStays
    <2> QED
      BY <1>1, <2>1, <2>3
  <1> QED
    BY <1>1, <1>2, <1>3 DEF JobsOK

\* None moves.
LEMMA JobsRest ==
    ASSUME JobsOK, ScreensAge, UNCHANGED job,
           \A s \in TxIds : (tx'[s].phase = "idle") <=> (tx[s].phase = "idle")
    PROVE  JobsOK'
  <1>1. ASSUME NEW s \in TxIds PROVE JobOK(job[s], tx[s].phase)'
    <2>1. PICK i, q, r : i = job[s] /\ q = tx[s].phase /\ r = tx'[s].phase
      OBVIOUS
    <2>2. JobOK(i, q) /\ ((r = "idle") <=> (q = "idle"))
      BY <2>1 DEF JobsOK
    <2>3. JobOK(i, r)'
      BY <2>2, JobStays
    <2> QED
      BY <2>1, <2>3
  <1> QED
    BY <1>1 DEF JobsOK

\* Screens that a step leaves alone.
LEMMA InfoRests ==
    ASSUME InfoOK, UNCHANGED infoState, \A h \in Homes : Born(h)' <=> Born(h)
    PROVE  InfoOK'
  BY DEF InfoOK, FormDoc, GoodDoc

LEMMA VerifyRests ==
    ASSUME VerifyOK, UNCHANGED verifyVars, HomesAge
    PROVE  VerifyOK'
  BY DEF VerifyOK, verifyVars, HomesAge, Visited

LEMMA RecordRests ==
    ASSUME RecordOK, UNCHANGED record,
           \A h \in Homes : Visited(h) => Visited(h)'
    PROVE  RecordOK'
  <1>1. \A r \in Records : Opened(r) => Visited(record[r].home)'
    BY DEF RecordOK, Visited
  <1> QED
    BY <1>1 DEF RecordOK, Opened

\* The token behind a green button.
StoredFor(h, kind, f) ==
    \/ verify[h].user # NoUser /\ HasField(verify[h].user, f)
    \/ \E t \in TxIds : /\ job[t].kind = kind
                        /\ job[t].owner = h
                        /\ job[t].key # NoUser
                        /\ HasField(job[t].key, f)

LEMMA VerifiedMeans ==
    VerifiedIsStored <=>
        \A h \in Homes :
            /\ verify[h].facebookbutton => StoredFor(h, "facebook", "facebookToken")
            /\ verify[h].linkdinbutton => StoredFor(h, "linkedin", "linkdintoken")
  BY DEF VerifiedIsStored, StoredFor

\* It stays, whatever happens to operations and documents.
LEMMA StoredStays ==
    ASSUME ServerOK, BackendGrows, VerifyOK, JobsOK, JobsAge,
           NEW h \in Homes, Visited(h) => verify'[h].user = verify[h].user,
           NEW kind \in {"facebook", "linkedin"}, NEW f, StoredFor(h, kind, f)
    PROVE  StoredFor(h, kind, f)'
  <1>1. CASE verify[h].user # NoUser /\ HasField(verify[h].user, f)
    <2>1. PICK u : u = verify[h].user
      OBVIOUS
    <2>2. u \in Keys /\ verify'[h].user = u
      BY <1>1, <2>1, KeysAreUids DEF VerifyOK, Unborn
    <2>3. HasField(u, f)'
      BY <1>1, <2>1, <2>2, FieldStays
    <2>4. HasField(verify[h].user, f)'
      BY <2>2, <2>3
    <2> QED
      BY <1>1, <2>1, <2>2, <2>4 DEF StoredFor
  <1>2. CASE \E t \in TxIds : /\ job[t].kind = kind /\ job[t].owner = h
                              /\ job[t].key # NoUser /\ HasField(job[t].key, f)
    <2>1. PICK t \in TxIds : /\ job[t].kind = kind /\ job[t].owner = h
                             /\ job[t].key # NoUser /\ HasField(job[t].key, f)
      BY <1>2
    <2>2. PICK u : u = job[t].key
      OBVIOUS
    <2>3. u \in Users
      BY <2>1, <2>2 DEF JobsOK, JobOK
    <2>4. job'[t].kind = kind /\ job'[t].owner = h /\ job'[t].key = u
      BY <2>1, <2>2, <2>3 DEF JobsAge
    <2>5. HasField(u, f)'
      BY <2>1, <2>2, <2>3, FieldStays, KeysAreUids
    <2>6. HasField(job[t].key, f)'
      BY <2>4, <2>5
    <2> QED
      BY <2>1, <2>2, <2>4, <2>6 DEF StoredFor
  <1> QED
    BY <1>1, <1>2 DEF StoredFor

\* A step that turns a button green only where the token is stored.
LEMMA VerifiedStays ==
    ASSUME ServerOK, BackendGrows, VerifyOK, JobsOK, JobsAge, VerifiedIsStored,
           \A h \in Homes :
              /\ Visited(h) => verify'[h].user = verify[h].user
              /\ verify'[h].facebookbutton =>
                    verify[h].facebookbutton \/ StoredFor(h, "facebook", "facebookToken")
              /\ verify'[h].linkdinbutton =>
                    verify[h].linkdinbutton \/ StoredFor(h, "linkedin", "linkdintoken")
    PROVE  VerifiedIsStored'
  <1>1. ASSUME NEW h \in Homes
        PROVE  /\ verify'[h].facebookbutton => StoredFor(h, "facebook", "facebookToken")'
               /\ verify'[h].linkdinbutton => StoredFor(h, "linkedin", "linkdintoken")'
    <2>1. /\ verify[h].facebookbutton => StoredFor(h, "facebook", "facebookToken")
          /\ verify[h].linkdinbutton => StoredFor(h, "linkedin", "linkdintoken")
      BY VerifiedMeans
    <2>2. /\ StoredFor(h, "facebook", "facebookToken") => StoredFor(h, "facebook", "facebookToken")'
          /\ StoredFor(h, "linkedin", "linkdintoken") => StoredFor(h, "linkedin", "linkdintoken")'
      BY StoredStays
    <2> QED
      BY <2>1, <2>2
  <1> QED
    BY <1>1 DEF VerifiedIsStored, StoredFor

\* Disabled buttons, and what explains them.
Fetching(h) == VerifyMounted(h) /\ verify[h].isFetching = Yes

Locating(t, h) ==
    job[t].kind = "location" /\ job[t].owner = h /\ job[t].stage \in {"position", "write"}

LEMMA FetchingMeans ==
    FetchingIsExplained <=>
        \A h \in Homes : Fetching(h) => verify[h].stuck \/ \E t \in TxIds : Locating(t, h)
  BY DEF FetchingIsExplained, Fetching, Locating

\* A step that disables nothing and ends no location, except one that releases
\* the buttons it had disabled.
LEMMA FetchingStays ==
    ASSUME FetchingIsExplained,
           \A h \in Homes : Fetching(h)' =>
              \/ verify'[h].stuck
              \/ /\ Fetching(h)
                 /\ verify[h].stuck => verify'[h].stuck
                 /\ \A t \in TxIds : Locating(t, h) => Locating(t, h)'
    PROVE  FetchingIsExplained'
  <1>1. ASSUME NEW h \in Homes, Fetching(h)'
        PROVE  verify'[h].stuck \/ \E t \in TxIds : Locating(t, h)'
    BY <1>1, FetchingMeans
  <1> QED
    BY <1>1 DEF FetchingIsExplained, Fetching, Locating

-----------------------------------------------------------------------------
(***************************************************************************)
(* The steps.  A step outside the screens, or one that leaves              *)
(* VerifyScreen alone, is quiet.                                           *)
(***************************************************************************)
ScreensOK == InfoOK /\ VerifyOK /\ RecordOK

\* Nothing of what VerifyScreen shows changes, and no location operation ends.
Quiet ==
    /\ UNCHANGED verifyVars
    /\ \A h \in Homes : Mounted(h)' => Mounted(h) \/ ~Visited(h)
    /\ \A t \in TxIds, h \in Homes : Locating(t, h) => Locating(t, h)'

LEMMA QuietVerify ==
    ASSUME AppIInv, Quiet, HomesAge, BackendGrows, JobsAge
    PROVE  VerifyOK' /\ VerifiedIsStored' /\ FetchingIsExplained'
  <1>1. VerifyOK'
    BY VerifyRests DEF AppIInv, Quiet
  <1>2. VerifiedIsStored'
    BY VerifiedStays DEF AppIInv, Quiet, verifyVars, FsOK
  <1>3. \A h \in Homes : Fetching(h)' => Fetching(h)
    BY DEF Fetching, VerifyMounted, Quiet, verifyVars, Visited
  <1>4. FetchingIsExplained'
    BY <1>3, FetchingStays DEF AppIInv, Quiet, verifyVars
  <1> QED
    BY <1>1, <1>2, <1>4

\* When no operation moves.
LEMMA RestingJobs ==
    ASSUME UNCHANGED job
    PROVE  /\ JobsAge /\ KeysKept
           /\ \A t \in TxIds, h \in Homes : Locating(t, h) => Locating(t, h)'
  BY DEF JobsAge, KeysKept, Locating

\* When the screens of the app stay as they are.
LEMMA RestingScreens ==
    ASSUME HomesAge, UNCHANGED <<home, verifyVars, record>>
    PROVE  /\ ScreensAge
           /\ \A h \in Homes : Mounted(h)' <=> Mounted(h)
           /\ \A h \in Homes : Born(h)' <=> Born(h)
           /\ \A h \in Homes : Visited(h)' <=> Visited(h)
  BY DEF ScreensAge, Born, Mounted, Visited, Opened, verifyVars

SamePhases == \A s \in TxIds : (tx'[s].phase = "idle") <=> (tx[s].phase = "idle")

\* A step of SDK and backend that no screen notices.
LEMMA UnnoticedIInv ==
    ASSUME AppIInv, [AccountNext]_accountVars, UNCHANGED <<home, job, screenVars>>,
           FsOK', BackendGrows, SamePhases, QueueOK'
    PROVE  AppIInv' /\ AppAges
  <1>1. UNCHANGED <<home, infoState, verifyVars, record>> /\ HomesAge
    BY AccountAges DEF screenVars, AppIInv
  <1>2. /\ ScreensAge
        /\ \A h \in Homes : Mounted(h)' <=> Mounted(h)
        /\ \A h \in Homes : Born(h)' <=> Born(h)
        /\ \A h \in Homes : Visited(h)' <=> Visited(h)
    BY <1>1, RestingScreens
  <1>3. JobsAge /\ Quiet
    BY <1>1, <1>2, RestingJobs DEF Quiet
  <1>4. JobsOK'
    BY <1>2, JobsRest DEF AppIInv, SamePhases
  <1>5. VerifyOK' /\ VerifiedIsStored' /\ FetchingIsExplained'
    BY <1>1, <1>2, <1>3, QuietVerify
  <1>6. InfoOK'
    BY <1>1, <1>2, InfoRests DEF AppIInv
  <1>7. RecordOK'
    BY <1>1, <1>2, RecordRests DEF AppIInv
  <1>8. AccountIInv' /\ BornSignedIn'
    BY NextAccountIInv, BornStaysSignedIn DEF AppIInv
  <1> QED
    BY <1>2, <1>3, <1>4, <1>5, <1>6, <1>7, <1>8 DEF AppIInv, AppAges

\* Transactions between the blocks, and the write pipeline by itself.
LEMMA TransactIInv ==
    ASSUME AppIInv, Transact
    PROVE  AppIInv' /\ AppAges
  <1>1. UNCHANGED <<accountVars, job, pipeVars, screenVars>>
    BY DEF Transact
  <1>2. FsOK' /\ BackendGrows
    <2>1. CASE RpcNext
      BY <1>1, <2>1, RpcOK DEF AppIInv
    <2>2. ASSUME NEW t \in TxIds, GetStep(t) PROVE FsOK' /\ BackendGrows
      BY <1>1, <2>2, GetReads, NoGrowth DEF AppIInv, GetStep, FsOK, Get
    <2>3. ASSUME NEW t \in TxIds, GetFails(t) PROVE FsOK' /\ BackendGrows
      BY <1>1, <2>3, BlockThrows, NoGrowth DEF AppIInv, GetFails, FsOK, BlockFails
    <2> QED
      BY <2>1, <2>2, <2>3 DEF Transact
  <1>3. SamePhases
    <2>0. DOMAIN tx = TxIds /\ \A s \in TxIds : IsTx(tx[s])
      BY DEF AppIInv, FsOK, ClientOK, TxOK
    <2>1. ASSUME NEW t \in TxIds, ReplyReceived(t) \/ RpcFails(t)
          PROVE  SamePhases
      BY <2>0, <2>1, RetryTx, BlankTx DEF ReplyReceived, RpcFails, SamePhases
    <2>2. ASSUME NEW m \in commits, BackendCommit(m) \/ BackendRefuse(m)
          PROVE  SamePhases
      BY <2>0, <2>2 DEF BackendCommit, BackendRefuse, Answered, IsTx, SamePhases
    <2>3. ASSUME NEW t \in TxIds, GetStep(t)
          PROVE  SamePhases
      BY <2>0, <2>3 DEF GetStep, Get, RecordVersion, IsTx, SamePhases
    <2>4. ASSUME NEW t \in TxIds, GetFails(t)
          PROVE  SamePhases
      BY <2>0, <2>4 DEF GetFails, BlockFails, Transaction, SamePhases
    <2> QED
      BY <2>1, <2>2, <2>3, <2>4 DEF Transact, RpcNext
  <1>4. AccountIInv'
    BY <1>1, NextAccountIInv DEF AppIInv
  <1>5. QueueOK'
    BY <1>1, <1>4, QuietQueue DEF AppIInv, pipeVars, accountVars
  <1> QED
    BY <1>1, <1>2, <1>3, <1>5, UnnoticedIInv DEF accountVars

\* The write pipeline by itself.
LEMMA PipelineIInv ==
    ASSUME AppIInv, PipelineNext, UNCHANGED <<accountVars, screenVars>>
    PROVE  AppIInv' /\ AppAges
  <1>1. AccountIInv' /\ UNCHANGED <<currentUser, accounts>>
    BY NextAccountIInv DEF AppIInv, accountVars
  <1>2. CASE DeliverWrite
    <2>1. UNCHANGED <<queue, cache, tx, job>> /\ Len(outcomes') = Len(outcomes) + 1
      BY <1>2 DEF DeliverWrite, AppIInv, QueueOK
    <2>2. FsOK' /\ BackendGrows /\ outcomes' \in Seq({"ok", "notFound"})
          /\ Len(outcomes') <= Len(ActiveQueue)
      BY <1>2, DeliverGrows DEF AppIInv
    <2>3. QueueOK'
      BY <1>1, <2>1, <2>2
         DEF AppIInv, QueueOK, ActiveQueue, UpdateDoc, Caches, Copies, GoodDoc
    <2> QED
      BY <2>1, <2>2, <2>3, UnnoticedIInv DEF SamePhases, accountVars
  <1>3. ASSUME NEW t \in TxIds, AnswerUnheard(t) PROVE AppIInv' /\ AppAges
    <2>1. UNCHANGED <<fsVars, job>> /\ Answer(t, Head(outcomes))
      BY <1>3 DEF AnswerUnheard
    <2>2. PICK a : Answer(t, a)
      BY <2>1
    <2>3. QueueOK'
      BY <1>1, <2>2, AnswerQueue DEF AppIInv
    <2>4. FsOK' /\ BackendGrows
      BY <2>1, FsFrame, RestingJobs, NoGrowth DEF AppIInv, FsOK, fsVars, backendVars
    <2> QED
      BY <2>1, <2>3, <2>4, UnnoticedIInv DEF SamePhases, fsVars, accountVars
  <1>4. CASE StreamBreaks
    <2>1. /\ UNCHANGED <<fsVars, job, queue>> /\ outcomes' = <<>>
          /\ cache' \in Caches /\ cache'.known = 0
      BY <1>4 DEF StreamBreaks, AppIInv, QueueOK, Caches
    <2>2. QueueOK'
      BY <1>1, <2>1, QuietQueue DEF AppIInv
    <2>3. FsOK' /\ BackendGrows
      BY <2>1, FsFrame, RestingJobs, NoGrowth DEF AppIInv, FsOK, fsVars, backendVars
    <2> QED
      BY <2>1, <2>2, <2>3, UnnoticedIInv DEF SamePhases, fsVars, accountVars
  <1>5. CASE WatchSnapshot
    <2>1. UNCHANGED <<fsVars, job, queue, outcomes>> /\ Snapshot
      BY <1>5 DEF WatchSnapshot
    <2>2. QueueOK'
      BY <1>1, <2>1, SnapshotCache, QuietQueue DEF AppIInv, FsOK
    <2>3. FsOK' /\ BackendGrows
      BY <2>1, FsFrame, RestingJobs, NoGrowth DEF AppIInv, FsOK, fsVars, backendVars
    <2> QED
      BY <2>1, <2>2, <2>3, UnnoticedIInv DEF SamePhases, fsVars, accountVars
  <1> QED
    BY <1>2, <1>3, <1>4, <1>5 DEF PipelineNext

\* Nothing of the SDK changes.
LEMMA IdleFs ==
    ASSUME AppIInv, UNCHANGED fsVars
    PROVE  BackendGrows /\ SamePhases
  BY NoGrowth DEF AppIInv, FsOK, fsVars, backendVars, SamePhases

\* Sign-in and sign-up.
LEMMA AuthIInv ==
    ASSUME AppIInv, Auth
    PROVE  AppIInv' /\ AppAges
  <1>1. UNCHANGED <<fsVars, job, screenVars>> /\ AuthStep
    BY DEF Auth
  <1>2. [AccountNext]_accountVars /\ UNCHANGED home
    BY <1>1 DEF AccountNext, AuthStep, Press, AuthAccepted, AuthRejected, Registered, NavigateIgnored
  <1>3. AccountIInv'
    BY <1>2, NextAccountIInv DEF AppIInv
  <1>4. /\ UNCHANGED queue
        /\ \/ UNCHANGED <<outcomes, cache, currentUser>>
           \/ outcomes' = <<>> /\ cache' \in Caches /\ cache'.known = 0
    <2>1. QueueOK /\ cache.listening \in BOOLEAN
      BY DEF AppIInv, QueueOK, Caches
    <2> QED
      BY <2>1, CloseCache DEF Auth, pipeVars
  <1>5. QueueOK'
    BY <1>3, <1>4, QuietQueue DEF AppIInv
  <1>6. FsOK'
    BY <1>1, FsFrame, RestingJobs DEF AppIInv
  <1> QED
    BY <1>1, <1>2, <1>5, <1>6, IdleFs, UnnoticedIInv

\* RecordScreens that are unmounted keep what they hold.
LEMMA RecordsLeave ==
    ASSUME RecordOK, HomesAge, UNCHANGED verifyVars, DOMAIN record' = Records,
           \A r \in Records : \/ record'[r] = record[r]
                              \/ /\ RecordMounted(r)
                                 /\ record'[r] = [record[r] EXCEPT !.status = "gone"]
    PROVE  RecordOK' /\ ScreensAge
  <1>1. \A h : Visited(h)' <=> Visited(h)
    BY DEF Visited, verifyVars
  <1>2. ASSUME NEW r \in Records
        PROVE  /\ record'[r] = [status |-> record'[r].status, home |-> record'[r].home,
                                user |-> record'[r].user, videos |-> record'[r].videos,
                                late |-> record'[r].late]
               /\ record'[r].videos \in Seq(Clips)
               /\ record'[r].home = record[r].home /\ record'[r].user = record[r].user
               /\ Opened(r)' <=> Opened(r)
               /\ Opened(r) => Visited(record[r].home) /\ record[r].user \in Users
    <2>1. PICK x : x = record[r]
      OBVIOUS
    <2>2. /\ x = [status |-> x.status, home |-> x.home, user |-> x.user, videos |-> x.videos,
                  late |-> x.late]
          /\ x.videos \in Seq(Clips)
          /\ Opened(r) => Visited(x.home) /\ x.user \in Users
      BY <2>1 DEF RecordOK
    <2>3. record'[r] = x \/ (x.status = "mounted" /\ record'[r] = [x EXCEPT !.status = "gone"])
      BY <2>1 DEF RecordMounted
    <2> QED
      BY <2>1, <2>2, <2>3 DEF Opened
  <1>3. ASSUME NEW r \in Records, Opened(r)' PROVE Visited(record[r].home)'
    <2>1. PICK g : g = record[r].home
      OBVIOUS
    <2>2. Visited(g)' /\ record'[r].home = g
      BY <1>1, <1>2, <1>3, <2>1
    <2> QED
      BY <2>2
  <1>4. RecordOK'
    BY <1>2, <1>3 DEF RecordOK
  <1> QED
    BY <1>1, <1>2, <1>4 DEF ScreensAge, verifyVars

\* A swipe pops HomeMain and its screens.
LEMMA LeaveHomeIInv ==
    ASSUME AppIInv, LeaveHome
    PROVE  AppIInv' /\ AppAges
  <1>1. /\ SwipeBack /\ UnmountRecords(route)
        /\ UNCHANGED <<fsVars, job, infoState, pipeVars, verifyVars>>
    BY DEF LeaveHome
  <1>2. [AccountNext]_accountVars
    BY <1>1 DEF AccountNext
  <1>3. AccountIInv' /\ BornSignedIn' /\ HomesAge
    BY <1>2, NextAccountIInv, BornStaysSignedIn, AccountAges DEF AppIInv
  <1>4. route \in Homes /\ home \in [Homes -> [status : {"unborn", "mounted", "gone"},
                           user : Users \cup {NoUser}, overlapped : BOOLEAN]]
        /\ Mounted(route)
    BY <1>1 DEF AppIInv, AccountIInv, AccountTypeOK, SwipeBack
  <1>5. \A h \in Homes : (Born(h)' <=> Born(h)) /\ (Mounted(h)' => Mounted(h))
    BY <1>1, <1>4 DEF SwipeBack, Born, Mounted
  <1>6. /\ DOMAIN record' = Records
        /\ \A r \in Records : \/ record'[r] = record[r]
                              \/ /\ RecordMounted(r)
                                 /\ record'[r] = [record[r] EXCEPT !.status = "gone"]
    BY <1>1 DEF UnmountRecords
  <1>7. RecordOK' /\ ScreensAge
    BY <1>1, <1>3, <1>6, RecordsLeave DEF AppIInv
  <1>8. FsOK' /\ BackendGrows /\ SamePhases
    BY <1>1, FsFrame, RestingJobs, IdleFs DEF AppIInv
  <1>9. JobsAge /\ Quiet
    BY <1>1, <1>5, RestingJobs DEF Quiet
  <1>10. VerifyOK' /\ VerifiedIsStored' /\ FetchingIsExplained'
    BY <1>3, <1>8, <1>9, QuietVerify
  <1>11. JobsOK'
    BY <1>1, <1>7, <1>8, JobsRest DEF AppIInv, SamePhases
  <1>12. InfoOK'
    BY <1>1, <1>5, InfoRests DEF AppIInv
  <1>13. QueueOK'
    BY <1>1, <1>3, QuietQueue DEF AppIInv, pipeVars, SwipeBack
  <1> QED
    BY <1>3, <1>7, <1>8, <1>9, <1>10, <1>11, <1>12, <1>13 DEF AppIInv, AppAges

\* The process is killed: transactions are lost, operations are over, and no
\* screen is mounted.
LEMMA RestartIInv ==
    ASSUME AppIInv, Restart
    PROVE  AppIInv' /\ AppAges
  <1>1. /\ RestartAccount /\ tx' = Restarted /\ RestartJobs
        /\ StreamCloses(FALSE)
        /\ UNCHANGED <<backendVars, commits, infoState, verifyVars>>
    BY DEF Restart
  <1>2. [AccountNext]_accountVars
    BY <1>1 DEF AccountNext
  <1>3. AccountIInv' /\ BornSignedIn' /\ HomesAge
    BY <1>2, NextAccountIInv, BornStaysSignedIn, AccountAges DEF AppIInv
  <1>4. \A h \in Homes : (Born(h)' <=> Born(h)) /\ ~Mounted(h)'
    BY <1>1 DEF AppIInv, AccountIInv, AccountTypeOK, RestartAccount, Born, Mounted
  <1>5. /\ DOMAIN record' = Records
        /\ \A r \in Records : \/ record'[r] = record[r]
                              \/ /\ RecordMounted(r)
                                 /\ record'[r] = [record[r] EXCEPT !.status = "gone"]
    BY DEF Restart
  <1>6. RecordOK' /\ ScreensAge
    BY <1>1, <1>3, <1>5, RecordsLeave DEF AppIInv
  <1>7. /\ DOMAIN tx' = TxIds
        /\ \A t \in TxIds : \/ tx'[t] = tx[t] /\ tx[t].phase \notin {"running", "committing"}
                            \/ /\ tx[t].phase \in {"running", "committing"}
                               /\ tx'[t] = Transaction("lost", tx[t].retries)
    BY <1>1 DEF Restarted
  <1>8. /\ DOMAIN job' = TxIds
        /\ \A t \in TxIds :
             \/ job'[t] = job[t] /\ job[t].stage \in {"unused", "done", "acknowledged"}
             \/ /\ job[t].stage \notin {"unused", "done", "acknowledged"}
                /\ job'[t] = [job[t] EXCEPT !.stage = "done", !.data = Null]
    BY <1>1 DEF RestartJobs
  <1>9. ASSUME NEW t \in TxIds
        PROVE  /\ job'[t].kind = job[t].kind /\ job'[t].owner = job[t].owner
               /\ job'[t].key = job[t].key
    <2>1. PICK i : i = job[t]
      OBVIOUS
    <2>2. i = [kind |-> i.kind, owner |-> i.owner, key |-> i.key, stage |-> i.stage,
               data |-> i.data]
      BY <2>1 DEF AppIInv, JobsOK, JobOK
    <2>3. job'[t] = i \/ job'[t] = [i EXCEPT !.stage = "done", !.data = Null]
      BY <1>8, <2>1
    <2> QED
      BY <2>1, <2>2, <2>3
  <1>10. JobsAge /\ KeysKept
    BY <1>9 DEF JobsAge, KeysKept
  <1>11. SamePhases /\ NoneBecomesIdle
    BY <1>7, BlankTx DEF SamePhases, NoneBecomesIdle
  <1>12. BackendGrows /\ ServerOK' /\ RequestsOK'
    BY <1>1, <1>10, <1>11, NoGrowth, ServerGrows, RequestsStay DEF AppIInv, FsOK
  <1>13. ClientOK'
    <2>1. ASSUME NEW t \in TxIds PROVE TxOK(t)'
      <3>1. CASE tx'[t] = tx[t]
        BY <1>10, <1>12, <3>1, TxStays DEF AppIInv, FsOK, ClientOK
      <3>2. CASE tx'[t] = Transaction("lost", tx[t].retries)
        BY <3>2, BlankTx DEF TxOK, IsTx, Blank
      <3> QED
        BY <1>7, <3>1, <3>2
    <2> QED
      BY <1>7, <2>1 DEF ClientOK
  <1>14. AnswersOK'
    <2>1. ASSUME NEW t \in TxIds, Confirmed(tx'[t]) PROVE TokenStored(job[t])'
      <3>1. Confirmed(tx[t])
        BY <1>7, <2>1, BlankTx DEF Confirmed
      <3> QED
        BY <1>10, <1>12, <3>1, TokenStays DEF AppIInv, FsOK, AnswersOK, Confirmed
    <2> QED
      BY <2>1 DEF AnswersOK, Confirmed
  <1>15. JobsOK'
    <2>1. ASSUME NEW t \in TxIds PROVE JobOK(job[t], tx[t].phase)'
      <3>1. PICK i, j, p, q : i = job[t] /\ j = job'[t] /\ p = tx[t].phase /\ q = tx'[t].phase
        OBVIOUS
      <3>2. JobOK(i, p) /\ ((q = "idle") <=> (p = "idle"))
        BY <1>11, <3>1 DEF AppIInv, JobsOK, SamePhases
      <3>3. JobOK(i, q)'
        BY <1>6, <3>2, JobStays
      <3>4. JobOK(j, q)'
        <4>1. CASE j = i
          BY <3>3, <4>1
        <4>2. CASE /\ i.stage \notin {"unused", "done", "acknowledged"}
                   /\ j = [i EXCEPT !.stage = "done", !.data = Null]
          <5>1. /\ j = [kind |-> i.kind, owner |-> i.owner, key |-> i.key, stage |-> "done",
                        data |-> Null]
            BY <3>2, <4>2 DEF JobOK
          <5>2. i.kind \in JobKinds \cap Kinds
            BY <3>2, <4>2 DEF JobOK, NoJob
          <5>3. JobOf(j)'
            BY <3>3, <5>1 DEF JobOK, JobOf
          <5> QED
            BY <3>3, <5>1, <5>2, <5>3 DEF JobOK
        <4> QED
          BY <1>8, <3>1, <4>1, <4>2
      <3> QED
        BY <3>1, <3>4
    <2> QED
      BY <1>8, <2>1 DEF JobsOK
  <1>16. VerifyOK'
    BY <1>1, <1>3, VerifyRests DEF AppIInv
  <1>17. VerifiedIsStored'
    BY <1>1, <1>10, <1>12, VerifiedStays DEF AppIInv, FsOK, verifyVars
  <1>18. FetchingIsExplained'
    BY <1>4 DEF FetchingIsExplained, VerifyMounted
  <1>19. InfoOK'
    BY <1>1, <1>4, InfoRests DEF AppIInv
  <1>20. QueueOK'
    <2>1. outcomes' = <<>> /\ UNCHANGED queue /\ cache' \in Caches /\ cache'.known = 0
      BY <1>1, CloseCache DEF AppIInv
    <2> QED
      BY <1>3, <2>1, QuietQueue DEF AppIInv
  <1> QED
    BY <1>3, <1>6, <1>10, <1>12, <1>13, <1>14, <1>15, <1>16, <1>17, <1>18, <1>19, <1>20
       DEF AppIInv, AppAges, FsOK

\* A new operation takes a free slot; the others do not notice.
LEMMA BeginAges ==
    ASSUME JobsOK, NEW t \in TxIds, NEW kind, NEW owner, NEW key, NEW stage,
           Begin(t, kind, owner, key, stage)
    PROVE  /\ job' = [job EXCEPT ![t] = [kind |-> kind, owner |-> owner, key |-> key,
                                         stage |-> stage, data |-> Null]]
           /\ kind \in Kinds
           /\ tx[t].phase = "idle"
           /\ JobsAge /\ KeysKept
           /\ \A s \in TxIds, h \in Homes : Locating(s, h) => Locating(s, h)'
           /\ \A s \in TxIds \ {t} : job'[s] = job[s]
  <1>1. /\ job' = [job EXCEPT ![t] = [kind |-> kind, owner |-> owner, key |-> key,
                                      stage |-> stage, data |-> Null]]
        /\ kind \in Kinds /\ job[t].stage = "unused"
    BY DEF Begin
  <1>2. job[t] = NoJob /\ tx[t].phase = "idle"
    BY <1>1 DEF JobsOK, JobOK
  <1>3. \A s \in TxIds \ {t} : job'[s] = job[s]
    BY <1>1
  <1>4. job[t].kind = "none" /\ job[t].key \notin Users
    BY <1>2, NoUserAssumption DEF NoJob
  <1>5. JobsAge /\ KeysKept
    BY <1>2, <1>3, <1>4 DEF JobsAge, KeysKept
  <1>6. \A s \in TxIds, h \in Homes : Locating(s, h) => Locating(s, h)'
    BY <1>3, <1>4 DEF Locating
  <1> QED
    BY <1>1, <1>2, <1>3, <1>5, <1>6

\* The same with a transaction.
LEMMA BeginTransactionAges ==
    ASSUME AppIInv, NEW t \in TxIds, NEW kind, NEW owner, NEW key,
           BeginTransaction(t, kind, owner, key)
    PROVE  /\ job' = [job EXCEPT ![t] = [kind |-> kind, owner |-> owner, key |-> key,
                                         stage |-> "transaction", data |-> Null]]
           /\ kind \in Kinds
           /\ tx'[t].phase = "running"
           /\ \A s \in TxIds \ {t} : (tx'[s].phase = "idle") <=> (tx[s].phase = "idle")
           /\ JobsAge
           /\ \A s \in TxIds, h \in Homes : Locating(s, h) => Locating(s, h)'
           /\ FsOK' /\ BackendGrows
  <1>1. Begin(t, kind, owner, key, "transaction") /\ RunTransaction(t)
    BY DEF BeginTransaction
  <1>2. JobsOK /\ FsOK /\ DOMAIN tx = TxIds
    BY DEF AppIInv, FsOK, ClientOK
  <1>3. /\ job' = [job EXCEPT ![t] = [kind |-> kind, owner |-> owner, key |-> key,
                                      stage |-> "transaction", data |-> Null]]
        /\ kind \in Kinds /\ JobsAge
        /\ \A s \in TxIds, h \in Homes : Locating(s, h) => Locating(s, h)'
        /\ \A s \in TxIds \ {t} : job'[s] = job[s]
    BY <1>1, <1>2, BeginAges
  <1>4. FsOK'
    BY <1>1, <1>2, <1>3, TransactionBegins
  <1>5. BackendGrows
    BY <1>1, <1>2, NoGrowth DEF RunTransaction, FsOK
  <1>6. /\ tx'[t].phase = "running"
        /\ \A s \in TxIds \ {t} : (tx'[s].phase = "idle") <=> (tx[s].phase = "idle")
    BY <1>1, <1>2, BlankTx DEF RunTransaction
  <1> QED
    BY <1>3, <1>4, <1>5, <1>6

\* navigate("HomeMain"): the profile tab is mounted and loads.
LEMMA MountHomeIInv ==
    ASSUME AppIInv, NEW q \in Requests, NEW h \in Homes, NEW t \in TxIds, MountHome(q, h, t)
    PROVE  AppIInv' /\ AppAges
  <1>1. /\ Navigate(q, h) /\ InfoMount(h, t)
        /\ UNCHANGED <<queue, outcomes, verifyVars, record>>
    BY DEF MountHome
  <1>2. [AccountNext]_accountVars
    BY <1>1 DEF AccountNext
  <1>3. AccountIInv' /\ BornSignedIn' /\ HomesAge
    BY <1>2, NextAccountIInv, BornStaysSignedIn, AccountAges DEF AppIInv
  <1>4. /\ home \in [Homes -> [status : {"unborn", "mounted", "gone"},
                               user : Users \cup {NoUser}, overlapped : BOOLEAN]]
        /\ currentUser \in Users
    BY <1>1 DEF AppIInv, AccountIInv, AccountTypeOK, AcceptedIsSignedIn, Navigate
  <1>5. /\ ~Born(h) /\ Born(h)' /\ home'[h].user = currentUser
        /\ \A g \in Homes \ {h} : home'[g] = home[g]
    BY <1>1, <1>4 DEF Navigate, Born
  <1>6. BeginTransaction(t, "infoLoad", h, currentUser)
    BY <1>1 DEF InfoMount
  <1>7. PICK u : u = currentUser
    OBVIOUS
  <1>8. PICK j : j = [kind |-> "infoLoad", owner |-> h, key |-> u, stage |-> "transaction",
                      data |-> Null]
    OBVIOUS
  <1>9. /\ job' = [job EXCEPT ![t] = j] /\ "infoLoad" \in Kinds
        /\ tx'[t].phase = "running"
        /\ \A s \in TxIds \ {t} : (tx'[s].phase = "idle") <=> (tx[s].phase = "idle")
        /\ JobsAge
        /\ \A s \in TxIds, g \in Homes : Locating(s, g) => Locating(s, g)'
        /\ FsOK' /\ BackendGrows
    BY <1>6, <1>7, <1>8, BeginTransactionAges
  <1>10. Quiet
    BY <1>1, <1>5, <1>9 DEF Quiet, AppIInv, VerifyOK, Mounted
  <1>11. VerifyOK' /\ VerifiedIsStored' /\ FetchingIsExplained'
    BY <1>3, <1>9, <1>10, QuietVerify
  <1>12. ScreensAge
    BY <1>1, <1>3 DEF ScreensAge, verifyVars, Visited, Opened
  <1>13. RecordOK'
    BY <1>1, <1>12, RecordRests DEF AppIInv, ScreensAge
  <1>14. InfoOK'
    <2>1. infoState' = [infoState EXCEPT ![h] = InfoConstructor(u)] /\ DOMAIN infoState = Homes
      BY <1>1, <1>7 DEF InfoMount, AppIInv, InfoOK
    <2>2. FormDoc(InfoConstructor(u))
      BY <1>4, <1>7, ConstructorDoc
    <2>3. \A g \in Homes \ {h} : infoState'[g] = infoState[g] /\ (Born(g)' <=> Born(g))
      BY <1>5, <2>1 DEF Born
    <2> QED
      BY <1>5, <2>1, <2>2, <2>3 DEF AppIInv, InfoOK, FormDoc, GoodDoc
  <1>15. JobOK(j, "running")'
    BY <1>4, <1>5, <1>7, <1>8, <1>9 DEF JobOK, JobOf, JobKinds
  <1>16. JobsOK'
    BY <1>9, <1>12, <1>15, JobMoves DEF AppIInv, FsOK, ClientOK
  <1>17. QueueOK'
    <2>1. cache' \in Caches /\ cache'.known = cache.known /\ cache.known <= Len(outcomes)
      BY DEF AppIInv, MountHome, QueueOK, Caches
    <2> QED
      BY <1>1, <1>3, <2>1, QuietQueue DEF AppIInv, Navigate
  <1> QED
    BY <1>3, <1>9, <1>11, <1>12, <1>13, <1>14, <1>16, <1>17 DEF AppIInv, AppAges

-----------------------------------------------------------------------------
(***************************************************************************)
(* InfoScreen.                                                             *)
(***************************************************************************)

\* The screens' own steps leave the account alone.
LEMMA SessionRests ==
    ASSUME AppIInv, UNCHANGED accountVars
    PROVE  /\ AccountIInv' /\ BornSignedIn' /\ HomesAge
           /\ UNCHANGED <<home, currentUser, accounts>>
           /\ \A h \in Homes : Mounted(h)' <=> Mounted(h)
           /\ \A h \in Homes : Born(h)' <=> Born(h)
  BY NextAccountIInv, BornStaysSignedIn, AccountAges DEF AppIInv, accountVars, Mounted, Born

LEMMA InfoStepIInv ==
    ASSUME AppIInv, UNCHANGED <<accountVars, pipeVars, verifyVars, record>>,
           FsOK', BackendGrows, JobsOK', JobsAge, InfoOK',
           \A t \in TxIds, h \in Homes : Locating(t, h) => Locating(t, h)'
    PROVE  AppIInv' /\ AppAges
  <1>1. /\ AccountIInv' /\ BornSignedIn' /\ HomesAge
        /\ UNCHANGED <<home, currentUser, accounts>>
        /\ \A h \in Homes : Mounted(h)' <=> Mounted(h)
    BY SessionRests
  <1>2. Quiet
    BY <1>1 DEF Quiet
  <1>3. VerifyOK' /\ VerifiedIsStored' /\ FetchingIsExplained'
    BY <1>1, <1>2, QuietVerify
  <1>4. RecordOK'
    BY RecordRests DEF AppIInv, verifyVars, Visited
  <1>5. QueueOK'
    BY <1>1, QuietQueue DEF AppIInv, pipeVars
  <1>6. ScreensAge
    BY <1>1, RestingScreens
  <1> QED
    BY <1>1, <1>3, <1>4, <1>5, <1>6 DEF AppIInv, AppAges

\* setState on an InfoScreen.
LEMMA SetInfoOK ==
    ASSUME AppIInv, UNCHANGED accountVars, NEW h \in Homes, NEW e \in Docs,
           "user" \in DOMAIN e => e.user \in Users,
           "isFetching" \in DOMAIN e => e.isFetching = No,
           "videos" \in DOMAIN e => e.videos \in Seq(Clips),
           SetInfoState(h, e)
    PROVE  InfoOK'
  <1>1. \A g \in Homes : Born(g)' <=> Born(g)
    BY SessionRests
  <1>2. CASE ~Mounted(h)
    BY <1>1, <1>2, InfoRests DEF AppIInv, SetInfoState
  <1>3. CASE Mounted(h)
    <2>1. Born(h) /\ FormDoc(infoState[h]) /\ DOMAIN infoState = Homes
      BY <1>3 DEF Mounted, Born, AppIInv, InfoOK
    <2>2. PICK d : d = Merge(infoState[h], e)
      OBVIOUS
    <2>3. FormDoc(d)
      BY <2>1, <2>2, FormMerge
    <2>4. infoState' = [infoState EXCEPT ![h] = d]
      BY <1>3, <2>1, <2>2 DEF SetInfoState
    <2>5. infoState'[h] = d /\ \A g \in Homes \ {h} : infoState'[g] = infoState[g]
      BY <2>1, <2>4
    <2> QED
      BY <1>1, <2>1, <2>3, <2>4, <2>5 DEF AppIInv, InfoOK, FormDoc, GoodDoc
  <1> QED
    BY <1>2, <1>3

\* The values the form gives to setState.
LEMMA FormFields ==
    /\ [firstName |-> Text] \in Docs
    /\ \A v \in {Yes, No} : [haveKids |-> v] \in Docs
    /\ [isFetching |-> No] \in Docs
    /\ [logo |-> Picture, isFetching |-> No] \in Docs
  <1>1. /\ [firstName |-> Text] \in [{"firstName"} -> FieldValues]
        /\ \A v \in {Yes, No} : [haveKids |-> v] \in [{"haveKids"} -> FieldValues]
        /\ [isFetching |-> No] \in [{"isFetching"} -> FieldValues]
        /\ [logo |-> Picture, isFetching |-> No] \in [{"logo", "isFetching"} -> FieldValues]
    BY DEF FieldValues
  <1> QED
    BY <1>1, DocsAre DEF FieldNames

\* Typing and picking.
LEMMA EditIInv ==
    ASSUME AppIInv, UNCHANGED <<accountVars, pipeVars, verifyVars, record>>, NEW h \in Homes,
           EditField(h) \/ \E v \in {Yes, No} : PickSmoker(h, v)
    PROVE  AppIInv' /\ AppAges
  <1>1. UNCHANGED <<fsVars, job>>
    BY DEF EditField, PickSmoker
  <1>2. CASE EditField(h)
    <2>1. PICK e : e = [firstName |-> Text]
      OBVIOUS
    <2>2. e \in Docs /\ DOMAIN e = {"firstName"} /\ SetInfoState(h, e)
      BY <1>2, <2>1, FormFields DEF EditField
    <2>3. InfoOK'
      BY <2>2, SetInfoOK
    <2> QED
      BY <1>1, <2>3, FsFrame, RestingJobs, IdleFs, JobsRest, SessionRests, RestingScreens, InfoStepIInv
         DEF AppIInv, SamePhases
  <1>3. ASSUME NEW v \in {Yes, No}, PickSmoker(h, v) PROVE AppIInv' /\ AppAges
    <2>1. PICK e : e = [haveKids |-> v]
      OBVIOUS
    <2>2. e \in Docs /\ DOMAIN e = {"haveKids"} /\ SetInfoState(h, e)
      BY <1>3, <2>1, FormFields DEF PickSmoker
    <2>3. InfoOK'
      BY <2>2, SetInfoOK
    <2> QED
      BY <1>1, <2>3, FsFrame, RestingJobs, IdleFs, JobsRest, SessionRests, RestingScreens, InfoStepIInv
         DEF AppIInv, SamePhases
  <1> QED
    BY <1>2, <1>3

\* An operation ends.
LEMMA JobEnds ==
    ASSUME AppIInv, ScreensAge, UNCHANGED tx, NEW t \in TxIds, job[t].kind # "none",
           GoTo(t, "done")
    PROVE  /\ JobsOK' /\ JobsAge /\ KeysKept
           /\ \A s \in TxIds, h \in Homes : Locating(s, h) => s = t \/ Locating(s, h)'
           /\ job[t].kind # "location" =>
                \A s \in TxIds, h \in Homes : Locating(s, h) => Locating(s, h)'
  <1>1. PICK i, p : i = job[t] /\ p = tx[t].phase
    OBVIOUS
  <1>2. JobOK(i, p) /\ DOMAIN job = TxIds /\ JobsOK /\ DOMAIN tx = TxIds
    BY <1>1 DEF AppIInv, JobsOK, FsOK, ClientOK
  <1>3. PICK j : j = [kind |-> i.kind, owner |-> i.owner, key |-> i.key, stage |-> "done",
                      data |-> i.data]
    OBVIOUS
  <1>4. i = [kind |-> i.kind, owner |-> i.owner, key |-> i.key, stage |-> i.stage,
             data |-> i.data]
    BY <1>2 DEF JobOK
  <1>5. [i EXCEPT !.stage = "done"] = j
    BY <1>3, <1>4
  <1>6. job' = [job EXCEPT ![t] = j]
    BY <1>1, <1>2, <1>5 DEF GoTo
  <1>7. JobOK(i, p)'
    BY <1>2, JobStays
  <1>8. JobOf(j)'
    BY <1>3, <1>7 DEF JobOK, JobOf
  <1>9. JobOK(j, p)'
    BY <1>1, <1>3, <1>7, <1>8 DEF JobOK, NoJob
  <1>10. JobsOK' /\ job'[t] = j /\ \A s \in TxIds \ {t} : job'[s] = job[s]
    BY <1>1, <1>2, <1>6, <1>9, JobMoves
  <1>11. JobsAge /\ KeysKept
    BY <1>1, <1>3, <1>10 DEF JobsAge, KeysKept
  <1>12. \A s \in TxIds, h \in Homes : Locating(s, h) => s = t \/ Locating(s, h)'
    BY <1>10 DEF Locating
  <1>13. job[t].kind # "location" =>
                \A s \in TxIds, h \in Homes : Locating(s, h) => Locating(s, h)'
    BY <1>12 DEF Locating
  <1> QED
    BY <1>10, <1>11, <1>12, <1>13

\* SAVE.
LEMMA SaveIInv ==
    ASSUME AppIInv, UNCHANGED <<accountVars, pipeVars, verifyVars, record>>, NEW h \in Homes,
           NEW t \in TxIds, Save(h, t)
    PROVE  AppIInv' /\ AppAges
  <1>1. BeginTransaction(t, "save", h, currentUser) /\ Mounted(h)
        /\ SetInfoState(h, [isFetching |-> No])
    BY DEF Save
  <1>2. Born(h) /\ currentUser \in Users
    BY <1>1 DEF AppIInv, BornSignedIn, Born, Mounted, AccountIInv, AccountTypeOK
  <1>3. HomesAge /\ (Born(h)' <=> Born(h)) /\ UNCHANGED home
    BY SessionRests
  <1>4. PICK u, j : /\ u = currentUser
                    /\ j = [kind |-> "save", owner |-> h, key |-> u, stage |-> "transaction",
                            data |-> Null]
    OBVIOUS
  <1>5. /\ job' = [job EXCEPT ![t] = j] /\ "save" \in Kinds
        /\ tx'[t].phase = "running"
        /\ \A s \in TxIds \ {t} : (tx'[s].phase = "idle") <=> (tx[s].phase = "idle")
        /\ JobsAge
        /\ \A s \in TxIds, g \in Homes : Locating(s, g) => Locating(s, g)'
        /\ FsOK' /\ BackendGrows
    BY <1>1, <1>4, BeginTransactionAges
  <1>6. JobOK(j, "running")'
    BY <1>2, <1>3, <1>4, <1>5 DEF JobOK, JobOf, JobKinds
  <1>7. ScreensAge
    BY <1>3, RestingScreens
  <1>8. JobsOK'
    BY <1>5, <1>6, <1>7, JobMoves DEF AppIInv, FsOK, ClientOK
  <1>9. PICK e : e = [isFetching |-> No]
    OBVIOUS
  <1>10. e \in Docs /\ DOMAIN e = {"isFetching"} /\ e.isFetching = No /\ SetInfoState(h, e)
    BY <1>1, <1>9, FormFields
  <1>11. InfoOK'
    BY <1>10, SetInfoOK
  <1> QED
    BY <1>5, <1>8, <1>11, InfoStepIInv

\* A photo: uploadImage, and its end.
LEMMA ImageIInv ==
    ASSUME AppIInv, UNCHANGED <<accountVars, pipeVars, verifyVars, record>>, NEW t \in TxIds,
           \/ \E h \in Homes : UploadImage(h, t)
           \/ ImageUploaded(t)
           \/ ImageFails(t)
    PROVE  AppIInv' /\ AppAges
  <1>1. HomesAge /\ UNCHANGED home /\ \A h \in Homes : Born(h)' <=> Born(h)
    BY SessionRests
  <1>2. ScreensAge
    BY <1>1, RestingScreens
  <1>3. UNCHANGED fsVars
    BY DEF UploadImage, ImageUploaded, ImageFails
  <1>4. UNCHANGED tx /\ BackendGrows /\ JobsOK /\ DOMAIN tx = TxIds
    BY <1>3, IdleFs DEF fsVars, AppIInv, FsOK, ClientOK
  <1>5. ASSUME NEW h \in Homes, UploadImage(h, t) PROVE AppIInv' /\ AppAges
    <2>1. /\ Mounted(h) /\ Begin(t, "image", h, infoState[h].user, "put") /\ UNCHANGED infoState
      BY <1>5 DEF UploadImage
    <2>2. Born(h) /\ infoState[h].user \in Users
      BY <2>1 DEF Mounted, Born, AppIInv, InfoOK, FormDoc, GoodDoc
    <2>3. PICK u, j : /\ u = infoState[h].user
                      /\ j = [kind |-> "image", owner |-> h, key |-> u, stage |-> "put",
                              data |-> Null]
      OBVIOUS
    <2>4. /\ job' = [job EXCEPT ![t] = j] /\ "image" \in Kinds /\ tx[t].phase = "idle"
          /\ JobsAge /\ KeysKept
          /\ \A s \in TxIds, g \in Homes : Locating(s, g) => Locating(s, g)'
      BY <1>4, <2>1, <2>3, BeginAges
    <2>5. JobOK(j, "idle")'
      BY <1>1, <2>2, <2>3, <2>4 DEF JobOK, JobOf, JobKinds
    <2>6. JobsOK'
      BY <1>2, <1>4, <2>4, <2>5, JobMoves
    <2>7. FsOK' /\ InfoOK'
      BY <1>1, <1>3, <2>1, <2>4, FsFrame, InfoRests DEF AppIInv
    <2> QED
      BY <1>4, <2>4, <2>6, <2>7, InfoStepIInv
  <1>6. CASE ImageUploaded(t) \/ ImageFails(t)
    <2>1. job[t].kind = "image" /\ GoTo(t, "done")
      BY <1>6 DEF ImageUploaded, ImageFails, At
    <2>2. /\ JobsOK' /\ JobsAge /\ KeysKept
          /\ \A s \in TxIds, h \in Homes : Locating(s, h) => Locating(s, h)'
      BY <1>2, <1>4, <2>1, JobEnds
    <2>3. FsOK'
      BY <1>3, <2>2, FsFrame DEF AppIInv
    <2>4. CASE ImageFails(t)
      <3>1. InfoOK'
        BY <1>1, <2>4, InfoRests DEF AppIInv, ImageFails
      <3> QED
        BY <1>4, <2>2, <2>3, <3>1, InfoStepIInv
    <2>5. CASE ImageUploaded(t)
      <3>1. job[t].owner \in Homes
        BY <2>1 DEF AppIInv, JobsOK, JobOK, JobOf
      <3>2. PICK h, e : h = job[t].owner /\ e = [logo |-> Picture, isFetching |-> No]
        OBVIOUS
      <3>3. e \in Docs /\ DOMAIN e = {"logo", "isFetching"} /\ e.isFetching = No
            /\ SetInfoState(h, e) /\ h \in Homes
        BY <2>5, <3>1, <3>2, FormFields DEF ImageUploaded
      <3>4. InfoOK'
        BY <3>3, SetInfoOK
      <3> QED
        BY <1>4, <2>2, <2>3, <3>4, InfoStepIInv
    <2> QED
      BY <1>6, <2>4, <2>5
  <1> QED
    BY <1>5, <1>6

\* What a block was given.
LEMMA GivenDoc ==
    ASSUME FsOK, NEW t \in TxIds, NEW kind, BlockResumes(t, kind), DocRead(t) # NoDoc
    PROVE  /\ GoodDoc(DocRead(t))
           /\ store[job[t].key] # NoDoc
           /\ DOMAIN DocRead(t) \subseteq DOMAIN store[job[t].key]
  BY ResumedHasRead DEF HasRead, Remembered, DocRead

\* After a block, or its failure, the phase of t is none of an idle transaction.
LEMMA BlockPhases ==
    ASSUME AppIInv, NEW t \in TxIds, tx[t].phase = "running",
           (\E r : Commit(t, r)) \/ BlockFails(t)
    PROVE  SamePhases
  <1>1. DOMAIN tx = TxIds
    BY DEF AppIInv, FsOK, ClientOK
  <1>2. ASSUME NEW r, Commit(t, r) PROVE SamePhases
    BY <1>1, <1>2, RetryTx, BlankTx DEF Commit, SamePhases
  <1>3. CASE BlockFails(t)
    BY <1>1, <1>3, BlankTx DEF BlockFails, SamePhases
  <1> QED
    BY <1>2, <1>3

\* The block of docUpdateFunction.
LEMMA InfoLoadIInv ==
    ASSUME AppIInv, UNCHANGED <<accountVars, pipeVars, verifyVars, record>>, NEW t \in TxIds,
           InfoLoadBlock(t)
    PROVE  AppIInv' /\ AppAges
  <1>1. BlockResumes(t, "infoLoad") /\ UNCHANGED <<backendVars, job>>
    BY DEF InfoLoadBlock, BlockFails
  <1>2. FsOK /\ JobsOK /\ InfoOK /\ tx[t].phase = "running" /\ DOMAIN tx = TxIds
    BY <1>1 DEF AppIInv, BlockResumes, FsOK, ClientOK
  <1>3. PICK h, k, doc : h = job[t].owner /\ k = job[t].key /\ doc = DocRead(t)
    OBVIOUS
  <1>4. h \in Homes /\ FormDoc(infoState[h])
    BY <1>1, <1>2, <1>3 DEF BlockResumes, At, JobsOK, JobOK, JobOf, InfoOK
  <1>5. HomesAge /\ UNCHANGED home /\ \A g \in Homes : Born(g)' <=> Born(g)
    BY SessionRests
  <1>6. FsOK' /\ InfoOK'
    <2>1. CASE doc = NoDoc
      <3>1. Commit(t, SetData(tx[t], k, infoState[h])) /\ UNCHANGED infoState
        BY <1>3, <2>1 DEF InfoLoadBlock
      <3>2. FsOK'
        BY <1>1, <1>2, <1>3, <1>4, <2>1, <3>1, SetSends DEF FormDoc
      <3> QED
        BY <1>2, <1>5, <3>1, <3>2, InfoRests
    <2>2. CASE doc # NoDoc /\ "user" \in DOMAIN doc
      <3>1. SetInfoState(h, doc) /\ Commit(t, UpdateData(tx[t], k, doc))
        BY <1>3, <2>2 DEF InfoLoadBlock
      <3>2. GoodDoc(doc)
        BY <1>1, <1>2, <1>3, <2>2, GivenDoc
      <3>3. FsOK'
        BY <1>1, <1>2, <1>3, <2>2, <3>1, <3>2, UpdateSends DEF GoodDoc
      <3>4. InfoOK'
        BY <1>4, <2>2, <3>1, <3>2, SetInfoOK DEF GoodDoc
      <3> QED
        BY <3>3, <3>4
    <2>3. CASE doc # NoDoc /\ "user" \notin DOMAIN doc
      <3>1. BlockFails(t) /\ UNCHANGED infoState
        BY <1>3, <2>3 DEF InfoLoadBlock
      <3> QED
        BY <1>1, <1>2, <1>5, <3>1, BlockThrows, InfoRests
    <2> QED
      BY <2>1, <2>2, <2>3
  <1>7. SamePhases
    BY <1>2, BlockPhases DEF InfoLoadBlock
  <1>8. ScreensAge
    BY <1>5, RestingScreens
  <1>9. JobsOK'
    BY <1>1, <1>2, <1>7, <1>8, JobsRest DEF SamePhases
  <1> QED
    BY <1>1, <1>2, <1>6, <1>9, NoGrowth, RestingJobs, InfoStepIInv DEF FsOK

\* The block of uploadProfile.
LEMMA SaveBlockIInv ==
    ASSUME AppIInv, UNCHANGED <<accountVars, pipeVars, verifyVars, record>>, NEW t \in TxIds,
           SaveBlock(t)
    PROVE  AppIInv' /\ AppAges
  <1>1. BlockResumes(t, "save") /\ UNCHANGED <<backendVars, job, infoState>>
    BY DEF SaveBlock, BlockFails
  <1>2. FsOK /\ JobsOK /\ InfoOK /\ tx[t].phase = "running" /\ DOMAIN tx = TxIds
    BY <1>1 DEF AppIInv, BlockResumes, FsOK, ClientOK
  <1>3. PICK h, k, doc : h = job[t].owner /\ k = job[t].key /\ doc = DocRead(t)
    OBVIOUS
  <1>4. h \in Homes /\ FormDoc(infoState[h])
    BY <1>1, <1>2, <1>3 DEF BlockResumes, At, JobsOK, JobOK, JobOf, InfoOK
  <1>5. HomesAge /\ UNCHANGED home /\ \A g \in Homes : Born(g)' <=> Born(g)
    BY SessionRests
  <1>6. FsOK'
    <2>1. CASE doc = NoDoc
      <3>1. Commit(t, SetData(tx[t], k, infoState[h]))
        BY <1>3, <2>1 DEF SaveBlock
      <3> QED
        BY <1>1, <1>2, <1>3, <1>4, <2>1, <3>1, SetSends DEF FormDoc
    <2>2. CASE doc # NoDoc /\ "user" \in DOMAIN doc
      <3>1. Commit(t, UpdateData(tx[t], k, infoState[h]))
        BY <1>3, <2>2 DEF SaveBlock
      <3> QED
        BY <1>1, <1>2, <1>3, <1>4, <2>2, <3>1, UpdateSends DEF FormDoc, GoodDoc
    <2>3. CASE doc # NoDoc /\ "user" \notin DOMAIN doc
      <3>1. BlockFails(t)
        BY <1>3, <2>3 DEF SaveBlock
      <3> QED
        BY <1>1, <1>2, <3>1, BlockThrows
    <2> QED
      BY <2>1, <2>2, <2>3
  <1>7. SamePhases
    BY <1>2, BlockPhases DEF SaveBlock
  <1>8. ScreensAge
    BY <1>5, RestingScreens
  <1>9. JobsOK' /\ InfoOK'
    BY <1>1, <1>2, <1>5, <1>7, <1>8, JobsRest, InfoRests DEF SamePhases
  <1> QED
    BY <1>1, <1>2, <1>6, <1>9, NoGrowth, RestingJobs, InfoStepIInv DEF FsOK

LEMMA InfoIInv ==
    ASSUME AppIInv, InfoNext, UNCHANGED <<accountVars, pipeVars, verifyVars, record>>
    PROVE  AppIInv' /\ AppAges
  BY EditIInv, SaveIInv, ImageIInv, InfoLoadIInv, SaveBlockIInv DEF InfoNext

-----------------------------------------------------------------------------
(***************************************************************************)
(* VerifyScreen and RecordScreen.                                          *)
(***************************************************************************)

\* A step of an operation that leaves the profile tab and the account alone.
LEMMA ScreenStepIInv ==
    ASSUME AppIInv, UNCHANGED <<accountVars, infoState>>, FsOK', JobsOK', QueueOK',
           VerifyOK', RecordOK', VerifiedIsStored', FetchingIsExplained', AppAges
    PROVE  AppIInv' /\ AppAges
  <1>1. AccountIInv' /\ BornSignedIn' /\ \A h \in Homes : Born(h)' <=> Born(h)
    BY SessionRests
  <1>2. InfoOK'
    BY <1>1, InfoRests DEF AppIInv
  <1> QED
    BY <1>1, <1>2 DEF AppIInv

\* The same for one that does not change what VerifyScreen shows.
LEMMA QuietStepIInv ==
    ASSUME AppIInv, UNCHANGED <<accountVars, infoState, verifyVars>>, FsOK', BackendGrows,
           ScreensAge, JobsOK', JobsAge, QueueOK', RecordOK',
           \A t \in TxIds, h \in Homes : Locating(t, h) => Locating(t, h)'
    PROVE  AppIInv' /\ AppAges
  <1>1. HomesAge /\ \A h \in Homes : Mounted(h)' <=> Mounted(h)
    BY SessionRests
  <1>2. Quiet
    BY <1>1 DEF Quiet
  <1> QED
    BY <1>1, <1>2, QuietVerify, ScreenStepIInv DEF AppAges

\* A callback that leaves the write pipeline alone.
LEMMA PipelineRests ==
    ASSUME AppIInv, UNCHANGED <<accountVars, pipeVars>>
    PROVE  QueueOK'
  BY SessionRests, QuietQueue DEF AppIInv, pipeVars

\* Operation t goes on.
LEMMA JobGoes ==
    ASSUME AppIInv, ScreensAge, NEW t \in TxIds, NEW i, i = job[t], i.kind # "none",
           NEW j, job' = [job EXCEPT ![t] = j], j.kind = i.kind, j.owner = i.owner,
           i.key \in Users => j.key = i.key,
           \A s \in TxIds \ {t} : (tx'[s].phase = "idle") <=> (tx[s].phase = "idle"),
           NEW p, p = tx'[t].phase, JobOK(j, p)'
    PROVE  /\ JobsOK' /\ JobsAge /\ KeysKept /\ job'[t] = j
           /\ \A s \in TxIds \ {t} : job'[s] = job[s]
           /\ i.kind # "location" =>
                \A s \in TxIds, h \in Homes : Locating(s, h) => Locating(s, h)'
  <1>1. JobsOK /\ DOMAIN tx = TxIds
    BY DEF AppIInv, FsOK, ClientOK
  <1>2. JobsOK' /\ job'[t] = j /\ \A s \in TxIds \ {t} : job'[s] = job[s]
    BY <1>1, JobMoves
  <1>3. JobsAge
    BY <1>2 DEF JobsAge
  <1>4. tx[t].phase # "idle" => i.key \in Users
    BY <1>1 DEF JobsOK, JobOK
  <1>5. KeysKept
    BY <1>2, <1>4 DEF KeysKept
  <1>6. i.kind # "location" =>
           \A s \in TxIds, h \in Homes : Locating(s, h) => Locating(s, h)'
    BY <1>2 DEF Locating
  <1> QED
    BY <1>2, <1>3, <1>5, <1>6

\* setState on a VerifyScreen.
LEMMA SetVerifyOK ==
    ASSUME AppIInv, UNCHANGED <<accountVars, record>>, NEW h \in Homes, NEW r,
           SetVerifyState(h, r) \/ (UNCHANGED verify /\ r = verify[h]),
           fbToken' \in Users \cup {Null},
           r = [status |-> verify[h].status, user |-> verify[h].user,
                facebookbutton |-> r.facebookbutton, linkdinbutton |-> r.linkdinbutton,
                isFetching |-> r.isFetching, location |-> r.location, stuck |-> r.stuck],
           r.isFetching \in {Yes, No}, r.location \in {Null, Here}
    PROVE  /\ VerifyOK' /\ ScreensAge /\ RecordOK'
           /\ \A g \in Homes : VerifyMounted(g)' <=> VerifyMounted(g)
           /\ \A g \in Homes \ {h} : verify'[g] = verify[g]
           /\ verify'[h] = IF VerifyMounted(h) THEN r ELSE verify[h]
  <1>1. /\ HomesAge /\ UNCHANGED home
        /\ \A g \in Homes : Mounted(g)' <=> Mounted(g)
        /\ \A g \in Homes : Born(g)' <=> Born(g)
    BY SessionRests
  <1>2. VerifyOK /\ RecordOK /\ DOMAIN verify = Homes
    BY DEF AppIInv, VerifyOK
  <1>3. /\ DOMAIN verify' = Homes
        /\ \A g \in Homes \ {h} : verify'[g] = verify[g]
        /\ verify'[h] = IF VerifyMounted(h) THEN r ELSE verify[h]
    BY <1>2 DEF SetVerifyState
  <1>4. \A g \in Homes : verify'[g].status = verify[g].status /\ verify'[g].user = verify[g].user
    BY <1>3
  <1>5. \A g : Visited(g)' <=> Visited(g)
    BY <1>4 DEF Visited
  <1>6. VerifyMounted(h) => Visited(h)
    BY DEF VerifyMounted, Visited
  <1>7. ASSUME NEW g \in Homes
        PROVE  /\ verify'[g] = [status |-> verify'[g].status, user |-> verify'[g].user,
                                facebookbutton |-> verify'[g].facebookbutton,
                                linkdinbutton |-> verify'[g].linkdinbutton,
                                isFetching |-> verify'[g].isFetching,
                                location |-> verify'[g].location, stuck |-> verify'[g].stuck]
               /\ verify'[g].isFetching \in {Yes, No}
               /\ verify'[g].location \in {Null, Here}
    BY <1>2, <1>3 DEF VerifyOK
  <1>8. ASSUME NEW g \in Homes
        PROVE  IF Visited(g)' THEN Born(g)' /\ verify'[g].user \in Users ELSE verify'[g] = Unborn
    <2>1. IF Visited(g) THEN Born(g) /\ verify[g].user \in Users ELSE verify[g] = Unborn
      BY <1>2 DEF VerifyOK
    <2> QED
      BY <1>1, <1>3, <1>4, <1>5, <1>6, <2>1
  <1>9. VerifyOK'
    BY <1>3, <1>7, <1>8 DEF VerifyOK
  <1>10. ScreensAge
    BY <1>1, <1>4, <1>5 DEF ScreensAge, Opened
  <1>11. RecordOK'
    BY <1>2, <1>5, RecordRests
  <1>12. \A g \in Homes : VerifyMounted(g)' <=> VerifyMounted(g)
    BY <1>1, <1>4 DEF VerifyMounted
  <1> QED
    BY <1>3, <1>9, <1>10, <1>11, <1>12

\* What is in the state of a VerifyScreen.
LEMMA VerifyFields ==
    ASSUME AppIInv, NEW h \in Homes, NEW v, v = verify[h]
    PROVE  /\ v = [status |-> v.status, user |-> v.user, facebookbutton |-> v.facebookbutton,
                   linkdinbutton |-> v.linkdinbutton, isFetching |-> v.isFetching,
                   location |-> v.location, stuck |-> v.stuck]
           /\ v.isFetching \in {Yes, No} /\ v.location \in {Null, Here}
           /\ fbToken \in Users \cup {Null}
  BY DEF AppIInv, VerifyOK

\* Somebody is signed in where a VerifyScreen has been opened.
LEMMA VisitedSignedIn ==
    ASSUME AppIInv, NEW h, Visited(h)
    PROVE  h \in Homes /\ Born(h) /\ currentUser \in Users /\ verify[h].user \in Users
  BY DEF AppIInv, BornSignedIn, VerifyOK, Visited, AccountIInv, AccountTypeOK

\* The state r is set on the VerifyScreen of h: the green buttons and the disabled
\* ones need a reason.
Reasons(h, r) ==
    /\ r.facebookbutton => verify[h].facebookbutton \/ StoredFor(h, "facebook", "facebookToken")
    /\ r.linkdinbutton => verify[h].linkdinbutton \/ StoredFor(h, "linkedin", "linkdintoken")
    /\ \/ r.isFetching # Yes
       \/ r.stuck
       \/ \E t \in TxIds : Locating(t, h)'
       \/ /\ verify[h].isFetching = Yes
          /\ verify[h].stuck => r.stuck
          /\ \A t \in TxIds : Locating(t, h) => Locating(t, h)'

LEMMA ShowStepIInv ==
    ASSUME AppIInv, UNCHANGED <<accountVars, infoState>>, FsOK', BackendGrows,
           JobsOK', JobsAge, QueueOK', NEW h \in Homes, NEW r, Reasons(h, r),
           VerifyOK', RecordOK', ScreensAge,
           \A g \in Homes : VerifyMounted(g)' <=> VerifyMounted(g),
           \A g \in Homes \ {h} : verify'[g] = verify[g],
           verify'[h] = IF VerifyMounted(h) THEN r ELSE verify[h],
           \A t \in TxIds, g \in Homes \ {h} : Locating(t, g) => Locating(t, g)'
    PROVE  AppIInv' /\ AppAges
  <1>1. VerifiedIsStored'
    BY VerifiedStays DEF AppIInv, FsOK, Reasons, ScreensAge
  <1>2. FetchingIsExplained'
    <2>1. ASSUME NEW g \in Homes, Fetching(g)'
          PROVE  verify'[g].stuck \/ \E t \in TxIds : Locating(t, g)'
      <3>1. VerifyMounted(g) /\ verify'[g].isFetching = Yes
        BY <2>1 DEF Fetching
      <3>2. verify[g].isFetching = Yes => verify[g].stuck \/ \E t \in TxIds : Locating(t, g)
        BY <3>1, FetchingMeans DEF AppIInv, Fetching
      <3>3. CASE g = h
        BY <3>1, <3>2, <3>3 DEF Reasons
      <3>4. CASE g # h
        BY <3>1, <3>2, <3>4
      <3> QED
        BY <3>3, <3>4
    <2> QED
      BY <2>1 DEF FetchingIsExplained, Fetching, Locating
  <1> QED
    BY <1>1, <1>2, ScreenStepIInv DEF AppAges

\* The verification tab is opened.
LEMMA VerifyMountIInv ==
    ASSUME AppIInv, UNCHANGED <<accountVars, infoState, record>>, NEW h \in Homes,
           NEW t \in TxIds, VerifyMount(h, t)
    PROVE  AppIInv' /\ AppAges
  <1>1. /\ Mounted(h) /\ verify[h].status = "unborn" /\ UNCHANGED <<fbToken, pipeVars>>
        /\ BeginTransaction(t, "verifyLoad", h, currentUser)
    BY DEF VerifyMount
  <1>2. Born(h) /\ currentUser \in Users /\ ~Visited(h)
    BY <1>1 DEF AppIInv, BornSignedIn, Born, Mounted, AccountIInv, AccountTypeOK, Visited
  <1>3. PICK u, j, v :
           /\ u = currentUser
           /\ j = [kind |-> "verifyLoad", owner |-> h, key |-> u, stage |-> "transaction",
                   data |-> Null]
           /\ v = [Unborn EXCEPT !.status = "mounted", !.user = u]
    OBVIOUS
  <1>4. verify' = [verify EXCEPT ![h] = v] /\ DOMAIN verify = Homes
    BY <1>3 DEF VerifyMount, AppIInv, VerifyOK
  <1>5. /\ v = [status |-> v.status, user |-> v.user, facebookbutton |-> v.facebookbutton,
                linkdinbutton |-> v.linkdinbutton, isFetching |-> v.isFetching,
                location |-> v.location, stuck |-> v.stuck]
        /\ v.status = "mounted" /\ v.user = u /\ v.isFetching = No /\ v.location = Null
        /\ ~v.facebookbutton /\ ~v.linkdinbutton
    BY <1>3 DEF Unborn
  <1>6. verify'[h] = v /\ \A g \in Homes \ {h} : verify'[g] = verify[g]
    BY <1>4
  <1>7. /\ job' = [job EXCEPT ![t] = j] /\ "verifyLoad" \in Kinds
        /\ tx'[t].phase = "running"
        /\ \A s \in TxIds \ {t} : (tx'[s].phase = "idle") <=> (tx[s].phase = "idle")
        /\ JobsAge
        /\ \A s \in TxIds, g \in Homes : Locating(s, g) => Locating(s, g)'
        /\ FsOK' /\ BackendGrows
    BY <1>1, <1>3, BeginTransactionAges
  <1>8. /\ HomesAge /\ \A g \in Homes : Born(g)' <=> Born(g)
        /\ \A g \in Homes : Mounted(g)' <=> Mounted(g)
    BY SessionRests
  <1>9. Visited(h)' /\ \A g : Visited(g) => g # h /\ Visited(g)' /\ verify'[g].user = verify[g].user
    BY <1>5, <1>2, <1>6 DEF Visited
  <1>10. VerifyOK'
    <2>1. \A g \in Homes \ {h} : Visited(g)' <=> Visited(g)
      BY <1>6 DEF Visited
    <2> QED
      BY <1>5, <1>1, <1>2, <1>3, <1>4, <1>6, <1>8, <1>9, <2>1 DEF AppIInv, VerifyOK
  <1>11. ScreensAge
    BY <1>8, <1>9 DEF ScreensAge, Opened
  <1>12. RecordOK'
    BY <1>9, RecordRests DEF AppIInv
  <1>13. JobOK(j, "running")'
    BY <1>5, <1>2, <1>3, <1>6, <1>7, <1>9 DEF JobOK, JobOf, JobKinds
  <1>14. JobsOK'
    BY <1>7, <1>11, <1>13, JobMoves DEF AppIInv, FsOK, ClientOK
  <1>15. VerifiedIsStored'
    BY <1>5, <1>6, <1>7, <1>9, VerifiedStays DEF AppIInv, FsOK
  <1>16. \A g \in Homes : Fetching(g)' => g # h /\ Fetching(g)
    BY <1>5, <1>6, <1>8, ValuesAssumption DEF Fetching, VerifyMounted
  <1>17. FetchingIsExplained'
    BY <1>6, <1>7, <1>16, FetchingStays DEF AppIInv
  <1>18. QueueOK'
    BY <1>1, PipelineRests
  <1> QED
    BY <1>7, <1>10, <1>11, <1>12, <1>14, <1>15, <1>17, <1>18, ScreenStepIInv
       DEF AppAges

\* The block of docUpdateFunction.
LEMMA VerifyLoadIInv ==
    ASSUME AppIInv, UNCHANGED <<accountVars, infoState, record>>, NEW t \in TxIds,
           VerifyLoadBlock(t)
    PROVE  AppIInv' /\ AppAges
  <1>1. /\ BlockResumes(t, "verifyLoad") /\ UNCHANGED <<backendVars, job, fbToken, pipeVars>>
    BY DEF VerifyLoadBlock, BlockFails
  <1>2. FsOK /\ JobsOK /\ VerifyOK /\ tx[t].phase = "running"
    BY <1>1 DEF AppIInv, BlockResumes
  <1>3. PICK h, k, doc : h = job[t].owner /\ k = job[t].key /\ doc = DocRead(t)
    OBVIOUS
  <1>4. Visited(h) /\ k = verify[h].user
    BY <1>1, <1>2, <1>3 DEF BlockResumes, At, JobsOK, JobOK, JobOf
  <1>5. h \in Homes /\ k \in Users
    BY <1>4, VisitedSignedIn
  <1>6. SamePhases /\ BackendGrows /\ QueueOK'
    BY <1>1, <1>2, BlockPhases, NoGrowth, PipelineRests DEF VerifyLoadBlock, FsOK
  <1>7. UNCHANGED home
    BY DEF accountVars
  <1>8. CASE doc = NoDoc
    <2>1. Commit(t, SetData(tx[t], k, VerifyDoc(h))) /\ UNCHANGED verify
      BY <1>3, <1>8 DEF VerifyLoadBlock
    <2>2. GoodDoc(VerifyDoc(h))
      BY <1>2, <1>5, VerifyDocGood
    <2>3. FsOK'
      BY <1>1, <1>2, <1>3, <1>8, <2>1, <2>2, SetSends
    <2> QED
      BY <1>1, <1>6, <1>7, <2>1, <2>3, UnnoticedIInv DEF screenVars, verifyVars
  <1>9. CASE doc # NoDoc /\ "user" \notin DOMAIN doc
    <2>1. BlockFails(t) /\ UNCHANGED verify
      BY <1>3, <1>9 DEF VerifyLoadBlock
    <2>2. FsOK'
      BY <1>1, <1>2, <2>1, BlockThrows
    <2> QED
      BY <1>1, <1>6, <1>7, <2>1, <2>2, UnnoticedIInv DEF screenVars, verifyVars
  <1>10. CASE doc # NoDoc /\ "user" \in DOMAIN doc
    <2>1. PICK v : v = verify[h]
      OBVIOUS
    <2>2. PICK r : r = [v EXCEPT !.linkdinbutton = @ \/ "linkdintoken" \in DOMAIN doc,
                                 !.facebookbutton = @ \/ "facebookToken" \in DOMAIN doc]
      OBVIOUS
    <2>3. SetVerifyState(h, r) /\ Commit(t, UpdateData(tx[t], k, doc))
      BY <1>3, <1>10, <2>1, <2>2 DEF VerifyLoadBlock
    <2>4. /\ v = [status |-> v.status, user |-> v.user, facebookbutton |-> v.facebookbutton,
                   linkdinbutton |-> v.linkdinbutton, isFetching |-> v.isFetching,
                   location |-> v.location, stuck |-> v.stuck]
           /\ v.isFetching \in {Yes, No} /\ v.location \in {Null, Here}
           /\ fbToken \in Users \cup {Null}
      BY <1>5, <2>1, VerifyFields
    <2>5. r = [status |-> v.status, user |-> v.user,
               facebookbutton |-> v.facebookbutton \/ "facebookToken" \in DOMAIN doc,
               linkdinbutton |-> v.linkdinbutton \/ "linkdintoken" \in DOMAIN doc,
               isFetching |-> v.isFetching, location |-> v.location, stuck |-> v.stuck]
      BY <2>2, <2>4
    <2>6. /\ VerifyOK' /\ ScreensAge /\ RecordOK'
          /\ \A g \in Homes : VerifyMounted(g)' <=> VerifyMounted(g)
          /\ \A g \in Homes \ {h} : verify'[g] = verify[g]
          /\ verify'[h] = IF VerifyMounted(h) THEN r ELSE verify[h]
      BY <1>1, <1>5, <2>1, <2>3, <2>4, <2>5, SetVerifyOK
    <2>7. GoodDoc(doc) /\ store[k] # NoDoc /\ DOMAIN doc \subseteq DOMAIN store[k]
      BY <1>1, <1>2, <1>3, <1>10, GivenDoc
    <2>8. \A f \in DOMAIN doc : HasField(k, f)
      BY <2>7 DEF HasField
    <2>9. FsOK'
      BY <1>1, <1>2, <1>3, <1>10, <2>3, <2>7, UpdateSends DEF GoodDoc
    <2>10. /\ JobsAge
           /\ \A s \in TxIds, g \in Homes : Locating(s, g) => Locating(s, g)'
      BY <1>1, RestingJobs
    <2>11. verify[h].user # NoUser
      BY <1>4, <1>5, NoUserAssumption
    <2>12. Reasons(h, r)
      BY <1>4, <1>5, <2>1, <2>5, <2>8, <2>10, <2>11 DEF Reasons, StoredFor
    <2>13. JobsOK'
      BY <1>1, <1>2, <1>6, <2>6, JobsRest DEF SamePhases
    <2> QED
      BY <1>5, <1>6, <2>6, <2>9, <2>10, <2>12, <2>13, ShowStepIInv
  <1> QED
    BY <1>8, <1>9, <1>10

\* A verification begins: the button is pressed.
LEMMA PressFacebookIInv ==
    ASSUME AppIInv, UNCHANGED <<accountVars, infoState, record>>, NEW h \in Homes,
           NEW t \in TxIds, PressFacebook(h, t)
    PROVE  AppIInv' /\ AppAges
  <1>1. /\ VerifyMounted(h) /\ Begin(t, "facebook", h, NoUser, "dialog")
        /\ fbToken' = Null /\ UNCHANGED <<fsVars, pipeVars>>
    BY DEF PressFacebook
  <1>2. PICK v, r, j :
           /\ v = verify[h]
           /\ r = SetFetching(v, No)
           /\ j = [kind |-> "facebook", owner |-> h, key |-> NoUser, stage |-> "dialog",
                   data |-> Null]
    OBVIOUS
  <1>3. /\ v = [status |-> v.status, user |-> v.user, facebookbutton |-> v.facebookbutton,
                linkdinbutton |-> v.linkdinbutton, isFetching |-> v.isFetching,
                location |-> v.location, stuck |-> v.stuck]
        /\ v.isFetching \in {Yes, No} /\ v.location \in {Null, Here}
    BY <1>2, VerifyFields
  <1>4. r = [status |-> v.status, user |-> v.user, facebookbutton |-> v.facebookbutton,
             linkdinbutton |-> v.linkdinbutton, isFetching |-> No,
             location |-> v.location, stuck |-> FALSE]
    BY <1>2, <1>3 DEF SetFetching
  <1>5. SetVerifyState(h, r)
    BY <1>2 DEF PressFacebook
  <1>6. /\ VerifyOK' /\ ScreensAge /\ RecordOK'
        /\ \A g \in Homes : VerifyMounted(g)' <=> VerifyMounted(g)
        /\ \A g \in Homes \ {h} : verify'[g] = verify[g]
        /\ verify'[h] = IF VerifyMounted(h) THEN r ELSE verify[h]
    BY <1>1, <1>2, <1>3, <1>4, <1>5, SetVerifyOK
  <1>7. JobsOK /\ DOMAIN tx = TxIds /\ UNCHANGED tx /\ BackendGrows
    BY <1>1, IdleFs DEF AppIInv, FsOK, ClientOK, fsVars
  <1>8. /\ job' = [job EXCEPT ![t] = j] /\ "facebook" \in Kinds /\ tx[t].phase = "idle"
        /\ JobsAge /\ KeysKept
        /\ \A s \in TxIds, g \in Homes : Locating(s, g) => Locating(s, g)'
    BY <1>1, <1>2, <1>7, BeginAges
  <1>9. Visited(h)'
    BY <1>1, <1>6 DEF VerifyMounted, Visited
  <1>10. JobOK(j, "idle")'
    BY <1>2, <1>8, <1>9 DEF JobOK, JobOf, JobKinds
  <1>11. JobsOK' /\ FsOK' /\ QueueOK'
    BY <1>1, <1>6, <1>7, <1>8, <1>10, JobMoves, FsFrame, PipelineRests DEF AppIInv
  <1>12. Reasons(h, r)
    BY <1>2, <1>4, ValuesAssumption DEF Reasons
  <1> QED
    BY <1>6, <1>7, <1>8, <1>11, <1>12, ShowStepIInv

LEMMA PressLinkedInIInv ==
    ASSUME AppIInv, UNCHANGED <<accountVars, infoState, record>>, NEW h \in Homes,
           NEW t \in TxIds, PressLinkedIn(h, t)
    PROVE  AppIInv' /\ AppAges
  <1>1. /\ VerifyMounted(h) /\ Begin(t, "linkedin", h, NoUser, "signIn")
        /\ UNCHANGED <<fsVars, pipeVars, verifyVars>>
    BY DEF PressLinkedIn
  <1>2. PICK j : j = [kind |-> "linkedin", owner |-> h, key |-> NoUser, stage |-> "signIn",
                      data |-> Null]
    OBVIOUS
  <1>3. JobsOK /\ DOMAIN tx = TxIds /\ UNCHANGED tx /\ BackendGrows
    BY <1>1, IdleFs DEF AppIInv, FsOK, ClientOK, fsVars
  <1>4. /\ job' = [job EXCEPT ![t] = j] /\ "linkedin" \in Kinds /\ tx[t].phase = "idle"
        /\ JobsAge /\ KeysKept
        /\ \A s \in TxIds, g \in Homes : Locating(s, g) => Locating(s, g)'
    BY <1>1, <1>2, <1>3, BeginAges
  <1>5. ScreensAge /\ \A g \in Homes : Visited(g)' <=> Visited(g)
    BY <1>1, SessionRests, RestingScreens
  <1>6. Visited(h)'
    BY <1>1, <1>5 DEF VerifyMounted, Visited
  <1>7. JobOK(j, "idle")'
    BY <1>2, <1>4, <1>6 DEF JobOK, JobOf, JobKinds
  <1>8. JobsOK' /\ FsOK' /\ QueueOK' /\ RecordOK'
    BY <1>1, <1>3, <1>4, <1>5, <1>7, JobMoves, FsFrame, PipelineRests, RecordRests DEF AppIInv
  <1> QED
    BY <1>1, <1>3, <1>4, <1>5, <1>8, QuietStepIInv

LEMMA PressLocationIInv ==
    ASSUME AppIInv, UNCHANGED <<accountVars, infoState, record>>, NEW h \in Homes,
           NEW t \in TxIds, PressLocation(h, t)
    PROVE  AppIInv' /\ AppAges
  <1>1. /\ VerifyMounted(h) /\ Begin(t, "location", h, verify[h].user, "position")
        /\ UNCHANGED <<fsVars, pipeVars, fbToken>>
    BY DEF PressLocation
  <1>2. PICK v, u, r, j :
           /\ v = verify[h] /\ u = v.user
           /\ r = SetFetching(v, Yes)
           /\ j = [kind |-> "location", owner |-> h, key |-> u, stage |-> "position",
                   data |-> Null]
    OBVIOUS
  <1>3. /\ v = [status |-> v.status, user |-> v.user, facebookbutton |-> v.facebookbutton,
                linkdinbutton |-> v.linkdinbutton, isFetching |-> v.isFetching,
                location |-> v.location, stuck |-> v.stuck]
        /\ v.isFetching \in {Yes, No} /\ v.location \in {Null, Here}
        /\ fbToken \in Users \cup {Null}
    BY <1>2, VerifyFields
  <1>4. r = [status |-> v.status, user |-> v.user, facebookbutton |-> v.facebookbutton,
             linkdinbutton |-> v.linkdinbutton, isFetching |-> Yes,
             location |-> v.location, stuck |-> FALSE]
    BY <1>2, <1>3 DEF SetFetching
  <1>5. SetVerifyState(h, r) /\ Visited(h) /\ u \in Users
    BY <1>1, <1>2, VisitedSignedIn DEF PressLocation, VerifyMounted, Visited
  <1>6. /\ VerifyOK' /\ ScreensAge /\ RecordOK'
        /\ \A g \in Homes : VerifyMounted(g)' <=> VerifyMounted(g)
        /\ \A g \in Homes \ {h} : verify'[g] = verify[g]
        /\ verify'[h] = IF VerifyMounted(h) THEN r ELSE verify[h]
    BY <1>1, <1>2, <1>3, <1>4, <1>5, SetVerifyOK
  <1>7. JobsOK /\ DOMAIN tx = TxIds /\ UNCHANGED tx /\ BackendGrows
    BY <1>1, IdleFs DEF AppIInv, FsOK, ClientOK, fsVars
  <1>8. /\ job' = [job EXCEPT ![t] = j] /\ "location" \in Kinds /\ tx[t].phase = "idle"
        /\ JobsAge /\ KeysKept
        /\ \A s \in TxIds, g \in Homes : Locating(s, g) => Locating(s, g)'
    BY <1>1, <1>2, <1>7, BeginAges
  <1>9. Visited(h)' /\ verify'[h].user = u
    BY <1>1, <1>2, <1>4, <1>6 DEF VerifyMounted, Visited
  <1>10. JobOK(j, "idle")'
    BY <1>2, <1>5, <1>8, <1>9 DEF JobOK, JobOf, JobKinds
  <1>11. JobsOK' /\ FsOK' /\ QueueOK' /\ job'[t] = j
    BY <1>1, <1>6, <1>7, <1>8, <1>10, JobMoves, FsFrame, PipelineRests DEF AppIInv
  <1>12. Locating(t, h)'
    BY <1>2, <1>11 DEF Locating
  <1>13. Reasons(h, r)
    BY <1>2, <1>4, <1>12 DEF Reasons
  <1> QED
    BY <1>6, <1>7, <1>8, <1>11, <1>13, ShowStepIInv

\* An operation of a VerifyScreen ends, and the screen shows r.
LEMMA ShowEndIInv ==
    ASSUME AppIInv, UNCHANGED <<accountVars, infoState, record, fsVars, fbToken>>,
           QueueOK', NEW t \in TxIds, NEW h, h = job[t].owner,
           job[t].kind \in {"facebook", "linkedin", "location"}, GoTo(t, "done"),
           NEW r, SetVerifyState(h, r),
           r = [status |-> verify[h].status, user |-> verify[h].user,
                facebookbutton |-> r.facebookbutton, linkdinbutton |-> r.linkdinbutton,
                isFetching |-> r.isFetching, location |-> r.location, stuck |-> r.stuck],
           r.isFetching \in {Yes, No}, r.location \in {Null, Here},
           r.facebookbutton => verify[h].facebookbutton \/ StoredFor(h, "facebook", "facebookToken"),
           r.linkdinbutton => verify[h].linkdinbutton \/ StoredFor(h, "linkedin", "linkdintoken"),
           \/ r.isFetching # Yes \/ r.stuck
           \/ /\ job[t].kind # "location"
              /\ r.isFetching = verify[h].isFetching /\ r.stuck = verify[h].stuck
    PROVE  AppIInv' /\ AppAges
  <1>1. h \in Homes /\ fbToken' \in Users \cup {Null}
    BY VisitedSignedIn DEF AppIInv, JobsOK, JobOK, JobOf, VerifyOK
  <1>2. /\ VerifyOK' /\ ScreensAge /\ RecordOK'
        /\ \A g \in Homes : VerifyMounted(g)' <=> VerifyMounted(g)
        /\ \A g \in Homes \ {h} : verify'[g] = verify[g]
        /\ verify'[h] = IF VerifyMounted(h) THEN r ELSE verify[h]
    BY <1>1, SetVerifyOK
  <1>3. UNCHANGED tx /\ BackendGrows
    BY IdleFs DEF fsVars
  <1>4. /\ JobsOK' /\ JobsAge /\ KeysKept
        /\ \A s \in TxIds, g \in Homes : Locating(s, g) => s = t \/ Locating(s, g)'
        /\ job[t].kind # "location" =>
             \A s \in TxIds, g \in Homes : Locating(s, g) => Locating(s, g)'
    BY <1>2, <1>3, JobEnds
  <1>5. FsOK'
    BY <1>4, FsFrame DEF AppIInv
  <1>6. \A s \in TxIds, g \in Homes \ {h} : Locating(s, g) => Locating(s, g)'
    BY <1>4 DEF Locating
  <1>7. Reasons(h, r)
    BY <1>1, <1>4 DEF Reasons
  <1> QED
    BY <1>1, <1>2, <1>3, <1>4, <1>5, <1>6, <1>7, ShowStepIInv

\* What an operation of a VerifyScreen refers to.
LEMMA VerifyJob ==
    ASSUME AppIInv, NEW t \in TxIds, NEW i, i = job[t],
           i.kind \in {"facebook", "linkedin", "location"}
    PROVE  /\ i = [kind |-> i.kind, owner |-> i.owner, key |-> i.key, stage |-> i.stage,
                   data |-> i.data]
           /\ i.kind \in JobKinds \cap Kinds
           /\ i.owner \in Homes /\ Visited(i.owner)
           /\ currentUser \in Users /\ verify[i.owner].user \in Users
           /\ JobOf(i) /\ JobOK(i, tx[t].phase)
           /\ tx[t].phase # "idle" => i.stage \in {"transaction", "done"} /\ i.key \in Users
           /\ i.key \in Users \cup {NoUser}
  <1>1. JobOK(i, tx[t].phase)
    BY DEF AppIInv, JobsOK
  <1>2. i.kind \in JobKinds \cap Kinds /\ JobOf(i)
    BY <1>1 DEF JobOK, NoJob
  <1>3. Visited(i.owner)
    BY <1>2 DEF JobOf
  <1>4. i.owner \in Homes /\ currentUser \in Users /\ verify[i.owner].user \in Users
    BY <1>3, VisitedSignedIn
  <1> QED
    BY <1>1, <1>2, <1>3, <1>4 DEF JobOK

\* The dialog of Facebook is confirmed.
LEMMA FacebookGrantedIInv ==
    ASSUME AppIInv, UNCHANGED <<accountVars, infoState, record>>, NEW t \in TxIds,
           FacebookGranted(t)
    PROVE  AppIInv' /\ AppAges
  <1>1. PICK i, h, r : i = job[t] /\ h = i.owner /\ r = verify[h]
    OBVIOUS
  <1>2. /\ i.kind = "facebook" /\ i.stage = "dialog" /\ fbToken' = r.user
        /\ GoTo(t, "granted") /\ UNCHANGED <<fsVars, pipeVars, verify>>
    BY <1>1 DEF FacebookGranted, At
  <1>3. /\ i = [kind |-> i.kind, owner |-> i.owner, key |-> i.key, stage |-> i.stage,
                data |-> i.data]
        /\ i.kind \in JobKinds \cap Kinds
        /\ h \in Homes /\ Visited(h) /\ r.user \in Users
        /\ JobOf(i) /\ tx[t].phase = "idle" /\ i.key \in Users \cup {NoUser}
    BY <1>1, <1>2, VerifyJob
  <1>4. UNCHANGED verify /\ r = verify[h]
    BY <1>1, <1>2
  <1>5. /\ r = [status |-> r.status, user |-> r.user, facebookbutton |-> r.facebookbutton,
                linkdinbutton |-> r.linkdinbutton, isFetching |-> r.isFetching,
                location |-> r.location, stuck |-> r.stuck]
        /\ r.isFetching \in {Yes, No} /\ r.location \in {Null, Here}
    BY <1>1, <1>3, VerifyFields
  <1>6. /\ VerifyOK' /\ ScreensAge /\ RecordOK'
        /\ \A g \in Homes : VerifyMounted(g)' <=> VerifyMounted(g)
        /\ \A g \in Homes \ {h} : verify'[g] = verify[g]
        /\ verify'[h] = IF VerifyMounted(h) THEN r ELSE verify[h]
    BY <1>1, <1>2, <1>3, <1>4, <1>5, SetVerifyOK
  <1>7. PICK j : j = [kind |-> i.kind, owner |-> i.owner, key |-> i.key, stage |-> "granted",
                      data |-> i.data]
    OBVIOUS
  <1>8. job' = [job EXCEPT ![t] = j]
    <2>1. [i EXCEPT !.stage = "granted"] = j
      BY <1>3, <1>7
    <2> QED
      BY <1>1, <1>2, <2>1 DEF GoTo, AppIInv, JobsOK
  <1>9. UNCHANGED tx /\ BackendGrows
    BY <1>2, IdleFs DEF fsVars
  <1>10. JobOK(j, "idle")'
    <2>1. Visited(j.owner)'
      BY <1>2, <1>1, <1>3, <1>7 DEF Visited
    <2> QED
      BY <1>2, <1>3, <1>7, <2>1 DEF JobOK, JobOf
  <1>11. /\ JobsOK' /\ JobsAge /\ KeysKept
         /\ \A s \in TxIds, g \in Homes : Locating(s, g) => Locating(s, g)'
    BY <1>1, <1>2, <1>3, <1>6, <1>7, <1>8, <1>9, <1>10, JobGoes
  <1>12. FsOK' /\ QueueOK'
    BY <1>2, <1>11, FsFrame, PipelineRests DEF AppIInv
  <1>13. Reasons(h, r)
    BY <1>1, <1>3, <1>11 DEF Reasons
  <1> QED
    BY <1>3, <1>6, <1>9, <1>11, <1>12, <1>13, ShowStepIInv

\* LinkedIn has given its token.
LEMMA LinkedInSignedInIInv ==
    ASSUME AppIInv, UNCHANGED <<accountVars, infoState, record>>, NEW t \in TxIds,
           LinkedInSignedIn(t)
    PROVE  AppIInv' /\ AppAges
  <1>1. PICK i, u : i = job[t] /\ u = verify[i.owner].user
    OBVIOUS
  <1>2. /\ i.kind = "linkedin" /\ i.stage = "signIn"
        /\ UNCHANGED <<fsVars, pipeVars, verifyVars>>
    BY <1>1 DEF LinkedInSignedIn, At
  <1>3. /\ i = [kind |-> i.kind, owner |-> i.owner, key |-> i.key, stage |-> i.stage,
                data |-> i.data]
        /\ i.kind \in JobKinds \cap Kinds
        /\ i.owner \in Homes /\ Visited(i.owner) /\ u \in Users
        /\ JobOf(i) /\ tx[t].phase = "idle" /\ i.key \in Users \cup {NoUser}
    BY <1>1, <1>2, VerifyJob
  <1>4. PICK j : j = [kind |-> i.kind, owner |-> i.owner, key |-> i.key, stage |-> "timer",
                      data |-> u]
    OBVIOUS
  <1>5. job' = [job EXCEPT ![t] = j]
    <2>1. i = [kind |-> i.kind, owner |-> i.owner, key |-> i.key, stage |-> i.stage,
               data |-> i.data]
      BY <1>3
    <2>2. PICK x : x = [i EXCEPT !.stage = "timer"]
      OBVIOUS
    <2>3. x = [kind |-> i.kind, owner |-> i.owner, key |-> i.key, stage |-> "timer",
               data |-> i.data]
      BY <2>1, <2>2
    <2>4. [x EXCEPT !.data = u] = j
      BY <1>4, <2>3
    <2>5. job' = [job EXCEPT ![t] = [x EXCEPT !.data = u]]
      BY <1>1, <2>2 DEF LinkedInSignedIn, AppIInv, JobsOK
    <2> QED
      BY <2>4, <2>5
  <1>6. UNCHANGED tx /\ BackendGrows
    BY <1>2, IdleFs DEF fsVars
  <1>7. ScreensAge /\ \A g \in Homes : Visited(g)' <=> Visited(g)
    BY <1>2, SessionRests, RestingScreens
  <1>8. JobOK(j, "idle")'
    <2>1. Visited(j.owner)' /\ verify'[j.owner].user = u
      BY <1>1, <1>2, <1>3, <1>4, <1>7 DEF verifyVars
    <2> QED
      BY <1>2, <1>3, <1>4, <2>1 DEF JobOK, JobOf
  <1>9. /\ JobsOK' /\ JobsAge /\ KeysKept
        /\ \A s \in TxIds, g \in Homes : Locating(s, g) => Locating(s, g)'
    BY <1>1, <1>2, <1>3, <1>4, <1>5, <1>6, <1>7, <1>8, JobGoes
  <1>10. FsOK' /\ QueueOK' /\ RecordOK'
    BY <1>2, <1>7, <1>9, FsFrame, PipelineRests, RecordRests DEF AppIInv
  <1> QED
    BY <1>2, <1>6, <1>7, <1>9, <1>10, QuietStepIInv

\* The token is there: the transaction on the document of whoever is signed in.
LEMMA TokenIInv ==
    ASSUME AppIInv, UNCHANGED <<accountVars, infoState, record, pipeVars, verifyVars>>,
           NEW t \in TxIds, NEW i, i = job[t], NEW u, u = currentUser, NEW d,
           \/ i.kind = "facebook" /\ i.stage = "granted" /\ d \in Users \cup {Null}
           \/ i.kind = "linkedin" /\ i.stage = "timer" /\ d = i.data,
           job' = [job EXCEPT ![t] = [kind |-> i.kind, owner |-> i.owner, key |-> u,
                                      stage |-> "transaction", data |-> d]],
           RunTransaction(t)
    PROVE  AppIInv' /\ AppAges
  <1>1. /\ i = [kind |-> i.kind, owner |-> i.owner, key |-> i.key, stage |-> i.stage,
                data |-> i.data]
        /\ i.kind \in JobKinds \cap Kinds
        /\ i.owner \in Homes /\ Visited(i.owner) /\ u \in Users
        /\ JobOf(i) /\ tx[t].phase = "idle" /\ i.key \in Users \cup {NoUser}
    BY VerifyJob
  <1>2. PICK j : j = [kind |-> i.kind, owner |-> i.owner, key |-> u, stage |-> "transaction",
                      data |-> d]
    OBVIOUS
  <1>3. JobsOK /\ FsOK /\ DOMAIN tx = TxIds /\ DOMAIN job = TxIds
    BY DEF AppIInv, FsOK, ClientOK, JobsOK
  <1>4. job' = [job EXCEPT ![t] = j] /\ job'[t] = j /\ \A s \in TxIds \ {t} : job'[s] = job[s]
    BY <1>2, <1>3
  <1>5. FsOK' /\ BackendGrows
    BY <1>3, <1>4, TransactionBegins, NoGrowth DEF RunTransaction, FsOK
  <1>6. /\ tx'[t].phase = "running"
        /\ \A s \in TxIds \ {t} : (tx'[s].phase = "idle") <=> (tx[s].phase = "idle")
    BY <1>3, BlankTx DEF RunTransaction
  <1>7. ScreensAge /\ \A g \in Homes : Visited(g)' <=> Visited(g)
    BY SessionRests, RestingScreens
  <1>8. JobOK(j, "running")'
    <2>1. Visited(j.owner)' /\ verify'[j.owner].user = verify[i.owner].user
      BY <1>1, <1>2, <1>7 DEF verifyVars
    <2>2. i.kind = "linkedin" => d = verify[i.owner].user
      BY <1>1 DEF JobOf
    <2> QED
      BY <1>1, <1>2, <2>1, <2>2 DEF JobOK, JobOf
  <1>9. JobsOK'
    BY <1>3, <1>4, <1>6, <1>7, <1>8, JobMoves
  <1>10. i.key \notin Users
    BY <1>1, NoUserAssumption DEF JobOf
  <1>11. JobsAge /\ \A s \in TxIds, g \in Homes : Locating(s, g) => Locating(s, g)'
    BY <1>2, <1>4, <1>10 DEF JobsAge, Locating
  <1>12. QueueOK' /\ RecordOK'
    BY <1>7, PipelineRests, RecordRests DEF AppIInv
  <1> QED
    BY <1>5, <1>7, <1>9, <1>11, <1>12, QuietStepIInv

LEMMA TokenStepIInv ==
    ASSUME AppIInv, UNCHANGED <<accountVars, infoState, record>>, NEW t \in TxIds,
           FacebookToken(t) \/ SaveLinkedinData(t)
    PROVE  AppIInv' /\ AppAges
  <1>1. PICK i, u : i = job[t] /\ u = currentUser
    OBVIOUS
  <1>2. RunTransaction(t) /\ UNCHANGED <<pipeVars, verifyVars>> /\ DOMAIN job = TxIds
    BY DEF FacebookToken, SaveLinkedinData, AppIInv, JobsOK
  <1>3. i.kind \in {"facebook", "linkedin"}
    BY <1>1 DEF FacebookToken, SaveLinkedinData, At
  <1>4. i = [kind |-> i.kind, owner |-> i.owner, key |-> i.key, stage |-> i.stage,
             data |-> i.data]
    BY <1>1, <1>3, VerifyJob
  <1>5. PICK x : x = [i EXCEPT !.stage = "transaction"]
    OBVIOUS
  <1>6. x = [kind |-> i.kind, owner |-> i.owner, key |-> i.key, stage |-> "transaction",
             data |-> i.data]
    BY <1>4, <1>5
  <1>7. CASE FacebookToken(t)
    <2>1. PICK d : d = fbToken
      OBVIOUS
    <2>2. i.kind = "facebook" /\ i.stage = "granted" /\ d \in Users \cup {Null}
      BY <1>1, <1>7, <2>1 DEF FacebookToken, At, AppIInv, VerifyOK
    <2>3. PICK y : y = [x EXCEPT !.data = d]
      OBVIOUS
    <2>4. y = [kind |-> i.kind, owner |-> i.owner, key |-> i.key, stage |-> "transaction",
               data |-> d]
      BY <1>6, <2>3
    <2>5. [y EXCEPT !.key = u] = [kind |-> i.kind, owner |-> i.owner, key |-> u,
                                  stage |-> "transaction", data |-> d]
      BY <2>4
    <2>6. job' = [job EXCEPT ![t] = [y EXCEPT !.key = u]]
      BY <1>1, <1>2, <1>5, <1>7, <2>1, <2>3 DEF FacebookToken
    <2>7. job' = [job EXCEPT ![t] = [kind |-> i.kind, owner |-> i.owner, key |-> u,
                                     stage |-> "transaction", data |-> d]]
      BY <2>5, <2>6
    <2> QED
      BY <1>1, <1>2, <2>2, <2>7, TokenIInv
  <1>8. CASE SaveLinkedinData(t)
    <2>1. PICK d : d = i.data
      OBVIOUS
    <2>2. i.kind = "linkedin" /\ i.stage = "timer" /\ d = i.data
      BY <1>1, <1>8, <2>1 DEF SaveLinkedinData, At
    <2>3. [x EXCEPT !.key = u] = [kind |-> i.kind, owner |-> i.owner, key |-> u,
                                  stage |-> "transaction", data |-> d]
      BY <1>6, <2>1
    <2>4. job' = [job EXCEPT ![t] = [x EXCEPT !.key = u]]
      BY <1>1, <1>2, <1>5, <1>8 DEF SaveLinkedinData
    <2>5. job' = [job EXCEPT ![t] = [kind |-> i.kind, owner |-> i.owner, key |-> u,
                                     stage |-> "transaction", data |-> d]]
      BY <2>3, <2>4
    <2> QED
      BY <1>1, <1>2, <2>2, <2>5, TokenIInv
  <1> QED
    BY <1>7, <1>8

\* The blocks that write a token.
LEMMA TokenBlockIInv ==
    ASSUME AppIInv, UNCHANGED <<accountVars, infoState, record>>, NEW t \in TxIds,
           FacebookBlock(t) \/ LinkedInBlock(t)
    PROVE  AppIInv' /\ AppAges
  <1>1. PICK i : i = job[t]
    OBVIOUS
  <1>2. UNCHANGED <<backendVars, job, pipeVars, verifyVars>>
    BY DEF FacebookBlock, LinkedInBlock, BlockFails
  <1>3. FsOK /\ JobsOK
    BY DEF AppIInv
  <1>4. i.kind \in {"facebook", "linkedin"} /\ i.stage = "transaction" /\ tx[t].phase = "running"
    BY <1>1 DEF FacebookBlock, LinkedInBlock, BlockResumes, At
  <1>5. JobOf(i) /\ verify[i.owner].user \in Users
    BY <1>1, <1>4, VerifyJob
  <1>6. i.kind = "facebook" /\ i.data # Null => i.data \in Users
    BY <1>5 DEF JobOf
  <1>7. i.kind = "linkedin" => i.data \in Users
    BY <1>4, <1>5 DEF JobOf
  <1>8. FsOK'
    <2>1. CASE BlockFails(t)
      BY <1>2, <1>3, <2>1, BlockThrows
    <2>2. CASE FacebookBlock(t) /\ ~BlockFails(t)
      <3>1. PICK d : d = [facebookToken |-> i.data]
        OBVIOUS
      <3>2. /\ BlockResumes(t, "facebook") /\ DocRead(t) # NoDoc /\ i.data # Null
            /\ Commit(t, UpdateData(tx[t], job[t].key, d))
        BY <1>1, <2>2, <3>1 DEF FacebookBlock
      <3>3. GoodDoc(d) /\ DOMAIN d = {"facebookToken"}
        BY <1>1, <1>6, <3>1, <3>2, TokenDocs DEF BlockResumes, At
      <3> QED
        BY <1>2, <1>3, <3>2, <3>3, UpdateSends
    <2>3. CASE LinkedInBlock(t) /\ ~BlockFails(t)
      <3>1. PICK d : d = [linkdintoken |-> i.data]
        OBVIOUS
      <3>2. /\ BlockResumes(t, "linkedin") /\ DocRead(t) # NoDoc
            /\ Commit(t, UpdateData(tx[t], job[t].key, d))
        BY <1>1, <2>3, <3>1 DEF LinkedInBlock
      <3>3. GoodDoc(d) /\ DOMAIN d = {"linkdintoken"}
        BY <1>1, <1>7, <3>1, <3>2, TokenDocs DEF BlockResumes, At
      <3> QED
        BY <1>2, <1>3, <3>2, <3>3, UpdateSends
    <2> QED
      BY <2>1, <2>2, <2>3
  <1>9. SamePhases
    BY <1>4, BlockPhases DEF FacebookBlock, LinkedInBlock
  <1>10. BackendGrows /\ QueueOK' /\ UNCHANGED home
    BY <1>2, <1>3, NoGrowth, PipelineRests DEF FsOK, accountVars
  <1> QED
    BY <1>2, <1>8, <1>9, <1>10, UnnoticedIInv DEF screenVars

\* The token of a confirmed verification explains its green button.
LEMMA ConfirmedIsStored ==
    ASSUME AppIInv, NEW t \in TxIds, tx[t].phase = "committed", NEW h, h = job[t].owner
    PROVE  /\ job[t].kind = "facebook" => StoredFor(h, "facebook", "facebookToken")
           /\ job[t].kind = "linkedin" => StoredFor(h, "linkedin", "linkdintoken")
  <1>1. TokenStored(job[t])
    BY DEF AppIInv, FsOK, AnswersOK, Confirmed
  <1>2. job[t].key # NoUser
    BY NoUserAssumption DEF AppIInv, JobsOK, JobOK
  <1> QED
    BY <1>1, <1>2 DEF TokenStored, StoredFor

\* The ends of the Facebook and the LinkedIn verification.
LEMMA TokenDoneIInv ==
    ASSUME AppIInv, UNCHANGED <<accountVars, infoState, record>>, NEW t \in TxIds,
           FacebookLoginFails(t) \/ FacebookDone(t) \/ LinkedInDone(t)
    PROVE  AppIInv' /\ AppAges
  <1>1. PICK h, v, b : h = job[t].owner /\ v = verify[h] /\ b = (tx[t].phase = "committed")
    OBVIOUS
  <1>2. /\ job[t].kind \in {"facebook", "linkedin"} /\ GoTo(t, "done")
        /\ UNCHANGED <<fsVars, pipeVars, fbToken>>
    BY DEF FacebookLoginFails, FacebookDone, LinkedInDone, At
  <1>3. h \in Homes
    BY <1>1, <1>2, VerifyJob
  <1>4. /\ v = [status |-> v.status, user |-> v.user, facebookbutton |-> v.facebookbutton,
                linkdinbutton |-> v.linkdinbutton, isFetching |-> v.isFetching,
                location |-> v.location, stuck |-> v.stuck]
        /\ v.isFetching \in {Yes, No} /\ v.location \in {Null, Here}
    BY <1>1, <1>3, VerifyFields
  <1>5. QueueOK'
    BY <1>2, PipelineRests
  <1>6. CASE FacebookLoginFails(t) \/ FacebookDone(t)
    <2>1. PICK c, r : /\ r = [v EXCEPT !.facebookbutton = c] /\ SetVerifyState(h, r)
                      /\ c => tx[t].phase = "committed" /\ job[t].kind = "facebook"
      BY <1>1, <1>6 DEF FacebookLoginFails, FacebookDone, At
    <2>2. r = [status |-> v.status, user |-> v.user, facebookbutton |-> c,
               linkdinbutton |-> v.linkdinbutton, isFetching |-> v.isFetching,
               location |-> v.location, stuck |-> v.stuck]
      BY <1>4, <2>1
    <2>3. r.facebookbutton => StoredFor(h, "facebook", "facebookToken")
      BY <1>1, <2>1, <2>2, ConfirmedIsStored
    <2> QED
      BY <1>1, <1>2, <1>4, <1>5, <2>1, <2>2, <2>3, ShowEndIInv
  <1>7. CASE LinkedInDone(t)
    <2>1. PICK c, r : /\ r = [v EXCEPT !.linkdinbutton = c] /\ SetVerifyState(h, r)
                      /\ c => tx[t].phase = "committed" /\ job[t].kind = "linkedin"
      BY <1>1, <1>7 DEF LinkedInDone, At
    <2>2. r = [status |-> v.status, user |-> v.user, facebookbutton |-> v.facebookbutton,
               linkdinbutton |-> c, isFetching |-> v.isFetching,
               location |-> v.location, stuck |-> v.stuck]
      BY <1>4, <2>1
    <2>3. r.linkdinbutton => StoredFor(h, "linkedin", "linkdintoken")
      BY <1>1, <2>1, <2>2, ConfirmedIsStored
    <2> QED
      BY <1>1, <1>2, <1>4, <1>5, <2>1, <2>2, <2>3, ShowEndIInv
  <1> QED
    BY <1>6, <1>7

LEMMA LinkedInFailsIInv ==
    ASSUME AppIInv, UNCHANGED <<accountVars, infoState, record>>, NEW t \in TxIds,
           LinkedInFails(t)
    PROVE  AppIInv' /\ AppAges
  <1>1. /\ job[t].kind = "linkedin" /\ GoTo(t, "done")
        /\ UNCHANGED <<fsVars, pipeVars, verifyVars>>
    BY DEF LinkedInFails, At
  <1>2. ScreensAge /\ \A g \in Homes : Visited(g)' <=> Visited(g)
    BY <1>1, SessionRests, RestingScreens
  <1>3. UNCHANGED tx /\ BackendGrows
    BY <1>1, IdleFs DEF fsVars
  <1>4. /\ JobsOK' /\ JobsAge /\ KeysKept
        /\ \A s \in TxIds, g \in Homes : Locating(s, g) => Locating(s, g)'
    BY <1>1, <1>2, <1>3, JobEnds
  <1>5. FsOK' /\ QueueOK' /\ RecordOK'
    BY <1>1, <1>2, <1>4, FsFrame, PipelineRests, RecordRests DEF AppIInv
  <1> QED
    BY <1>1, <1>2, <1>3, <1>4, <1>5, QuietStepIInv

\* The position is known: it is queued for the document of the constructor.
LEMMA PositionFoundIInv ==
    ASSUME AppIInv, UNCHANGED <<accountVars, infoState, record>>, NEW t \in TxIds,
           PositionFound(t)
    PROVE  AppIInv' /\ AppAges
  <1>1. PICK i, k, d : i = job[t] /\ k = i.key /\ d = [location |-> Here]
    OBVIOUS
  <1>2. /\ i.kind = "location" /\ i.stage = "position" /\ GoTo(t, "write")
        /\ Enqueue(t, k, d)
        /\ UNCHANGED <<fsVars, outcomes, cache, verifyVars>>
    BY <1>1 DEF PositionFound, At
  <1>3. /\ i = [kind |-> i.kind, owner |-> i.owner, key |-> i.key, stage |-> i.stage,
                data |-> i.data]
        /\ i.kind \in JobKinds \cap Kinds
        /\ i.owner \in Homes /\ Visited(i.owner) /\ verify[i.owner].user \in Users
        /\ currentUser \in Users
        /\ JobOf(i) /\ tx[t].phase = "idle" /\ i.key \in Users \cup {NoUser}
    BY <1>1, <1>2, VerifyJob
  <1>4. k \in Users /\ k = verify[i.owner].user
    BY <1>1, <1>2, <1>3 DEF JobOf
  <1>5. PICK j : j = [kind |-> i.kind, owner |-> i.owner, key |-> i.key, stage |-> "write",
                      data |-> i.data]
    OBVIOUS
  <1>6. job' = [job EXCEPT ![t] = j]
    <2>1. [i EXCEPT !.stage = "write"] = j
      BY <1>3, <1>5
    <2> QED
      BY <1>1, <1>2, <2>1 DEF GoTo, AppIInv, JobsOK
  <1>7. UNCHANGED tx /\ BackendGrows
    BY <1>2, IdleFs DEF fsVars
  <1>8. ScreensAge /\ \A g \in Homes : Visited(g)' <=> Visited(g)
    BY <1>2, SessionRests, RestingScreens
  <1>9. JobOK(j, "idle")'
    <2>1. Visited(j.owner)' /\ verify'[j.owner].user = k
      BY <1>2, <1>3, <1>4, <1>5, <1>8 DEF verifyVars
    <2> QED
      BY <1>1, <1>2, <1>3, <1>4, <1>5, <2>1 DEF JobOK, JobOf
  <1>10. /\ JobsOK' /\ JobsAge /\ KeysKept
         /\ \A s \in TxIds, g \in Homes : Locating(s, g) => Locating(s, g)'
    <2>1. /\ i.kind # "none" /\ j.kind = i.kind /\ j.owner = i.owner /\ j.key = i.key
          /\ j.stage = "write" /\ tx'[t].phase = "idle"
      BY <1>2, <1>3, <1>5, <1>7
    <2>2. JobsOK /\ DOMAIN tx = TxIds
      BY DEF AppIInv, FsOK, ClientOK
    <2>3. JobsOK' /\ job'[t] = j /\ \A s \in TxIds \ {t} : job'[s] = job[s]
      BY <1>6, <1>7, <1>8, <1>9, <2>1, <2>2, JobMoves
    <2> QED
      BY <1>1, <2>1, <2>3 DEF JobsAge, KeysKept, Locating
  <1>11. FsOK' /\ RecordOK'
    BY <1>2, <1>8, <1>10, FsFrame, RecordRests DEF AppIInv
  <1>12. QueueOK'
    BY <1>1, <1>2, <1>3, <1>4, LocationDoc, SessionRests, EnqueueQueue DEF AppIInv
  <1> QED
    BY <1>2, <1>7, <1>8, <1>10, <1>11, <1>12, QuietStepIInv

\* The ends of verifyLocation.
LEMMA LocationDoneIInv ==
    ASSUME AppIInv, UNCHANGED <<accountVars, infoState, record>>, NEW t \in TxIds,
           PositionFails(t) \/ LocationSaved(t) \/ LocationRejected(t)
    PROVE  AppIInv' /\ AppAges
  <1>1. PICK h, v : h = job[t].owner /\ v = verify[h]
    OBVIOUS
  <1>2. job[t].kind = "location" /\ GoTo(t, "done") /\ UNCHANGED <<fsVars, fbToken>>
    BY DEF PositionFails, LocationSaved, LocationRejected, At
  <1>3. h \in Homes
    BY <1>1, <1>2, VerifyJob
  <1>4. /\ v = [status |-> v.status, user |-> v.user, facebookbutton |-> v.facebookbutton,
                linkdinbutton |-> v.linkdinbutton, isFetching |-> v.isFetching,
                location |-> v.location, stuck |-> v.stuck]
        /\ v.isFetching \in {Yes, No} /\ v.location \in {Null, Here}
    BY <1>1, <1>3, VerifyFields
  <1>5. QueueOK'
    <2>1. CASE PositionFails(t)
      BY <2>1, PipelineRests DEF PositionFails
    <2>2. CASE LocationSaved(t) \/ LocationRejected(t)
      BY <2>2, AnswerQueue, SessionRests DEF LocationSaved, LocationRejected, AppIInv
    <2> QED
      BY <2>1, <2>2
  <1>6. CASE PositionFails(t)
    <2>1. PICK r : r = SetFetching(v, No)
      OBVIOUS
    <2>2. SetVerifyState(h, r)
      BY <1>1, <1>6, <2>1 DEF PositionFails
    <2>3. r = [status |-> v.status, user |-> v.user, facebookbutton |-> v.facebookbutton,
               linkdinbutton |-> v.linkdinbutton, isFetching |-> No,
               location |-> v.location, stuck |-> FALSE]
      BY <1>4, <2>1 DEF SetFetching
    <2> QED
      BY <1>1, <1>2, <1>4, <1>5, <2>2, <2>3, ValuesAssumption, ShowEndIInv
  <1>7. CASE LocationSaved(t)
    <2>1. PICK r : r = [SetFetching(v, No) EXCEPT !.location = Here]
      OBVIOUS
    <2>2. SetVerifyState(h, r)
      BY <1>1, <1>7, <2>1 DEF LocationSaved
    <2>3. r = [status |-> v.status, user |-> v.user, facebookbutton |-> v.facebookbutton,
               linkdinbutton |-> v.linkdinbutton, isFetching |-> No,
               location |-> Here, stuck |-> FALSE]
      BY <1>4, <2>1 DEF SetFetching
    <2> QED
      BY <1>1, <1>2, <1>4, <1>5, <2>2, <2>3, ValuesAssumption, ShowEndIInv
  <1>8. CASE LocationRejected(t)
    <2>1. PICK r : r = [v EXCEPT !.stuck = TRUE]
      OBVIOUS
    <2>2. SetVerifyState(h, r)
      BY <1>1, <1>8, <2>1 DEF LocationRejected
    <2>3. PICK c : c = TRUE
      OBVIOUS
    <2>4. r = [status |-> v.status, user |-> v.user, facebookbutton |-> v.facebookbutton,
               linkdinbutton |-> v.linkdinbutton, isFetching |-> v.isFetching,
               location |-> v.location, stuck |-> c]
      BY <1>4, <2>1, <2>3
    <2> QED
      BY <1>1, <1>2, <1>4, <1>5, <2>2, <2>3, <2>4, ShowEndIInv
  <1> QED
    BY <1>6, <1>7, <1>8

LEMMA VerifyIInv ==
    ASSUME AppIInv, VerifyNext, UNCHANGED <<accountVars, infoState, record>>
    PROVE  AppIInv' /\ AppAges
  BY VerifyMountIInv, PressFacebookIInv, PressLinkedInIInv, PressLocationIInv, VerifyLoadIInv,
     FacebookGrantedIInv, LinkedInSignedInIInv, TokenStepIInv, TokenBlockIInv, TokenDoneIInv,
     LinkedInFailsIInv, PositionFoundIInv, LocationDoneIInv DEF VerifyNext

\* The state of one RecordScreen changes.
LEMMA SetRecordOK ==
    ASSUME AppIInv, UNCHANGED <<accountVars, verifyVars>>, NEW r \in Records, NEW x,
           record' = [record EXCEPT ![r] = x],
           x = [status |-> x.status, home |-> x.home, user |-> x.user, videos |-> x.videos,
                late |-> x.late],
           x.videos \in Seq(Clips), x.status # "unborn",
           Visited(x.home) /\ x.user \in Users,
           Opened(r) => x.home = record[r].home /\ x.user = record[r].user
    PROVE  RecordOK' /\ ScreensAge /\ record'[r] = x
  <1>1. RecordOK /\ DOMAIN record = Records
    BY DEF AppIInv, RecordOK
  <1>2. /\ DOMAIN record' = Records /\ record'[r] = x
        /\ \A q \in Records \ {r} : record'[q] = record[q]
    BY <1>1
  <1>3. HomesAge /\ \A h : Visited(h)' <=> Visited(h)
    BY SessionRests DEF verifyVars, Visited
  <1>4. ASSUME NEW q \in Records, Opened(q)'
        PROVE  Visited(record[q].home)' /\ record'[q].user \in Users
    <2>1. PICK y : y = record'[q]
      OBVIOUS
    <2>2. Visited(y.home) /\ y.user \in Users
      BY <1>1, <1>2, <1>4, <2>1 DEF RecordOK, Opened
    <2>3. Visited(y.home)'
      BY <1>3, <2>2
    <2> QED
      BY <2>1, <2>2, <2>3
  <1>5. RecordOK'
    BY <1>1, <1>2, <1>4 DEF RecordOK
  <1>6. ScreensAge
    BY <1>2, <1>3 DEF ScreensAge, Opened, verifyVars
  <1> QED
    BY <1>2, <1>5, <1>6

\* What an operation of a RecordScreen refers to.
LEMMA RecordJob ==
    ASSUME AppIInv, NEW t \in TxIds, NEW i, i = job[t], i.kind \in {"recordLoad", "video"}
    PROVE  /\ i = [kind |-> i.kind, owner |-> i.owner, key |-> i.key, stage |-> i.stage,
                   data |-> i.data]
           /\ i.kind \in JobKinds \cap Kinds
           /\ i.owner \in Records /\ Opened(i.owner)
           /\ i.key = record[i.owner].user /\ i.key \in Users /\ currentUser \in Users
           /\ JobOf(i)
           /\ i.stage # "done" => tx[t].phase = "idle"
  <1>1. JobOK(i, tx[t].phase)
    BY DEF AppIInv, JobsOK
  <1>2. i.kind \in JobKinds \cap Kinds /\ JobOf(i)
    BY <1>1 DEF JobOK, NoJob
  <1>3. i.owner \in Records /\ Opened(i.owner) /\ i.key = record[i.owner].user
    BY <1>2 DEF JobOf, Opened
  <1>4. Visited(record[i.owner].home) /\ i.key \in Users
    BY <1>3 DEF AppIInv, RecordOK
  <1>5. currentUser \in Users
    BY <1>4, VisitedSignedIn
  <1>6. i.stage # "done" => tx[t].phase = "idle"
    BY <1>1, <1>2 DEF JobOK, JobOf
  <1> QED
    BY <1>1, <1>2, <1>3, <1>4, <1>5, <1>6 DEF JobOK

\* What a RecordScreen holds.
LEMMA RecordFields ==
    ASSUME AppIInv, NEW r \in Records, NEW x, x = record[r]
    PROVE  /\ x = [status |-> x.status, home |-> x.home, user |-> x.user, videos |-> x.videos,
                   late |-> x.late]
           /\ x.videos \in Seq(Clips)
           /\ Opened(r) => x.status # "unborn" /\ Visited(x.home) /\ x.user \in Users
  BY DEF AppIInv, RecordOK, Opened

\* A RecordScreen is opened on a verification tab.
LEMMA OpenRecordIInv ==
    ASSUME AppIInv, UNCHANGED <<accountVars, infoState>>, NEW h \in Homes, NEW r \in Records,
           NEW t \in TxIds, OpenRecord(h, r, t)
    PROVE  AppIInv' /\ AppAges
  <1>1. PICK u, x, j :
           /\ u = currentUser
           /\ x = [status |-> "mounted", home |-> h, user |-> u, videos |-> <<>>, late |-> FALSE]
           /\ j = [kind |-> "recordLoad", owner |-> r, key |-> u, stage |-> "get", data |-> Null]
    OBVIOUS
  <1>2. /\ VerifyMounted(h) /\ record[r].status = "unborn"
        /\ record' = [record EXCEPT ![r] = x]
        /\ Begin(t, "recordLoad", r, u, "get")
        /\ UNCHANGED <<fsVars, pipeVars, verifyVars>>
    BY <1>1 DEF OpenRecord
  <1>3. Visited(h) /\ u \in Users /\ ~Opened(r)
    BY <1>1, <1>2, VisitedSignedIn DEF VerifyMounted, Visited, Opened
  <1>4. RecordOK' /\ ScreensAge /\ record'[r] = x
    <2>1. /\ x = [status |-> x.status, home |-> x.home, user |-> x.user, videos |-> x.videos,
                  late |-> x.late]
          /\ x.status # "unborn" /\ x.home = h /\ x.user = u
      BY <1>1
    <2>2. x.videos \in Seq(Clips)
      BY <1>1
    <2> QED
      BY <1>2, <1>3, <2>1, <2>2, SetRecordOK
  <1>5. JobsOK /\ DOMAIN tx = TxIds /\ UNCHANGED tx /\ BackendGrows
    BY <1>2, IdleFs DEF AppIInv, FsOK, ClientOK, fsVars
  <1>6. /\ job' = [job EXCEPT ![t] = j] /\ "recordLoad" \in Kinds /\ tx[t].phase = "idle"
        /\ JobsAge /\ KeysKept
        /\ \A s \in TxIds, g \in Homes : Locating(s, g) => Locating(s, g)'
    BY <1>1, <1>2, <1>5, BeginAges
  <1>7. Opened(r)' /\ record'[r].user = u
    BY <1>1, <1>4 DEF Opened
  <1>8. JobOK(j, "idle")'
    BY <1>1, <1>3, <1>6, <1>7 DEF JobOK, JobOf, JobKinds
  <1>9. JobsOK' /\ FsOK' /\ QueueOK'
    BY <1>2, <1>4, <1>5, <1>6, <1>8, JobMoves, FsFrame, PipelineRests DEF AppIInv
  <1> QED
    BY <1>2, <1>4, <1>5, <1>6, <1>9, QuietStepIInv

\* It is closed.
LEMMA CloseRecordIInv ==
    ASSUME AppIInv, UNCHANGED <<accountVars, infoState>>, NEW r \in Records, CloseRecord(r)
    PROVE  AppIInv' /\ AppAges
  <1>1. UNCHANGED <<fsVars, job, pipeVars, verifyVars>> /\ RecordMounted(r)
    BY DEF CloseRecord
  <1>2. /\ DOMAIN record' = Records
        /\ \A q \in Records : \/ record'[q] = record[q]
                              \/ /\ RecordMounted(q)
                                 /\ record'[q] = [record[q] EXCEPT !.status = "gone"]
    BY DEF CloseRecord, AppIInv, RecordOK
  <1>3. RecordOK' /\ ScreensAge
    BY <1>1, <1>2, SessionRests, RecordsLeave DEF AppIInv
  <1>4. BackendGrows /\ SamePhases
    BY <1>1, IdleFs
  <1>5. /\ JobsAge /\ KeysKept
        /\ \A s \in TxIds, g \in Homes : Locating(s, g) => Locating(s, g)'
    BY <1>1, RestingJobs
  <1>6. FsOK' /\ JobsOK' /\ QueueOK'
    BY <1>1, <1>3, <1>4, <1>5, FsFrame, JobsRest, PipelineRests DEF AppIInv, SamePhases
  <1> QED
    BY <1>1, <1>3, <1>4, <1>5, <1>6, QuietStepIInv

\* An upload begins.
LEMMA UploadVideoIInv ==
    ASSUME AppIInv, UNCHANGED <<accountVars, infoState>>, NEW r \in Records,
           NEW t \in TxIds, UploadVideo(r, t)
    PROVE  AppIInv' /\ AppAges
  <1>1. PICK u, j :
           /\ u = record[r].user
           /\ j = [kind |-> "video", owner |-> r, key |-> u, stage |-> "put", data |-> Null]
    OBVIOUS
  <1>2. /\ RecordMounted(r) /\ Begin(t, "video", r, u, "put")
        /\ UNCHANGED <<fsVars, pipeVars, verifyVars, record>>
    BY <1>1 DEF UploadVideo
  <1>3. Opened(r)
    BY <1>2 DEF RecordMounted, Opened
  <1>4. u \in Users
    BY <1>1, <1>3, RecordFields
  <1>5. ScreensAge /\ \A g \in Homes : Visited(g)' <=> Visited(g)
    BY <1>2, SessionRests, RestingScreens
  <1>6. JobsOK /\ DOMAIN tx = TxIds /\ UNCHANGED tx /\ BackendGrows
    BY <1>2, IdleFs DEF AppIInv, FsOK, ClientOK, fsVars
  <1>7. /\ job' = [job EXCEPT ![t] = j] /\ "video" \in Kinds /\ tx[t].phase = "idle"
        /\ JobsAge /\ KeysKept
        /\ \A s \in TxIds, g \in Homes : Locating(s, g) => Locating(s, g)'
    BY <1>1, <1>2, <1>6, BeginAges
  <1>8. Opened(r)' /\ record'[r].user = u
    BY <1>1, <1>2, <1>3 DEF Opened
  <1>9. JobOK(j, "idle")'
    BY <1>1, <1>4, <1>7, <1>8 DEF JobOK, JobOf, JobKinds
  <1>10. JobsOK' /\ FsOK' /\ QueueOK' /\ RecordOK'
    BY <1>2, <1>5, <1>6, <1>7, <1>9, JobMoves, FsFrame, PipelineRests, RecordRests DEF AppIInv
  <1> QED
    BY <1>2, <1>5, <1>6, <1>7, <1>10, QuietStepIInv

\* An operation of a RecordScreen goes on.
LEMMA RecordStepIInv ==
    ASSUME AppIInv, UNCHANGED <<accountVars, infoState, fsVars, verifyVars>>, QueueOK',
           RecordOK', ScreensAge, NEW t \in TxIds, NEW i, i = job[t],
           i.kind \in {"recordLoad", "video"}, i.stage # "done", NEW stage, NEW data,
           i.kind = "recordLoad" => stage \in {"snapshot", "done"},
           i.kind = "video" => stage \in {"write", "acknowledged", "done"},
           stage = "snapshot" => data = NoDoc \/ GoodDoc(data),
           job' = [job EXCEPT ![t] = [kind |-> i.kind, owner |-> i.owner, key |-> i.key,
                                      stage |-> stage, data |-> data]]
    PROVE  AppIInv' /\ AppAges
  <1>1. PICK j : j = [kind |-> i.kind, owner |-> i.owner, key |-> i.key, stage |-> stage,
                      data |-> data]
    OBVIOUS
  <1>2. /\ i.kind \in JobKinds \cap Kinds
        /\ i.owner \in Records /\ Opened(i.owner)
        /\ i.key = record[i.owner].user /\ i.key \in Users
        /\ tx[t].phase = "idle"
    BY RecordJob
  <1>3. Opened(i.owner)' /\ record'[i.owner].user = i.key
    BY <1>2 DEF ScreensAge
  <1>4. GoodDoc(data)' <=> GoodDoc(data)
    BY DEF GoodDoc
  <1>5. JobOf(j)'
    BY <1>1, <1>3, <1>4 DEF JobOf
  <1>6. JobOK(j, "idle")'
    BY <1>1, <1>2, <1>5 DEF JobOK
  <1>7. UNCHANGED tx /\ BackendGrows
    BY IdleFs DEF fsVars
  <1>8. /\ JobsOK' /\ JobsAge /\ KeysKept
        /\ \A s \in TxIds, g \in Homes : Locating(s, g) => Locating(s, g)'
    BY <1>1, <1>2, <1>6, <1>7, JobGoes
  <1>9. FsOK'
    BY <1>8, FsFrame DEF AppIInv
  <1> QED
    BY <1>7, <1>8, <1>9, QuietStepIInv

\* The same for a callback that only moves it.
LEMMA RecordGoesIInv ==
    ASSUME AppIInv, UNCHANGED <<accountVars, infoState, fsVars, verifyVars>>, QueueOK',
           RecordOK', ScreensAge, NEW t \in TxIds, job[t].kind \in {"recordLoad", "video"},
           job[t].stage # "done", NEW stage,
           job[t].kind = "recordLoad" => stage = "done",
           job[t].kind = "video" => stage \in {"write", "acknowledged", "done"},
           GoTo(t, stage)
    PROVE  AppIInv' /\ AppAges
  <1>1. PICK i, d : i = job[t] /\ d = i.data
    OBVIOUS
  <1>2. i = [kind |-> i.kind, owner |-> i.owner, key |-> i.key, stage |-> i.stage,
             data |-> i.data]
    BY <1>1, RecordJob
  <1>3. [i EXCEPT !.stage = stage] = [kind |-> i.kind, owner |-> i.owner, key |-> i.key,
                                      stage |-> stage, data |-> d]
    BY <1>1, <1>2
  <1>4. job' = [job EXCEPT ![t] = [i EXCEPT !.stage = stage]]
    BY <1>1 DEF GoTo, AppIInv, JobsOK
  <1>5. job' = [job EXCEPT ![t] = [kind |-> i.kind, owner |-> i.owner, key |-> i.key,
                                   stage |-> stage, data |-> d]]
    BY <1>3, <1>4
  <1>6. stage # "snapshot"
    OBVIOUS
  <1> QED
    BY <1>1, <1>5, <1>6, RecordStepIInv

\* The get of componentDidMount: its snapshot, its failure, its then.
LEMMA RecordLoadIInv ==
    ASSUME AppIInv, UNCHANGED <<accountVars, infoState>>, NEW t \in TxIds,
           \/ RecordSnapshot(t) \/ RecordCachedSnapshot(t)
           \/ RecordGetFails(t) \/ RecordLoaded(t)
    PROVE  AppIInv' /\ AppAges
  <1>1. PICK i : i = job[t]
    OBVIOUS
  <1>2. /\ i.kind = "recordLoad" /\ i.stage \in {"get", "snapshot"}
        /\ UNCHANGED <<fsVars, queue, outcomes, verifyVars>>
        /\ Snapshot \/ UNCHANGED cache
    BY <1>1 DEF RecordSnapshot, RecordCachedSnapshot, RecordGetFails, RecordLoaded, At, pipeVars
  <1>3. /\ i = [kind |-> i.kind, owner |-> i.owner, key |-> i.key, stage |-> i.stage,
                data |-> i.data]
        /\ i.owner \in Records /\ Opened(i.owner)
        /\ i.key \in Users /\ JobOf(i)
    BY <1>1, <1>2, RecordJob
  <1>4. QueueOK' /\ DOMAIN job = TxIds
    <2>1. AccountIInv' /\ UNCHANGED currentUser
      BY SessionRests
    <2>2. Snapshot => cache' \in Caches /\ cache'.known <= Len(outcomes')
      BY <1>2, SnapshotCache DEF AppIInv, FsOK
    <2> QED
      BY <1>2, <2>1, <2>2, QuietQueue DEF AppIInv, JobsOK
  <1>5. CASE RecordSnapshot(t) \/ RecordCachedSnapshot(t)
    <2>1. PICK d \in {LocalView(i.key), CachedView(i.key)} :
             job' = [job EXCEPT ![t].stage = "snapshot", ![t].data = d]
      BY <1>1, <1>5 DEF RecordSnapshot, RecordCachedSnapshot
    <2>2. d = NoDoc \/ GoodDoc(d)
      BY <1>3, <2>1, LocalViewGood, KeysAreUids
         DEF AppIInv, FsOK, AccountIInv, AccountTypeOK
    <2>3. PICK x : x = [i EXCEPT !.stage = "snapshot"]
      OBVIOUS
    <2>4. x = [kind |-> i.kind, owner |-> i.owner, key |-> i.key, stage |-> "snapshot",
               data |-> i.data]
      BY <1>3, <2>3
    <2>5. [x EXCEPT !.data = d] = [kind |-> i.kind, owner |-> i.owner, key |-> i.key,
                                   stage |-> "snapshot", data |-> d]
      BY <2>4
    <2>6. job' = [job EXCEPT ![t] = [x EXCEPT !.data = d]] /\ UNCHANGED record
      BY <1>1, <1>4, <1>5, <2>1, <2>3 DEF RecordSnapshot, RecordCachedSnapshot
    <2>7. job' = [job EXCEPT ![t] = [kind |-> i.kind, owner |-> i.owner, key |-> i.key,
                                     stage |-> "snapshot", data |-> d]]
      BY <2>5, <2>6
    <2>8. ScreensAge /\ RecordOK'
      BY <1>2, <2>6, SessionRests, RestingScreens, RecordRests DEF AppIInv
    <2> QED
      BY <1>1, <1>2, <1>4, <2>2, <2>7, <2>8, RecordStepIInv
  <1>6. CASE RecordGetFails(t)
    <2>1. GoTo(t, "done") /\ UNCHANGED record
      BY <1>6 DEF RecordGetFails
    <2>2. ScreensAge /\ RecordOK'
      BY <1>2, <2>1, SessionRests, RestingScreens, RecordRests DEF AppIInv
    <2> QED
      BY <1>1, <1>2, <1>4, <2>1, <2>2, RecordGoesIInv
  <1>7. CASE RecordLoaded(t)
    <2>1. PICK x : x = [i EXCEPT !.stage = "done"]
      OBVIOUS
    <2>2. x = [kind |-> i.kind, owner |-> i.owner, key |-> i.key, stage |-> "done",
               data |-> i.data]
      BY <1>3, <2>1
    <2>3. [x EXCEPT !.data = Null] = [kind |-> i.kind, owner |-> i.owner, key |-> i.key,
                                      stage |-> "done", data |-> Null]
      BY <2>2
    <2>4. job' = [job EXCEPT ![t] = [x EXCEPT !.data = Null]]
      BY <1>1, <1>4, <1>7, <2>1 DEF RecordLoaded
    <2>5. job' = [job EXCEPT ![t] = [kind |-> i.kind, owner |-> i.owner, key |-> i.key,
                                     stage |-> "done", data |-> Null]]
      BY <2>3, <2>4
    <2>6. PICK r, d, y : r = i.owner /\ d = i.data /\ y = record[r]
      OBVIOUS
    <2>7. i.stage = "snapshot"
      BY <1>1, <1>7 DEF RecordLoaded, At
    <2>8. d = NoDoc \/ GoodDoc(d)
      BY <1>2, <1>3, <2>6, <2>7 DEF JobOf
    <2>9. PICK stored :
             stored = IF d # NoDoc /\ "videos" \in DOMAIN d THEN d.videos ELSE <<>>
      OBVIOUS
    <2>10. stored \in Seq(Clips)
      BY <2>8, <2>9 DEF GoodDoc
    <2>11. \/ UNCHANGED record
           \/ record' = [record EXCEPT ![r].videos = stored, ![r].late = record[r].videos # <<>>]
      BY <1>1, <1>7, <2>6, <2>9 DEF RecordLoaded
    <2>12. CASE UNCHANGED record
      <3>1. ScreensAge /\ RecordOK'
        BY <1>2, <2>12, SessionRests, RestingScreens, RecordRests DEF AppIInv
      <3> QED
        BY <1>1, <1>2, <1>4, <2>5, <3>1, RecordStepIInv
    <2>13. CASE record' = [record EXCEPT ![r].videos = stored,
                                         ![r].late = record[r].videos # <<>>]
      <3>1. /\ y = [status |-> y.status, home |-> y.home, user |-> y.user,
                    videos |-> y.videos, late |-> y.late]
            /\ y.status # "unborn" /\ Visited(y.home) /\ y.user \in Users
        BY <1>3, <2>6, RecordFields
      <3>2. PICK c, z : c = (y.videos # <<>>) /\ z = [y EXCEPT !.videos = stored]
        OBVIOUS
      <3>3. z = [status |-> y.status, home |-> y.home, user |-> y.user,
                 videos |-> stored, late |-> y.late]
        BY <3>1, <3>2
      <3>4. PICK w : w = [z EXCEPT !.late = c]
        OBVIOUS
      <3>5. w = [status |-> y.status, home |-> y.home, user |-> y.user,
                 videos |-> stored, late |-> c]
        BY <3>3, <3>4
      <3>6. record' = [record EXCEPT ![r] = w]
        BY <1>3, <2>6, <2>13, <3>2, <3>4 DEF AppIInv, RecordOK
      <3>7. RecordOK' /\ ScreensAge
        <4>1. /\ w = [status |-> w.status, home |-> w.home, user |-> w.user,
                      videos |-> w.videos, late |-> w.late]
              /\ w.videos \in Seq(Clips) /\ w.status # "unborn"
              /\ Visited(w.home) /\ w.user \in Users
              /\ w.home = record[r].home /\ w.user = record[r].user
          BY <2>6, <2>10, <3>1, <3>5
        <4> QED
          BY <1>2, <1>3, <2>6, <3>6, <4>1, SetRecordOK
      <3> QED
        BY <1>1, <1>2, <1>4, <2>5, <3>7, RecordStepIInv
    <2> QED
      BY <2>11, <2>12, <2>13
  <1> QED
    BY <1>5, <1>6, <1>7

\* The uploads: the list held grows, and is queued whole.
LEMMA VideoIInv ==
    ASSUME AppIInv, UNCHANGED <<accountVars, infoState>>, NEW t \in TxIds,
           VideoUploaded(t) \/ VideoFails(t) \/ VideoSaved(t) \/ VideoRejected(t)
    PROVE  AppIInv' /\ AppAges
  <1>1. job[t].kind = "video" /\ job[t].stage \in {"put", "write"}
        /\ UNCHANGED <<fsVars, verifyVars>>
    BY DEF VideoUploaded, VideoFails, VideoSaved, VideoRejected, At
  <1>2. CASE VideoUploaded(t)
    <2>1. PICK r, k, x : r = job[t].owner /\ k = job[t].key /\ x = record[r]
      OBVIOUS
    <2>2. PICK a : a = Append(x.videos, t)
      OBVIOUS
    <2>3. /\ record' = [record EXCEPT ![r].videos = a]
          /\ Enqueue(t, k, [videos |-> a]) /\ GoTo(t, "write")
          /\ UNCHANGED <<outcomes, cache>>
      BY <1>2, <2>1, <2>2 DEF VideoUploaded
    <2>4. r \in Records /\ Opened(r) /\ k \in Users /\ currentUser \in Users
      BY <1>1, <2>1, RecordJob
    <2>5. /\ x = [status |-> x.status, home |-> x.home, user |-> x.user,
                  videos |-> x.videos, late |-> x.late]
          /\ x.videos \in Seq(Clips)
          /\ x.status # "unborn" /\ Visited(x.home) /\ x.user \in Users
      BY <2>1, <2>4, RecordFields
    <2>6. a \in Seq(Clips)
      BY <2>2, <2>5 DEF Clips
    <2>7. PICK y : y = [x EXCEPT !.videos = a]
      OBVIOUS
    <2>8. y = [status |-> x.status, home |-> x.home, user |-> x.user, videos |-> a,
               late |-> x.late]
      BY <2>5, <2>7
    <2>9. record' = [record EXCEPT ![r] = y]
      BY <2>1, <2>3, <2>4, <2>7 DEF AppIInv, RecordOK
    <2>10. RecordOK' /\ ScreensAge
      <3>1. /\ y = [status |-> y.status, home |-> y.home, user |-> y.user,
                    videos |-> y.videos, late |-> y.late]
            /\ y.videos \in Seq(Clips) /\ y.status # "unborn"
            /\ Visited(y.home) /\ y.user \in Users
            /\ y.home = record[r].home /\ y.user = record[r].user
        BY <2>1, <2>5, <2>6, <2>8
      <3> QED
        BY <1>1, <2>4, <2>9, <3>1, SetRecordOK
    <2>11. QueueOK'
      BY <2>3, <2>4, <2>6, VideosDoc, SessionRests, EnqueueQueue DEF AppIInv
    <2> QED
      BY <1>1, <2>3, <2>10, <2>11, RecordGoesIInv
  <1>3. CASE VideoFails(t) \/ VideoSaved(t) \/ VideoRejected(t)
    <2>1. UNCHANGED record /\ \E stage \in {"acknowledged", "done"} : GoTo(t, stage)
      BY <1>3 DEF VideoFails, VideoSaved, VideoRejected
    <2>2. RecordOK' /\ ScreensAge
      BY <1>1, <2>1, SessionRests, RestingScreens, RecordRests DEF AppIInv
    <2>3. QueueOK'
      <3>1. CASE VideoFails(t)
        BY <3>1, PipelineRests DEF VideoFails
      <3>2. CASE VideoSaved(t) \/ VideoRejected(t)
        BY <3>2, AnswerQueue, SessionRests DEF VideoSaved, VideoRejected, AppIInv
      <3> QED
        BY <1>3, <3>1, <3>2
    <2> QED
      BY <1>1, <2>1, <2>2, <2>3, RecordGoesIInv
  <1> QED
    BY <1>2, <1>3

LEMMA RecordIInv ==
    ASSUME AppIInv, RecordNext, UNCHANGED <<accountVars, infoState>>
    PROVE  AppIInv' /\ AppAges
  BY OpenRecordIInv, CloseRecordIInv, UploadVideoIInv, RecordLoadIInv, VideoIInv
     DEF RecordNext

-----------------------------------------------------------------------------
(***************************************************************************)
(* The invariant holds where a behaviour may start, and after every step.  *)
(***************************************************************************)

\* Nothing has been started, and the documents there are are good.
LEMMA StartIInv ==
    ASSUME AccountIInv, BornSignedIn, NEW S, FirestoreInit(S), JobInit, PipelineInit,
           NEW b \in BOOLEAN, CacheInit(b), RecordInit, InfoOK, VerifyOK,
           store \in [Keys -> Docs \cup {NoDoc}],
           \A k \in Keys : store[k] # NoDoc => GoodDoc(store[k]),
           \A h \in Homes : /\ ~verify[h].facebookbutton /\ ~verify[h].linkdinbutton
                            /\ verify[h].isFetching = No
    PROVE  AppIInv
  <1>1. ServerOK
    BY DEF FirestoreInit, ServerOK
  <1>2. DOMAIN tx = TxIds /\ \A t \in TxIds : tx[t] = Transaction("idle", 0)
    BY DEF FirestoreInit
  <1>3. \A t \in TxIds : IsTx(tx[t]) /\ Blank(tx[t]) /\ tx[t].phase = "idle"
    BY <1>2, BlankTx
  <1>4. ClientOK /\ AnswersOK
    BY <1>2, <1>3 DEF ClientOK, TxOK, AnswersOK, Confirmed
  <1>5. RequestsOK
    BY DEF FirestoreInit, RequestsOK
  <1>6. DOMAIN job = TxIds /\ \A t \in TxIds : job[t] = NoJob
    BY DEF JobInit
  <1>7. JobOK(NoJob, "idle")
    BY DEF JobOK, JobOf, NoJob
  <1>8. JobsOK
    BY <1>3, <1>6, <1>7 DEF JobsOK
  <1>9. RecordOK
    <2>1. PICK x : x = [status |-> "unborn", home |-> NoUser, user |-> NoUser,
                        videos |-> <<>>, late |-> FALSE]
      OBVIOUS
    <2>2. /\ x = [status |-> x.status, home |-> x.home, user |-> x.user,
                  videos |-> x.videos, late |-> x.late]
          /\ x.status = "unborn" /\ x.videos = <<>>
      BY <2>1
    <2>3. DOMAIN record = Records /\ \A r \in Records : record[r] = x
      BY <2>1 DEF RecordInit
    <2>4. <<>> \in Seq(Clips)
      OBVIOUS
    <2> QED
      BY <2>2, <2>3, <2>4 DEF RecordOK, Opened
  <1>10. QueueOK
    <2>1. queue \in [Users -> Seq(Writes)] /\ outcomes = <<>>
      BY DEF PipelineInit
    <2>2. ActiveQueue \in Seq(Writes)
      BY <2>1 DEF ActiveQueue, AccountIInv, AccountTypeOK
    <2>3. Len(outcomes) = 0 /\ Len(ActiveQueue) \in Nat /\ outcomes \in Seq({"ok", "notFound"})
      BY <2>1, <2>2
    <2>4. cache \in Caches /\ cache.known = 0
      BY DEF CacheInit, Caches, Copies
    <2> QED
      BY <2>1, <2>3, <2>4 DEF QueueOK
  <1>11. VerifiedIsStored /\ FetchingIsExplained
    BY ValuesAssumption DEF VerifiedIsStored, FetchingIsExplained
  <1> QED
    BY <1>1, <1>4, <1>5, <1>8, <1>9, <1>10, <1>11 DEF AppIInv, FsOK

LEMMA UnbornFields ==
    /\ Unborn = [status |-> Unborn.status, user |-> Unborn.user,
                 facebookbutton |-> Unborn.facebookbutton,
                 linkdinbutton |-> Unborn.linkdinbutton, isFetching |-> Unborn.isFetching,
                 location |-> Unborn.location, stuck |-> Unborn.stuck]
    /\ Unborn.status = "unborn" /\ Unborn.isFetching = No /\ Unborn.location = Null
    /\ ~Unborn.facebookbutton /\ ~Unborn.linkdinbutton
  BY DEF Unborn

LEMMA InitIInv == Init => AppIInv
  <1> SUFFICES ASSUME Init PROVE AppIInv
    OBVIOUS
  <1>1. AccountIInv
    BY InitAccountIInv DEF Init
  <1>2. \A h \in Homes : ~Born(h)
    BY DEF Init, AccountInit, Born
  <1>3. BornSignedIn /\ InfoOK
    BY <1>2 DEF BornSignedIn, InfoOK, Init, InfoInit
  <1>4. \A h \in Homes : verify[h] = Unborn
    BY DEF Init, VerifyInit
  <1>5. VerifyOK
    BY <1>4, UnbornFields DEF VerifyOK, Init, VerifyInit, Visited
  <1>6. store \in SavedDocs
    BY DEF Init, FirestoreInit
  <1>7. \A k \in Keys : store[k] = NoDoc \/ GoodDoc(store[k])
    BY <1>6, ConstructorDoc, KeysAreUids DEF SavedDocs, FormDoc
  <1>8. store \in [Keys -> Docs \cup {NoDoc}]
    BY <1>6, <1>7 DEF SavedDocs, GoodDoc
  <1> QED
    BY <1>1, <1>3, <1>4, <1>5, <1>7, <1>8, UnbornFields, StartIInv DEF Init

\* With no request, nothing overlaps the HomeMain that is mounted.
LEMMA LoadedMeans ==
    ASSUME LoadedInit
    PROVE  \E h \in Homes, u \in Users, old \in {NoDoc, Empty, [videos |-> <<Clip>>]} :
        /\ accounts = Users
        /\ currentUser = u
        /\ request = [q \in Requests |-> NoRequest]
        /\ route = h
        /\ home = [g \in Homes |->
                     IF g = h
                     THEN [status |-> "mounted", user |-> u, overlapped |-> FALSE]
                     ELSE [status |-> "unborn", user |-> NoUser, overlapped |-> FALSE]]
        /\ FirestoreInit({[k \in Keys |-> IF old = NoDoc THEN NoDoc
                                          ELSE Merge(InfoConstructor(k), old)]})
        /\ JobInit
        /\ infoState = [g \in Homes |->
                          IF g # h THEN Empty
                          ELSE IF old = NoDoc THEN InfoConstructor(u)
                          ELSE Merge(InfoConstructor(u), old)]
        /\ PipelineInit
        /\ CacheInit(TRUE)
        /\ verify = [g \in Homes |-> IF g = h THEN VerifyLoaded(u) ELSE Unborn]
        /\ fbToken = Null
        /\ RecordInit
  <1>1. PICK h \in Homes, u \in Users, old \in {NoDoc, Empty, [videos |-> <<Clip>>]} :
           LoadedFor(h, u, old, [q \in Requests |-> NoRequest], VerifyLoaded(u))
    BY DEF LoadedInit
  <1>2. (\E q \in Requests : [p \in Requests |-> NoRequest][q] # NoRequest) = FALSE
    OBVIOUS
  <1> QED
    BY <1>1, <1>2 DEF LoadedFor

LEMMA LoadedInitIInv == LoadedInit => AppIInv
  <1> SUFFICES ASSUME LoadedInit PROVE AppIInv
    OBVIOUS
  <1>1. PICK h \in Homes, u \in Users, old \in {NoDoc, Empty, [videos |-> <<Clip>>]} :
        /\ accounts = Users
        /\ currentUser = u
        /\ request = [q \in Requests |-> NoRequest]
        /\ route = h
        /\ home = [g \in Homes |->
                     IF g = h
                     THEN [status |-> "mounted", user |-> u, overlapped |-> FALSE]
                     ELSE [status |-> "unborn", user |-> NoUser, overlapped |-> FALSE]]
        /\ FirestoreInit({[k \in Keys |-> IF old = NoDoc THEN NoDoc
                                          ELSE Merge(InfoConstructor(k), old)]})
        /\ JobInit
        /\ infoState = [g \in Homes |->
                          IF g # h THEN Empty
                          ELSE IF old = NoDoc THEN InfoConstructor(u)
                          ELSE Merge(InfoConstructor(u), old)]
        /\ PipelineInit
        /\ CacheInit(TRUE)
        /\ verify = [g \in Homes |-> IF g = h THEN VerifyLoaded(u) ELSE Unborn]
        /\ fbToken = Null
        /\ RecordInit
    BY LoadedMeans
  <1>2. h # "Login"
    BY LoginRouteAssumption
  <1>3. /\ home[h] = [status |-> "mounted", user |-> u, overlapped |-> FALSE]
        /\ \A g \in Homes \ {h} :
              home[g] = [status |-> "unborn", user |-> NoUser, overlapped |-> FALSE]
    BY <1>1
  <1>4. AccountIInv
    <2>1. AccountTypeOK
      BY <1>1, <1>2, <1>3 DEF AccountTypeOK, NoRequest, Mounted
    <2>2. /\ RequestsNameUsers /\ KnownAccountOnly /\ AcceptedIsSignedIn
          /\ HomeIsSignedIn /\ HomeMatchesSession /\ OpenUnderHomeOverlapped
      BY <1>1, <1>3 DEF RequestsNameUsers, KnownAccountOnly, AcceptedIsSignedIn, NoRequest,
                        HomeIsSignedIn, HomeMatchesSession, OpenUnderHomeOverlapped, Mounted, Open
    <2> QED
      BY <2>1, <2>2 DEF AccountIInv
  <1>5. Born(h) /\ \A g \in Homes \ {h} : ~Born(g)
    BY <1>3 DEF Born
  <1>6. BornSignedIn
    BY <1>1, <1>3, <1>5 DEF BornSignedIn
  <1>7. old # NoDoc => /\ old \in Docs
                       /\ DOMAIN old \subseteq {"videos"}
                       /\ "videos" \in DOMAIN old => old.videos \in Seq(Clips)
    <2>1. CASE old = Empty
      <3>1. Empty \in [{} -> FieldValues] /\ DOMAIN Empty = {}
        BY DEF Empty
      <3> QED
        BY <2>1, <3>1, DocsAre
    <2>2. CASE old = [videos |-> <<Clip>>]
      <3>1. <<Clip>> \in Seq(Clips)
        BY DEF Clips
      <3>2. UpdateDoc([videos |-> <<Clip>>])
        BY <3>1, VideosDoc
      <3> QED
        BY <2>2, <3>2 DEF UpdateDoc, GoodDoc
    <2> QED
      BY <2>1, <2>2
  <1>8. \A x \in Users : old # NoDoc => FormDoc(Merge(InfoConstructor(x), old))
    BY <1>7, ConstructorDoc, FormMerge
  <1>9. InfoOK
    BY <1>1, <1>5, <1>8, ConstructorDoc DEF InfoOK
  <1>10. PICK v : v = VerifyLoaded(u)
    OBVIOUS
  <1>11. /\ v = [status |-> v.status, user |-> v.user, facebookbutton |-> v.facebookbutton,
                 linkdinbutton |-> v.linkdinbutton, isFetching |-> v.isFetching,
                 location |-> v.location, stuck |-> v.stuck]
         /\ v.status = "mounted" /\ v.user = u /\ v.isFetching = No /\ v.location = Null
         /\ ~v.facebookbutton /\ ~v.linkdinbutton
    BY <1>10 DEF VerifyLoaded, Unborn
  <1>12. /\ DOMAIN verify = Homes /\ verify[h] = v
         /\ \A g \in Homes \ {h} : verify[g] = Unborn
    BY <1>1, <1>10
  <1>13. VerifyOK
    BY <1>1, <1>5, <1>11, <1>12, UnbornFields DEF VerifyOK, Visited
  <1>14. store = [k \in Keys |-> IF old = NoDoc THEN NoDoc ELSE Merge(InfoConstructor(k), old)]
    BY <1>1 DEF FirestoreInit
  <1>15. \A k \in Keys : store[k] = NoDoc \/ GoodDoc(store[k])
    BY <1>8, <1>14, KeysAreUids DEF FormDoc
  <1>16. store \in [Keys -> Docs \cup {NoDoc}]
    BY <1>14, <1>15 DEF GoodDoc
  <1>17. \A g \in Homes : /\ ~verify[g].facebookbutton /\ ~verify[g].linkdinbutton
                          /\ verify[g].isFetching = No
    BY <1>11, <1>12, UnbornFields
  <1> QED
    BY <1>1, <1>4, <1>6, <1>9, <1>13, <1>15, <1>16, <1>17, StartIInv

LEMMA NextIInv == AppIInv /\ [Next]_vars => AppIInv' /\ AppAges
  <1> SUFFICES ASSUME AppIInv, [Next]_vars PROVE AppIInv' /\ AppAges
    OBVIOUS
  <1>1. CASE Auth \/ LeaveHome \/ Restart \/ Transact
    BY <1>1, AuthIInv, LeaveHomeIInv, RestartIInv, TransactIInv
  <1>2. CASE \E q \in Requests, h \in Homes, t \in TxIds : MountHome(q, h, t)
    BY <1>2, MountHomeIInv
  <1>3. CASE PipelineNext /\ UNCHANGED <<accountVars, screenVars>>
    BY <1>3, PipelineIInv
  <1>4. CASE InfoNext /\ UNCHANGED <<accountVars, pipeVars, verifyVars, record>>
    BY <1>4, InfoIInv
  <1>5. CASE VerifyNext /\ UNCHANGED <<accountVars, infoState, record>>
    BY <1>5, VerifyIInv
  <1>6. CASE RecordNext /\ UNCHANGED <<accountVars, infoState>>
    BY <1>6, RecordIInv
  <1>7. CASE UNCHANGED vars
    <2>1. UNCHANGED <<accountVars, fsVars, job, infoState, pipeVars, verifyVars, record>>
      BY <1>7 DEF vars
    <2>2. FsOK' /\ BackendGrows /\ SamePhases /\ QueueOK'
      BY <2>1, FsFrame, RestingJobs, IdleFs, PipelineRests DEF AppIInv
    <2> QED
      BY <2>1, <2>2, UnnoticedIInv DEF screenVars, accountVars
  <1> QED
    BY <1>1, <1>2, <1>3, <1>4, <1>5, <1>6, <1>7 DEF Next

\* The invariant of the app, in fresh and in running sessions: for any accounts,
\* instances of screens and operations, with restarts, broken streams and lost
\* or late answers.
THEOREM AppInvariant == Spec \/ LoadedSpec => []AppIInv
  <1>1. Spec => []AppIInv
    BY InitIInv, NextIInv, PTL DEF Spec
  <1>2. LoadedSpec => []AppIInv
    BY LoadedInitIInv, NextIInv, PTL DEF LoadedSpec
  <1> QED
    BY <1>1, <1>2


-----------------------------------------------------------------------------
(***************************************************************************)
(* What the app promises.                                                  *)
(***************************************************************************)
LEMMA InvariantNext == AppIInv /\ [Next]_vars => AppIInv'
  BY NextIInv

\* The types and shapes of the app, for any number of everything: no InfoScreen
\* is without its state, and no answer is without its write.
THEOREM AppTypeOKHolds == Spec \/ LoadedSpec => []AppTypeOK
  <1>1. AppIInv => AppTypeOK
    <2> SUFFICES ASSUME AppIInv PROVE AppTypeOK
      OBVIOUS
    <2>1. ASSUME NEW t \in TxIds
          PROVE  /\ job[t].kind \in Kinds \cup {"none"}
                 /\ job[t].key \in Users \cup {NoUser}
                 /\ job[t].stage = "transaction" => tx[t].phase # "idle"
      <3>1. PICK j : j = job[t]
        OBVIOUS
      <3>2. JobOK(j, tx[t].phase)
        BY <3>1 DEF AppIInv, JobsOK
      <3>3. j.kind \in Kinds \cup {"none"}
        BY <3>2 DEF JobOK, NoJob
      <3> QED
        BY <3>1, <3>2, <3>3 DEF JobOK
    <2>2. \A h \in Homes : Mounted(h) => infoState[h] # Empty
      BY DEF AppIInv, InfoOK, Mounted, Born, FormDoc, Empty
    <2> QED
      BY <2>1, <2>2 DEF AppTypeOK, AppIInv, FsOK, ServerOK, QueueOK, Caches
  <1> QED
    BY <1>1, AppInvariant, PTL

\* VerifyScreen may store its isFetching with a document, in any interleaving of
\* the tabs of any accounts; no InfoScreen ever takes it over and loses SAVE.
THEOREM SaveNeverDisabledHolds == Spec \/ LoadedSpec => []SaveNeverDisabled
  <1>1. AppIInv => SaveNeverDisabled
    BY DEF AppIInv, InfoOK, FormDoc, GoodDoc, SaveNeverDisabled
  <1> QED
    BY <1>1, AppInvariant, PTL

\* A 'Verified' button is backed by a stored token whatever commits, retries and
\* late answers went before it.
THEOREM VerifiedIsStoredHolds == Spec \/ LoadedSpec => []VerifiedIsStored
  <1>1. AppIInv => VerifiedIsStored
    BY DEF AppIInv
  <1> QED
    BY <1>1, AppInvariant, PTL

\* Disabled buttons have a reason: a location on its way, or a rejected one.
THEOREM FetchingIsExplainedHolds == Spec \/ LoadedSpec => []FetchingIsExplained
  <1>1. AppIInv => FetchingIsExplained
    BY DEF AppIInv
  <1> QED
    BY <1>1, AppInvariant, PTL

\* No step of any screen, transaction or queue takes a document, or a field from
\* one: creates find the document absent, everything else merges.
THEOREM FieldsStayHolds == Spec \/ LoadedSpec => FieldsStay
  <1> DEFINE Stays == \A k \in Keys : store[k] # NoDoc =>
                        store'[k] # NoDoc /\ DOMAIN store[k] \subseteq DOMAIN store'[k]
  <1>1. AppIInv /\ [Next]_vars => [Stays]_vars
    <2> SUFFICES ASSUME AppIInv, [Next]_vars, NEW k \in Keys, store[k] # NoDoc
                 PROVE  store'[k] # NoDoc /\ DOMAIN store[k] \subseteq DOMAIN store'[k]
      OBVIOUS
    <2>1. Grows(k)
      BY NextIInv DEF AppAges, BackendGrows
    <2>2. GoodDoc(store'[k]) => store'[k] # NoDoc
      BY DocsAre DEF GoodDoc
    <2> QED
      BY <2>1, <2>2 DEF Grows
  <1> HIDE DEF Stays
  <1>2. Spec \/ LoadedSpec => [][Next]_vars
    BY DEF Spec, LoadedSpec
  <1>3. Spec \/ LoadedSpec => [][Stays]_vars
    BY <1>1, <1>2, AppInvariant, PTL
  <1> QED
    BY <1>3 DEF Stays, FieldsStay

\* The tab that creates a document settles for ever whether it can be loaded.
THEOREM UserFieldSettledHolds == Spec \/ LoadedSpec => UserFieldSettled
  <1> DEFINE Settled == \A k \in Keys : store[k] # NoDoc =>
                          ("user" \in DOMAIN store'[k] <=> "user" \in DOMAIN store[k])
  <1>1. AppIInv /\ [Next]_vars => [Settled]_vars
    <2> SUFFICES ASSUME AppIInv, [Next]_vars, NEW k \in Keys, store[k] # NoDoc
                 PROVE  "user" \in DOMAIN store'[k] <=> "user" \in DOMAIN store[k]
      OBVIOUS
    <2>1. Grows(k)
      BY NextIInv DEF AppAges, BackendGrows
    <2> QED
      BY <2>1 DEF Grows
  <1> HIDE DEF Settled
  <1>2. Spec \/ LoadedSpec => [][Next]_vars
    BY DEF Spec, LoadedSpec
  <1>3. Spec \/ LoadedSpec => [][Settled]_vars
    BY <1>1, <1>2, AppInvariant, PTL
  <1> QED
    BY <1>3 DEF Settled, UserFieldSettled

\* Documents change when a transaction commits, and when a queued write arrives.
LEMMA StoreChanges ==
    ASSUME [Next]_vars
    PROVE  \/ \E m \in commits : BackendCommit(m) /\ UNCHANGED job
           \/ DeliverWrite
           \/ UNCHANGED store
  <1>1. UNCHANGED backendVars => UNCHANGED store
    BY DEF backendVars
  <1>2. \A t \in TxIds : RunTransaction(t) \/ BlockFails(t) \/ ReplyReceived(t) \/ RpcFails(t) =>
          UNCHANGED store
    BY DEF RunTransaction, BlockFails, ReplyReceived, RpcFails, backendVars
  <1>3. UNCHANGED fsVars => UNCHANGED store
    BY DEF fsVars
  <1>4. CASE Auth \/ LeaveHome \/ Restart
    BY <1>3, <1>4 DEF Auth, LeaveHome, Restart, backendVars
  <1>5. CASE Transact
    BY <1>2, <1>5 DEF Transact, RpcNext, BackendRefuse, GetStep, GetFails, Get, backendVars
  <1>6. CASE \E q \in Requests, h \in Homes, t \in TxIds : MountHome(q, h, t)
    BY <1>2, <1>6 DEF MountHome, InfoMount, BeginTransaction
  <1>7. CASE PipelineNext /\ UNCHANGED <<accountVars, screenVars>>
    BY <1>3, <1>7 DEF PipelineNext, DeliverWrite, AnswerUnheard, StreamBreaks, WatchSnapshot
  <1>8. CASE InfoNext
    BY <1>1, <1>2, <1>3, <1>8
       DEF InfoNext, EditField, PickSmoker, Save, BeginTransaction, UploadImage,
           InfoLoadBlock, SaveBlock, ImageUploaded, ImageFails
  <1>9. CASE VerifyNext
    BY <1>1, <1>2, <1>3, <1>9
       DEF VerifyNext, VerifyMount, BeginTransaction, PressFacebook, PressLinkedIn,
           PressLocation, VerifyLoadBlock, FacebookGranted, FacebookLoginFails, FacebookToken,
           FacebookBlock, FacebookDone, LinkedInSignedIn, LinkedInFails, SaveLinkedinData,
           LinkedInBlock, LinkedInDone, PositionFails, PositionFound, LocationSaved,
           LocationRejected
  <1>10. CASE RecordNext
    BY <1>3, <1>10
       DEF RecordNext, OpenRecord, CloseRecord, UploadVideo, RecordSnapshot,
           RecordCachedSnapshot, RecordGetFails, RecordLoaded, VideoUploaded, VideoFails,
           VideoSaved, VideoRejected
  <1>11. CASE UNCHANGED vars
    BY <1>3, <1>11 DEF vars
  <1> QED
    BY <1>4, <1>5, <1>6, <1>7, <1>8, <1>9, <1>10, <1>11 DEF Next

\* The load of a tab writes the document back. Where the document exists, the
\* commit finds it exactly as the block did, and so changes nothing: a retry, a
\* late request or a restart in between included.
THEOREM LoadChangesNothingHolds == Spec \/ LoadedSpec => LoadChangesNothing
  <1> DEFINE Harmless == \A m \in commits \ commits' :
                job[m.tx].kind \in {"infoLoad", "verifyLoad"} /\ store' # store =>
                    store[job[m.tx].key] = NoDoc
  <1>1. AppIInv /\ [Next]_vars => [Harmless]_vars
    <2> SUFFICES ASSUME AppIInv, [Next]_vars, NEW m \in commits, m \notin commits',
                        job[m.tx].kind \in {"infoLoad", "verifyLoad"}, store' # store,
                        store[job[m.tx].key] # NoDoc
                 PROVE  FALSE
      OBVIOUS
    <2>1. PICK n \in commits : BackendCommit(n) /\ UNCHANGED job
      BY StoreChanges DEF DeliverWrite
    <2>2. n = m
      BY <2>1 DEF BackendCommit
    <2>3. FsOK /\ JobsOK /\ ServerOK
      BY DEF AppIInv, FsOK
    <2>4. PICK k, d : k = job[m.tx].key /\ d = m.reads[k]
      OBVIOUS
    <2>5. k \in Keys /\ WriteOfKind(job[m.tx].kind, m.mutations[k], d)
      BY <2>3, <2>4, KeysAreUids DEF FsOK, RequestsOK, RequestOK, RequestOf, JobsOK, JobOK
    <2>6. /\ \A x \in Keys : store'[x] # store[x] => x = k
          /\ store'[k] # store[k] => store[k] = d /\ store'[k] = Merge(store[k], m.mutations[k].data)
      BY <2>1, <2>2, <2>3, <2>4, <2>5, CommitGrows
    <2>7. store'[k] = store[k]
      <3> SUFFICES ASSUME store'[k] # store[k] PROVE FALSE
        OBVIOUS
      <3>1. d # NoDoc /\ d \in Docs /\ m.mutations[k].data = d
        BY <2>3, <2>4, <2>5, <2>6 DEF WriteOfKind, ServerOK, GoodDoc
      <3> QED
        BY <2>6, <3>1, MergeSame
    <2>8. \A x \in Keys : store'[x] = store[x]
      BY <2>6, <2>7
    <2>9. store \in [Keys -> Docs \cup {NoDoc}] /\ store' \in [Keys -> Docs \cup {NoDoc}]
      BY <2>3, NextIInv DEF ServerOK, AppAges, BackendGrows
    <2> QED
      BY <2>8, <2>9
  <1> HIDE DEF Harmless
  <1>2. Spec \/ LoadedSpec => [][Next]_vars
    BY DEF Spec, LoadedSpec
  <1>3. Spec \/ LoadedSpec => [][Harmless]_vars
    BY <1>1, <1>2, AppInvariant, PTL
  <1> QED
    BY <1>3 DEF Harmless, LoadChangesNothing

-----------------------------------------------------------------------------
(***************************************************************************)
(* Whose screens they are.  A second invariant over the first: the screens *)
(* of a HomeMain belong to its account, or it was mounted under an open    *)
(* request.                                                                *)
(***************************************************************************)
Belongs(u, h) == u = home[h].user \/ home[h].overlapped

ScreensBelong ==
    /\ \A h \in Homes : ~Born(h) => ~home[h].overlapped
    /\ \A h \in Homes : Visited(h) => Belongs(verify[h].user, h)
    /\ \A r \in Records : Opened(r) => Belongs(record[r].user, record[r].home)

\* A VerifyScreen appears for the session of now, on a mounted HomeMain.
LEMMA NewVerifyScreen ==
    ASSUME AppIInv, [Next]_vars, NEW g \in Homes, Visited(g)', ~Visited(g)
    PROVE  Mounted(g) /\ UNCHANGED home /\ verify'[g].user = currentUser
  <1>1. UNCHANGED verify => FALSE
    BY DEF Visited
  <1>2. \A h, r : SetVerifyState(h, r) => FALSE
    BY DEF SetVerifyState, VerifyMounted, Visited, AppIInv, VerifyOK
  <1>3. VerifyNext /\ UNCHANGED <<accountVars, infoState, record>>
    <2>1. UNCHANGED verifyVars => FALSE
      BY <1>1 DEF verifyVars
    <2> QED
      BY <2>1 DEF Next, vars, screenVars, Auth, MountHome, LeaveHome, Restart, Transact,
                  RecordNext, OpenRecord, CloseRecord, UploadVideo, RecordSnapshot,
                  RecordCachedSnapshot, RecordGetFails, RecordLoaded, VideoUploaded,
                  VideoFails, VideoSaved, VideoRejected
  <1>4. PICK h \in Homes, t \in TxIds : VerifyMount(h, t)
    BY <1>1, <1>2, <1>3
       DEF VerifyNext, PressFacebook, PressLinkedIn, PressLocation, VerifyLoadBlock,
           FacebookGranted, FacebookLoginFails, FacebookToken, FacebookBlock, FacebookDone,
           LinkedInSignedIn, LinkedInFails, SaveLinkedinData, LinkedInBlock, LinkedInDone,
           PositionFails, PositionFound, LocationSaved, LocationRejected, verifyVars
  <1>5. g = h
    BY <1>4 DEF VerifyMount, Visited, AppIInv, VerifyOK
  <1>6. verify'[h] = [Unborn EXCEPT !.status = "mounted", !.user = currentUser]
    BY <1>4 DEF VerifyMount, AppIInv, VerifyOK
  <1> QED
    BY <1>3, <1>4, <1>5, <1>6 DEF VerifyMount, Unborn, accountVars

\* The same for a RecordScreen.
LEMMA NewRecordScreen ==
    ASSUME AppIInv, [Next]_vars, NEW g \in Records, Opened(g)', ~Opened(g)
    PROVE  /\ Mounted(record'[g].home) /\ record'[g].home \in Homes
           /\ UNCHANGED home /\ record'[g].user = currentUser
           /\ UNCHANGED accountVars
           /\ \E h \in Homes, t \in TxIds : OpenRecord(h, g, t)
  <1>1. UNCHANGED record => FALSE
    BY DEF Opened
  <1>2. DOMAIN record = Records /\ record[g].status = "unborn"
    BY DEF AppIInv, RecordOK, Opened
  <1>3. RecordNext /\ UNCHANGED <<accountVars, infoState>>
    <2>1. CASE LeaveHome \/ Restart
      BY <1>2, <2>1 DEF LeaveHome, Restart, UnmountRecords, RecordMounted, Opened
    <2> QED
      BY <1>1, <2>1 DEF Next, vars, screenVars, Auth, MountHome, Transact
  <1>4. PICK h \in Homes, r \in Records, t \in TxIds : OpenRecord(h, r, t)
    <2>1. ASSUME NEW r \in Records, CloseRecord(r) PROVE FALSE
      BY <1>2, <2>1 DEF CloseRecord, RecordMounted, Opened
    <2>2. ASSUME NEW t \in TxIds, RecordLoaded(t) \/ VideoUploaded(t) PROVE FALSE
      <3>1. PICK i : i = job[t]
        OBVIOUS
      <3>2. i.owner # g
        BY <1>2, <2>2, <3>1, RecordJob DEF RecordLoaded, VideoUploaded, At, Opened
      <3>3. record'[g] = record[g]
        BY <1>2, <2>2, <3>1, <3>2 DEF RecordLoaded, VideoUploaded
      <3> QED
        BY <1>2, <3>3 DEF Opened
    <2> QED
      BY <1>1, <1>3, <2>1, <2>2
         DEF RecordNext, UploadVideo, RecordSnapshot, RecordCachedSnapshot, RecordGetFails,
             VideoFails, VideoSaved, VideoRejected
  <1>5. r = g
    BY <1>2, <1>4 DEF OpenRecord, Opened
  <1>6. record'[r] = [status |-> "mounted", home |-> h, user |-> currentUser,
                      videos |-> <<>>, late |-> FALSE]
    BY <1>2, <1>4 DEF OpenRecord
  <1>7. /\ Mounted(record'[g].home) /\ record'[g].home \in Homes
        /\ UNCHANGED home /\ record'[g].user = currentUser
    BY <1>3, <1>4, <1>5, <1>6 DEF OpenRecord, VerifyMounted, accountVars
  <1> QED
    BY <1>3, <1>4, <1>5, <1>7

LEMMA UnbornHomes ==
    ASSUME AccountIInv, [AccountNext]_accountVars, NEW h \in Homes, ~Born(h)'
    PROVE  home'[h] = home[h]
  <1> USE DEF AccountIInv, AccountTypeOK, Born
  <1>1. CASE AuthStep
    BY <1>1 DEF AuthStep, Press, AuthAccepted, AuthRejected, Registered, NavigateIgnored
  <1>2. CASE \E q \in Requests, g \in Homes : Navigate(q, g)
    BY <1>2 DEF Navigate
  <1>3. CASE SwipeBack
    <2>1. route \in Homes
      BY <1>3 DEF SwipeBack
    <2> QED
      BY <1>3, <2>1 DEF SwipeBack
  <1>4. CASE RestartAccount
    BY <1>4 DEF RestartAccount
  <1>5. CASE UNCHANGED accountVars
    BY <1>5 DEF accountVars
  <1> QED
    BY <1>1, <1>2, <1>3, <1>4, <1>5 DEF AccountNext

LEMMA ScreensBelongNext ==
    ASSUME AppIInv, ScreensBelong, [Next]_vars
    PROVE  ScreensBelong'
  <1>1. AppIInv' /\ ScreensAge /\ HomesAge
    BY NextIInv DEF AppAges, ScreensAge
  <1>2. \A h \in Homes : ~Born(h)' => ~home'[h].overlapped
    BY <1>1, UnbornHomes, AppAccountStep DEF ScreensBelong, Born, AppIInv
  <1>3. \A h \in Homes : Visited(h) => Born(h)
    BY DEF AppIInv, VerifyOK
  <1>4. HomeMatchesSession
    BY DEF AppIInv, AccountIInv
  <1>5. ASSUME NEW h \in Homes, Visited(h)' PROVE Belongs(verify[h].user, h)'
    <2>1. CASE Visited(h)
      BY <1>1, <1>3, <2>1 DEF ScreensBelong, Belongs, ScreensAge, HomesAge
    <2>2. CASE ~Visited(h)
      BY <1>4, <1>5, <2>2, NewVerifyScreen DEF Belongs, HomeMatchesSession
    <2> QED
      BY <2>1, <2>2
  <1>6. ASSUME NEW r \in Records, Opened(r)' PROVE Belongs(record[r].user, record[r].home)'
    <2>1. CASE Opened(r)
      <3>1. Visited(record[r].home) /\ record[r].home \in Homes
        BY <2>1 DEF AppIInv, RecordOK, Visited
      <3> QED
        BY <1>1, <1>3, <2>1, <3>1 DEF ScreensBelong, Belongs, ScreensAge, HomesAge
    <2>2. CASE ~Opened(r)
      BY <1>4, <1>6, <2>2, NewRecordScreen DEF Belongs, HomeMatchesSession
    <2> QED
      BY <2>1, <2>2
  <1> QED
    BY <1>2, <1>5, <1>6 DEF ScreensBelong

\* At the start there is at most the screen of the mounted HomeMain.
LEMMA ScreensBelongInit == Init \/ LoadedInit => ScreensBelong
  <1>1. ASSUME Init PROVE ScreensBelong
    <2>1. \A h \in Homes : ~home[h].overlapped /\ ~Visited(h)
      BY <1>1 DEF Init, AccountInit, VerifyInit, Visited, Unborn
    <2>2. \A r \in Records : ~Opened(r)
      BY <1>1 DEF Init, RecordInit, Opened
    <2> QED
      BY <2>1, <2>2 DEF ScreensBelong
  <1>2. ASSUME LoadedInit PROVE ScreensBelong
    <2>1. PICK h \in Homes, u \in Users :
             /\ home = [g \in Homes |->
                     IF g = h
                     THEN [status |-> "mounted", user |-> u, overlapped |-> FALSE]
                     ELSE [status |-> "unborn", user |-> NoUser, overlapped |-> FALSE]]
             /\ verify = [g \in Homes |-> IF g = h THEN VerifyLoaded(u) ELSE Unborn]
             /\ RecordInit
      BY <1>2, LoadedMeans
    <2>2. \A g \in Homes : ~home[g].overlapped /\ (Visited(g) => g = h)
      BY <2>1 DEF Visited, VerifyLoaded, Unborn
    <2>3. verify[h].user = home[h].user
      BY <2>1 DEF VerifyLoaded, Unborn
    <2>4. \A r \in Records : ~Opened(r)
      BY <2>1 DEF RecordInit, Opened
    <2> QED
      BY <2>2, <2>3, <2>4 DEF ScreensBelong, Belongs
  <1> QED
    BY <1>1, <1>2

\* An operation that picks its document when it runs picks that of the session.
LEMMA NewKeys ==
    ASSUME AppIInv, [Next]_vars, NEW s \in TxIds, job'[s].key # job[s].key,
           job'[s].kind \in {"save", "facebook", "linkedin"}
    PROVE  job'[s].key = NoUser \/ (job'[s].key = currentUser /\ UNCHANGED home)
  <1> DEFINE Fine == job'[s].key = NoUser \/ (job'[s].key = currentUser /\ UNCHANGED home)
  <1>1. UNCHANGED job => FALSE
    OBVIOUS
  <1>2. DOMAIN job = TxIds /\ \A t \in TxIds :
          job[t] = [kind |-> job[t].kind, owner |-> job[t].owner, key |-> job[t].key,
                    stage |-> job[t].stage, data |-> job[t].data]
    BY DEF AppIInv, JobsOK, JobOK
  <1>3. ASSUME NEW t \in TxIds, NEW stage, GoTo(t, stage) PROVE FALSE
    <2>1. PICK i : i = job[t]
      OBVIOUS
    <2>2. job' = [job EXCEPT ![t] = [i EXCEPT !.stage = stage]]
      BY <1>3, <2>1 DEF GoTo
    <2>3. i = [kind |-> i.kind, owner |-> i.owner, key |-> i.key, stage |-> i.stage,
               data |-> i.data]
      BY <1>2, <2>1
    <2> QED
      BY <1>2, <2>1, <2>2, <2>3
  <1>4. ASSUME NEW t \in TxIds, NEW kind, NEW owner, NEW key, NEW stage,
               Begin(t, kind, owner, key, stage)
        PROVE  job'[s].key = key /\ kind \in {"save", "facebook", "linkedin"}
    BY <1>2, <1>4 DEF Begin
  <1>5. CASE Auth \/ LeaveHome \/ Transact
    BY <1>1, <1>5 DEF Auth, LeaveHome, Transact
  <1>6. CASE Restart
    <2>1. PICK i : i = job[s]
      OBVIOUS
    <2>2. job'[s] = i \/ job'[s] = [i EXCEPT !.stage = "done", !.data = Null]
      BY <1>6, <2>1 DEF Restart, RestartJobs
    <2>3. i = [kind |-> i.kind, owner |-> i.owner, key |-> i.key, stage |-> i.stage,
               data |-> i.data]
      BY <1>2, <2>1
    <2> QED
      BY <2>1, <2>2, <2>3
  <1>7. CASE \E q \in Requests, h \in Homes, t \in TxIds : MountHome(q, h, t)
    BY <1>4, <1>7 DEF MountHome, InfoMount, BeginTransaction
  <1>8. CASE PipelineNext /\ UNCHANGED <<accountVars, screenVars>>
    BY <1>1, <1>8 DEF PipelineNext, DeliverWrite, AnswerUnheard, StreamBreaks, WatchSnapshot
  <1>9. CASE InfoNext /\ UNCHANGED <<accountVars, pipeVars, verifyVars, record>>
    BY <1>1, <1>3, <1>4, <1>9
       DEF InfoNext, EditField, PickSmoker, Save, BeginTransaction, UploadImage,
           InfoLoadBlock, SaveBlock, ImageUploaded, ImageFails, accountVars
  <1>10. CASE VerifyNext /\ UNCHANGED <<accountVars, infoState, record>>
    <2>1. ASSUME NEW t \in TxIds, LinkedInSignedIn(t) PROVE FALSE
      <3>1. PICK i, u : i = job[t] /\ u = verify[i.owner].user
        OBVIOUS
      <3>2. job' = [job EXCEPT ![t] = [i EXCEPT !.stage = "timer", !.data = u]]
        BY <1>2, <2>1, <3>1 DEF LinkedInSignedIn
      <3>3. i = [kind |-> i.kind, owner |-> i.owner, key |-> i.key, stage |-> i.stage,
                 data |-> i.data]
        BY <1>2, <3>1
      <3> QED
        BY <1>2, <3>1, <3>2, <3>3
    <2>2. ASSUME NEW t \in TxIds, FacebookToken(t) \/ SaveLinkedinData(t) PROVE Fine
      <3>1. PICK i, u : i = job[t] /\ u = fbToken
        OBVIOUS
      <3>2. job' = [job EXCEPT ![t] = [i EXCEPT !.stage = "transaction", !.data = u,
                                                 !.key = currentUser]]
            \/ job' = [job EXCEPT ![t] = [i EXCEPT !.stage = "transaction", !.key = currentUser]]
        BY <1>2, <2>2, <3>1 DEF FacebookToken, SaveLinkedinData
      <3>3. i = [kind |-> i.kind, owner |-> i.owner, key |-> i.key, stage |-> i.stage,
                 data |-> i.data]
        BY <1>2, <3>1
      <3> QED
        BY <1>2, <1>10, <3>1, <3>2, <3>3 DEF accountVars
    <2> QED
      BY <1>1, <1>3, <1>4, <1>10, <2>1, <2>2
         DEF VerifyNext, VerifyMount, BeginTransaction, PressFacebook, PressLinkedIn,
             PressLocation, VerifyLoadBlock, FacebookGranted, FacebookLoginFails,
             FacebookBlock, FacebookDone, LinkedInFails, LinkedInBlock, LinkedInDone,
             PositionFails, PositionFound, LocationSaved, LocationRejected
  <1>11. CASE RecordNext /\ UNCHANGED <<accountVars, infoState>>
    <2>1. ASSUME NEW t \in TxIds, RecordSnapshot(t) \/ RecordCachedSnapshot(t) \/ RecordLoaded(t)
          PROVE  FALSE
      <3>1. PICK i, d : /\ i = job[t]
                        /\ \/ d = LocalView(job[t].key) /\ ~RecordCachedSnapshot(t)
                           \/ d = CachedView(job[t].key) /\ RecordCachedSnapshot(t)
        OBVIOUS
      <3>2. job' = [job EXCEPT ![t] = [i EXCEPT !.stage = "snapshot", !.data = d]]
            \/ job' = [job EXCEPT ![t] = [i EXCEPT !.stage = "done", !.data = Null]]
        BY <1>2, <2>1, <3>1 DEF RecordSnapshot, RecordCachedSnapshot, RecordLoaded
      <3>3. i = [kind |-> i.kind, owner |-> i.owner, key |-> i.key, stage |-> i.stage,
                 data |-> i.data]
        BY <1>2, <3>1
      <3>4. PICK x, y : /\ x = [i EXCEPT !.stage = "snapshot", !.data = d]
                        /\ y = [i EXCEPT !.stage = "done", !.data = Null]
        OBVIOUS
      <3>5. x.key = i.key /\ y.key = i.key
        BY <3>3, <3>4
      <3>6. job' = [job EXCEPT ![t] = x] \/ job' = [job EXCEPT ![t] = y]
        BY <3>2, <3>4
      <3> QED
        BY <1>2, <3>1, <3>5, <3>6
    <2> QED
      BY <1>1, <1>3, <1>4, <1>11, <2>1
         DEF RecordNext, OpenRecord, CloseRecord, UploadVideo, RecordGetFails, VideoUploaded,
             VideoFails, VideoSaved, VideoRejected
  <1>12. CASE UNCHANGED vars
    BY <1>1, <1>12 DEF vars
  <1> QED
    BY <1>5, <1>6, <1>7, <1>8, <1>9, <1>10, <1>11, <1>12 DEF Next

\* The screens of a HomeMain are those of its account, whatever signs in later,
\* unless it was mounted with a login request still open.
THEOREM ScreensBelongHolds == Spec \/ LoadedSpec => []ScreensBelong
  <1>1. Spec \/ LoadedSpec => (Init \/ LoadedInit) /\ [][Next]_vars
    BY DEF Spec, LoadedSpec
  <1>2. Init \/ LoadedInit => ScreensBelong
    BY ScreensBelongInit
  <1>3. AppIInv /\ ScreensBelong /\ [Next]_vars => ScreensBelong'
    BY ScreensBelongNext
  <1> QED
    BY <1>1, <1>2, <1>3, AppInvariant, PTL

\* Whatever signs in behind a screen, crosses a restart or fires a timer late: an
\* operation takes a document of another account only from a HomeMain that is
\* gone or was mounted under an open request.
THEOREM ForeignDocumentOnlyByOverlapHolds ==
    Spec \/ LoadedSpec => ForeignDocumentOnlyByOverlap
  <1> DEFINE Foreign == \A t \in TxIds :
         LET h == OwnerHome(job[t])'
             k == job'[t].key IN
         /\ job'[t].kind # "image"
         /\ k # job[t].key /\ k # NoUser /\ k # home'[h].user
         => ~Mounted(h) \/ home[h].overlapped
  <1>1. AppIInv /\ ScreensBelong /\ [Next]_vars => [Foreign]_vars
    <2> SUFFICES ASSUME AppIInv, ScreensBelong, [Next]_vars, NEW t \in TxIds,
                        NEW h, h = OwnerHome(job[t])', NEW j, j = job'[t],
                        NEW p, p = tx'[t].phase,
                        j.kind # "image", j.key # job[t].key, j.key # NoUser,
                        j.key # home'[h].user, Mounted(h)
                 PROVE  home[h].overlapped
      OBVIOUS
    <2>1. AppIInv' /\ ScreensBelong' /\ HomesAge
      BY NextIInv, ScreensBelongNext DEF AppAges, ScreensAge
    <2>2. JobOK(j, p)'
      BY <2>1 DEF AppIInv, JobsOK
    <2>3. j.kind \in JobKinds /\ JobOf(j)'
      BY <2>2 DEF JobOK, NoJob
    <2>4. h \in Homes
      <3>1. CASE j.kind \in {"recordLoad", "video"}
        <4>1. PICK r : r = j.owner
          OBVIOUS
        <4>2. Opened(r)' /\ r \in Records /\ h = record'[r].home
          BY <2>3, <3>1, <4>1 DEF JobOf, OwnerHome, Opened
        <4>3. Visited(record[r].home)'
          BY <2>1, <4>2 DEF AppIInv, RecordOK
        <4> QED
          BY <4>2, <4>3 DEF Visited
      <3>2. CASE j.kind \notin {"recordLoad", "video"}
        BY <2>3, <3>2 DEF JobOf, JobKinds, OwnerHome, Visited
      <3> QED
        BY <3>1, <3>2
    <2>5. Born(h) /\ home'[h].overlapped = home[h].overlapped /\ home'[h].user = home[h].user
      BY <2>1, <2>4 DEF Born, Mounted, HomesAge
    <2>6. CASE j.kind = "infoLoad"
      BY <2>3, <2>6 DEF JobOf, OwnerHome
    <2>7. CASE j.kind \in {"save", "facebook", "linkedin"}
      <3>1. j.key = currentUser
        BY <2>7, NewKeys
      <3> QED
        BY <2>4, <2>5, <3>1 DEF AppIInv, AccountIInv, HomeMatchesSession
    <2>8. CASE j.kind \in {"verifyLoad", "location"}
      <3>1. h = j.owner /\ Visited(h)' /\ j.key = verify'[h].user
        BY <2>3, <2>8 DEF JobOf, OwnerHome
      <3>2. Belongs(verify[h].user, h)'
        BY <2>1, <2>4, <3>1 DEF ScreensBelong
      <3> QED
        BY <2>5, <3>1, <3>2 DEF Belongs
    <2>9. CASE j.kind \in {"recordLoad", "video"}
      <3>1. PICK r : r = j.owner
        OBVIOUS
      <3>2. Opened(r)' /\ r \in Records /\ h = record'[r].home /\ j.key = record'[r].user
        BY <2>3, <2>9, <3>1 DEF JobOf, OwnerHome, Opened
      <3>3. Belongs(record[r].user, record[r].home)'
        BY <2>1, <3>2 DEF ScreensBelong
      <3> QED
        BY <2>5, <3>2, <3>3 DEF Belongs
    <2> QED
      BY <2>3, <2>6, <2>7, <2>8, <2>9 DEF JobKinds
  <1> HIDE DEF Foreign
  <1>2. Spec \/ LoadedSpec => [][Next]_vars
    BY DEF Spec, LoadedSpec
  <1>3. Spec \/ LoadedSpec => [][Foreign]_vars
    BY <1>1, <1>2, AppInvariant, ScreensBelongHolds, PTL
  <1> QED
    BY <1>3 DEF Foreign, ForeignDocumentOnlyByOverlap

-----------------------------------------------------------------------------
(***************************************************************************)
(* Whose data it is.  A third invariant: as long as only screens of its    *)
(* owner operate on document k, the identity and LinkedIn token in it are  *)
(* the owner's, and so are those in the reads of its transactions, in the  *)
(* requests on their way to it and in the forms of its owner's HomeMains.  *)
(***************************************************************************)
OwnDoc(k, d) == d # NoDoc => \A f \in {"user", "linkdintoken"} : f \in DOMAIN d => d[f] = k

OwnScreensOnly(k) ==
    /\ \A h \in Homes : ~home[h].overlapped
    /\ \A t \in TxIds : job[t].key = k /\ job[t].kind # "image" =>
            home[OwnerHome(job[t])].user = k

OwnReads(k) ==
    \A t \in TxIds : job[t].key = k /\ k \in DOMAIN tx[t].reads => OwnDoc(k, tx[t].reads[k])
OwnRequests(k) == \A m \in commits : job[m.tx].key = k => OwnDoc(k, m.mutations[k].data)
OwnForms(k) == \A h \in Homes : Born(h) /\ home[h].user = k => OwnDoc(k, infoState[h])

OwnEverything(k) == OwnDoc(k, store[k]) /\ OwnReads(k) /\ OwnRequests(k) /\ OwnForms(k)

OwnIInv == \A k \in Keys : OwnScreensOnly(k) => OwnEverything(k)

LEMMA MergeOwn ==
    ASSUME NEW k, NEW d, NEW e, d # NoDoc, OwnDoc(k, d),
           ("user" \notin DOMAIN e /\ "linkdintoken" \notin DOMAIN e) \/ (e # NoDoc /\ OwnDoc(k, e))
    PROVE  OwnDoc(k, Merge(d, e))
  <1>1. PICK x : x = Merge(d, e)
    OBVIOUS
  <1>2. /\ DOMAIN x = DOMAIN d \cup DOMAIN e
        /\ \A f \in DOMAIN e : x[f] = e[f]
        /\ \A f \in DOMAIN d \ DOMAIN e : x[f] = d[f]
    BY <1>1 DEF Merge
  <1>3. ASSUME NEW f \in {"user", "linkdintoken"}, f \in DOMAIN x PROVE x[f] = k
    BY <1>2, <1>3 DEF OwnDoc
  <1> QED
    BY <1>1, <1>3 DEF OwnDoc

\* The HomeMain of an operation is one, and stays.
LEMMA OwnerHomeStays ==
    ASSUME AppIInv, NEW t \in TxIds, NEW i, i = job[t], i.kind # "none"
    PROVE  /\ OwnerHome(i) \in Homes /\ Born(OwnerHome(i))
           /\ ScreensAge /\ JobsAge => /\ OwnerHome(job[t])' = OwnerHome(i)
                                       /\ home'[OwnerHome(i)].user = home[OwnerHome(i)].user
  <1>1. JobOK(i, tx[t].phase)
    BY DEF AppIInv, JobsOK
  <1>2. i.kind \in JobKinds /\ JobOf(i)
    BY <1>1 DEF JobOK, NoJob
  <1>3. \A h : Visited(h) => h \in Homes /\ Born(h)
    BY DEF AppIInv, VerifyOK, Visited
  <1>4. CASE i.kind \in {"recordLoad", "video"}
    <2>1. PICK r : r = i.owner
      OBVIOUS
    <2>2. Opened(r) /\ r \in Records /\ OwnerHome(i) = record[r].home
      BY <1>2, <1>4, <2>1 DEF JobOf, OwnerHome, Opened
    <2>3. OwnerHome(i) \in Homes /\ Born(OwnerHome(i))
      BY <1>3, <2>2 DEF AppIInv, RecordOK
    <2>4. ASSUME ScreensAge, JobsAge
          PROVE  OwnerHome(job[t])' = OwnerHome(i)
      <3>1. job'[t].kind = i.kind /\ job'[t].owner = r
        BY <2>1, <2>4 DEF JobsAge
      <3>2. record'[r].home = record[r].home
        BY <2>2, <2>4 DEF ScreensAge
      <3> QED
        BY <1>4, <2>2, <3>1, <3>2 DEF OwnerHome
    <2> QED
      BY <2>3, <2>4 DEF ScreensAge, HomesAge
  <1>5. CASE i.kind \notin {"recordLoad", "video"}
    <2>1. OwnerHome(i) = i.owner /\ i.owner \in Homes /\ Born(i.owner)
      BY <1>2, <1>3, <1>5 DEF JobOf, JobKinds, OwnerHome
    <2>2. ASSUME ScreensAge, JobsAge PROVE OwnerHome(job[t])' = OwnerHome(i)
      BY <1>5, <2>1, <2>2 DEF OwnerHome, JobsAge
    <2> QED
      BY <2>1, <2>2 DEF ScreensAge, HomesAge
  <1> QED
    BY <1>4, <1>5

\* What was foreign stays foreign: the condition can only cease to hold.
LEMMA OwnScreensBefore ==
    ASSUME AppIInv, ScreensBelong, AppAges, NEW k \in Keys, OwnScreensOnly(k)'
    PROVE  OwnScreensOnly(k)
  <1>1. \A h \in Homes : ~home[h].overlapped
    BY DEF OwnScreensOnly, ScreensBelong, AppAges, ScreensAge, HomesAge
  <1>2. ASSUME NEW t \in TxIds, job[t].key = k, job[t].kind # "image"
        PROVE  home[OwnerHome(job[t])].user = k
    <2>1. k \in Users
      BY KeysAreUids
    <2>2. PICK i : i = job[t]
      OBVIOUS
    <2>3. i.kind # "none"
      BY <1>2, <2>1, <2>2, NoUserAssumption DEF AppIInv, JobsOK, JobOK, NoJob, JobKinds
    <2>4. job'[t].key = k /\ job'[t].kind = i.kind
      BY <1>2, <2>1, <2>2, <2>3 DEF AppAges, JobsAge
    <2>5. (home[OwnerHome(job[t])].user)' = k
      BY <1>2, <2>2, <2>4 DEF OwnScreensOnly
    <2>6. /\ OwnerHome(job[t])' = OwnerHome(i)
          /\ home'[OwnerHome(i)].user = home[OwnerHome(i)].user
      BY <2>2, <2>3, OwnerHomeStays DEF AppAges
    <2> QED
      BY <2>2, <2>5, <2>6
  <1> QED
    BY <1>1, <1>2 DEF OwnScreensOnly

\* The document itself.
LEMMA OwnStoreStays ==
    ASSUME AppIInv, [Next]_vars, NEW k \in Keys, OwnEverything(k)
    PROVE  OwnDoc(k, store[k])'
  <1>1. FsOK /\ JobsOK /\ QueueOK /\ AccountIInv
    BY DEF AppIInv
  <1>2. store \in [Keys -> Docs \cup {NoDoc}] /\ (store[k] # NoDoc => GoodDoc(store[k]))
    BY <1>1 DEF FsOK, ServerOK
  <1>3. ASSUME NEW m \in commits, BackendCommit(m), UNCHANGED job, store'[k] # store[k]
        PROVE  OwnDoc(k, store'[k])
    <2>1. PICK d : d = m.mutations[k].data
      OBVIOUS
    <2>2. k = job[m.tx].key
      BY <1>1, <1>3, CommitGrows
    <2>3. OwnDoc(k, d)
      BY <1>3, <2>1, <2>2 DEF OwnEverything, OwnRequests
    <2>4. RequestOf(m, job[m.tx].kind, k)
      BY <1>1, <1>3, <2>2 DEF FsOK, RequestsOK, RequestOK
    <2>5. GoodDoc(d)
      BY <2>1, <2>4 DEF RequestOf, BlockWrite
    <2>6. d # NoDoc
      BY <2>5, DocsAre DEF GoodDoc
    <2>7. CASE store[k] # NoDoc
      BY <1>1, <1>3, <2>1, <2>3, <2>6, <2>7, CommitGrows, MergeOwn DEF OwnEverything
    <2>8. CASE store[k] = NoDoc
      BY <1>1, <1>3, <2>1, <2>3, <2>8, CommitGrows
    <2> QED
      BY <2>7, <2>8
  <1>4. ASSUME DeliverWrite, store'[k] # store[k] PROVE OwnDoc(k, store'[k])
    <2>1. PICK n, w : n = Len(outcomes) + 1 /\ w = ActiveQueue[n]
      OBVIOUS
    <2>2. n \in 1 .. Len(ActiveQueue)
      BY <1>1, <1>4, <2>1, ActiveQueueType DEF DeliverWrite, QueueOK
    <2>3. w \in Writes
      BY <1>1, <2>1, <2>2, ActiveQueueType
    <2>4. w.key \in Keys /\ UpdateDoc(w.data)
      BY <2>3, KeysAreUids DEF Writes
    <2>5. /\ store[w.key] # NoDoc
          /\ store' = [store EXCEPT ![w.key] = Merge(store[w.key], w.data)]
      BY <1>4, <2>1 DEF DeliverWrite, WriteDocument, backendVars
    <2>6. k = w.key /\ store'[k] = Merge(store[k], w.data)
      BY <1>2, <1>4, <2>4, <2>5
    <2>7. "user" \notin DOMAIN w.data /\ "linkdintoken" \notin DOMAIN w.data
      BY <2>4 DEF UpdateDoc
    <2> QED
      BY <2>5, <2>6, <2>7, MergeOwn DEF OwnEverything
  <1> QED
    BY <1>3, <1>4, StoreChanges DEF OwnEverything, OwnDoc

\* A transaction reads what is stored, and forgets what it has read.
LEMMA ReadsChange ==
    ASSUME AppIInv, [Next]_vars, NEW s \in TxIds
    PROVE  \/ tx'[s].reads = tx[s].reads
           \/ tx'[s].reads = Empty
           \/ Get(s, job[s].key) /\ UNCHANGED job
  <1> DEFINE Fine == tx'[s].reads = tx[s].reads \/ tx'[s].reads = Empty
  <1>1. DOMAIN tx = TxIds /\ \A t \in TxIds :
          tx[t] = [phase |-> tx[t].phase, retries |-> tx[t].retries,
                   readVersions |-> tx[t].readVersions, reads |-> tx[t].reads,
                   mutations |-> tx[t].mutations, lastWriteError |-> tx[t].lastWriteError,
                   reply |-> tx[t].reply]
    BY DEF AppIInv, FsOK, ClientOK, TxOK, IsTx
  <1>2. ASSUME UNCHANGED tx PROVE Fine
    BY <1>2
  <1>3. ASSUME NEW t \in TxIds, NEW r, r.reads = Empty, tx' = [tx EXCEPT ![t] = r] PROVE Fine
    BY <1>1, <1>3
  <1>4. \A p, n : Transaction(p, n).reads = Empty
    BY DEF Transaction
  <1>5. \A r : Retry(r).reads = Empty
    BY <1>4 DEF Retry
  <1>6. ASSUME NEW t \in TxIds,
               RunTransaction(t) \/ BlockFails(t) \/ ReplyReceived(t) \/ RpcFails(t)
        PROVE  Fine
    <2>1. \E r : r.reads = Empty /\ tx' = [tx EXCEPT ![t] = r]
      BY <1>4, <1>5, <1>6 DEF RunTransaction, BlockFails, ReplyReceived, RpcFails
    <2> QED
      BY <1>3, <2>1
  <1>7. ASSUME NEW t \in TxIds, NEW r, Commit(t, r) PROVE Fine
    <2>1. \E x : x.reads = Empty /\ tx' = [tx EXCEPT ![t] = x]
      BY <1>4, <1>5, <1>7 DEF Commit
    <2> QED
      BY <1>3, <2>1
  <1>8. ASSUME NEW m \in commits, NEW answer, tx' = Answered(m, answer) PROVE Fine
    <2>1. PICK t, q : t = m.tx /\ q = tx[t]
      OBVIOUS
    <2>2. t \in TxIds
      BY <1>8, <2>1 DEF AppIInv, FsOK, RequestsOK, RequestOK
    <2>3. PICK x : x = [q EXCEPT !.reply = answer]
      OBVIOUS
    <2>4. q = [phase |-> q.phase, retries |-> q.retries, readVersions |-> q.readVersions,
               reads |-> q.reads, mutations |-> q.mutations,
               lastWriteError |-> q.lastWriteError, reply |-> q.reply]
      BY <1>1, <2>1, <2>2
    <2>5. x.reads = q.reads
      BY <2>3, <2>4
    <2>6. UNCHANGED tx \/ tx' = [tx EXCEPT ![t] = x]
      BY <1>8, <2>1, <2>3 DEF Answered
    <2> QED
      BY <1>1, <2>1, <2>2, <2>5, <2>6
  <1>9. UNCHANGED fsVars => UNCHANGED tx
    BY DEF fsVars
  <1>10. CASE Auth \/ LeaveHome
    BY <1>2, <1>9, <1>10 DEF Auth, LeaveHome
  <1>11. CASE Restart
    BY <1>4, <1>11 DEF Restart, Restarted
  <1>12. CASE Transact
    <2>1. CASE RpcNext
      BY <1>6, <1>8, <2>1 DEF RpcNext, BackendCommit, BackendRefuse
    <2>2. ASSUME NEW t \in TxIds, GetFails(t) PROVE Fine
      BY <1>6, <2>2 DEF GetFails
    <2>3. ASSUME NEW t \in TxIds, GetStep(t) PROVE Fine \/ (Get(s, job[s].key) /\ UNCHANGED job)
      <3>1. CASE t = s
        BY <1>12, <2>3, <3>1 DEF GetStep, Transact
      <3>2. CASE t # s
        BY <1>1, <2>3, <3>2 DEF GetStep, Get
      <3> QED
        BY <3>1, <3>2
    <2> QED
      BY <1>12, <2>1, <2>2, <2>3 DEF Transact
  <1>13. CASE \E q \in Requests, h \in Homes, t \in TxIds : MountHome(q, h, t)
    BY <1>6, <1>13 DEF MountHome, InfoMount, BeginTransaction
  <1>14. CASE PipelineNext /\ UNCHANGED <<accountVars, screenVars>>
    BY <1>2, <1>9, <1>14 DEF PipelineNext, DeliverWrite, AnswerUnheard, StreamBreaks, WatchSnapshot
  <1>15. CASE InfoNext
    BY <1>2, <1>6, <1>7, <1>9, <1>15
       DEF InfoNext, EditField, PickSmoker, Save, BeginTransaction, UploadImage,
           InfoLoadBlock, SaveBlock, ImageUploaded, ImageFails
  <1>16. CASE VerifyNext
    BY <1>2, <1>6, <1>7, <1>9, <1>16
       DEF VerifyNext, VerifyMount, BeginTransaction, PressFacebook, PressLinkedIn,
           PressLocation, VerifyLoadBlock, FacebookGranted, FacebookLoginFails, FacebookToken,
           FacebookBlock, FacebookDone, LinkedInSignedIn, LinkedInFails, SaveLinkedinData,
           LinkedInBlock, LinkedInDone, PositionFails, PositionFound, LocationSaved,
           LocationRejected
  <1>17. CASE RecordNext
    BY <1>2, <1>9, <1>17
       DEF RecordNext, OpenRecord, CloseRecord, UploadVideo, RecordSnapshot,
           RecordCachedSnapshot, RecordGetFails, RecordLoaded, VideoUploaded, VideoFails,
           VideoSaved, VideoRejected
  <1>18. CASE UNCHANGED vars
    BY <1>2, <1>9, <1>18 DEF vars
  <1> QED
    BY <1>10, <1>11, <1>12, <1>13, <1>14, <1>15, <1>16, <1>17, <1>18 DEF Next

\* An operation without a document has no transaction.
LEMMA KeyedReads ==
    ASSUME AppIInv, NEW t \in TxIds, NEW k, k \in DOMAIN tx[t].reads
    PROVE  job[t].key = k /\ k \in Users /\ job[t].kind # "none"
  <1>1. TxOK(t) /\ JobOK(job[t], tx[t].phase)
    BY DEF AppIInv, FsOK, ClientOK, JobsOK
  <1>2. HasRead(tx[t], job[t].key)
    BY <1>1 DEF TxOK, Blank, Empty
  <1>3. job[t].key = k /\ k \in Users
    BY <1>1, <1>2 DEF HasRead, JobOK
  <1> QED
    BY <1>1, <1>3, NoUserAssumption DEF JobOK, NoJob, JobKinds

LEMMA OwnReadsStay ==
    ASSUME AppIInv, [Next]_vars, AppAges, NEW k \in Keys, OwnEverything(k)
    PROVE  OwnReads(k)'
  <1> SUFFICES ASSUME NEW t \in TxIds, k \in DOMAIN tx'[t].reads, job'[t].key = k
               PROVE  OwnDoc(k, tx'[t].reads[k])
    BY DEF OwnReads, OwnDoc
  <1>1. CASE tx'[t].reads = tx[t].reads
    BY <1>1, KeyedReads DEF OwnEverything, OwnReads
  <1>2. CASE tx'[t].reads = Empty
    BY <1>2 DEF Empty
  <1>3. CASE Get(t, job[t].key) /\ UNCHANGED job
    <2>1. PICK q, r : q = tx[t] /\ r = RecordVersion(tx[t], k)
      OBVIOUS
    <2>2. tx'[t] = r /\ IsTx(q)
      BY <1>3, <2>1 DEF Get, AppIInv, FsOK, ClientOK, TxOK
    <2>3. r.reads = Put(q.reads, k, store[k])
      BY <2>1, <2>2 DEF RecordVersion, IsTx
    <2>4. r.reads[k] = store[k]
      BY <2>3 DEF Put
    <2> QED
      BY <2>2, <2>4 DEF OwnEverything
  <1> QED
    BY <1>1, <1>2, <1>3, ReadsChange

\* The request of a block carries what the block wrote.
LEMMA SentData ==
    ASSUME AppIInv, NEW t \in TxIds, NEW kind, BlockResumes(t, kind), NEW data, NEW k, k = job[t].key,
           Commit(t, SetData(tx[t], k, data)) \/ Commit(t, UpdateData(tx[t], k, data)),
           NEW m \in commits', m \notin commits
    PROVE  m.tx = t /\ m.mutations[k].data = data
  <1>1. PICK q : q = tx[t]
    OBVIOUS
  <1>2. IsTx(q)
    BY <1>1 DEF AppIInv, FsOK, ClientOK, TxOK
  <1>3. PICK r : Commit(t, r) /\ (r = SetData(q, k, data) \/ r = UpdateData(q, k, data))
    BY <1>1
  <1>4. ~CommitRejected(r) /\ m = [tx |-> t, retries |-> r.retries, reads |-> r.reads,
                                   mutations |-> r.mutations]
    BY <1>3 DEF Commit
  <1>5. r.mutations[k].data = data
    <2>1. CASE r = SetData(q, k, data)
      <3>1. PICK mu : mu = [op |-> "set", data |-> data,
                            pre |-> PreconditionForDocumentKey(q, k)]
        OBVIOUS
      <3>2. r = [q EXCEPT !.mutations = Put(q.mutations, k, mu)]
        BY <2>1, <3>1 DEF SetData
      <3>3. r.mutations = Put(q.mutations, k, mu)
        BY <1>2, <3>2 DEF IsTx
      <3> QED
        BY <3>1, <3>3 DEF Put
    <2>2. CASE r = UpdateData(q, k, data) /\ UpdateImpossible(q, k)
      <3>1. r = [q EXCEPT !.lastWriteError = "invalid"]
        BY <2>2 DEF UpdateData
      <3>2. r.lastWriteError = "invalid"
        BY <1>2, <3>1 DEF IsTx
      <3> QED
        BY <1>4, <3>2 DEF CommitRejected
    <2>3. CASE r = UpdateData(q, k, data) /\ ~UpdateImpossible(q, k)
      <3>1. PICK mu : mu = [op |-> "patch", data |-> data, pre |-> PreconditionForUpdate(q, k)]
        OBVIOUS
      <3>2. r = [q EXCEPT !.mutations = Put(q.mutations, k, mu)]
        BY <2>3, <3>1 DEF UpdateData
      <3>3. r.mutations = Put(q.mutations, k, mu)
        BY <1>2, <3>2 DEF IsTx
      <3> QED
        BY <3>1, <3>3 DEF Put
    <2> QED
      BY <1>3, <2>1, <2>2, <2>3
  <1> QED
    BY <1>4, <1>5

\* What the block of an operation may write.
WriteOf(t, data) ==
    \/ /\ BlockResumes(t, job[t].kind) /\ job[t].kind \in {"infoLoad", "verifyLoad"}
       /\ data = DocRead(t) /\ data # NoDoc
    \/ job[t].kind \in {"infoLoad", "save"} /\ data = infoState[job[t].owner]
    \/ data = VerifyDoc(job[t].owner)
    \/ data = [facebookToken |-> job[t].data]
    \/ /\ job[t].kind = "linkedin" /\ job[t].stage = "transaction"
       /\ data = [linkdintoken |-> job[t].data]

LEMMA RequestsCome ==
    ASSUME AppIInv, [Next]_vars, NEW m \in commits', m \notin commits
    PROVE  /\ m.tx \in TxIds /\ UNCHANGED job
           /\ WriteOf(m.tx, m.mutations[job[m.tx].key].data)
  <1> DEFINE Fine == /\ m.tx \in TxIds /\ UNCHANGED job
                     /\ WriteOf(m.tx, m.mutations[job[m.tx].key].data)
  <1>1. UNCHANGED commits => FALSE
    OBVIOUS
  <1>2. \A t \in TxIds : RunTransaction(t) \/ BlockFails(t) \/ ReplyReceived(t) \/ RpcFails(t) =>
          UNCHANGED commits
    BY DEF RunTransaction, BlockFails, ReplyReceived, RpcFails
  <1>3. UNCHANGED fsVars => UNCHANGED commits
    BY DEF fsVars
  <1>4. ASSUME NEW t \in TxIds, InfoLoadBlock(t) PROVE Fine
    <2>1. PICK i, k, d, e : i = job[t] /\ k = i.key /\ d = DocRead(t) /\ e = infoState[i.owner]
      OBVIOUS
    <2>2. /\ BlockResumes(t, "infoLoad") /\ UNCHANGED job /\ i.kind = "infoLoad"
          /\ \/ Commit(t, SetData(tx[t], k, e))
             \/ d # NoDoc /\ Commit(t, UpdateData(tx[t], k, d))
             \/ BlockFails(t)
      BY <1>4, <2>1 DEF InfoLoadBlock, BlockResumes, At
    <2>3. PICK data : /\ m.tx = t /\ m.mutations[k].data = data
                      /\ data = e \/ (data = d /\ d # NoDoc)
      BY <1>1, <1>2, <2>1, <2>2, SentData
    <2> QED
      BY <2>1, <2>2, <2>3 DEF WriteOf
  <1>5. ASSUME NEW t \in TxIds, SaveBlock(t) PROVE Fine
    <2>1. PICK i, k, e : i = job[t] /\ k = i.key /\ e = infoState[i.owner]
      OBVIOUS
    <2>2. /\ BlockResumes(t, "save") /\ UNCHANGED job /\ i.kind = "save"
          /\ \/ Commit(t, SetData(tx[t], k, e))
             \/ Commit(t, UpdateData(tx[t], k, e))
             \/ BlockFails(t)
      BY <1>5, <2>1 DEF SaveBlock, BlockResumes, At
    <2>3. m.tx = t /\ m.mutations[k].data = e
      BY <1>1, <1>2, <2>1, <2>2, SentData
    <2> QED
      BY <2>1, <2>2, <2>3 DEF WriteOf
  <1>6. ASSUME NEW t \in TxIds, VerifyLoadBlock(t) PROVE Fine
    <2>1. PICK i, k, d, e : i = job[t] /\ k = i.key /\ d = DocRead(t) /\ e = VerifyDoc(i.owner)
      OBVIOUS
    <2>2. /\ BlockResumes(t, "verifyLoad") /\ UNCHANGED job /\ i.kind = "verifyLoad"
          /\ \/ Commit(t, SetData(tx[t], k, e))
             \/ d # NoDoc /\ Commit(t, UpdateData(tx[t], k, d))
             \/ BlockFails(t)
      BY <1>6, <2>1 DEF VerifyLoadBlock, BlockResumes, At
    <2>3. PICK data : /\ m.tx = t /\ m.mutations[k].data = data
                      /\ data = e \/ (data = d /\ d # NoDoc)
      BY <1>1, <1>2, <2>1, <2>2, SentData
    <2> QED
      BY <2>1, <2>2, <2>3 DEF WriteOf
  <1>7. ASSUME NEW t \in TxIds, FacebookBlock(t) \/ LinkedInBlock(t) PROVE Fine
    <2>1. PICK i, k, e, f : /\ i = job[t] /\ k = i.key /\ e = [facebookToken |-> i.data]
                            /\ f = [linkdintoken |-> i.data]
      OBVIOUS
    <2>2. CASE FacebookBlock(t)
      <3>1. /\ BlockResumes(t, "facebook") /\ UNCHANGED job
            /\ Commit(t, UpdateData(tx[t], k, e)) \/ BlockFails(t)
        BY <2>1, <2>2 DEF FacebookBlock
      <3>2. m.tx = t /\ m.mutations[k].data = e
        BY <1>1, <1>2, <2>1, <3>1, SentData
      <3> QED
        BY <2>1, <3>1, <3>2 DEF WriteOf
    <2>3. CASE LinkedInBlock(t)
      <3>1. /\ BlockResumes(t, "linkedin") /\ UNCHANGED job
            /\ i.kind = "linkedin" /\ i.stage = "transaction"
            /\ Commit(t, UpdateData(tx[t], k, f)) \/ BlockFails(t)
        BY <2>1, <2>3 DEF LinkedInBlock, BlockResumes, At
      <3>2. m.tx = t /\ m.mutations[k].data = f
        BY <1>1, <1>2, <2>1, <3>1, SentData
      <3> QED
        BY <2>1, <3>1, <3>2 DEF WriteOf
    <2> QED
      BY <1>7, <2>2, <2>3
  <1>8. CASE Auth \/ LeaveHome \/ Restart
    BY <1>1, <1>3, <1>8 DEF Auth, LeaveHome, Restart
  <1>9. CASE Transact
    BY <1>1, <1>2, <1>9
       DEF Transact, RpcNext, BackendCommit, BackendRefuse, GetStep, GetFails, Get
  <1>10. CASE \E q \in Requests, h \in Homes, t \in TxIds : MountHome(q, h, t)
    BY <1>1, <1>2, <1>10 DEF MountHome, InfoMount, BeginTransaction
  <1>11. CASE PipelineNext /\ UNCHANGED <<accountVars, screenVars>>
    BY <1>1, <1>3, <1>11 DEF PipelineNext, DeliverWrite, AnswerUnheard, StreamBreaks, WatchSnapshot
  <1>12. CASE InfoNext
    BY <1>1, <1>2, <1>3, <1>4, <1>5, <1>12
       DEF InfoNext, EditField, PickSmoker, Save, BeginTransaction, UploadImage,
           ImageUploaded, ImageFails
  <1>13. CASE VerifyNext
    BY <1>1, <1>2, <1>3, <1>6, <1>7, <1>13
       DEF VerifyNext, VerifyMount, BeginTransaction, PressFacebook, PressLinkedIn,
           PressLocation, FacebookGranted, FacebookLoginFails, FacebookToken, FacebookDone,
           LinkedInSignedIn, LinkedInFails, SaveLinkedinData, LinkedInDone, PositionFails,
           PositionFound, LocationSaved, LocationRejected
  <1>14. CASE RecordNext
    BY <1>1, <1>3, <1>14
       DEF RecordNext, OpenRecord, CloseRecord, UploadVideo, RecordSnapshot,
           RecordCachedSnapshot, RecordGetFails, RecordLoaded, VideoUploaded, VideoFails,
           VideoSaved, VideoRejected
  <1>15. CASE UNCHANGED vars
    BY <1>1, <1>3, <1>15 DEF vars
  <1> QED
    BY <1>8, <1>9, <1>10, <1>11, <1>12, <1>13, <1>14, <1>15 DEF Next

LEMMA OwnRequestsStay ==
    ASSUME AppIInv, ScreensBelong, [Next]_vars, AppAges, NEW k \in Keys, OwnScreensOnly(k),
           OwnEverything(k)
    PROVE  OwnRequests(k)'
  <1> SUFFICES ASSUME NEW m \in commits', job'[m.tx].key = k
               PROVE  OwnDoc(k, m.mutations[k].data)
    BY DEF OwnRequests, OwnDoc
  <1>1. CASE m \in commits
    <2>1. m.tx \in TxIds /\ JobOK(job[m.tx], tx[m.tx].phase) /\ tx[m.tx].phase # "idle"
      BY <1>1 DEF AppIInv, FsOK, RequestsOK, RequestOK, JobsOK
    <2>2. job[m.tx].key = k
      BY <2>1 DEF JobOK, AppAges, JobsAge
    <2> QED
      BY <1>1, <2>2 DEF OwnEverything, OwnRequests
  <1>2. CASE m \notin commits
    <2>1. PICK t, i, data : t = m.tx /\ i = job[t] /\ data = m.mutations[k].data
      OBVIOUS
    <2>2. t \in TxIds /\ i.key = k /\ WriteOf(t, data)
      BY <1>2, <2>1, RequestsCome
    <2>3. CASE BlockResumes(t, i.kind) /\ data = DocRead(t)
      BY <2>1, <2>2, <2>3 DEF BlockResumes, DocRead, OwnEverything, OwnReads
    <2>4. CASE i.kind \in {"infoLoad", "save"} /\ data = infoState[i.owner]
      <3>1. OwnerHome(i) \in Homes /\ Born(OwnerHome(i)) /\ OwnerHome(i) = i.owner
        BY <2>1, <2>2, <2>4, OwnerHomeStays DEF OwnerHome
      <3>2. home[i.owner].user = k
        BY <2>1, <2>2, <2>4, <3>1 DEF OwnScreensOnly
      <3> QED
        BY <2>1, <2>4, <3>1, <3>2 DEF OwnEverything, OwnForms
    <2>5. CASE data = VerifyDoc(i.owner) \/ data = [facebookToken |-> i.data]
      <3>1. "user" \notin DOMAIN data /\ "linkdintoken" \notin DOMAIN data
        BY <2>5 DEF VerifyDoc
      <3> QED
        BY <2>1, <3>1 DEF OwnDoc
    <2>6. CASE i.kind = "linkedin" /\ i.stage = "transaction" /\ data = [linkdintoken |-> i.data]
      <3>1. JobOf(i)
        BY <2>1, <2>2 DEF AppIInv, JobsOK, JobOK
      <3>2. Visited(i.owner) /\ i.data = verify[i.owner].user /\ OwnerHome(i) = i.owner
        BY <2>6, <3>1 DEF JobOf, OwnerHome
      <3>3. i.owner \in Homes /\ home[i.owner].user = k /\ ~home[i.owner].overlapped
        BY <2>1, <2>2, <2>6, <3>2 DEF OwnScreensOnly, Visited
      <3>4. i.data = k
        BY <3>2, <3>3 DEF ScreensBelong, Belongs
      <3>5. DOMAIN data = {"linkdintoken"} /\ data["linkdintoken"] = k
        BY <2>6, <3>4
      <3> QED
        BY <2>1, <3>5 DEF OwnDoc
    <2> QED
      BY <2>1, <2>2, <2>3, <2>4, <2>5, <2>6 DEF WriteOf
  <1> QED
    BY <1>1, <1>2

\* What a step does to a form.
FormStep(h) ==
    \/ infoState'[h] = infoState[h]
    \/ infoState'[h] = InfoConstructor(home'[h].user)
    \/ \E d : /\ infoState'[h] = Merge(infoState[h], d)
              /\ "user" \notin DOMAIN d /\ "linkdintoken" \notin DOMAIN d
    \/ \E t \in TxIds : /\ infoState'[h] = Merge(infoState[h], DocRead(t))
                        /\ BlockResumes(t, "infoLoad") /\ job[t].owner = h
                        /\ DocRead(t) # NoDoc

LEMMA FormsChange ==
    ASSUME AppIInv, [Next]_vars, NEW g \in Homes
    PROVE  FormStep(g)
  <1>1. UNCHANGED infoState => FormStep(g)
    BY DEF FormStep
  <1>2. DOMAIN infoState = Homes
    BY DEF AppIInv, InfoOK
  <1>3. ASSUME NEW h \in Homes, NEW d, SetInfoState(h, d), "user" \notin DOMAIN d,
               "linkdintoken" \notin DOMAIN d
        PROVE  FormStep(g)
    <2>1. infoState'[g] = infoState[g] \/ infoState'[g] = Merge(infoState[g], d)
      BY <1>2, <1>3 DEF SetInfoState
    <2> QED
      BY <1>3, <2>1 DEF FormStep
  <1>4. ASSUME NEW t \in TxIds, InfoLoadBlock(t) PROVE FormStep(g)
    <2>1. PICK h, d : h = job[t].owner /\ d = DocRead(t)
      OBVIOUS
    <2>2. /\ BlockResumes(t, "infoLoad")
          /\ UNCHANGED infoState \/ (d # NoDoc /\ SetInfoState(h, d))
      BY <1>4, <2>1 DEF InfoLoadBlock
    <2>3. infoState'[g] = infoState[g] \/ (d # NoDoc /\ h = g /\ infoState'[g] = Merge(infoState[g], d))
      BY <1>2, <2>2 DEF SetInfoState
    <2> QED
      BY <2>1, <2>2, <2>3 DEF FormStep
  <1>5. ASSUME NEW q \in Requests, NEW h \in Homes, NEW t \in TxIds, MountHome(q, h, t)
        PROVE  FormStep(g)
    <2>1. infoState' = [infoState EXCEPT ![h] = InfoConstructor(currentUser)]
      BY <1>5 DEF MountHome, InfoMount
    <2>2. home'[h].user = currentUser
      BY <1>5 DEF MountHome, Navigate, AppIInv, AccountIInv, AccountTypeOK
    <2> QED
      BY <1>2, <2>1, <2>2 DEF FormStep
  <1>6. CASE Auth \/ LeaveHome \/ Restart \/ Transact
    BY <1>1, <1>6 DEF Auth, LeaveHome, Restart, Transact, screenVars
  <1>7. CASE PipelineNext /\ UNCHANGED <<accountVars, screenVars>>
    BY <1>1, <1>7 DEF screenVars
  <1>8. CASE InfoNext
    <2>1. ASSUME NEW h \in Homes, EditField(h) PROVE FormStep(g)
      BY <1>3, <2>1 DEF EditField
    <2>2. ASSUME NEW h \in Homes, NEW v, PickSmoker(h, v) PROVE FormStep(g)
      BY <1>3, <2>2 DEF PickSmoker
    <2>3. ASSUME NEW h \in Homes, NEW t \in TxIds, Save(h, t) PROVE FormStep(g)
      BY <1>3, <2>3 DEF Save
    <2>4. ASSUME NEW t \in TxIds, ImageUploaded(t) PROVE FormStep(g)
      <3>1. PICK h : h = job[t].owner
        OBVIOUS
      <3>2. h \in Homes
        BY <2>4, <3>1, OwnerHomeStays DEF ImageUploaded, At, OwnerHome
      <3> QED
        BY <1>3, <2>4, <3>1, <3>2 DEF ImageUploaded
    <2> QED
      BY <1>1, <1>4, <1>8, <2>1, <2>2, <2>3, <2>4
         DEF InfoNext, UploadImage, SaveBlock, ImageFails
  <1>9. CASE (VerifyNext \/ RecordNext) /\ UNCHANGED infoState
    BY <1>1, <1>9
  <1>10. CASE UNCHANGED vars
    BY <1>1, <1>10 DEF vars
  <1> QED
    BY <1>5, <1>6, <1>7, <1>8, <1>9, <1>10 DEF Next

LEMMA OwnFormsStay ==
    ASSUME AppIInv, [Next]_vars, AppAges, NEW k \in Keys, OwnEverything(k)
    PROVE  OwnForms(k)'
  <1> SUFFICES ASSUME NEW h \in Homes, Born(h)', home'[h].user = k
               PROVE  OwnDoc(k, infoState'[h])
    BY DEF OwnForms, OwnDoc, Born
  <1>1. ASSUME ~Born(h), infoState'[h] # InfoConstructor(home'[h].user) PROVE FALSE
    <2>1. FormStep(h)
      BY FormsChange
    <2>2. PICK q \in Requests, t \in TxIds : Navigate(q, h) /\ InfoMount(h, t)
      <3>1. UNCHANGED home => FALSE
        BY <1>1 DEF Born
      <3>2. ~AuthStep /\ ~SwipeBack /\ ~RestartAccount
        <4>1. CASE AuthStep
          BY <3>1, <4>1 DEF AuthStep, Press, AuthAccepted, AuthRejected, Registered,
                            NavigateIgnored
        <4>2. CASE SwipeBack
          <5>1. route \in Homes /\ Mounted(route) /\ DOMAIN home = Homes
            BY <4>2 DEF SwipeBack, AppIInv, AccountIInv, AccountTypeOK
          <5> QED
            BY <1>1, <4>2, <5>1 DEF SwipeBack, Born, Mounted
        <4>3. CASE RestartAccount
          BY <1>1, <4>3 DEF RestartAccount, Born, Mounted
        <4> QED
          BY <4>1, <4>2, <4>3
      <3>3. PICK q \in Requests, g \in Homes, t \in TxIds : MountHome(q, g, t)
        BY <3>1, <3>2 DEF Next, vars, accountVars, Auth, LeaveHome, Restart, Transact
      <3>4. g = h
        BY <1>1, <3>3 DEF MountHome, Navigate, Born, AppIInv, AccountIInv, AccountTypeOK
      <3> QED
        BY <3>3, <3>4 DEF MountHome
    <2>3. infoState'[h] = InfoConstructor(currentUser) /\ home'[h].user = currentUser
      BY <2>2 DEF InfoMount, Navigate, AppIInv, InfoOK, AccountIInv, AccountTypeOK
    <2> QED
      BY <1>1, <2>3
  <1>2. CASE infoState'[h] = InfoConstructor(home'[h].user)
    <2>1. PICK d : d = InfoConstructor(k)
      OBVIOUS
    <2>2. "linkdintoken" \notin DOMAIN d /\ d["user"] = k
      BY <2>1 DEF InfoConstructor
    <2> QED
      BY <1>2, <2>1, <2>2 DEF OwnDoc
  <1>3. CASE Born(h)
    <2>1. home[h].user = k /\ FormDoc(infoState[h])
      BY <1>3 DEF AppAges, ScreensAge, HomesAge, AppIInv, InfoOK
    <2>2. OwnDoc(k, infoState[h]) /\ infoState[h] # NoDoc
      BY <1>3, <2>1, DocsAre DEF OwnEverything, OwnForms, FormDoc, GoodDoc
    <2>3. CASE infoState'[h] = infoState[h]
      BY <2>2, <2>3
    <2>4. ASSUME NEW d, infoState'[h] = Merge(infoState[h], d), "user" \notin DOMAIN d,
                 "linkdintoken" \notin DOMAIN d
          PROVE  OwnDoc(k, infoState'[h])
      BY <2>2, <2>4, MergeOwn
    <2>5. ASSUME NEW t \in TxIds, infoState'[h] = Merge(infoState[h], DocRead(t)),
                 BlockResumes(t, "infoLoad"), job[t].owner = h, DocRead(t) # NoDoc
          PROVE  OwnDoc(k, infoState'[h])
      <3>1. job[t].key = k
        BY <2>1, <2>5 DEF BlockResumes, At, AppIInv, JobsOK, JobOK, JobOf
      <3>2. OwnDoc(k, DocRead(t))
        BY <2>5, <3>1 DEF BlockResumes, DocRead, OwnEverything, OwnReads
      <3> QED
        BY <2>2, <2>5, <3>2, MergeOwn
    <2> QED
      BY <1>2, <2>3, <2>4, <2>5, FormsChange DEF FormStep
  <1> QED
    BY <1>1, <1>2, <1>3

LEMMA OwnNext ==
    ASSUME AppIInv, ScreensBelong, OwnIInv, [Next]_vars
    PROVE  OwnIInv'
  <1>1. AppAges
    BY NextIInv
  <1>2. ASSUME NEW k \in Keys, OwnScreensOnly(k)' PROVE OwnEverything(k)'
    <2>1. OwnScreensOnly(k) /\ OwnEverything(k)
      BY <1>1, <1>2, OwnScreensBefore DEF OwnIInv
    <2>2. OwnDoc(k, store[k])'
      BY <2>1, OwnStoreStays
    <2>3. OwnReads(k)' /\ OwnRequests(k)' /\ OwnForms(k)'
      BY <1>1, <2>1, OwnReadsStay, OwnRequestsStay, OwnFormsStay
    <2> QED
      BY <2>2, <2>3 DEF OwnEverything
  <1> QED
    BY <1>2 DEF OwnIInv

\* Saved documents are their owners', and nothing else is under way.
LEMMA OwnInit == Init \/ LoadedInit => OwnIInv
  <1>1. \A k : OwnDoc(k, InfoConstructor(k))
    BY DEF OwnDoc, InfoConstructor
  <1>2. ASSUME NEW S, FirestoreInit(S), JobInit PROVE \A k \in Keys : OwnReads(k) /\ OwnRequests(k)
    <2>1. \A t \in TxIds : tx[t].reads = Empty
      BY <1>2 DEF FirestoreInit, Transaction
    <2>2. commits = {}
      BY <1>2 DEF FirestoreInit
    <2> QED
      BY <2>1, <2>2 DEF OwnReads, OwnRequests, Empty
  <1>3. ASSUME Init PROVE OwnIInv
    <2>1. \A k \in Keys : store[k] = NoDoc \/ store[k] = InfoConstructor(k)
      BY <1>3 DEF Init, FirestoreInit, SavedDocs
    <2>2. \A h \in Homes : ~Born(h)
      BY <1>3 DEF Init, AccountInit, Born
    <2>3. \A k \in Keys : OwnReads(k) /\ OwnRequests(k)
      BY <1>2, <1>3 DEF Init
    <2> QED
      BY <1>1, <2>1, <2>2, <2>3 DEF OwnIInv, OwnEverything, OwnForms, OwnDoc
  <1>4. ASSUME LoadedInit PROVE OwnIInv
    <2>1. PICK h \in Homes, u \in Users, old \in {NoDoc, Empty, [videos |-> <<Clip>>]} :
          /\ accounts = Users
          /\ currentUser = u
          /\ request = [q \in Requests |-> NoRequest]
          /\ route = h
          /\ home = [g \in Homes |->
                       IF g = h
                       THEN [status |-> "mounted", user |-> u, overlapped |-> FALSE]
                       ELSE [status |-> "unborn", user |-> NoUser, overlapped |-> FALSE]]
          /\ FirestoreInit({[k \in Keys |-> IF old = NoDoc THEN NoDoc
                                            ELSE Merge(InfoConstructor(k), old)]})
          /\ JobInit
          /\ infoState = [g \in Homes |->
                            IF g # h THEN Empty
                            ELSE IF old = NoDoc THEN InfoConstructor(u)
                            ELSE Merge(InfoConstructor(u), old)]
          /\ PipelineInit
          /\ CacheInit(TRUE)
          /\ verify = [g \in Homes |-> IF g = h THEN VerifyLoaded(u) ELSE Unborn]
          /\ fbToken = Null
          /\ RecordInit
      BY <1>4, LoadedMeans
    <2>2. old = NoDoc \/ ("user" \notin DOMAIN old /\ "linkdintoken" \notin DOMAIN old)
      BY <2>1 DEF Empty
    <2>3. ASSUME NEW k \in Keys, old # NoDoc
          PROVE  OwnDoc(k, Merge(InfoConstructor(k), old))
      <3>1. InfoConstructor(k) # NoDoc
        BY KeysAreUids, ConstructorDoc, DocsAre DEF FormDoc, GoodDoc
      <3> QED
        BY <1>1, <2>2, <2>3, <3>1, MergeOwn
    <2>4. \A k \in Keys : OwnDoc(k, store[k])
      BY <2>1, <2>3 DEF FirestoreInit, OwnDoc
    <2>5. \A k \in Keys : OwnReads(k) /\ OwnRequests(k)
      BY <1>2, <2>1
    <2>6. ASSUME NEW k \in Keys, NEW g \in Homes, Born(g), home[g].user = k
          PROVE  OwnDoc(k, infoState[g])
      <3>1. g = h /\ k = u
        BY <2>1, <2>6 DEF Born
      <3> QED
        BY <1>1, <2>1, <2>3, <3>1
    <2> QED
      BY <2>4, <2>5, <2>6 DEF OwnIInv, OwnEverything, OwnForms
  <1> QED
    BY <1>3, <1>4

\* The invariant behind OwnDataOnly: identities and LinkedIn tokens are the
\* owner's in documents, reads, requests under way and forms alike.
THEOREM OwnInvariant == Spec \/ LoadedSpec => []OwnIInv
  <1>1. Spec \/ LoadedSpec => (Init \/ LoadedInit) /\ [][Next]_vars
    BY DEF Spec, LoadedSpec
  <1>2. Init \/ LoadedInit => OwnIInv
    BY OwnInit
  <1>3. AppIInv /\ ScreensBelong /\ OwnIInv /\ [Next]_vars => OwnIInv'
    BY OwnNext
  <1> QED
    BY <1>1, <1>2, <1>3, AppInvariant, ScreensBelongHolds, PTL

\* Any number of accounts on one device, with every interleaving of their screens,
\* late callbacks and restarts: a document that only screens of its owner operate
\* on keeps its owner's identity and LinkedIn token.
THEOREM OwnDataOnlyHolds == Spec \/ LoadedSpec => []OwnDataOnly
  <1>1. OwnIInv => OwnDataOnly
    BY DEF OwnIInv, OwnScreensOnly, OwnEverything, OwnDoc, OwnDataOnly, HasField
  <1> QED
    BY <1>1, OwnInvariant, PTL

\* The app, seen from login and navigation, is the specification of login and
\* navigation by itself: every theorem about that one holds of the app.
THEOREM AppImplementsAccount == Spec => AccountSpec
  <1>1. Init => AccountInit
    BY DEF Init
  <1>2. [Next]_vars => [AccountNext]_accountVars
    BY AppAccountStep
  <1> QED
    BY <1>1, <1>2, PTL DEF Spec, AccountSpec

=============================================================================
