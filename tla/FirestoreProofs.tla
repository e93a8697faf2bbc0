-------------------------- MODULE FirestoreProofs --------------------------
(***************************************************************************)
(* Proofs about FirestoreTransactions, for any documents, any number of    *)
(* transactions and retries, and any writes of other devices.              *)
(***************************************************************************)
EXTENDS FirestoreTransactions, TLAPS

-----------------------------------------------------------------------------
(***************************************************************************)
(* The operators the model is built from.                                  *)
(***************************************************************************)

\* A partial function extended at one point is a partial function.
LEMMA PutType ==
    ASSUME NEW S, NEW T, NEW f, IsPFun(f, S, T), NEW k \in S, NEW v \in T
    PROVE  /\ IsPFun(Put(f, k, v), S, T)
           /\ DOMAIN Put(f, k, v) = DOMAIN f \cup {k}
           /\ Put(f, k, v)[k] = v
           /\ \A x \in DOMAIN f : x # k => Put(f, k, v)[x] = f[x]
  BY DEF IsPFun, Put

\* The empty map is a partial function between any two sets.
LEMMA EmptyType ==
    ASSUME NEW S, NEW T
    PROVE  IsPFun(Empty, S, T) /\ DOMAIN Empty = {}
  BY DEF IsPFun, Empty

\* The documents are the partial functions from Fields to Vals.
LEMMA DocsArePFuns ==
    ASSUME NEW d
    PROVE  d \in Docs <=> IsPFun(d, Fields, Vals)
  BY DEF Docs, IsPFun

\* A patch of a document is a document.
LEMMA MergeType ==
    ASSUME NEW d \in Docs, NEW e \in Docs
    PROVE  Merge(d, e) \in Docs
  <1>1. IsPFun(d, Fields, Vals) /\ IsPFun(e, Fields, Vals)
    BY DocsArePFuns
  <1>2. IsPFun(Merge(d, e), Fields, Vals)
    BY <1>1 DEF IsPFun, Merge
  <1> QED
    BY <1>2, DocsArePFuns

\* The empty document.
LEMMA EmptyIsDoc == Empty \in Docs
  BY EmptyType, DocsArePFuns

\* A set or a patch leaves a document, a delete leaves none.
LEMMA ApplyToType ==
    ASSUME NEW m \in Mutations, NEW d \in MaybeDocs
    PROVE  /\ ApplyTo(m, d) \in MaybeDocs
           /\ ApplyTo(m, d) = NoDoc <=> m.op = "delete"
  <1>1. CASE m.op = "set"
    BY <1>1, NoDocAssumption DEF ApplyTo, Mutations, MaybeDocs
  <1>2. CASE m.op = "patch"
    <2> DEFINE base == IF d = NoDoc THEN Empty ELSE d
    <2>1. base \in Docs
      BY EmptyIsDoc DEF MaybeDocs
    <2>2. m.data \in Docs
      BY DEF Mutations
    <2>3. Merge(base, m.data) \in Docs
      BY <2>1, <2>2, MergeType
    <2>4. ApplyTo(m, d) = Merge(base, m.data)
      BY <1>2 DEF ApplyTo
    <2> QED
      BY <1>2, <2>3, <2>4, NoDocAssumption DEF MaybeDocs
  <1>3. CASE m.op = "delete"
    BY <1>3, NoDocAssumption DEF ApplyTo, MaybeDocs
  <1> QED
    BY <1>1, <1>2, <1>3 DEF Mutations

-----------------------------------------------------------------------------
(***************************************************************************)
(* The transaction object.                                                 *)
(***************************************************************************)
Phases == {"idle", "running", "committing", "committed", "failed", "lost"}

\* A new transaction object has its type and remembers nothing.
LEMMA TransactionType ==
    ASSUME NEW p \in Phases, NEW n \in 0 .. MaxRetries
    PROVE  /\ IsTransaction(Transaction(p, n))
           /\ Transaction(p, n).phase = p
           /\ Transaction(p, n).retries = n
           /\ DOMAIN Transaction(p, n).reads = {}
           /\ Transaction(p, n).reply = "none"
  <1>1. /\ IsPFun(Empty, Keys, Nat) /\ IsPFun(Empty, Keys, MaybeDocs)
        /\ IsPFun(Empty, Keys, Mutations) /\ DOMAIN Empty = {}
    BY EmptyType
  <1> QED
    BY <1>1 DEF Transaction, IsTransaction, Phases

\* So has the one a retry starts, with fewer retries left.
LEMMA RetryType ==
    ASSUME NEW r, IsTransaction(r)
    PROVE  /\ IsTransaction(Retry(r))
           /\ DOMAIN Retry(r).reads = {}
           /\ Retry(r).reply = "none"
           /\ \/ Retry(r).phase = "failed"
              \/ Retry(r).phase = "running" /\ Retry(r).retries < r.retries
  <1>1. r.retries \in 0 .. MaxRetries
    BY DEF IsTransaction
  <1>2. CASE r.retries = 0
    BY <1>1, <1>2, TransactionType DEF Retry, Phases
  <1>3. CASE r.retries # 0
    <2>1. r.retries - 1 \in 0 .. MaxRetries /\ r.retries - 1 < r.retries
      BY <1>1, <1>3, RetriesAssumption
    <2>2. Retry(r) = Transaction("running", r.retries - 1)
      BY <1>3 DEF Retry
    <2> QED
      BY <2>1, <2>2, TransactionType DEF Phases
  <1> QED
    BY <1>2, <1>3

\* The preconditions a write gets.
LEMMA PreconditionType ==
    ASSUME NEW r, IsTransaction(r), NEW k
    PROVE  /\ PreconditionForDocumentKey(r, k) \in Preconditions
           /\ PreconditionForUpdate(r, k) \in Preconditions
  BY DEF IsTransaction, IsPFun, PreconditionForDocumentKey, PreconditionForUpdate,
         Preconditions, None, Exists, UpdateTime

\* One field of a transaction object replaced.
LEMMA SetReads ==
    ASSUME NEW r, IsTransaction(r), NEW x, IsPFun(x, Keys, MaybeDocs)
    PROVE  LET q == [r EXCEPT !.reads = x] IN
           /\ IsTransaction(q)
           /\ q.phase = r.phase /\ q.retries = r.retries /\ q.reply = r.reply
           /\ q.readVersions = r.readVersions /\ q.mutations = r.mutations
           /\ q.lastWriteError = r.lastWriteError /\ q.reads = x
  BY DEF IsTransaction

\* The versions replaced.
LEMMA SetReadVersions ==
    ASSUME NEW r, IsTransaction(r), NEW x, IsPFun(x, Keys, Nat)
    PROVE  LET q == [r EXCEPT !.readVersions = x] IN
           /\ IsTransaction(q)
           /\ q.phase = r.phase /\ q.retries = r.retries /\ q.reply = r.reply
           /\ q.reads = r.reads /\ q.mutations = r.mutations
           /\ q.lastWriteError = r.lastWriteError /\ q.readVersions = x
  BY DEF IsTransaction

\* The writes replaced.
LEMMA SetMutations ==
    ASSUME NEW r, IsTransaction(r), NEW x, IsPFun(x, Keys, Mutations)
    PROVE  LET q == [r EXCEPT !.mutations = x] IN
           /\ IsTransaction(q)
           /\ q.phase = r.phase /\ q.retries = r.retries /\ q.reply = r.reply
           /\ q.reads = r.reads /\ q.readVersions = r.readVersions
           /\ q.lastWriteError = r.lastWriteError /\ q.mutations = x
  BY DEF IsTransaction

\* The error set.
LEMMA SetLastWriteError ==
    ASSUME NEW r, IsTransaction(r)
    PROVE  LET q == [r EXCEPT !.lastWriteError = "invalid"] IN
           /\ IsTransaction(q)
           /\ q.phase = r.phase /\ q.retries = r.retries /\ q.reply = r.reply
           /\ q.reads = r.reads /\ q.readVersions = r.readVersions
           /\ q.mutations = r.mutations
  BY DEF IsTransaction

\* The answer set.
LEMMA SetReply ==
    ASSUME NEW r, IsTransaction(r), NEW x \in {"ok", "refused"}
    PROVE  LET q == [r EXCEPT !.reply = x] IN
           /\ IsTransaction(q)
           /\ q.phase = r.phase /\ q.retries = r.retries /\ q.reply = x
           /\ q.reads = r.reads /\ q.readVersions = r.readVersions
           /\ q.mutations = r.mutations
  BY DEF IsTransaction

\* What transaction.get adds: the content and the version of the document.
LEMMA RecordVersionType ==
    ASSUME NEW r, IsTransaction(r), NEW k \in Keys,
           version \in [Keys -> Nat], store \in [Keys -> MaybeDocs]
    PROVE  LET q == RecordVersion(r, k) IN
           /\ IsTransaction(q)
           /\ q.phase = r.phase /\ q.retries = r.retries /\ q.reply = r.reply
           /\ q.mutations = r.mutations
           /\ q.readVersions = Put(r.readVersions, k, version[k])
           /\ q.reads = Put(r.reads, k, store[k])
  <1> DEFINE read == [r EXCEPT !.reads = Put(r.reads, k, store[k])]
  <1>1. IsPFun(Put(r.reads, k, store[k]), Keys, MaybeDocs)
    BY PutType DEF IsTransaction
  <1>2. /\ IsTransaction(read)
        /\ read.phase = r.phase /\ read.retries = r.retries /\ read.reply = r.reply
        /\ read.readVersions = r.readVersions /\ read.mutations = r.mutations
        /\ read.reads = Put(r.reads, k, store[k])
    BY <1>1, SetReads
  <1>3. IsPFun(Put(read.readVersions, k, version[k]), Keys, Nat)
    BY <1>2, PutType DEF IsTransaction
  <1>4. RecordVersion(r, k) =
            [read EXCEPT !.readVersions = Put(read.readVersions, k, version[k])]
    BY DEF RecordVersion
  <1> HIDE DEF read
  <1> QED
    BY <1>2, <1>3, <1>4, SetReadVersions

\* What transaction.set, update and delete leave: the new mutation carries the
\* version that was read, and the update of an absent document changes nothing
\* but the error.
Buffers(r, q, k) ==
    /\ IsTransaction(q)
    /\ q.phase = r.phase /\ q.retries = r.retries /\ q.reply = r.reply
    /\ q.reads = r.reads
    /\ \/ /\ q.readVersions = r.readVersions
          /\ q.mutations = r.mutations
       \/ /\ DOMAIN q.readVersions \in {DOMAIN r.readVersions, DOMAIN r.readVersions \cup {k}}
          /\ \A x \in DOMAIN r.readVersions : x # k => q.readVersions[x] = r.readVersions[x]
          /\ DOMAIN q.mutations = DOMAIN r.mutations \cup {k}
          /\ \A x \in DOMAIN r.mutations : x # k => q.mutations[x] = r.mutations[x]
          /\ k \in DOMAIN r.readVersions =>
                q.mutations[k].pre = UpdateTime(r.readVersions[k])

\* transaction.set buffers a write on what was read.
LEMMA SetDataBuffers ==
    ASSUME NEW r, IsTransaction(r), NEW k \in Keys, NEW d \in Docs
    PROVE  Buffers(r, SetData(r, k, d), k)
  <1> DEFINE m == [op |-> "set", data |-> d, pre |-> PreconditionForDocumentKey(r, k)]
             x == Put(r.mutations, k, m)
  <1>1. m \in Mutations
    BY PreconditionType DEF Mutations
  <1>2. /\ IsPFun(x, Keys, Mutations) /\ DOMAIN x = DOMAIN r.mutations \cup {k}
        /\ x[k] = m /\ \A y \in DOMAIN r.mutations : y # k => x[y] = r.mutations[y]
    <2>1. IsPFun(r.mutations, Keys, Mutations)
      BY DEF IsTransaction
    <2> HIDE DEF m
    <2> QED
      BY <1>1, <2>1, PutType
  <1>3. SetData(r, k, d) = [r EXCEPT !.mutations = x]
    BY DEF SetData
  <1>4. k \in DOMAIN r.readVersions => m.pre = UpdateTime(r.readVersions[k])
    BY DEF PreconditionForDocumentKey
  <1> HIDE DEF m, x
  <1> QED
    BY <1>2, <1>3, <1>4, SetMutations DEF Buffers

\* So does transaction.update, unless it can only fail.
LEMMA UpdateDataBuffers ==
    ASSUME NEW r, IsTransaction(r), NEW k \in Keys, NEW d \in Docs
    PROVE  Buffers(r, UpdateData(r, k, d), k)
  <1> DEFINE m == [op |-> "patch", data |-> d, pre |-> PreconditionForUpdate(r, k)]
             x == Put(r.mutations, k, m)
  <1>1. m \in Mutations
    BY PreconditionType DEF Mutations
  <1>2. /\ IsPFun(x, Keys, Mutations) /\ DOMAIN x = DOMAIN r.mutations \cup {k}
        /\ x[k] = m /\ \A y \in DOMAIN r.mutations : y # k => x[y] = r.mutations[y]
    <2>1. IsPFun(r.mutations, Keys, Mutations)
      BY DEF IsTransaction
    <2> HIDE DEF m
    <2> QED
      BY <1>1, <2>1, PutType
  <1>3. CASE UpdateImpossible(r, k)
    BY <1>3, SetLastWriteError DEF UpdateData, Buffers
  <1>4. CASE ~UpdateImpossible(r, k)
    <2>1. UpdateData(r, k, d) = [r EXCEPT !.mutations = x]
      BY <1>4 DEF UpdateData
    <2>2. k \in DOMAIN r.readVersions => m.pre = UpdateTime(r.readVersions[k])
      BY DEF PreconditionForUpdate
    <2> HIDE DEF m, x
    <2> QED
      BY <1>2, <2>1, <2>2, SetMutations DEF Buffers
  <1> QED
    BY <1>3, <1>4

\* So does transaction.delete.
LEMMA DeleteDocumentBuffers ==
    ASSUME NEW r, IsTransaction(r), NEW k \in Keys
    PROVE  Buffers(r, DeleteDocument(r, k), k)
  <1> DEFINE m == [op |-> "delete", data |-> Empty, pre |-> PreconditionForDocumentKey(r, k)]
             x == Put(r.mutations, k, m)
             written == [r EXCEPT !.mutations = x]
             v == Put(written.readVersions, k, 0)
  <1>1. m \in Mutations
    BY PreconditionType, EmptyIsDoc DEF Mutations
  <1>2. /\ IsPFun(x, Keys, Mutations) /\ DOMAIN x = DOMAIN r.mutations \cup {k}
        /\ x[k] = m /\ \A y \in DOMAIN r.mutations : y # k => x[y] = r.mutations[y]
    <2>1. IsPFun(r.mutations, Keys, Mutations)
      BY DEF IsTransaction
    <2> HIDE DEF m
    <2> QED
      BY <1>1, <2>1, PutType
  <1>3. k \in DOMAIN r.readVersions => m.pre = UpdateTime(r.readVersions[k])
    BY DEF PreconditionForDocumentKey
  <1>4. DeleteDocument(r, k) = [written EXCEPT !.readVersions = v]
    BY DEF DeleteDocument
  <1> HIDE DEF m
  <1>5. /\ IsTransaction(written)
        /\ written.phase = r.phase /\ written.retries = r.retries
        /\ written.reply = r.reply /\ written.reads = r.reads
        /\ written.readVersions = r.readVersions /\ written.mutations = x
    <2> HIDE DEF x
    <2> QED
      BY <1>2, SetMutations
  <1> HIDE DEF x, written
  <1>6. /\ IsPFun(v, Keys, Nat) /\ DOMAIN v = DOMAIN r.readVersions \cup {k}
        /\ \A y \in DOMAIN r.readVersions : y # k => v[y] = r.readVersions[y]
    <2>1. IsPFun(r.readVersions, Keys, Nat) /\ 0 \in Nat
      BY DEF IsTransaction
    <2>2. v = Put(r.readVersions, k, 0)
      BY <1>5
    <2> HIDE DEF v
    <2> QED
      BY <2>1, <2>2, PutType
  <1> HIDE DEF v
  <1> QED
    BY <1>2, <1>3, <1>4, <1>5, <1>6, SetReadVersions DEF Buffers

-----------------------------------------------------------------------------
(***************************************************************************)
(* The inductive invariant.                                                *)
(***************************************************************************)

\* It holds before anything has run.
LEMMA InitIInv == Init => IInv
  <1> SUFFICES ASSUME Init PROVE IInv
    OBVIOUS
  <1> USE DEF Init, FirestoreInit
  <1>1. \A t \in TxIds : /\ IsTransaction(tx[t]) /\ tx[t].phase = "idle"
                         /\ DOMAIN tx[t].reads = {}
    BY TransactionType, RetriesAssumption DEF Phases
  <1>2. TypeOK
    BY <1>1 DEF TypeOK
  <1>3. VersionsMatchStore
    <2> SUFFICES ASSUME NEW k \in Keys
                 PROVE  version[k] <= clock /\ (version[k] = 0 <=> store[k] = NoDoc)
      BY DEF VersionsMatchStore
    <2>1. clock = 1 /\ version[k] = IF store[k] = NoDoc THEN 0 ELSE 1
      OBVIOUS
    <2> QED
      BY ONLY <2>1
  <1>4. TransactionsRemember
    BY <1>1 DEF TransactionsRemember, Remembers
  <1>5. RequestsRemember /\ AttemptsAreOrdered /\ OneRequestPerAttempt
    BY DEF RequestsRemember, AttemptsAreOrdered, OneRequestPerAttempt
  <1>6. AnswersAreTrue
    BY <1>1 DEF AnswersAreTrue
  <1> QED
    BY <1>2, <1>3, <1>4, <1>5, <1>6 DEF IInv

\* A step that gives transaction t the object r, and touches neither the
\* network nor the backend, preserves it if r remembers what it read, claims no
\* success, and comes after every attempt still in the network.
LEMMA ClientStep ==
    ASSUME IInv, NEW t \in TxIds, NEW r, IsTransaction(r), Remembers(r),
           tx' = [tx EXCEPT ![t] = r],
           UNCHANGED <<backendVars, commits, applied>>,
           \/ r.phase = "committed"
           \/ r.phase = "committing" /\ r.reply = "ok"
           => t \in applied,
           \A m \in commits : m.tx = t => Earlier(m, r)
    PROVE  IInv'
  <1> USE DEF backendVars
  <1>1. tx'[t] = r /\ \A u \in TxIds : u # t => tx'[u] = tx[u]
    BY DEF IInv, TypeOK
  <1>2. TypeOK'
    <2>1. DOMAIN tx' = TxIds
      BY DEF IInv, TypeOK
    <2>2. \A u \in TxIds : IsTransaction(tx'[u])
      BY <1>1 DEF IInv, TypeOK
    <2>3. \A m \in commits : IsCommitRequest(m)
      BY DEF IInv, TypeOK
    <2> QED
      BY <2>1, <2>2, <2>3 DEF IInv, TypeOK, IsTransaction, IsCommitRequest
  <1>3. VersionsMatchStore'
    BY DEF IInv, VersionsMatchStore
  <1>4. TransactionsRemember'
    BY <1>1 DEF IInv, TransactionsRemember, Remembers, ReadTogether
  <1>5. RequestsRemember' /\ OneRequestPerAttempt'
    BY DEF IInv, RequestsRemember, ReadTogether, OneRequestPerAttempt
  <1>6. AnswersAreTrue'
    BY <1>1 DEF IInv, AnswersAreTrue
  <1>7. AttemptsAreOrdered'
    BY <1>1 DEF IInv, TypeOK, IsCommitRequest, AttemptsAreOrdered, Earlier
  <1> QED
    BY <1>2, <1>3, <1>4, <1>5, <1>6, <1>7 DEF IInv

\* A new transaction has no request in the network.
LEMMA RunTransactionIInv ==
    ASSUME IInv, NEW t \in TxIds, RunTransaction(t)
    PROVE  IInv'
  <1> DEFINE r == Transaction("running", MaxRetries)
  <1>1. IsTransaction(r) /\ r.phase = "running" /\ DOMAIN r.reads = {}
    BY TransactionType, RetriesAssumption DEF Phases
  <1>2. \A m \in commits : m.tx # t
    BY DEF RunTransaction, IInv, AttemptsAreOrdered, Earlier
  <1>3. tx' = [tx EXCEPT ![t] = r] /\ UNCHANGED <<backendVars, commits, applied>>
    BY DEF RunTransaction
  <1> HIDE DEF r
  <1>4. Remembers(r)
    BY <1>1 DEF Remembers
  <1> QED
    BY <1>1, <1>2, <1>3, <1>4, ClientStep

\* transaction.get reads content and version together.
LEMMA GetIInv ==
    ASSUME IInv, NEW t \in TxIds, NEW k \in Keys, Get(t, k)
    PROVE  IInv'
  <1> DEFINE r == tx[t]  q == RecordVersion(tx[t], k)
  <1>1. IsTransaction(r) /\ Remembers(r) /\ r.phase = "running"
    BY DEF Get, IInv, TypeOK, TransactionsRemember
  <1>2. /\ IsTransaction(q)
        /\ q.phase = r.phase /\ q.retries = r.retries /\ q.reply = r.reply
        /\ q.mutations = r.mutations
        /\ q.readVersions = Put(r.readVersions, k, version[k])
        /\ q.reads = Put(r.reads, k, store[k])
    BY <1>1, RecordVersionType DEF IInv, TypeOK
  <1>3. tx' = [tx EXCEPT ![t] = q] /\ UNCHANGED <<backendVars, commits, applied>>
    BY DEF Get
  <1>4. DOMAIN r.mutations = {}
    BY DEF Get, Empty
  <1>5. \A m \in commits : m.tx = t => Earlier(m, r)
    BY DEF IInv, AttemptsAreOrdered
  <1> HIDE DEF q, r
  <1>6. ReadTogether(version[k], store[k], k)
    BY DEF IInv, TypeOK, VersionsMatchStore, ReadTogether
  <1>7. Remembers(q)
    BY <1>1, <1>2, <1>4, <1>6 DEF Remembers, Put
  <1>8. \A m \in commits : m.tx = t => Earlier(m, q)
    BY <1>2, <1>5 DEF Earlier
  <1> QED
    BY <1>1, <1>2, <1>3, <1>7, <1>8, ClientStep

\* A buffered write takes the version over from readVersions.
LEMMA BufferIInv ==
    ASSUME IInv, NEW t \in TxIds, NEW k \in Keys, NEW q,
           Buffer(t, k, q), Buffers(tx[t], q, k)
    PROVE  IInv'
  <1> DEFINE r == tx[t]
  <1>1. IsTransaction(r) /\ Remembers(r) /\ r.phase = "running"
    BY DEF Buffer, IInv, TypeOK, TransactionsRemember
  <1>2. tx' = [tx EXCEPT ![t] = q] /\ UNCHANGED <<backendVars, commits, applied>>
    BY DEF Buffer
  <1>3. k \notin DOMAIN r.mutations /\ Buffers(r, q, k)
    BY DEF Buffer
  <1>4. \A m \in commits : m.tx = t => Earlier(m, r)
    BY DEF IInv, AttemptsAreOrdered
  <1> HIDE DEF r
  <1>5. Remembers(q)
    <2> SUFFICES ASSUME NEW x \in DOMAIN q.reads
                 PROVE  /\ x \in DOMAIN q.readVersions
                        /\ x \notin DOMAIN q.mutations =>
                              ReadTogether(q.readVersions[x], q.reads[x], x)
                        /\ x \in DOMAIN q.mutations =>
                              /\ q.mutations[x].pre.type = "updateTime"
                              /\ ReadTogether(q.mutations[x].pre.version, q.reads[x], x)
      BY DEF Remembers
    <2>1. CASE q.readVersions = r.readVersions /\ q.mutations = r.mutations
      BY <1>1, <1>3, <2>1 DEF Buffers, Remembers
    <2>2. CASE x = k /\ q.mutations # r.mutations
      BY <1>1, <1>3, <2>2 DEF Buffers, Remembers, UpdateTime
    <2>3. CASE x # k /\ q.mutations # r.mutations
      BY <1>1, <1>3, <2>3 DEF Buffers, Remembers
    <2>4. q.mutations # r.mutations \/ q.readVersions = r.readVersions
      BY <1>3 DEF Buffers
    <2> QED
      BY <2>1, <2>2, <2>3, <2>4
  <1>6. \A m \in commits : m.tx = t => Earlier(m, q)
    BY <1>3, <1>4 DEF Buffers, Earlier
  <1>7. IsTransaction(q) /\ q.phase = "running"
    BY <1>1, <1>3 DEF Buffers
  <1> QED
    BY <1>2, <1>5, <1>6, <1>7, ClientStep

\* A block that fails ends its transaction.
LEMMA BlockFailsIInv ==
    ASSUME IInv, NEW t \in TxIds, BlockFails(t)
    PROVE  IInv'
  <1> DEFINE r == Transaction("failed", tx[t].retries)
  <1>1. IsTransaction(r) /\ r.phase = "failed" /\ DOMAIN r.reads = {}
    BY TransactionType DEF IInv, TypeOK, IsTransaction, Phases
  <1>2. tx' = [tx EXCEPT ![t] = r] /\ UNCHANGED <<backendVars, commits, applied>>
    BY DEF BlockFails
  <1> HIDE DEF r
  <1>3. Remembers(r) /\ \A m \in commits : Earlier(m, r)
    BY <1>1 DEF Remembers, Earlier
  <1> QED
    BY <1>1, <1>2, <1>3, ClientStep

\* A commit error starts the block again, after every attempt so far.
LEMMA RetryIInv ==
    ASSUME IInv, NEW t \in TxIds, tx[t].phase \in {"running", "committing"},
           tx' = [tx EXCEPT ![t] = Retry(tx[t])],
           UNCHANGED <<backendVars, commits, applied>>
    PROVE  IInv'
  <1> DEFINE r == tx[t]  q == Retry(tx[t])
  <1>1. IsTransaction(r)
    BY DEF IInv, TypeOK
  <1>2. /\ IsTransaction(q) /\ DOMAIN q.reads = {}
        /\ \/ q.phase = "failed"
           \/ q.phase = "running" /\ q.retries < r.retries
    BY <1>1, RetryType
  <1>3. \A m \in commits : /\ m.retries \in Nat
                           /\ m.tx = t => m.retries >= r.retries
    BY <1>1 DEF IInv, TypeOK, IsCommitRequest, IsTransaction, AttemptsAreOrdered, Earlier
  <1> HIDE DEF r, q
  <1>4. \A m \in commits : m.tx = t => Earlier(m, q)
    BY <1>1, <1>2, <1>3, RetriesAssumption DEF Earlier, IsTransaction
  <1>5. Remembers(q)
    BY <1>2 DEF Remembers
  <1>6. tx' = [tx EXCEPT ![t] = q]
    BY DEF q
  <1> QED
    BY <1>2, <1>4, <1>5, <1>6, ClientStep

\* A success that is reported was answered; anything else is a commit error.
LEMMA ReplyReceivedIInv ==
    ASSUME IInv, NEW t \in TxIds, ReplyReceived(t)
    PROVE  IInv'
  <1>1. CASE tx[t].reply = "ok"
    <2> DEFINE r == Transaction("committed", tx[t].retries)
    <2>1. IsTransaction(r) /\ r.phase = "committed" /\ DOMAIN r.reads = {}
      BY TransactionType DEF IInv, TypeOK, IsTransaction, Phases
    <2>2. tx' = [tx EXCEPT ![t] = r] /\ UNCHANGED <<backendVars, commits, applied>>
      BY <1>1 DEF ReplyReceived
    <2>3. t \in applied
      BY <1>1 DEF ReplyReceived, IInv, AnswersAreTrue
    <2> HIDE DEF r
    <2>4. Remembers(r) /\ \A m \in commits : Earlier(m, r)
      BY <2>1 DEF Remembers, Earlier
    <2> QED
      BY <2>1, <2>2, <2>3, <2>4, ClientStep
  <1>2. CASE tx[t].reply # "ok"
    BY <1>2, RetryIInv DEF ReplyReceived
  <1> QED
    BY <1>1, <1>2

\* An RPC error is a commit error.
LEMMA RpcFailsIInv ==
    ASSUME IInv, NEW t \in TxIds, RpcFails(t)
    PROVE  IInv'
  BY RetryIInv DEF RpcFails

\* The block returned: its writes leave in a request that remembers every read.
LEMMA BlockReturnsIInv ==
    ASSUME IInv, NEW t \in TxIds, BlockReturns(t)
    PROVE  IInv'
  <1>1. CASE CommitRejected(tx[t])
    BY <1>1, RetryIInv DEF BlockReturns, Commit
  <1>2. CASE ~CommitRejected(tx[t])
    <2> DEFINE r == tx[t]
               q == Transaction("committing", r.retries)
               m == [tx |-> t, retries |-> r.retries, reads |-> r.reads,
                     mutations |-> r.mutations]
    <2>1. /\ tx' = [tx EXCEPT ![t] = q] /\ commits' = commits \cup {m}
          /\ UNCHANGED <<store, version, clock, applied>>
      BY <1>2 DEF BlockReturns, Commit, backendVars
    <2>2. IsTransaction(r) /\ Remembers(r) /\ r.phase = "running"
      BY DEF BlockReturns, IInv, TypeOK, TransactionsRemember
    <2>3. DOMAIN r.readVersions \subseteq DOMAIN r.mutations
      BY <1>2 DEF CommitRejected
    <2>4. /\ IsTransaction(q) /\ q.phase = "committing" /\ q.retries = r.retries
          /\ DOMAIN q.reads = {} /\ q.reply = "none"
      BY <2>2, TransactionType DEF IsTransaction, Phases
    <2>5. /\ m.tx = t /\ m.retries = r.retries /\ m.reads = r.reads
          /\ m.mutations = r.mutations /\ IsCommitRequest(m)
      BY <2>2 DEF IsTransaction, IsCommitRequest
    <2>6. \A n \in commits : /\ n.tx \in TxIds /\ n.retries \in Nat
                             /\ n.tx = t => n.retries > r.retries
      BY <2>2 DEF IInv, TypeOK, IsCommitRequest, AttemptsAreOrdered, Earlier
    <2>7. tx'[t] = q /\ \A u \in TxIds : u # t => tx'[u] = tx[u]
      BY <2>1 DEF IInv, TypeOK
    <2>8. r.retries \in Nat
      BY <2>2 DEF IsTransaction
    <2> HIDE DEF r, q, m
    <2>9. TypeOK'
      <3>1. DOMAIN tx' = TxIds
        BY <2>1 DEF IInv, TypeOK
      <3>2. \A u \in TxIds : IsTransaction(tx'[u])
        BY <2>4, <2>7 DEF IInv, TypeOK
      <3>3. \A n \in commits' : IsCommitRequest(n)
        BY <2>1, <2>5 DEF IInv, TypeOK
      <3> QED
        BY <2>1, <3>1, <3>2, <3>3 DEF IInv, TypeOK, IsTransaction, IsCommitRequest
    <2>10. VersionsMatchStore'
      BY <2>1 DEF IInv, VersionsMatchStore
    <2>11. TransactionsRemember'
      BY <2>1, <2>4, <2>7 DEF IInv, TransactionsRemember, Remembers, ReadTogether
    <2>12. RequestsRemember'
      <3>1. \A k \in DOMAIN m.reads :
              /\ k \in DOMAIN m.mutations
              /\ m.mutations[k].pre.type = "updateTime"
              /\ ReadTogether(m.mutations[k].pre.version, m.reads[k], k)
        BY <2>2, <2>3, <2>5 DEF Remembers
      <3> QED
        BY <2>1, <3>1 DEF IInv, RequestsRemember, ReadTogether
    <2>13. AnswersAreTrue'
      BY <2>1, <2>4, <2>7 DEF IInv, AnswersAreTrue
    <2>14. AttemptsAreOrdered'
      BY <2>1, <2>4, <2>5, <2>6, <2>7, <2>8 DEF IInv, AttemptsAreOrdered, Earlier
    <2>15. OneRequestPerAttempt'
      BY <2>1, <2>5, <2>6, <2>8 DEF IInv, OneRequestPerAttempt
    <2> QED
      BY <2>9, <2>10, <2>11, <2>12, <2>13, <2>14, <2>15 DEF IInv
  <1> QED
    BY <1>1, <1>2

\* A write hands out a later update time, or leaves no document: what was read
\* together before it stays so.
LEMMA ReadTogetherKept ==
    ASSUME IInv, NEW k \in Keys, NEW v, NEW d, ReadTogether(v, d, k),
           clock' \in {clock, clock + 1},
           \/ version'[k] = version[k] /\ store'[k] = store[k]
           \/ version'[k] = clock + 1 /\ clock' = clock + 1
           \/ version'[k] = 0 /\ store'[k] = NoDoc
    PROVE  ReadTogether(v, d, k)'
  <1>1. clock \in Nat /\ v \in 0 .. clock /\ (v = 0 <=> d = NoDoc)
        /\ (v = version[k] => d = store[k])
    BY DEF IInv, TypeOK, ReadTogether
  <1>2. v \in 0 .. clock' /\ (v = version'[k] => d = store'[k])
    BY <1>1
  <1> QED
    BY <1>1, <1>2 DEF ReadTogether

\* A backend step that removes at most a request, gives each document such a
\* version, and answers, preserves the invariant.
LEMMA BackendStep ==
    ASSUME IInv, clock' \in {clock, clock + 1},
           store' \in [Keys -> MaybeDocs], version' \in [Keys -> Nat],
           \A k \in Keys :
               \/ version'[k] = version[k] /\ store'[k] = store[k]
               \/ /\ version'[k] = clock + 1 /\ clock' = clock + 1
                  /\ store'[k] # NoDoc
               \/ version'[k] = 0 /\ store'[k] = NoDoc,
           commits' \subseteq commits,
           applied \subseteq applied', applied' \subseteq TxIds,
           DOMAIN tx' = TxIds,
           \A t \in TxIds :
               /\ IsTransaction(tx'[t])
               /\ tx'[t].phase = tx[t].phase /\ tx'[t].retries = tx[t].retries
               /\ tx'[t].reads = tx[t].reads /\ tx'[t].mutations = tx[t].mutations
               /\ tx'[t].readVersions = tx[t].readVersions
               /\ \/ tx'[t].reply = tx[t].reply
                  \/ /\ tx'[t].reply = "ok" => t \in applied'
                     /\ \A m \in commits' : m.tx = t /\ tx[t].phase = "committing" =>
                             m.retries > tx[t].retries
    PROVE  IInv'
  <1>1. clock \in Nat /\ clock' \in Nat
    BY DEF IInv, TypeOK
  <1>2. TypeOK'
    <2>1. \A m \in commits' : IsCommitRequest(m)
      BY DEF IInv, TypeOK
    <2> QED
      BY <1>1, <2>1 DEF TypeOK, IsTransaction, IsCommitRequest
  <1>3. VersionsMatchStore'
    BY <1>1 DEF IInv, TypeOK, VersionsMatchStore
  <1>4. TransactionsRemember'
    <2> SUFFICES ASSUME NEW t \in TxIds, NEW k \in DOMAIN tx'[t].reads
                 PROVE  /\ k \in DOMAIN tx'[t].readVersions
                        /\ k \notin DOMAIN tx'[t].mutations =>
                              ReadTogether(tx[t].readVersions[k], tx[t].reads[k], k)'
                        /\ k \in DOMAIN tx'[t].mutations =>
                              /\ tx'[t].mutations[k].pre.type = "updateTime"
                              /\ ReadTogether(tx[t].mutations[k].pre.version, tx[t].reads[k], k)'
      BY DEF TransactionsRemember, Remembers
    <2> DEFINE v == tx[t].readVersions[k]  w == tx[t].mutations[k].pre.version
               d == tx[t].reads[k]
    <2>1. k \in Keys
      BY DEF IInv, TypeOK, IsTransaction, IsPFun
    <2>2. /\ k \in DOMAIN tx[t].readVersions
          /\ k \notin DOMAIN tx[t].mutations => ReadTogether(v, d, k)
          /\ k \in DOMAIN tx[t].mutations =>
                tx[t].mutations[k].pre.type = "updateTime" /\ ReadTogether(w, d, k)
      BY DEF IInv, TransactionsRemember, Remembers
    <2>3. \A x, y : ReadTogether(x, y, k) =>
            /\ x \in 0 .. clock' /\ (x = 0 <=> y = NoDoc)
            /\ x = version'[k] => y = store'[k]
      BY <1>1, <2>1 DEF ReadTogether
    <2>4. /\ tx'[t].reads = tx[t].reads /\ tx'[t].mutations = tx[t].mutations
          /\ tx'[t].readVersions = tx[t].readVersions
      OBVIOUS
    <2>5. CASE k \notin DOMAIN tx[t].mutations
      <3>1. ReadTogether(v, d, k)
        BY <2>2, <2>5
      <3>2. /\ v \in 0 .. clock' /\ (v = 0 <=> d = NoDoc)
            /\ v = version'[k] => d = store'[k]
        BY <2>3, <3>1
      <3> QED
        BY <2>2, <2>4, <2>5, <3>2 DEF ReadTogether
    <2>6. CASE k \in DOMAIN tx[t].mutations
      <3>1. ReadTogether(w, d, k)
        BY <2>2, <2>6
      <3>2. /\ w \in 0 .. clock' /\ (w = 0 <=> d = NoDoc)
            /\ w = version'[k] => d = store'[k]
        BY <2>3, <3>1
      <3> QED
        BY <2>2, <2>4, <2>6, <3>2 DEF ReadTogether
    <2> QED
      BY <2>5, <2>6
  <1>5. RequestsRemember'
    <2> SUFFICES ASSUME NEW m \in commits', NEW k \in DOMAIN m.reads
                 PROVE  /\ k \in DOMAIN m.mutations
                        /\ m.mutations[k].pre.type = "updateTime"
                        /\ ReadTogether(m.mutations[k].pre.version, m.reads[k], k)'
      BY DEF RequestsRemember
    <2>1. k \in Keys
      BY DEF IInv, TypeOK, IsCommitRequest, IsPFun
    <2>2. /\ k \in DOMAIN m.mutations
          /\ m.mutations[k].pre.type = "updateTime"
          /\ ReadTogether(m.mutations[k].pre.version, m.reads[k], k)
      BY DEF IInv, RequestsRemember
    <2> QED
      BY <2>1, <2>2, ReadTogetherKept
  <1>6. AnswersAreTrue'
    BY DEF IInv, AnswersAreTrue
  <1>7. AttemptsAreOrdered'
    BY DEF IInv, TypeOK, IsCommitRequest, AttemptsAreOrdered, Earlier
  <1>8. OneRequestPerAttempt'
    BY DEF IInv, OneRequestPerAttempt
  <1> QED
    BY <1>2, <1>3, <1>4, <1>5, <1>6, <1>7, <1>8 DEF IInv

\* An answer goes to the attempt that sent the request, or to nobody.
LEMMA AnsweredType ==
    ASSUME IInv, NEW m \in commits, NEW x \in {"ok", "refused"},
           tx' = Answered(m, x), commits' = commits \ {m}
    PROVE  /\ DOMAIN tx' = TxIds
           /\ \A t \in TxIds :
               /\ IsTransaction(tx'[t])
               /\ tx'[t].phase = tx[t].phase /\ tx'[t].retries = tx[t].retries
               /\ tx'[t].reads = tx[t].reads /\ tx'[t].mutations = tx[t].mutations
               /\ tx'[t].readVersions = tx[t].readVersions
               /\ \/ tx'[t].reply = tx[t].reply
                  \/ /\ t = m.tx /\ tx'[t].reply = x
                     /\ \A n \in commits' : n.tx = t /\ tx[t].phase = "committing" =>
                             n.retries > tx[t].retries
  <1>1. CASE tx[m.tx].phase = "committing" /\ tx[m.tx].retries = m.retries
    <2> DEFINE u == m.tx  q == [tx[u] EXCEPT !.reply = x]
    <2>1. u \in TxIds /\ IsTransaction(tx[u])
      BY DEF IInv, TypeOK, IsCommitRequest
    <2>2. /\ IsTransaction(q) /\ q.phase = tx[u].phase /\ q.retries = tx[u].retries
          /\ q.reply = x /\ q.reads = tx[u].reads
          /\ q.readVersions = tx[u].readVersions /\ q.mutations = tx[u].mutations
      BY <2>1, SetReply
    <2>3. tx' = [tx EXCEPT ![u] = q]
      BY <1>1 DEF Answered
    <2>4. \A n \in commits' : n.tx = u => n.retries > tx[u].retries
      BY <1>1, <2>1 DEF IInv, TypeOK, IsCommitRequest, AttemptsAreOrdered, Earlier,
                        OneRequestPerAttempt
    <2> HIDE DEF q
    <2>5. /\ DOMAIN tx' = TxIds /\ tx'[u] = q
          /\ \A t \in TxIds : t # u => tx'[t] = tx[t]
      BY <2>1, <2>3 DEF IInv, TypeOK
    <2> QED
      BY <2>1, <2>2, <2>4, <2>5 DEF IInv, TypeOK
  <1>2. CASE ~(tx[m.tx].phase = "committing" /\ tx[m.tx].retries = m.retries)
    BY <1>2 DEF Answered, IInv, TypeOK
  <1> QED
    BY <1>1, <1>2

\* The backend applies a valid commit.
LEMMA BackendCommitIInv ==
    ASSUME IInv, NEW m \in commits, BackendCommit(m)
    PROVE  IInv'
  <1>1. IsCommitRequest(m) /\ clock \in Nat
    BY DEF IInv, TypeOK
  <1>2. \A k \in DOMAIN m.mutations :
          /\ m.mutations[k] \in Mutations /\ k \in Keys
          /\ ApplyTo(m.mutations[k], store[k]) \in MaybeDocs
          /\ ApplyTo(m.mutations[k], store[k]) = NoDoc <=> m.mutations[k].op = "delete"
    <2>1. ASSUME NEW k \in DOMAIN m.mutations
          PROVE  m.mutations[k] \in Mutations /\ k \in Keys /\ store[k] \in MaybeDocs
      BY <1>1 DEF IInv, TypeOK, IsCommitRequest, IsPFun
    <2> QED
      BY <2>1, ApplyToType
  <1>3. /\ store' \in [Keys -> MaybeDocs] /\ version' \in [Keys -> Nat]
        /\ clock' = clock + 1
    BY <1>1, <1>2 DEF BackendCommit, IInv, TypeOK
  <1>4. ASSUME NEW k \in Keys
        PROVE  \/ version'[k] = version[k] /\ store'[k] = store[k]
               \/ /\ version'[k] = clock + 1 /\ clock' = clock + 1
                  /\ store'[k] # NoDoc
               \/ version'[k] = 0 /\ store'[k] = NoDoc
    <2>1. /\ store'[k] = IF k \in DOMAIN m.mutations
                         THEN ApplyTo(m.mutations[k], store[k]) ELSE store[k]
          /\ version'[k] = IF k \notin DOMAIN m.mutations THEN version[k]
                           ELSE IF m.mutations[k].op = "delete" THEN 0 ELSE clock + 1
      BY DEF BackendCommit
    <2> QED
      BY <1>2, <1>3, <2>1
  <1>5. /\ commits' = commits \ {m} /\ tx' = Answered(m, "ok")
        /\ applied' = applied \cup {m.tx} /\ m.tx \in TxIds
    BY <1>1 DEF BackendCommit, IsCommitRequest
  <1>6. applied \subseteq applied' /\ applied' \subseteq TxIds
    BY <1>5 DEF IInv, TypeOK
  <1> QED
    BY <1>3, <1>4, <1>5, <1>6, AnsweredType, BackendStep

\* The backend refuses any other.
LEMMA BackendRefuseIInv ==
    ASSUME IInv, NEW m \in commits, BackendRefuse(m)
    PROVE  IInv'
  <1>1. /\ commits' = commits \ {m} /\ tx' = Answered(m, "refused")
        /\ applied' = applied /\ store' = store /\ version' = version /\ clock' = clock
    BY DEF BackendRefuse, backendVars
  <1>2. applied' \subseteq TxIds /\ store' \in [Keys -> MaybeDocs] /\ version' \in [Keys -> Nat]
    BY <1>1 DEF IInv, TypeOK
  <1> QED
    BY <1>1, <1>2, AnsweredType, BackendStep

\* Another device writes a document.
LEMMA OtherWriteIInv ==
    ASSUME IInv, OtherWrite
    PROVE  IInv'
  <1>1. PICK k \in Keys, d \in MaybeDocs : WriteDocument(k, d)
    BY DEF OtherWrite
  <1>2. /\ tx' = tx /\ commits' = commits /\ applied' = applied
        /\ store' = [store EXCEPT ![k] = d] /\ clock' = clock + 1
        /\ version' = [version EXCEPT ![k] = IF d = NoDoc THEN 0 ELSE clock + 1]
    BY <1>1 DEF OtherWrite, WriteDocument
  <1>3. /\ store' \in [Keys -> MaybeDocs] /\ version' \in [Keys -> Nat]
        /\ applied' \subseteq TxIds /\ DOMAIN tx' = TxIds
        /\ \A t \in TxIds : IsTransaction(tx'[t])
    BY <1>2 DEF IInv, TypeOK
  <1>4. \A x \in Keys :
          \/ version'[x] = version[x] /\ store'[x] = store[x]
          \/ /\ version'[x] = clock + 1 /\ clock' = clock + 1
             /\ store'[x] # NoDoc
          \/ version'[x] = 0 /\ store'[x] = NoDoc
    BY <1>2 DEF IInv, TypeOK
  <1> QED
    BY <1>2, <1>3, <1>4, BackendStep

\* The process dies: its objects are gone, what they sent is not.
LEMMA RestartIInv ==
    ASSUME IInv, Restart
    PROVE  IInv'
  <1>1. /\ tx' = Restarted /\ commits' = commits /\ applied' = applied
        /\ store' = store /\ version' = version /\ clock' = clock
    BY DEF Restart, backendVars
  <1>2. \A t \in TxIds :
          \/ tx'[t] = tx[t]
          \/ /\ IsTransaction(tx'[t]) /\ tx'[t].phase = "lost"
             /\ DOMAIN tx'[t].reads = {}
    BY <1>1, TransactionType DEF Restarted, IInv, TypeOK, IsTransaction, Phases
  <1>3. DOMAIN tx' = TxIds /\ \A t \in TxIds : IsTransaction(tx'[t])
    BY <1>1, <1>2 DEF Restarted, IInv, TypeOK
  <1>4. TypeOK'
    BY <1>1, <1>3 DEF IInv, TypeOK, IsTransaction, IsCommitRequest
  <1>5. TransactionsRemember'
    BY <1>1, <1>2 DEF IInv, TransactionsRemember, Remembers, ReadTogether
  <1>6. VersionsMatchStore' /\ RequestsRemember' /\ OneRequestPerAttempt'
    BY <1>1 DEF IInv, VersionsMatchStore, RequestsRemember, ReadTogether, OneRequestPerAttempt
  <1>7. AnswersAreTrue'
    BY <1>1, <1>2 DEF IInv, AnswersAreTrue
  <1>8. AttemptsAreOrdered'
    BY <1>1, <1>2 DEF IInv, TypeOK, IsCommitRequest, AttemptsAreOrdered, Earlier
  <1> QED
    BY <1>4, <1>5, <1>6, <1>7, <1>8 DEF IInv

\* Every step preserves the invariant.
LEMMA NextIInv == IInv /\ [Next]_vars => IInv'
  <1> SUFFICES ASSUME IInv, [Next]_vars PROVE IInv'
    OBVIOUS
  <1>1. ASSUME NEW t \in TxIds, RunTransaction(t) PROVE IInv'
    BY <1>1, RunTransactionIInv
  <1>2. ASSUME NEW t \in TxIds, NEW k \in Keys, Get(t, k) PROVE IInv'
    BY <1>2, GetIInv
  <1>3. ASSUME NEW t \in TxIds, SetDataStep(t) PROVE IInv'
    BY <1>3, SetDataBuffers, BufferIInv DEF SetDataStep, IInv, TypeOK
  <1>4. ASSUME NEW t \in TxIds, UpdateDataStep(t) PROVE IInv'
    BY <1>4, UpdateDataBuffers, BufferIInv DEF UpdateDataStep, IInv, TypeOK
  <1>5. ASSUME NEW t \in TxIds, DeleteDocumentStep(t) PROVE IInv'
    BY <1>5, DeleteDocumentBuffers, BufferIInv DEF DeleteDocumentStep, IInv, TypeOK
  <1>6. ASSUME NEW t \in TxIds, BlockFails(t) PROVE IInv'
    BY <1>6, BlockFailsIInv
  <1>7. ASSUME NEW t \in TxIds, BlockReturns(t) PROVE IInv'
    BY <1>7, BlockReturnsIInv
  <1>8. ASSUME NEW t \in TxIds, ReplyReceived(t) PROVE IInv'
    BY <1>8, ReplyReceivedIInv
  <1>9. ASSUME NEW t \in TxIds, RpcFails(t) PROVE IInv'
    BY <1>9, RpcFailsIInv
  <1>10. ASSUME NEW m \in commits, BackendCommit(m) PROVE IInv'
    BY <1>10, BackendCommitIInv
  <1>11. ASSUME NEW m \in commits, BackendRefuse(m) PROVE IInv'
    BY <1>11, BackendRefuseIInv
  <1>12. CASE OtherWrite
    BY <1>12, OtherWriteIInv
  <1>13. CASE Restart
    BY <1>13, RestartIInv
  <1>14. CASE UNCHANGED vars
    BY <1>14 DEF vars, fsVars, IInv, TypeOK, VersionsMatchStore, TransactionsRemember,
       Remembers, RequestsRemember, ReadTogether, AnswersAreTrue, AttemptsAreOrdered,
       Earlier, OneRequestPerAttempt, IsTransaction, IsCommitRequest
  <1> QED
    BY <1>1, <1>2, <1>3, <1>4, <1>5, <1>6, <1>7, <1>8, <1>9, <1>10, <1>11, <1>12,
       <1>13, <1>14 DEF Next

\* The inductive invariant holds throughout.
THEOREM IInvHolds == Spec => []IInv
  BY InitIInv, NextIInv, PTL DEF Spec

-----------------------------------------------------------------------------
(***************************************************************************)
(* The safety properties.                                                  *)
(***************************************************************************)

\* FSTTransaction, the Commit RPCs and the backend keep their types.
THEOREM TypeCorrect == Spec => []TypeOK
  <1>1. IInv => TypeOK
    BY DEF IInv
  <1> QED
    BY <1>1, IInvHolds, PTL

\* The versions a request remembers tie what it read to the store.
LEMMA IInvReadsAreCurrent == IInv => ReadsAreCurrent
  <1> SUFFICES ASSUME IInv, NEW m \in commits, Valid(m), NEW k \in DOMAIN m.reads
               PROVE  m.reads[k] = store[k]
    BY DEF ReadsAreCurrent
  <1>1. /\ k \in DOMAIN m.mutations /\ m.mutations[k].pre.type = "updateTime"
        /\ m.mutations[k].pre.version = version[k] => m.reads[k] = store[k]
    BY DEF IInv, RequestsRemember, ReadTogether
  <1>2. m.mutations[k].pre.version = version[k]
    BY <1>1 DEF Valid, IsValidFor
  <1> QED
    BY <1>1, <1>2

\* The preconditions of commitWithCompletion miss no conflicting write: a commit
\* the backend accepts rests on reads that are still true.
THEOREM CommitsReadCurrentDocuments == Spec => []ReadsAreCurrent
  BY IInvReadsAreCurrent, IInvHolds, PTL

\* transactionWithRetries reports success only for applied writes.
THEOREM SuccessIsReal == Spec => []SuccessTookEffect
  <1>1. IInv => SuccessTookEffect
    BY DEF IInv, AnswersAreTrue, SuccessTookEffect
  <1> QED
    BY <1>1, IInvHolds, PTL

\* A late request of an earlier attempt never answers a later one.
THEOREM AnswersBelongToAttempt == Spec => []AnswersMatchAttempt
  <1>1. IInv => AnswersMatchAttempt
    BY DEF IInv, AttemptsAreOrdered, Earlier, AnswersMatchAttempt
  <1> QED
    BY <1>1, IInvHolds, PTL

\* The update time of a document only moves to None or past the clock.
LEMMA VersionsMoveOn ==
    ASSUME IInv, [Next]_vars, NEW k \in Keys
    PROVE  version'[k] \in {version[k], 0, clock + 1}
  <1>1. CASE version' = version
    BY <1>1
  <1>2. ASSUME NEW m \in commits, BackendCommit(m)
        PROVE  version'[k] \in {version[k], 0, clock + 1}
    BY <1>2 DEF BackendCommit
  <1>3. CASE OtherWrite
    BY <1>3 DEF OtherWrite, WriteDocument, IInv, TypeOK
  <1> QED
    BY <1>1, <1>2, <1>3 DEF Next, RunTransaction, Get, SetDataStep, UpdateDataStep,
       DeleteDocumentStep, Buffer, BlockFails, BlockReturns, ReplyReceived, RpcFails,
       BackendRefuse, Restart, backendVars, vars, fsVars

\* Once a read of an existing document is out of date, the commit that rests on
\* it can never become valid again.
THEOREM OvertakenCommitsStayDead == Spec => OvertakenForGood
  <1>1. ASSUME IInv, [Next]_vars, NEW m \in commits \cap commits',
               NEW k \in DOMAIN m.reads, m.reads[k] \notin {NoDoc, store[k]}
        PROVE  ~Valid(m)'
    <2> DEFINE v == m.mutations[k].pre.version
    <2>1. /\ k \in Keys /\ k \in DOMAIN m.mutations
          /\ m.mutations[k].pre.type = "updateTime"
          /\ v \in 0 .. clock /\ v # 0 /\ v # version[k]
      BY <1>1 DEF IInv, TypeOK, IsCommitRequest, IsPFun, RequestsRemember, ReadTogether
    <2>2. version'[k] \in {version[k], 0, clock + 1} /\ clock \in Nat
      BY <1>1, <2>1, VersionsMoveOn DEF IInv, TypeOK
    <2>3. version'[k] # v
      BY <2>1, <2>2
    <2> QED
      BY <2>1, <2>3 DEF Valid, IsValidFor
  <1>2. IInv /\ [Next]_vars =>
          [\A m \in commits \cap commits' : \A k \in DOMAIN m.reads :
             m.reads[k] \notin {NoDoc, store[k]} => ~Valid(m)']_vars
    BY <1>1
  <1> QED
    BY <1>2, IInvHolds, PTL DEF Spec, OvertakenForGood

-----------------------------------------------------------------------------
(***************************************************************************)
(* The SDK implements AtomicStore.                                         *)
(***************************************************************************)

\* Initial states are initial states of the abstract store.
LEMMA InitRefines == Init => Abstract!Init
  BY TransactionType, RetriesAssumption
     DEF Init, FirestoreInit, Abstract!Init, status, MaybeDocs, Transaction

\* The abstract status of the transaction whose object a step replaces.
LEMMA StatusStep ==
    ASSUME IInv, NEW t \in TxIds, NEW r, tx' = [tx EXCEPT ![t] = r]
    PROVE  status' = [status EXCEPT ![t] = IF r.phase = "committing" THEN "running"
                                           ELSE r.phase]
  BY DEF IInv, TypeOK, status

\* And when that object is a new one.
LEMMA StatusOfTransaction ==
    ASSUME IInv, NEW t \in TxIds, NEW n, NEW p \in Phases \ {"committing"},
           tx' = [tx EXCEPT ![t] = Transaction(p, n)]
    PROVE  status' = [status EXCEPT ![t] = p]
  <1> DEFINE r == Transaction(p, n)
  <1>1. r.phase = p
    BY DEF Transaction
  <1> HIDE DEF r
  <1>2. tx' = [tx EXCEPT ![t] = r]
    BY DEF r
  <1> QED
    BY <1>1, <1>2, StatusStep

\* A commit error is a failure or goes unnoticed.
LEMMA RetryRefines ==
    ASSUME IInv, NEW t \in TxIds, tx[t].phase \in {"running", "committing"},
           tx' = [tx EXCEPT ![t] = Retry(tx[t])],
           UNCHANGED <<store, commits, applied>>
    PROVE  [Abstract!Next]_(Abstract!vars)
  <1> DEFINE q == Retry(tx[t])
  <1>1. q.phase \in {"failed", "running"} /\ IsTransaction(tx[t])
    BY RetryType DEF IInv, TypeOK
  <1>2. status[t] = "running" /\ status = [status EXCEPT ![t] = status[t]]
    BY DEF status
  <1>3. status' = [status EXCEPT ![t] = IF q.phase = "committing" THEN "running"
                                        ELSE q.phase]
    BY StatusStep
  <1> HIDE DEF q
  <1>4. CASE q.phase = "failed"
    <2>1. Abstract!Fail(t)
      BY <1>2, <1>3, <1>4 DEF Abstract!Fail
    <2> QED
      BY <2>1 DEF Abstract!Next
  <1>5. CASE q.phase = "running"
    <2>1. status' = status
      BY <1>2, <1>3, <1>5
    <2> QED
      BY <2>1 DEF Abstract!vars
  <1> QED
    BY <1>1, <1>4, <1>5

\* A step on one transaction's object that keeps it running goes unnoticed.
LEMMA RunningRefines ==
    ASSUME IInv, NEW t \in TxIds, NEW r, tx[t].phase = "running", r.phase = "running",
           tx' = [tx EXCEPT ![t] = r], UNCHANGED <<store, commits, applied>>
    PROVE  UNCHANGED Abstract!vars
  <1>1. status' = status
    BY DEF status, IInv, TypeOK
  <1> QED
    BY <1>1 DEF Abstract!vars

\* An accepted commit takes effect on what it read.
LEMMA BackendCommitRefines ==
    ASSUME IInv, NEW m \in commits, BackendCommit(m)
    PROVE  Abstract!TakeEffect(m)
  <1>1. \A k \in DOMAIN m.reads : m.reads[k] = store[k]
    BY IInvReadsAreCurrent DEF BackendCommit, ReadsAreCurrent
  <1>2. status' = status
    BY AnsweredType DEF BackendCommit, status
  <1> QED
    BY <1>1, <1>2 DEF Abstract!TakeEffect, BackendCommit

\* Every step of the SDK and the backend is a step of the abstract store, or
\* leaves it unchanged.
LEMMA NextRefines == IInv /\ [Next]_vars => [Abstract!Next]_(Abstract!vars)
  <1> SUFFICES ASSUME IInv, [Next]_vars PROVE [Abstract!Next]_(Abstract!vars)
    OBVIOUS
  <1> USE DEF backendVars
  <1>1. ASSUME NEW t \in TxIds, RunTransaction(t) PROVE Abstract!Begin(t)
    <2>1. status[t] = "idle"
      BY <1>1 DEF RunTransaction, status
    <2>2. status' = [status EXCEPT ![t] = "running"]
      BY <1>1, StatusOfTransaction DEF RunTransaction, Phases
    <2> QED
      BY <1>1, <2>1, <2>2 DEF RunTransaction, Abstract!Begin
  <1>2. ASSUME NEW t \in TxIds, NEW k \in Keys, Get(t, k) PROVE UNCHANGED Abstract!vars
    <2>1. RecordVersion(tx[t], k).phase = "running"
      BY <1>2, RecordVersionType DEF Get, IInv, TypeOK
    <2> QED
      BY <1>2, <2>1, RunningRefines DEF Get
  <1>3. ASSUME NEW t \in TxIds, NEW k \in Keys, NEW q, Buffer(t, k, q), Buffers(tx[t], q, k)
        PROVE  UNCHANGED Abstract!vars
    BY <1>3, RunningRefines DEF Buffer, Buffers
  <1>4. ASSUME NEW t \in TxIds, SetDataStep(t) PROVE UNCHANGED Abstract!vars
    BY <1>3, <1>4, SetDataBuffers DEF SetDataStep, IInv, TypeOK
  <1>5. ASSUME NEW t \in TxIds, UpdateDataStep(t) PROVE UNCHANGED Abstract!vars
    BY <1>3, <1>5, UpdateDataBuffers DEF UpdateDataStep, IInv, TypeOK
  <1>6. ASSUME NEW t \in TxIds, DeleteDocumentStep(t) PROVE UNCHANGED Abstract!vars
    BY <1>3, <1>6, DeleteDocumentBuffers DEF DeleteDocumentStep, IInv, TypeOK
  <1>7. ASSUME NEW t \in TxIds, BlockFails(t) PROVE Abstract!Fail(t)
    <2>1. status[t] = "running"
      BY <1>7 DEF BlockFails, status
    <2>2. status' = [status EXCEPT ![t] = "failed"]
      BY <1>7, StatusOfTransaction DEF BlockFails, Phases
    <2> QED
      BY <1>7, <2>1, <2>2 DEF BlockFails, Abstract!Fail
  <1>8. ASSUME NEW t \in TxIds, BlockReturns(t) PROVE [Abstract!Next]_(Abstract!vars)
    <2>1. CASE CommitRejected(tx[t])
      BY <1>8, <2>1, RetryRefines DEF BlockReturns, Commit
    <2>2. CASE ~CommitRejected(tx[t])
      <3> DEFINE m == [tx |-> t, retries |-> tx[t].retries, reads |-> tx[t].reads,
                       mutations |-> tx[t].mutations]
      <3>1. /\ commits' = commits \cup {m} /\ m.tx = t
            /\ UNCHANGED <<store, applied>>
            /\ tx' = [tx EXCEPT ![t] = Transaction("committing", tx[t].retries)]
        BY <1>8, <2>2 DEF BlockReturns, Commit
      <3>2. status[t] = "running" /\ status' = status
        BY <1>8, <3>1 DEF BlockReturns, status, Transaction, IInv, TypeOK
      <3> HIDE DEF m
      <3>3. Abstract!Offer(m) /\ m \in commits'
        BY <3>1, <3>2 DEF Abstract!Offer
      <3> QED
        BY <3>3 DEF Abstract!Next
    <2> QED
      BY <2>1, <2>2
  <1>9. ASSUME NEW t \in TxIds, ReplyReceived(t) PROVE [Abstract!Next]_(Abstract!vars)
    <2>1. CASE tx[t].reply = "ok"
      <3>1. status[t] = "running" /\ t \in applied
        BY <1>9, <2>1 DEF ReplyReceived, status, IInv, AnswersAreTrue
      <3>2. status' = [status EXCEPT ![t] = "committed"]
        BY <1>9, <2>1, StatusOfTransaction DEF ReplyReceived, Phases
      <3>3. Abstract!Succeed(t)
        BY <1>9, <3>1, <3>2 DEF ReplyReceived, Abstract!Succeed
      <3> QED
        BY <3>3 DEF Abstract!Next
    <2>2. CASE tx[t].reply # "ok"
      BY <1>9, <2>2, RetryRefines DEF ReplyReceived
    <2> QED
      BY <2>1, <2>2
  <1>10. ASSUME NEW t \in TxIds, RpcFails(t) PROVE [Abstract!Next]_(Abstract!vars)
    BY <1>10, RetryRefines DEF RpcFails
  <1>11. ASSUME NEW m \in commits, BackendCommit(m) PROVE Abstract!TakeEffect(m)
    BY <1>11, BackendCommitRefines
  <1>12. ASSUME NEW m \in commits, BackendRefuse(m) PROVE Abstract!Forget(m)
    <2>1. status' = status
      BY <1>12, AnsweredType DEF BackendRefuse, status
    <2> QED
      BY <1>12, <2>1 DEF BackendRefuse, Abstract!Forget
  <1>13. ASSUME OtherWrite
         PROVE  \E k \in Keys, d \in Docs \cup {NoDoc} : Abstract!OtherWrite(k, d)
    BY <1>13 DEF OtherWrite, WriteDocument, MaybeDocs, status, Abstract!OtherWrite
  <1>14. ASSUME Restart PROVE Abstract!Die
    BY <1>14 DEF Restart, Restarted, status, Transaction, Abstract!Die
  <1>15. CASE UNCHANGED vars
    BY <1>15 DEF vars, fsVars, status, Abstract!vars
  <1> QED
    BY <1>1, <1>2, <1>4, <1>5, <1>6, <1>7, <1>8, <1>9, <1>10, <1>11, <1>12,
       <1>13, <1>14, <1>15 DEF Next, Abstract!Next

\* The optimistic transactions of the SDK, with their versions, retries and
\* messages, implement the atomic store: every accepted commit is one step on
\* unchanged reads and success is reported only after such a step.
THEOREM Refinement == Spec => ImplementsAtomicStore
  BY InitRefines, NextRefines, IInvHolds, PTL DEF Spec, ImplementsAtomicStore, Abstract!Spec
=============================================================================
