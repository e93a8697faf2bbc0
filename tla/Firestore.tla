----------------------------- MODULE Firestore -----------------------------
(***************************************************************************)
(* The transactions every screen of the app runs on its `users' document:  *)
(* the optimistic client of the vendored Firestore SDK (FSTTransaction,    *)
(* FSTSyncEngine, FIRFirestore) talking to the Firestore backend.          *)
(*                                                                         *)
(* A transaction reads documents and records their versions, buffers its   *)
(* writes, and sends them in one commit whose preconditions are the        *)
(* versions it read.  The backend (external) applies a commit atomically   *)
(* when every precondition holds and refuses it otherwise.  A commit       *)
(* request may be delayed past the RPC error the client sees, or lost; so  *)
(* may its answer.  Any commit error makes the client run the block again, *)
(* up to MaxRetries times.                                                 *)
(***************************************************************************)
EXTENDS Naturals

CONSTANTS
    Keys,        \* document keys: the uids under the collection `users'
    TxIds,       \* transactions the process may ever start (a bound)
    NoDoc,       \* the absence of a document (FSTDeletedDocument)
    MaxRetries   \* 5 in runTransactionWithBlock

ASSUME RetriesAssumption == MaxRetries \in Nat

VARIABLES
    store,     \* the backend's documents
    version,   \* the update time of each; 0 is SnapshotVersion::None()
    clock,     \* the commit time last handed out
    tx,        \* the FSTTransaction of each transaction, and its retries
    commits,   \* Commit requests in the network
    applied    \* transactions some attempt of which the backend applied

backendVars == <<store, version, clock>>
fsVars == <<store, version, clock, tx, commits, applied>>

(***************************************************************************)
(* Preconditions and mutations.                                            *)
(***************************************************************************)
None == [type |-> "none", version |-> 0]
Exists == [type |-> "exists", version |-> 0]
UpdateTime(v) == [type |-> "updateTime", version |-> v]

Empty == [k \in {} |-> NoDoc]

\* The fields of g replace or join those of f.
Merge(f, g) ==
    [x \in DOMAIN f \cup DOMAIN g |-> IF x \in DOMAIN g THEN g[x] ELSE f[x]]

Put(f, k, v) == [x \in DOMAIN f \cup {k} |-> IF x = k THEN v ELSE f[x]]

\* What a mutation makes of a document whose precondition held.
ApplyTo(m, doc) ==
    CASE m.op = "set" -> m.data
      [] m.op = "patch" -> Merge(IF doc = NoDoc THEN Empty ELSE doc, m.data)
      [] m.op = "delete" -> NoDoc

\* The backend's reading of a precondition: update time 0 asks for no document.
IsValidFor(pre, k) ==
    \/ pre.type = "none"
    \/ pre.type = "exists" /\ store[k] # NoDoc
    \/ pre.type = "updateTime" /\ version[k] = pre.version

(***************************************************************************)
(* The transaction object.  `reads' is what the block was given.           *)
(***************************************************************************)
Transaction(phase, retries) ==
    [phase |-> phase, retries |-> retries, readVersions |-> Empty,
     reads |-> Empty, mutations |-> Empty, lastWriteError |-> "none",
     reply |-> "none"]

\* (Mutant: a read leaves no version behind.)
RecordContentOnly(r, k) == [r EXCEPT !.reads = Put(@, k, store[k])]

\* recordVersionForDocument, and the document handed to the block.
RecordVersion(r, k) ==
    LET read == [r EXCEPT !.reads = Put(@, k, store[k])] IN
    [read EXCEPT !.readVersions = Put(@, k, version[k])]

\* (Mutant: a read version is not required again.)
NoReadPrecondition(r, k) == None

PreconditionForDocumentKey(r, k) ==
    IF k \in DOMAIN r.readVersions THEN UpdateTime(r.readVersions[k]) ELSE None

PreconditionForUpdate(r, k) ==
    IF k \in DOMAIN r.readVersions THEN UpdateTime(r.readVersions[k]) ELSE Exists

\* An update of a document that was read as absent only leaves an error.
UpdateImpossible(r, k) ==
    k \in DOMAIN r.readVersions /\ r.readVersions[k] = 0

\* (Mutant: a set without its precondition.)
SetDataUnconditionally(r, k, d) ==
    [r EXCEPT !.mutations = Put(@, k, [op |-> "set", data |-> d, pre |-> None])]

SetData(r, k, d) ==
    [r EXCEPT !.mutations =
        Put(@, k, [op |-> "set", data |-> d,
                   pre |-> PreconditionForDocumentKey(r, k)])]

UpdateData(r, k, d) ==
    IF UpdateImpossible(r, k)
    THEN [r EXCEPT !.lastWriteError = "invalid"]
    ELSE [r EXCEPT !.mutations =
             Put(@, k, [op |-> "patch", data |-> d,
                        pre |-> PreconditionForUpdate(r, k)])]

DeleteDocument(r, k) ==
    LET written == [r EXCEPT !.mutations =
                      Put(@, k, [op |-> "delete", data |-> Empty,
                                 pre |-> PreconditionForDocumentKey(r, k)])] IN
    [written EXCEPT !.readVersions = Put(@, k, 0)]

\* (Mutant: reads without a write go unchecked.)
WriteErrorsOnly(r) == r.lastWriteError # "none"

\* Every read document must also be written; a failed update is an error.
CommitRejected(r) ==
    \/ r.lastWriteError # "none"
    \/ ~(DOMAIN r.readVersions \subseteq DOMAIN r.mutations)

\* (Mutant: retries are not counted.)
RetryForever(r) == Transaction("running", r.retries)

\* transactionWithRetries, after any commit error.
Retry(r) ==
    IF r.retries = 0 THEN Transaction("failed", 0)
    ELSE Transaction("running", r.retries - 1)

\* commitWithCompletion on transaction t with object r.
Commit(t, r) ==
    IF CommitRejected(r)
    THEN /\ tx' = [tx EXCEPT ![t] = Retry(r)]
         /\ UNCHANGED commits
    ELSE /\ tx' = [tx EXCEPT ![t] = Transaction("committing", r.retries)]
         /\ commits' = commits \cup
                {[tx |-> t, retries |-> r.retries, reads |-> r.reads,
                  mutations |-> r.mutations]}

(***************************************************************************)
(* Steps of the client.  A block runs off the worker queue, so the steps   *)
(* of several transactions interleave freely.  A block writes a document   *)
(* at most once, as every block of the app does.                           *)
(***************************************************************************)
RunTransaction(t) ==
    /\ tx[t].phase = "idle"
    /\ tx' = [tx EXCEPT ![t] = Transaction("running", MaxRetries)]
    /\ UNCHANGED <<backendVars, commits, applied>>

\* lookupDocumentsForKeys, for one document and before any write.
Get(t, k) ==
    /\ tx[t].phase = "running"
    /\ tx[t].mutations = Empty
    /\ k \notin DOMAIN tx[t].readVersions
    /\ tx' = [tx EXCEPT ![t] = RecordVersion(@, k)]
    /\ UNCHANGED <<backendVars, commits, applied>>

\* One buffered write: r is SetData, UpdateData or DeleteDocument of tx[t].
Buffer(t, k, r) ==
    /\ tx[t].phase = "running"
    /\ k \notin DOMAIN tx[t].mutations
    /\ tx' = [tx EXCEPT ![t] = r]
    /\ UNCHANGED <<backendVars, commits, applied>>

\* The block reports an error (a failed lookup, a second read of a document,
\* an exception): the transaction fails without a retry.
BlockFails(t) ==
    /\ tx[t].phase = "running"
    /\ tx' = [tx EXCEPT ![t] = Transaction("failed", @.retries)]
    /\ UNCHANGED <<backendVars, commits, applied>>

BlockReturns(t) ==
    /\ tx[t].phase = "running"
    /\ Commit(t, tx[t])
    /\ UNCHANGED <<backendVars, applied>>

\* (Mutant: the error of the answer is not looked at.)
ReplyTakenForSuccess(t) ==
    /\ tx[t].phase = "committing"
    /\ tx[t].reply # "none"
    /\ tx' = [tx EXCEPT ![t] = Transaction("committed", @.retries)]
    /\ UNCHANGED <<backendVars, commits, applied>>

\* The answer of the Commit RPC reaches the worker queue.
ReplyReceived(t) ==
    /\ tx[t].phase = "committing"
    /\ tx[t].reply # "none"
    /\ tx' = [tx EXCEPT ![t] = IF @.reply = "ok"
                               THEN Transaction("committed", @.retries)
                               ELSE Retry(@)]
    /\ UNCHANGED <<backendVars, commits, applied>>

\* The RPC ends in an error; the request may still be on its way, and a lost
\* request is one that stays on its way for ever.
RpcFails(t) ==
    /\ tx[t].phase = "committing"
    /\ tx' = [tx EXCEPT ![t] = Retry(@)]
    /\ UNCHANGED <<backendVars, commits, applied>>

\* The process dies: no completion block will run, requests stay in flight.
Restarted ==
    [t \in TxIds |-> IF tx[t].phase \in {"running", "committing"}
                     THEN Transaction("lost", tx[t].retries) ELSE tx[t]]

(***************************************************************************)
(* Steps of the backend and the network (external).                        *)
(***************************************************************************)
Valid(m) == \A k \in DOMAIN m.mutations : IsValidFor(m.mutations[k].pre, k)

\* (Mutant: whichever attempt sent the request, the current one is answered.)
AnsweredAnyAttempt(m, answer) ==
    IF tx[m.tx].phase = "committing" THEN [tx EXCEPT ![m.tx].reply = answer] ELSE tx

Answered(m, answer) ==
    IF tx[m.tx].phase = "committing" /\ tx[m.tx].retries = m.retries
    THEN [tx EXCEPT ![m.tx].reply = answer]
    ELSE tx

BackendCommit(m) ==
    /\ Valid(m)
    /\ store' = [k \in Keys |-> IF k \in DOMAIN m.mutations
                                THEN ApplyTo(m.mutations[k], store[k])
                                ELSE store[k]]
    /\ clock' = clock + 1
    /\ version' = [k \in Keys |->
                     IF k \notin DOMAIN m.mutations THEN version[k]
                     ELSE IF m.mutations[k].op = "delete" THEN 0 ELSE clock + 1]
    /\ commits' = commits \ {m}
    /\ tx' = Answered(m, "ok")
    /\ applied' = applied \cup {m.tx}

BackendRefuse(m) ==
    /\ ~Valid(m)
    /\ commits' = commits \ {m}
    /\ tx' = Answered(m, "refused")
    /\ UNCHANGED <<backendVars, applied>>

\* A write of document k to d that is no transaction of this process.
WriteDocument(k, d) ==
    /\ store' = [store EXCEPT ![k] = d]
    /\ clock' = clock + 1
    /\ version' = [version EXCEPT ![k] = IF d = NoDoc THEN 0 ELSE clock + 1]

\* Any contents from S, nothing started.
FirestoreInit(S) ==
    /\ store \in S
    /\ version = [k \in Keys |-> IF store[k] = NoDoc THEN 0 ELSE 1]
    /\ clock = 1
    /\ tx = [t \in TxIds |-> Transaction("idle", 0)]
    /\ commits = {}
    /\ applied = {}

\* The steps no block decides: the RPCs of started commits.
RpcNext ==
    \/ \E t \in TxIds : ReplyReceived(t) \/ RpcFails(t)
    \/ \E m \in commits : BackendCommit(m) \/ BackendRefuse(m)
-----------------------------------------------------------------------------
\* Every transaction a live process starts ends: its completion block runs with
\* a result or an error (FIRFirestore.h: "This block will run even if the
\* client is offline, unless the process is killed").
Settles ==
    \A t \in TxIds :
        tx[t].phase = "running" ~> tx[t].phase \in {"committed", "failed", "lost"}
=============================================================================
