----------------------- MODULE FirestoreTransactions -----------------------
(***************************************************************************)
(* The SDK under arbitrary update blocks: each block reads and writes any  *)
(* documents it likes, in any order the API allows, while other devices    *)
(* write too and the process may be killed.  What holds here holds of the  *)
(* blocks of the app's screens.                                            *)
(***************************************************************************)
EXTENDS Firestore

CONSTANTS
    Fields,      \* field names of a document
    Vals,        \* field values
    MaxClock     \* writes of other devices stop there (a bound)

Docs == UNION {[D -> Vals] : D \in SUBSET Fields}
MaybeDocs == Docs \cup {NoDoc}

ASSUME NoDocAssumption == NoDoc \notin Docs

vars == fsVars

Init == FirestoreInit([Keys -> MaybeDocs])

SetDataStep(t) ==
    \E k \in Keys, d \in Docs : Buffer(t, k, SetData(tx[t], k, d))

UpdateDataStep(t) ==
    \E k \in Keys, d \in Docs : Buffer(t, k, UpdateData(tx[t], k, d))

DeleteDocumentStep(t) ==
    \E k \in Keys : Buffer(t, k, DeleteDocument(tx[t], k))

OtherWrite ==
    /\ clock < MaxClock
    /\ \E k \in Keys, d \in MaybeDocs : store[k] # d /\ WriteDocument(k, d)
    /\ UNCHANGED <<tx, commits, applied>>

\* The process is killed and started again.
Restart ==
    /\ tx' = Restarted
    /\ UNCHANGED <<backendVars, commits, applied>>

Next ==
    \/ \E t \in TxIds :
        \/ RunTransaction(t)
        \/ \E k \in Keys : Get(t, k)
        \/ SetDataStep(t)
        \/ UpdateDataStep(t)
        \/ DeleteDocumentStep(t)
        \/ BlockFails(t)
        \/ BlockReturns(t)
        \/ ReplyReceived(t)
        \/ RpcFails(t)
    \/ \E m \in commits : BackendCommit(m) \/ BackendRefuse(m)
    \/ OtherWrite
    \/ Restart

Spec == Init /\ [][Next]_vars

-----------------------------------------------------------------------------
(***************************************************************************)
(* Properties.                                                             *)
(***************************************************************************)

\* f maps part of S to T.
IsPFun(f, S, T) == DOMAIN f \subseteq S /\ f \in [DOMAIN f -> T]

Preconditions == [type : {"none", "exists", "updateTime"}, version : Nat]

Mutations == [op : {"set", "patch", "delete"}, data : Docs, pre : Preconditions]

IsTransaction(r) ==
    /\ r = [phase |-> r.phase, retries |-> r.retries,
            readVersions |-> r.readVersions, reads |-> r.reads,
            mutations |-> r.mutations, lastWriteError |-> r.lastWriteError,
            reply |-> r.reply]
    /\ r.phase \in {"idle", "running", "committing", "committed", "failed", "lost"}
    /\ r.retries \in 0 .. MaxRetries
    /\ IsPFun(r.readVersions, Keys, Nat)
    /\ IsPFun(r.reads, Keys, MaybeDocs)
    /\ IsPFun(r.mutations, Keys, Mutations)
    /\ r.lastWriteError \in {"none", "invalid"}
    /\ r.reply \in {"none", "ok", "refused"}

IsCommitRequest(m) ==
    /\ m = [tx |-> m.tx, retries |-> m.retries, reads |-> m.reads,
            mutations |-> m.mutations]
    /\ m.tx \in TxIds
    /\ m.retries \in 0 .. MaxRetries
    /\ IsPFun(m.reads, Keys, MaybeDocs)
    /\ IsPFun(m.mutations, Keys, Mutations)

\* Every variable has its type: what FSTTransaction keeps, what travels in a
\* Commit RPC and what the backend stores.
TypeOK ==
    /\ store \in [Keys -> MaybeDocs]
    /\ version \in [Keys -> Nat]
    /\ clock \in Nat
    /\ DOMAIN tx = TxIds
    /\ \A t \in TxIds : IsTransaction(tx[t])
    /\ \A m \in commits : IsCommitRequest(m)
    /\ applied \subseteq TxIds

\* A commit the backend would accept rests on reads that are still the content
\* of the store, however long ago the block made them and whoever wrote since:
\* the preconditions of FSTTransaction miss no conflicting write.
ReadsAreCurrent ==
    \A m \in commits :
        Valid(m) => \A k \in DOMAIN m.reads : m.reads[k] = store[k]

\* The completion block reports success (transactionWithRetries) only for a
\* transaction whose writes the backend applied, over retries, lost answers and
\* late requests.
SuccessTookEffect ==
    \A t \in TxIds : tx[t].phase = "committed" => t \in applied

\* What the client waits for belongs to its last attempt: a request that an
\* earlier attempt left in the network never answers a later one.
AnswersMatchAttempt ==
    \A t \in TxIds :
        tx[t].phase = "committing" /\ tx[t].reply # "none" =>
            \A m \in commits : m.tx = t => m.retries > tx[t].retries

\* A commit whose block read an existing document is dead for good once another
\* write has changed that document, even if a later write puts the old content
\* back: update times are never handed out twice. (A document read as absent is
\* recorded as SnapshotVersion::None() and may come and go unnoticed.)
OvertakenForGood ==
    [][\A m \in commits \cap commits' : \A k \in DOMAIN m.reads :
          m.reads[k] \notin {NoDoc, store[k]} => ~Valid(m)']_vars

status ==
    [t \in TxIds |-> IF tx[t].phase = "committing" THEN "running"
                     ELSE tx[t].phase]

Abstract == INSTANCE AtomicStore WITH offers <- commits

\* The SDK implements AtomicStore: each accepted commit is one atomic step on
\* unchanged reads, and success is reported only after such a step.
ImplementsAtomicStore == Abstract!Spec

-----------------------------------------------------------------------------
(***************************************************************************)
(* The inductive invariant behind the safety properties.                   *)
(***************************************************************************)

\* Version v and content d of document k were read together: v is no later than
\* the clock, is None for an absent document only, and is the current update
\* time only if d is the current content.
ReadTogether(v, d, k) ==
    /\ v \in 0 .. clock
    /\ v = 0 <=> d = NoDoc
    /\ v = version[k] => d = store[k]

VersionsMatchStore ==
    \A k \in Keys : version[k] <= clock /\ (version[k] = 0 <=> store[k] = NoDoc)

\* Until a document is written its version is in readVersions, and from then on
\* in the precondition of the write.
Remembers(r) ==
    \A k \in DOMAIN r.reads :
        /\ k \in DOMAIN r.readVersions
        /\ k \notin DOMAIN r.mutations =>
              ReadTogether(r.readVersions[k], r.reads[k], k)
        /\ k \in DOMAIN r.mutations =>
              /\ r.mutations[k].pre.type = "updateTime"
              /\ ReadTogether(r.mutations[k].pre.version, r.reads[k], k)

TransactionsRemember == \A t \in TxIds : Remembers(tx[t])

RequestsRemember ==
    \A m \in commits : \A k \in DOMAIN m.reads :
        /\ k \in DOMAIN m.mutations
        /\ m.mutations[k].pre.type = "updateTime"
        /\ ReadTogether(m.mutations[k].pre.version, m.reads[k], k)

\* An answer and a success are not made up.
AnswersAreTrue ==
    \A t \in TxIds :
        \/ tx[t].phase = "committing" /\ tx[t].reply = "ok"
        \/ tx[t].phase = "committed"
        => t \in applied

\* A request of transaction object r: the ones of earlier attempts have more
\* retries left than the current one.
Earlier(m, r) ==
    /\ r.phase # "idle"
    /\ r.phase = "running" => m.retries > r.retries
    /\ r.phase = "committing" => m.retries >= r.retries
    /\ r.phase = "committing" /\ r.reply # "none" => m.retries > r.retries

AttemptsAreOrdered == \A m \in commits : Earlier(m, tx[m.tx])

OneRequestPerAttempt ==
    \A m, n \in commits : m.tx = n.tx /\ m.retries = n.retries => m = n

\* Every step of the SDK and the backend preserves this conjunction, which
\* implies ReadsAreCurrent, SuccessTookEffect and AnswersMatchAttempt.
IInv ==
    /\ TypeOK
    /\ VersionsMatchStore
    /\ TransactionsRemember
    /\ RequestsRemember
    /\ AnswersAreTrue
    /\ AttemptsAreOrdered
    /\ OneRequestPerAttempt
=============================================================================
