--------------------------- MODULE WritePipeline ---------------------------
(***************************************************************************)
(* docRef.update outside a transaction: the mutation queue and the write   *)
(* stream of the vendored SDK (FSTSyncEngine, FSTRemoteStore).             *)
(*                                                                         *)
(* Writes are queued per signed-in account, on disk, and streamed to the   *)
(* backend in order.  The n-th answer of a stream belongs to the n-th      *)
(* write of the queue.  A broken stream is reopened without its token and  *)
(* the whole queue is sent again, so a write the backend had applied may   *)
(* be applied a second time.                                               *)
(*                                                                         *)
(* The listener of InfoScreen, which is never removed, fills the cache of  *)
(* documents.  An acknowledged write that no snapshot has brought yet is   *)
(* laid over it, and dropped when the process or the session ends.         *)
(***************************************************************************)
EXTENDS Session, Sequences

CONSTANT MaxClock    \* the stream breaks only before that time (a bound)

VARIABLES
    queue,     \* the mutation queue of each account
    outcomes,  \* what the current stream made of the first writes of the queue
    cache      \* the documents in the local store (see CacheInit)

pipeVars == <<queue, outcomes, cache>>

\* `remote': as on disk; `shown': with the acknowledged writes that are held;
\* `known': answers to come to writes the last snapshot has; `listening': the
\* listener is attached.
CacheInit(listening) ==
    cache = [remote |-> [k \in Keys |-> NoDoc], shown |-> [k \in Keys |-> NoDoc],
             known |-> 0, listening |-> listening]

PipelineInit ==
    /\ queue = [u \in Users |-> <<>>]
    /\ outcomes = <<>>

ActiveQueue == IF currentUser = NoUser THEN <<>> ELSE queue[currentUser]

\* writeMutations: docRef.update(data) on document k by operation t.
Enqueue(t, k, data) ==
    queue' = [queue EXCEPT ![currentUser] =
                Append(@, [id |-> t, key |-> k, data |-> data])]

\* A write on a document: its precondition is that there is one.
Laid(doc, data) == IF doc = NoDoc THEN NoDoc ELSE Merge(doc, data)

\* Document k with the queued writes laid over doc.
ViewOver(doc, k) ==
    LET W == ActiveQueue
        seen[n \in 0 .. Len(W)] ==
            IF n = 0 THEN doc
            ELSE IF W[n].key = k THEN Laid(seen[n - 1], W[n].data) ELSE seen[n - 1]
    IN seen[Len(W)]

\* The document as docRef.get() sees it when the backend has sent it, and when
\* the client is offline.
LocalView(k) == ViewOver(store[k], k)
CachedView(k) == ViewOver(cache.shown[k], k)

\* A snapshot of the backend, with the writes it has applied so far.
Snapshot ==
    cache' = [remote |-> store, shown |-> store, known |-> Len(outcomes),
              listening |-> cache.listening]

\* The listener's snapshots (bounded to runs where somebody reads the cache).
WatchSnapshot ==
    /\ cache.listening
    /\ "recordLoad" \in Kinds
    /\ Snapshot
    /\ UNCHANGED <<fsVars, job, queue, outcomes>>

\* The backend takes the next write of the stream; Exists(true) is its
\* precondition, and a write that breaks it ends the stream.
DeliverWrite ==
    LET n == Len(outcomes) + 1
        w == ActiveQueue[n] IN
    /\ n <= Len(ActiveQueue)
    /\ \A i \in 1 .. Len(outcomes) : outcomes[i] = "ok"
    /\ \/ /\ store[w.key] # NoDoc
          /\ WriteDocument(w.key, Merge(store[w.key], w.data))
          /\ outcomes' = Append(outcomes, "ok")
       \/ /\ store[w.key] = NoDoc
          /\ outcomes' = Append(outcomes, "notFound")
          /\ UNCHANGED backendVars
    /\ UNCHANGED <<queue, cache, tx, commits, applied, job>>

\* An acknowledged write is held over the cached document, unless a snapshot has
\* brought it before; with no listener it goes into the cache at once.
Acknowledge(w, outcome) ==
    LET new == outcome = "ok" /\ cache.known = 0
        shown == IF new THEN [cache.shown EXCEPT ![w.key] = Laid(@, w.data)] ELSE cache.shown
    IN cache' = [remote |-> IF cache.listening THEN cache.remote ELSE shown,
                 shown |-> shown,
                 known |-> IF cache.known = 0 THEN 0 ELSE cache.known - 1,
                 listening |-> cache.listening]

\* (Mutant: the answer stays in front of the later ones.)
AnswerNotConsumed(t, outcome) ==
    /\ outcomes # <<>>
    /\ Head(outcomes) = outcome
    /\ Head(ActiveQueue).id = t
    /\ Acknowledge(Head(ActiveQueue), outcome)
    /\ queue' = [queue EXCEPT ![currentUser] = Tail(@)]
    /\ UNCHANGED outcomes

\* The answer to the first write of the queue, which leaves it. Whether the
\* write succeeded is for the screen's callback (`then' or `catch').
Answer(t, outcome) ==
    /\ outcomes # <<>>
    /\ Head(outcomes) = outcome
    /\ Head(ActiveQueue).id = t
    /\ Acknowledge(Head(ActiveQueue), outcome)
    /\ queue' = [queue EXCEPT ![currentUser] = Tail(@)]
    /\ outcomes' = Tail(outcomes)

\* The answer to a write whose process is gone.
AnswerUnheard(t) ==
    /\ job[t].stage = "done"
    /\ Answer(t, Head(outcomes))
    /\ UNCHANGED <<fsVars, job>>

\* (Mutant: the queued writes are taken for sent.)
StreamBreakDropsQueue ==
    /\ outcomes # <<>>
    /\ clock < MaxClock
    /\ outcomes' = <<>>
    /\ cache' = [cache EXCEPT !.known = 0]
    /\ queue' = [u \in Users |-> <<>>]
    /\ UNCHANGED <<fsVars, job>>

\* The stream breaks with a transient error: everything queued is sent again.
StreamBreaks ==
    /\ outcomes # <<>>
    /\ clock < MaxClock
    /\ outcomes' = <<>>
    /\ cache' = [remote |-> cache.remote, shown |-> cache.shown, known |-> 0,
                 listening |-> cache.listening]
    /\ UNCHANGED <<fsVars, job, queue>>

\* Another account signs in, or the process restarts: the stream is closed, and
\* acknowledged writes that were held are dropped.
StreamCloses(listening) ==
    /\ outcomes' = <<>>
    /\ cache' = [remote |-> cache.remote, shown |-> cache.remote, known |-> 0,
                 listening |-> listening]
    /\ UNCHANGED queue

PipelineNext ==
    \/ DeliverWrite
    \/ \E t \in TxIds : AnswerUnheard(t)
    \/ StreamBreaks
    \/ WatchSnapshot
=============================================================================
