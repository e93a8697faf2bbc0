# BeYouID in TLA+

BeYouID is a React Native app: a person signs in, fills in a profile, verifies
Facebook, LinkedIn and location, and uploads profile videos. Everything a person
stores is one document, `users/<uid>`, in Cloud Firestore. All screens read and
write that document on their own, through the Firestore SDK vendored under
`src/iOS/Pods/FirebaseFirestore`. There is no store in the app that the screens
share, no lock, and no cancellation: what makes the app right or wrong is which
asynchronous callback runs when, and what the SDK guarantees while several are
open. This project models exactly that: the app's screens and navigation, the
SDK's transactions and its write pipeline, and the two composed. Below them it
models the two pieces of vendored C++ on which the SDK's promises rest and whose
own concurrency is hard: LevelDB, which keeps the mutation queue over crashes, and
the gRPC combiner, which runs the callbacks of the RPCs one at a time.

## 1. Inventory

| part | source | state | operations |
|---|---|---|---|
| Login and session | `App/Containers/LoginScreen.js` | `currentUser` (kept by Firebase Auth over restarts), open requests | LOGIN, SIGN UP, their answers; RESET PASSWORD (no state) |
| Navigation | `App/Navigation/RootNavigation.js` | the stack Login / HomeMain, the two tabs, VerifyStack | navigate, swipe back, header's back button |
| Profile tab | `App/Containers/InfoScreen.js` | component state = the whole document plus `isFetching` | load or create, edit, SAVE, photo |
| Verification tab | `App/Containers/VerifyScreen.js` | buttons, `isFetching`, location; the process-wide Facebook token | load or create, Facebook, LinkedIn, location, SMS (no state) |
| Profile videos | `App/Containers/RecordScreen.js` | list of video URLs held by the instance | load, upload, write the list |
| Transactions | `FSTTransaction.mm`, `FSTSyncEngine.mm`, `FIRFirestore.mm`, `FIRTransaction.mm`, `FSTMutation.mm`, `precondition.cc`, `FSTDatastore.mm` | read versions, buffered mutations, retries left | get, set, update, delete, commit, retry |
| Write pipeline | `FSTRemoteStore.mm`, `FSTStream.mm`, `FSTLocalStore.mm`, `FSTSyncEngine.mm` | persisted mutation queue per account, write stream, cached documents | enqueue, send, answer, break and resend; snapshots |
| Media upload | `InfoScreen.js`, `RecordScreen.js` | the global `uploadBlob`, temporary files | readFile, build, put, close, getDownloadURL |
| LevelDB | `leveldb-library/db/`: `db_impl.cc`, `version_set.cc`, `log_writer.cc`, `log_reader.cc`; `util/env_posix.cc` | logs, tables, MANIFEST; memtables, versions, the queue of writers, the background thread | Write, flush, merge, install, delete files, Get, recover, close |
| gRPC combiner | `gRPC-Core/src/core/lib/`: `iomgr/combiner.cc`, `gpr/mpscq.cc`, `iomgr/exec_ctx.cc` | a count, a lock-free queue, a final list, the combiners of each thread | exec, finally exec, run, offload, unref |
| Backend, network, Auth | external | documents and update times; requests in flight | commit, refuse, lose, delay, sign in |

How they interact: screens call `firestore().runTransaction(block)` (load, SAVE,
Facebook, LinkedIn), `docRef.update` (location, videos) and `docRef.get` (video
list). Blocks and callbacks run later, on whichever instance started them, also
if that instance is unmounted by then; `currentUser`, the Facebook token and the
document are shared by all of them. `docRef.update` puts its mutation into LevelDB
before it is sent; both streams and RPCs reach the SDK through gRPC, whose transport
runs under combiners.

What is hard, and hardly reached by a test:

- two screens that find no document and both create one, with different fields;
- transactions that are retried after errors which do not say whether the commit
  was applied, and requests that arrive late;
- a write back of what was read a moment ago (both loads), or long ago (SAVE);
- lists that are written whole by several instances of a screen, and a load that
  answers after an upload;
- sign-ins that overlap, and operations that look the account up only when they
  come to write;
- a write stream that is resumed without a token, a queue that survives the
  process and belongs to one account, a cache that may be read while it is old;
- handlers that throw before they have reset `isFetching`;
- two uploads that share one global variable;
- in LevelDB: group commit of synced and unsynced writes, a crash between log, table,
  MANIFEST and the deletion of what they replace, a failing write after which others
  are acknowledged, a flush in the middle of a merge, wake-ups nobody may miss;
- in the combiner: a push that is half done when the consumer looks, the last item
  against the next first one, the last reference against the last closure.

`PROJECT.json` lists each of these at its line, with the properties that watch it.

What makes each part correct:

- *Login and navigation*: a mounted HomeMain has a signed-in account, its own,
  and that cannot change once no request is open.
- *Transactions*: a commit takes effect atomically and only on unchanged reads;
  success is reported only if it did; every transaction ends.
- *Screens*: creating never overwrites; loading changes nothing; SAVE, videos and
  location keep what others stored; a green button means a stored token; buttons
  that were disabled come back; one account's data stays out of another's
  document.
- *Media upload*: an upload ends; overlapping uploads are the only way to lose or
  leave a temporary file.
- *LevelDB*: an acknowledged write is found after the process stops, a synced one
  after the machine stops; no sequence number is used twice; no file that counts is
  deleted; a write returns; a read returns the latest write it may see.
- *Combiner*: one thread at a time, each thread's closures in order, none left
  behind, freed once and only when nobody needs it.

## 2. Plan

1. *(done)* Transactions of the SDK under arbitrary blocks (`Firestore`,
   `FirestoreTransactions`), what they promise (`AtomicStore`), the refinement.
2. *(done)* Login and navigation (`Account`).
3. *(done)* The screens (`Session`, `InfoScreen`, `WritePipeline`,
   `VerifyScreen`, `RecordScreen`) and their composition (`BeYouID`).
4. *(done)* Proofs: `FirestoreProofs` (type correctness, safety, refinement),
   `AccountProofs` (type correctness, safety), `MediaUploadProofs`, `CombinerProofs`
   (exclusion, count, order, freeing), `BeYouIDProofs` (the composed app).
5. *(done)* `MediaUpload`: the promise chain of an upload with the global
   `uploadBlob`.
6. *(done)* `LevelDB` (persistence), `LevelDBLog` (its log format),
   `LevelDBCompaction` (what merges may drop), `Combiner`.
7. *(done)* `LevelDBProofs`: durability, sequence numbers and files of `LevelDB`;
   `LevelDBCompactionProofs`: levels stay sorted, reads are kept.
8. *(done)* `VideosProofs`: `UncontendedVideosKept` of the composed app, by an invariant over
   the queue, the answers and the lists that RecordScreens hold.
9. `WritePipeline` by itself: the limit of ten writes in flight, permanent and
   transient stream errors, the handshake; an abstract specification (each queued
   write takes effect in order, at least once) and its refinement.

## 3. Modules

From `Firestore` to `BeYouID`, `EXTENDS` goes downwards in this list. The modules below
`BeYouID` are specifications of their own: the app rests on what they promise (the
queue of `WritePipeline` is kept over restarts, callbacks run one at a time, an upload
ends) and is checked with that promise, not with their steps.

| module | models | state |
|---|---|---|
| `Firestore` | one transaction object per transaction, commit requests in the network, the backend | `store version clock tx commits applied` |
| `FirestoreTransactions` | the above under arbitrary blocks, other devices and process death; its properties and `IInv` | – |
| `AtomicStore` | the abstract promise | `store status offers applied` |
| `FirestoreProofs` | theorems on `FirestoreTransactions` | – |
| `Account` | LoginScreen, UserStack | `currentUser accounts request route home` |
| `AccountProofs` | theorems on `Account` | – |
| `Session` | `Account` + `Firestore`: the operations the screens have started | `job` |
| `InfoScreen` | profile tab | `infoState` |
| `WritePipeline` | `docRef.update`, the local store | `queue outcomes cache` |
| `VerifyScreen` | verification tab | `verify fbToken` |
| `RecordScreen` | profile videos | `record` |
| `BeYouID` | the app, its properties | all of the above |
| `BeYouIDProofs` | theorems on `BeYouID` | – |
| `VideosProofs` | theorems on the lists of videos in `BeYouID` | – |
| `MediaUpload` | the chain of an upload, both screens | `stage read tempFiles uploadBlob puts` |
| `MediaUploadProofs` | theorems on `MediaUpload` | – |
| `LevelDB` | `DBImpl` and `VersionSet`: durability and waiting | `logs tables manifest damage vs db bg writers writer` |
| `LevelDBLog` | `log::Writer` and `log::Reader`, as functions | – |
| `LevelDBCompaction` | flushes, merges and reads over entries of keys | `written mem level0 levels snapshots compaction` |
| `Combiner` | `grpc_combiner`, `gpr_mpscq`, `ExecCtx` | `state refs head tail next initiator finalNow finalList destroyed active offloads thread call closure` |
| `CombinerProofs` | theorems on `Combiner` | – |
| `MCFirestore`, `MCBeYouID` | symmetry sets for TLC | – |
| `MCLevelDB` | `LevelDB` with `LevelDBLog`, and the property of the log format | – |

### Correspondence with the code

*Transactions.* `tx[t]` is the `FSTTransaction` of transaction `t`, with the
retries left and the phase of `transactionWithRetries`. `Get`, `SetData`,
`UpdateData`, `DeleteDocument` are the methods of `FSTTransaction`, with
`RecordVersion`, `PreconditionForDocumentKey` and `PreconditionForUpdate` as in the
code; `Commit` is `commitWithCompletion` (an error for an impossible update, an
error for a document that is read and not written, else one Commit RPC); `Retry`
is what `transactionWithRetries` does on *any* commit error. `reads` and
`applied` are history: what the block was given, and which transactions the
backend has applied. The backend is external: it applies a commit atomically
if every precondition holds. `IsValidFor` is its reading of a precondition, not the
client's `Precondition::IsValidFor`: update time 0 (`SnapshotVersion::None()`) asks that
there be no document; each write gives the document a new update time. A request
may outlive the error its client saw (`RpcFails`), and a request that stays in
`commits` for ever is one that was lost. A block writes each document at most
once, as every block of the app does, so buffered mutations are a function of
the key.

*Account.* A press sends a request; `AuthAccepted` (external) signs in; the `then`
navigates. Handlers set `isFetching` to true and false within one event, so
presses overlap. `navigate("HomeMain")` with a HomeMain on the stack does
nothing; the swipe pops HomeMain; nobody signs out (the Logout button is
commented out). `overlapped` is history: another request was open when the
HomeMain was mounted.

*Screens.* `job[t]` is an operation a screen has started: its kind, the instance
whose callbacks it runs, the document it is about, how far it is. An operation
that runs a transaction uses `tx[t]`. A screen's block is one step after its
`transaction.get`: from there on it has no `await`. `setState` on an unmounted
component does nothing (`SetInfoState`, `SetVerifyState`), but `a.push(url)` in
`uploadVideo` changes the list of an unmounted RecordScreen in place
(`VideoUploaded`). `setState` in a block happens again when the block is retried.
Field values are abstract: `firstName` stands for every control of the form that
sets the field it shows; the Smoker picker is separate since it sets `haveKids`
(`InfoScreen.js:313-322`). The document VerifyScreen creates has no `user`.
`stuck` and `late` are history: since `isFetching` was last set, the catch of a location
update ran; a load replaced a list that had uploads. Pressing a picker and its callback are one step,
since nothing is stored between them.

*Write pipeline.* `docRef.update` appends to the persisted queue of the account
that is signed in; the backend takes writes in order (precondition: the document
exists); the n-th answer belongs to the n-th write; a break forgets the answers
on their way and sends the queue again. Signing in as another account or a restart
closes the stream and keeps the queues, each with its account. `docRef.get` sees the queue laid over the
backend's document (`LocalView`) or, when the client is offline and the document
is cached, over the cached one (`CachedView`), which may be old; else it fails.
`cache.remote` is what the store has on disk and `cache.shown` the same with the acknowledged
writes that are held until a snapshot brings them (`known` tells which ones the last snapshot has
brought before their answer came). Snapshots come from the gets and from InfoScreen's listener
(`WatchSnapshot`), which is attached when the first HomeMain is mounted and never removed. Writes
that are held are dropped when the process or the account changes, so an acknowledged
video may be missing from the cached document of the next session.

*Media upload.* One action per `then` of the chain. `Blob.build` copies the media to a
temporary file; `close` deletes the file of whichever blob the global names by then.
Reading of the file by `put` is a step of its own (external).

*LevelDB.* `mutex_` makes everything from lock to unlock one step: `RoomNow`,
`RoomWait`, `RoomRoll` (MakeRoomForWrite and BuildBatchGroup), then, unlocked, `Logged`,
`LogFails` or `SyncFails` for the group. The background thread flushes (`FlushBegins` …
`FlushInstalled`) and merges (`MergeBegins` … `MergeInstalled`), and a flush may nest in a
merge that has unlocked. `manifest` is what reading MANIFEST would give, `vs` the same
in memory; `LogAndApply` unlocks while it writes the file, so between the two a crash
may find the edit there or not (`MaybeEdited`), as it may the group being logged
(`MaybeLogged`). `ProcessCrash` keeps what was written, `MachineCrash` what was synced and
any prefix beyond it, for each log on its own. Opening is a step for MANIFEST (`Open`), one
for each live log, oldest first (`LogRead`; an error on opening a log is ignored by the code,
and so here: `LogUnreadable`), one for the new log (`LogCreated`) and one for the new MANIFEST
(`OpenInstalled`), with crashes and errors in between; the tables an interrupted recovery
has written stay on disk, and the next one uses their numbers again.
`imm_` is a set of memtables, empty for NULL.
Records behind a failed append are `doubtful`: they may or may not be read. `promised`
and `synced` are history: the batches that were acknowledged. What the model does not
promise: records behind a failed append, logs that could not be opened, and a database
whose MANIFEST got a record behind a torn one (`damage`), since the code promises none of
them. Assumed of the file system: the directory entry of a synced file is on disk, and the
few bytes that fill a block do not fail by themselves (stdio buffers them). Recovery
makes one table of each log, while a log larger than a memtable would make several;
this changes how many files there are, not what is in them.

*LevelDBLog.* A byte is known by its fragment and place. `AddRecord` may stop at any
byte of any fragment; the reader gets any prefix of what was written.

*LevelDBCompaction.* An entry is its sequence number, a table a set of entries. A file of
level 0 is known by `LastSequence` at its flush, which orders files as their numbers do.
`GetOverlappingInputs` restarts its search of level 0 until nothing widens the range any more;
the model takes the set it ends with, the least one that widens no more. The merge
chooses any table of a level and any inputs that SetupOtherInputs could choose, with or
without growing them, and splits its outputs anywhere. `split` is history: keys with
entries in two tables of a level, see `ReadsKept` below.

*Combiner.* Each atomic access of `gpr_mpscq` and of `state` is a step: `PushSwap` and
`PushLink`, `PopNothing` … `PopRetry`. `call[t]` is a thread within `combiner_exec` or `push`,
`thread[t]` within `grpc_combiner_continue_exec_ctx`. Whether a borrowed thread
would like to finish (`IsReadyToFinish`) is left open; an executor thread never does. Closures may schedule closures, also final ones, and drop references.
Memory is sequentially consistent here: the weaker orders of the atomics are not modelled.

*Mutants.* Operators whose comment begins with "(Mutant: …)" stand in front of the
definition they vary. No specification uses them; replacing the definition by its
variant makes the property named in `PROJECT.json` fail.

## 4. Runs

| run | cfg | instance | states | shows |
|---|---|---|---|---|
| `firestore` | `MCFirestore` | 1 transaction, 2 documents, 1 retry, foreign writes | 1.6 M | `IInv`, reads current, success real, answers match, overtaken commits dead, refinement |
| `profile` | `MCProfile` | 1 account, 4 operations | 0.57 M | loads, creates, SAVE, photo, location, edits |
| `retry` | `MCRetry` | 3 operations, 1 retry each | 1.3 M | loads and Facebook with blocks that run twice |
| `session` | `MCSession` | 2 accounts, 2 HomeMains, 2 operations | 0.41 M | who is signed in under a HomeMain, whose data reaches whose document |
| `videos` | `MCVideos` | 2 accounts, 1 RecordScreen, 3 operations, breaks, cached gets, restarts | 1.2 M | acknowledged videos of a single writer stay |
| `location` | `MCLocation` | 2 accounts, 2 sign-ins on their way, 2 operations, breaks | 0.19 M | what releases the buttons of a location, every transaction ends (liveness) |
| `media` | `MCMedia` | 3 uploads | 13 k | whose file an overlap takes; uploads end (liveness) |
| `leveldb` | `MCLevelDB` | 2 threads, 3 batches, 2 stops, 1 I/O error | 0.43 M | durability, fresh sequence numbers, files kept, log format, writes return (liveness) |
| `compaction` | `MCCompaction` | 3 keys, 4 writes, 3 levels, 1 snapshot | 2.2 M | reads unchanged, levels sorted |
| `combiner` | `MCCombiner` | 2 threads, 1 executor, 2 closures twice | 0.24 M | exclusion, count, order, freeing, closures run (liveness) |
| `videos_lost` | `MCVideosLost` | 2 RecordScreens, SAVE | – | **violation**, see below |
| `location_stuck` | `MCLocationStuck` | no document | – | **violation** (liveness) |

*Bounds.* `TxIds` is the number of operations a behaviour may start, `Kinds` which
ones; `Homes`, `Records`, `Requests` are the instances and presses; `MaxRetries`
replaces the 5 of the SDK; `MaxClock` bounds writes of other devices and breaks of
the stream. They suffice because conflicts are pairwise: a lost update needs one
reader and one writer of the same document (plus one operation that could be
overwritten), an answer to the wrong attempt needs one retry, write skew two
documents, a foreign session two requests and two HomeMains. For transactions, login,
the app, uploads, LevelDB and the combiner the theorems below remove the bounds for most
safety properties. Runs that start from
`LoadedInit` begin where a tab has been loaded, to spend the operations on what
comes later: the document is one an earlier session left, with or without a video,
or absent because both loads failed. `OverlappedInit` begins a little earlier: sign-ins other than
the one that mounted the HomeMain were sent and are not answered (LOGIN pressed several
times, perhaps with other credentials), and the verification tab is loaded or not opened yet;
`location` needs two of them for an account that goes and one that comes back. In `videos` one
RecordScreen is enough, as a second one that writes the list makes it `Contended`, and
two of them are in `videos_lost`.
In `leveldb` the memtable holds one entry, so that each write rolls the log, a merge starts
with the first table of level 0 and writers stop at the second: every wait, every nested flush
and every pair of logs at recovery happens within three batches; two stops let the second
crash meet the recovery from the first. The log format is checked
with blocks of 7 bytes and headers of 3 for all triples of record sizes 1, 2, 3, 4, 6, 9,
which end before, at and behind the places where a header or one byte fits, with a failed
append at every byte (one failure: a second would meet no case of the reader
that one does not). In `compaction` three keys allow tables with a gap
between them, three levels a merge with something below its outputs, and four writes an
older entry at each. In `combiner` one combiner is used: a thread with several combiners in
its list is not exercised.
Symmetry is used in safety runs only. Deadlock is not checked: with every bounded
operation used up, the person may simply do nothing more.

*Fairness.* None on what a person does. Weak fairness on what the SDK and the
runtime owe: a block ends (it awaits one get and returns or throws), an RPC ends
(gRPC reports an answer or an error), the position callback comes (its timeout is
60 s), the write stream sends while there is something to send. Strong fairness on
the answer to a queued write, of a video, a location or a process that is gone: the stream may
break or be closed by a sign-in any number of times before, but one that is reopened again and
again some day lives long enough to bring it. In `location` breaks are bounded by
`MaxClock` anyway. Nothing is assumed of an account that does not sign in again: its queue
may wait for ever. An upload ends because the file system,
the storage SDK (which gives up after a time) and the event loop see to it. In `leveldb`
weak fairness on each thread inside `Write` and on the background thread: they are
runnable threads, and a mutex or a condition variable that is signalled is not kept from
them for ever. In `combiner` weak fairness on the work of each thread: threads run, and
closures return.

*What the passing app runs say.* Creating never overwrites: the precondition of
the `set` makes the second create retry or fail (`FieldsStay`). Whether a document
has a `user` is decided by the tab that creates it, for good (`UserFieldSettled`):
if VerifyScreen is first, the profile can neither be loaded nor saved afterwards.
Loading writes back what it read and changes nothing, however late
(`LoadChangesNothing`). The `isFetching` in a document made by VerifyScreen never
disables SAVE (`SaveNeverDisabled`), and only because such a document has no `user`.
A green button means a stored token (`VerifiedIsStored`). A screen writes to
another account's document only if its HomeMain is gone or was mounted under an
open login request (`ForeignDocumentOnlyByOverlap`), and without that, documents
hold their owner's data (`OwnDataOnly`; the Facebook token is left out: the
Facebook SDK has one per process). Photos are left out of both: a photo is put into the
storage folder that the loaded document names and touches no document.

*What the passing runs below the app say.* A put loses its file only to an upload that
overlaps it and is older (`FileLostOnlyToOverlap`); uploads one after the other are safe.
LevelDB keeps what it acknowledges over a crash of the process, and what it synced over one
of the machine, with the exceptions named in section 3. A merge under a held snapshot can
put two entries of one key into two tables of a level; a later merge may then take the
newer one down and leave the older one above it, and reads go wrong. TLC shows this when
the exception for `split` keys is taken out of `ReadsKept`: `SetupOtherInputs` has no rule
that pulls the second table in. Without a held snapshot a merge keeps one entry of a
key, so nothing is split; the Firestore SDK takes no snapshot, and the property is stated
for keys that were never split. A combiner's closures run one at a time although the count,
the queue and the owner are three separate words, and although a push may be half done when
its item has already been counted: the consumer then comes back until the link is there.

## 5. Findings

1. `InfoScreen.js:178` writes the whole component state where the comment at line
   164 lists the fields of the form: SAVE puts the videos, location and tokens back to
   what they were when the tab was loaded, and a video that was announced with 'Upload video
   success' is lost (`videos_lost`). RecordScreen does the same to itself: line 104
   writes the list from the instance's memory, so an upload that ends after its
   screen was popped, or a load that answers after an upload, also loses one. So does
   signing in with another account and back during uploads: each account has a queue of its
   own (`FSTLocalStore.mm:157`), and the older list may arrive last.
   `UncontendedVideosKept`, which names all of these, is what remains true.
2. `VerifyScreen.js:194` reads the undefined `error` in a catch whose parameter is
   `e`: alert and `isFetching: false` do not happen, and Profile Video and Invite
   stay disabled (`location_stuck`). `LocationReleasesScreenUnlessRejectedOrStranded` is what
   remains true. It has a second exception: a sign-in that was open when the HomeMain was
   mounted may change the account under it, and a location queued before stays in the queue
   of the first account (`FSTSyncEngine.mm:582`, `FSTLocalStore.mm:157`), neither sent nor
   answered. If the first account comes back, the buttons come back. `RecordScreen.js:110` has the same slip.

## 6. Proofs

`FirestoreProofs` (for all `Keys`, `TxIds`, `Fields`, `Vals`, `MaxClock` and every
natural `MaxRetries`). Assumptions: `RetriesAssumption` (a natural number) and
`NoDocAssumption` (the absence of a document is no document); TLC evaluates both.
The safety properties are not inductive: that a valid commit has current reads
depends on what happened between the get and the commit. `IInv` adds:

- `VersionsMatchStore`: update time 0 means no document, none is later than the clock;
- `TransactionsRemember`, `RequestsRemember`: each read carries its version, in
  `readVersions` until the document is written and in the precondition of the write
  from then on; a version equal to the current one means equal content. (The two
  places matter: `deleteDocument` overwrites `readVersions` with None.) Every write
  takes a new time from the clock, so the equality stays true;
- `AnswersAreTrue`: an "ok" and a success come from an applied commit;
- `AttemptsAreOrdered`, `OneRequestPerAttempt`: requests of earlier attempts have more
  retries left, so they never match the attempt that waits.

Each action is one step of the proof. Theorems: `IInvHolds`, `TypeCorrect`,
`CommitsReadCurrentDocuments`, `SuccessIsReal`, `AnswersBelongToAttempt`,
`OvertakenCommitsStayDead` (an action property), and `Refinement`:
`Spec => Abstract!Spec`, where `BackendCommit` is `TakeEffect` (by `ReadsAreCurrent`),
sending is `Offer`, a refusal is `Forget`, `ReplyReceived` with "ok" is `Succeed` (by
`AnswersAreTrue`), and everything that only moves versions, reads and buffers stutters.

`AccountProofs` (for all `Users`, `Homes`, `Requests`). Assumptions:
`NoUserAssumption`, `LoginRouteAssumption`. `AccountIInv` adds to the properties that
requests name users, that an accepted request has signed somebody in, and
`OpenUnderHomeOverlapped`: LOGIN can only be pressed on the login screen, so a request
open under a HomeMain was open when it was mounted. Theorems: `AccountIInvHolds`,
`AccountTypeCorrect`, `SignedInAtHome`, `SessionMatchesHome`, `QuietSessionIsFixed`.

`TypeCorrect` is proved and not among the properties of a run: `IInv`, which is, contains it.

`BeYouIDProofs` (for all `Users`, `Homes`, `Requests`, `Records`, `TxIds`, `Kinds`, every natural
`MaxRetries` and any bound on breaks; for `Spec` and for `LoadedSpec`). Assumptions: those of
`Account` and `Firestore`, `KeysAreUids` (documents are named by uid) and `ValuesAssumption` (a
document is not the absence of one, true is not false). Every screen takes a document in, keeps
it and writes it back later, so no property of the documents is inductive without saying what
is on its way. `AppIInv` says:

- `ServerOK`: versions match documents, and a document with a `user` (`GoodDoc`) has no
  `isFetching` that would disable SAVE;
- `ClientOK`, `RequestsOK`: what a block has read, and what a request rests on, is `Remembered`:
  the current content as long as the version is the same, and later still a subset of the
  document's fields, with a `user` if the document has one. Blocks create only what they
  found absent, and no block adds a `user`; the request of a load carries what was read, that of
  a verification its token;
- `AnswersOK`: the token of a confirmed verification is stored;
- `InfoOK`, `VerifyOK`, `RecordOK`, `JobsOK`: which operation at which stage belongs to which
  instance and document; `QueueOK`: queued writes touch `location` and `videos` only, there
  are at most as many answers as writes, and the cache holds good documents or none;
- `AccountIInv`, and the two properties `VerifiedIsStored` and `FetchingIsExplained`, which are
  inductive next to the rest.

Each step is shown to preserve it and to respect `AppAges`: instances and operations keep their
owner and document, documents only grow. From these follow `AppTypeOKHolds`,
`SaveNeverDisabledHolds`, `VerifiedIsStoredHolds`, `FetchingIsExplainedHolds` and the action
properties `FieldsStayHolds`, `UserFieldSettledHolds` and `LoadChangesNothingHolds` (the version
of a load's request matches, so the document is what the load had read, and merging a document
with itself changes nothing). `ViewOver`, behind `LocalView` and `CachedView`, is a recursive function; that it
yields a good document over a good one is proved by induction on the length of the queue, through the least length at
which it might not (`LeastNatural`, from the well-foundedness of <).

Two further invariants stand on `AppIInv`. `ScreensBelong`: VerifyScreens and RecordScreens are
those of their HomeMain's account, or it was mounted under an open request; `HomeMatchesSession`
gives this when a screen appears and `AppAges` keeps it. With it
`ForeignDocumentOnlyByOverlapHolds`. `OwnIInv`: as long as only its owner's screens operate on
document k, the `user` and `linkdintoken` in the document, in the reads of transactions on it, in
the requests for it and in the forms of its owner's HomeMains are the owner's. Data goes round
these four places, so none of them is right alone; and since the condition, once false, stays
false (`OwnScreensBefore`), data that comes in while it is false need not be tracked. With it
`OwnDataOnlyHolds`. Finally `AppImplementsAccount`: the app implements `AccountSpec`, so the
theorems of `AccountProofs` hold of the app.

`VideosProofs` (same constants and assumptions as `BeYouIDProofs`, on whose invariant it stands).
The list of videos is written whole, the stream sends writes again after a break, and a
queue outlives the screen and the process, so an old list may be applied over a newer one any number of
times. `VideosIInv` says why that loses nothing while one RecordScreen, loaded before its first
upload, writes the list of its account (`OneWriter`): its account is the one signed in, so all
its lists are in one queue; there each list is within those after it and within the one the
instance holds (`QueueOrdered`); what the stream has confirmed is in the document (`ConfirmedStored`); and an
acknowledged video is in the document, in the list held and in every list still queued
(`AcknowledgedEverywhere`), so whichever of them is applied next, it stays. That is not inductive without three
facts that hold whoever writes: queued lists are those of video operations and contain their own
video (`QueuedListsOK`); a transaction that is no SAVE brings no list but the load's, which is the one it
has read (`RequestsListless`); an instance whose load came late holds a list that is not empty (`LateOK`), and so stays marked, while
a load in time replaces an empty list, when nothing of the instance can have been queued or acknowledged. A
RecordScreen that has just been opened is a case of its own: it has written nothing yet. Theorems:
`VideosInvariant`, `UncontendedVideosKeptHolds`. The attempt corrected the model: with two
accounts the property, as it was first stated, did not hold (section 5), and TLC
finds the behaviour now that the run has two.

`MediaUploadProofs` (for any `Uploads`). Assumption: `NoBlobAssumption`. `MediaIInv` adds
that the global names the blob of the newest put and that each put under way is among the puts.
Theorems: `MediaInvariant`, `FileLeftOnlyIfOvertakenHolds`, `FileLostOnlyToOverlapHolds`.

`CombinerProofs` (for any threads, executors, combiners, finitely many closures, any number of
references and of uses). Assumptions: `NullAssumption`, `RefsAssumption`, `NodesAssumption` (closures are
not stubs of combiners, and there are finitely many). `CombinerIInv` has three layers. *Owner*: a
combiner is in the list of at most one thread, in the hands of the thread that raised its
count from zero, or offloaded, and in one of them exactly when its count is not zero.
*Count*: `state` is twice the closures that wait, plus two for the item being run and for a final
list that is not empty, plus one for references; zero means freed. *Queue*: `QueuesLinked`, there is a sequence of nodes,
from tail to head, that the links follow wherever they are made; each missing link belongs to
a push between its two steps or to the consumer putting the stub back; the closures in it are
those that wait and are pushed, those of a thread in the order in which it sent them. Nobody
in the code holds that sequence; it is what makes `PopNothing` and `PopRetry` right. Theorems:
`CombinerInvariant`, `OneOwnerHolds`, `CountIsRightHolds`, `DestroyedIsQuietHolds`,
`InThreadOrderHolds` (an action property).

`LevelDBProofs` (for any threads, sizes of memtable and group, triggers, and any number of
writes, crashes and I/O errors). Assumption: `TriggerAssumption` (positive sizes). What a crash
leaves is a predicate, `DiskOK(T, L, v, P, S)`: with tables T and logs L a database whose MANIFEST
is v can be opened (its tables are there, numbers are below the next ones, a sequence number names one batch) and finds
the batches P, after a stop of the machine the batches S. `LevelIInv` says that it holds
of the MANIFEST there is *and*, while an edit is being recorded, of the one the edit leads to:
a crash may find either (`EditOK`). The rest of it is what makes the second half true when
the edit comes into being: while the database is open, everything promised is in a table of
MANIFEST, in `imm_`, or in the memtable, *and* in a table, in `imm_`, or in the log in use
(`MemoryOK`), so an edit that names imm_'s table may leave all older logs behind; a table
being built is pending and named by no version, a merge's table holds what its inputs hold
(`FlushOK`, `MergeOK`); file numbers and sequence numbers in use are below the counters (`NumbersOK`,
`SequencesOK`), even of files no version names, since the counters grow for failed writes too; while opening, what is
promised is in tables of MANIFEST, in tables just recovered or in logs still to be read
(`RecoveringOK`). After an error the versions on disk and in memory may differ, but no file
is deleted any more. Theorems: `LevelInvariant`, `LevelTypes`,
`AcknowledgedWritesSurvive`, `SyncedWritesSurvive`, `SequencesAreFresh`, `NamedTablesStay`.

`LevelDBCompactionProofs` (for any integer keys, any number of levels, and any number of writes,
deletions and snapshots). Assumption: `LevelAssumption` (at least one level, memtables go to one of
them). That reads are right is not inductive: it depends on where the entries of a key lie. `CInv`
says that levels are `Sorted`; that of one key the memtable, level 0 and each level have younger
entries than what is below, and one table per level, unless the key is split (`AgesOK`); that what
a reader must find is present, or a deletion that nothing older is left for (`Kept`); and, while a
merge is under way (`MergeOK`), what makes its outcome right whatever is flushed
meanwhile: no table left in the next level lies between its inputs, none shares a key with those of
the upper level, keys in `base` have nothing further down, and the inputs are `Covered`: there
is no gap between them in which a memtable would overlap no input and yet lie within the range
of the outputs. `Covered` holds because every table that joins overlaps what is there;
for level 0, where the search repeats, because the tables on one side of a gap would
have been enough (`CoveredClosure`). A merge drops a deletion when its key is in `base`: that
nothing above it is older is `AgesOK`, that nothing beside it is, `Unsplit`. Theorems: `CompactionInvariant`,
`LevelsStaySorted`, `SnapshotReadsKept`.

Only model-checked: liveness (`Settles`, `LocationReleasesScreenUnlessRejectedOrStranded`, `UploadEnds`,
`WritesReturn`, `EveryClosureRuns`, `OrphansAreFreed`), since fairness and ENABLED are beyond
the prover; and `LogReadsBack`, which is about functions that only TLC can evaluate for all inputs
at hand.

## 7. Not modelled

In the app: the invitation SMS; password reset; the screens without a route
(`LinkedinScreen`, `NotifyScreen`, `FBLoginButton`, `Screens`, `App/index.js`); constant lists and
styles; the iOS start-up code. In the SDK: queries and their views (the app's one listener
has an empty callback; only its effect on the cache is modelled), removal of documents from
the cache, the limit of ten writes in flight and the back-off. Firestore
security rules are not in the repository: every write the app sends is taken as permitted.
In LevelDB: manual compaction, iterators, reuse of logs, the formats of tables and blocks,
caches and filters; compaction by size and by seeks is an arbitrary choice.

The repository holds some 460 000 lines of C and C++, nearly all of them in pods: BoringSSL,
gRPC, nanopb and Protobuf, LevelDB. The program's own logic is the JavaScript under `src/App`,
some 1 300 lines of screens and navigation, most of which is modelled. Of the pods the parts
are modelled on which the app's promises rest and that have a concurrency of their own. The
rest (cryptography, tables of constants, generated parsers, HTTP/2 framing, name resolution)
is sequential code with test suites upstream, and no statement about this app is decided
there; a model that covered a sizeable share of those lines would be about other programs.

## 8. Running

    tlc -config MCProfile.cfg MCBeYouID
    tlapm FirestoreProofs.tla

The other proof modules likewise; `CombinerProofs`, `BeYouIDProofs`, `VideosProofs`, `LevelDBProofs` and
`LevelDBCompactionProofs` take some minutes each.
