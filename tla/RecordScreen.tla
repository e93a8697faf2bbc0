--------------------------- MODULE RecordScreen ----------------------------
(***************************************************************************)
(* The profile videos: RecordScreen loads the list once, appends the URL   *)
(* of each upload to the list it holds and writes that list whole.  A      *)
(* video is named after the operation that uploads it.                     *)
(***************************************************************************)
EXTENDS VerifyScreen

CONSTANT Records     \* RecordScreen instances ever opened (a bound)

VARIABLE record      \* `late' records that a load replaced a list with uploads

RecordInit ==
    record = [r \in Records |->
                [status |-> "unborn", home |-> NoUser, user |-> NoUser, videos |-> <<>>,
                 late |-> FALSE]]

RecordMounted(r) == record[r].status = "mounted"

\* Profile Video on VerifyScreen: navigate("Record"), constructor and
\* componentDidMount, whose get starts.
OpenRecord(h, r, t) ==
    /\ VerifyMounted(h)
    /\ verify[h].isFetching = No
    /\ record[r].status = "unborn"
    /\ \A q \in Records : ~RecordMounted(q)
    /\ record' = [record EXCEPT ![r] =
                    [status |-> "mounted", home |-> h, user |-> currentUser,
                     videos |-> <<>>, late |-> FALSE]]
    /\ Begin(t, "recordLoad", r, currentUser, "get")
    /\ UNCHANGED <<fsVars, pipeVars, verifyVars>>

\* The header's back button pops RecordScreen off VerifyStack.
CloseRecord(r) ==
    /\ RecordMounted(r)
    /\ record' = [record EXCEPT ![r].status = "gone"]
    /\ UNCHANGED <<fsVars, job, pipeVars, verifyVars>>

\* docRef.get() gets its snapshot from the backend; the handler runs later.
RecordSnapshot(t) ==
    /\ At(t, "recordLoad", "get")
    /\ job' = [job EXCEPT ![t].stage = "snapshot", ![t].data = LocalView(job[t].key)]
    /\ Snapshot
    /\ UNCHANGED <<fsVars, queue, outcomes, verifyVars, record>>

\* The client is offline and has the document in its cache, however old.
RecordCachedSnapshot(t) ==
    /\ At(t, "recordLoad", "get")
    /\ CachedView(job[t].key) # NoDoc
    /\ job' = [job EXCEPT ![t].stage = "snapshot", ![t].data = CachedView(job[t].key)]
    /\ UNCHANGED <<fsVars, pipeVars, verifyVars, record>>

\* The get rejects (offline with nothing cached, or an error of the stream), or
\* there is no document and the handler throws on `user'.
RecordGetFails(t) ==
    /\ At(t, "recordLoad", "get")
    /\ GoTo(t, "done")
    /\ UNCHANGED <<fsVars, pipeVars, verifyVars, record>>

\* The then of the get: a stored list that is not empty replaces the one held;
\* a document without videos makes the handler throw, which is caught.
RecordLoaded(t) ==
    LET r == job[t].owner
        doc == job[t].data
        stored == IF doc # NoDoc /\ "videos" \in DOMAIN doc THEN doc.videos ELSE <<>> IN
    /\ At(t, "recordLoad", "snapshot")
    /\ record' = IF RecordMounted(r) /\ Len(stored) > 0
                 THEN [record EXCEPT ![r].videos = stored,
                                     ![r].late = record[r].videos # <<>>]
                 ELSE record
    /\ job' = [job EXCEPT ![t].stage = "done", ![t].data = Null]
    /\ UNCHANGED <<fsVars, pipeVars, verifyVars>>

\* Record Profile Video, once the picker has given a file: uploadVideo.
UploadVideo(r, t) ==
    /\ RecordMounted(r)
    /\ Begin(t, "video", r, record[r].user, "put")
    /\ UNCHANGED <<fsVars, pipeVars, verifyVars, record>>

\* (Mutant: the URL is not kept in the list held.)
VideoUploadedNotKept(t) ==
    /\ At(t, "video", "put")
    /\ Enqueue(t, job[t].key, [videos |-> Append(record[job[t].owner].videos, t)])
    /\ GoTo(t, "write")
    /\ UNCHANGED <<fsVars, outcomes, cache, verifyVars, record>>

\* put and getDownloadURL succeed: the URL is pushed in place on the list held
\* (mounted or not), and the list is written.
VideoUploaded(t) ==
    LET r == job[t].owner
        a == Append(record[r].videos, t) IN
    /\ At(t, "video", "put")
    /\ record' = [record EXCEPT ![r].videos = a]
    /\ Enqueue(t, job[t].key, [videos |-> a])
    /\ GoTo(t, "write")
    /\ UNCHANGED <<fsVars, outcomes, cache, verifyVars>>

VideoFails(t) ==
    /\ At(t, "video", "put")
    /\ GoTo(t, "done")
    /\ UNCHANGED <<fsVars, pipeVars, verifyVars, record>>

\* docRef.update resolves: 'Upload video success'.
VideoSaved(t) ==
    /\ At(t, "video", "write")
    /\ Answer(t, "ok")
    /\ GoTo(t, "acknowledged")
    /\ UNCHANGED <<fsVars, verifyVars, record>>

\* It rejects: the catch throws a ReferenceError before its alert.
VideoRejected(t) ==
    /\ At(t, "video", "write")
    /\ Answer(t, "notFound")
    /\ GoTo(t, "done")
    /\ UNCHANGED <<fsVars, verifyVars, record>>

RecordNext ==
    \/ \E h \in Homes, r \in Records, t \in TxIds : OpenRecord(h, r, t)
    \/ \E r \in Records : CloseRecord(r) \/ \E t \in TxIds : UploadVideo(r, t)
    \/ \E t \in TxIds :
        \/ RecordSnapshot(t) \/ RecordCachedSnapshot(t) \/ RecordGetFails(t) \/ RecordLoaded(t)
        \/ VideoUploaded(t) \/ VideoFails(t) \/ VideoSaved(t) \/ VideoRejected(t)
=============================================================================
