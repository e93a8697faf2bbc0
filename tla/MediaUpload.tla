---------------------------- MODULE MediaUpload ----------------------------
(***************************************************************************)
(* uploadImage and uploadVideo: readFile, Blob.build, put, close,          *)
(* getDownloadURL, one promise after the other.  Blob.build copies the     *)
(* media to a temporary file that put reads and close deletes; the blob is *)
(* remembered in `uploadBlob', which neither screen declares and so is one *)
(* variable of the process, shared by all uploads of both screens.         *)
(*                                                                         *)
(* InfoScreen and RecordScreen use what this chain amounts to: an upload   *)
(* that is started later succeeds or fails.                                *)
(***************************************************************************)
EXTENDS Naturals, Sequences, SequencesExt

CONSTANTS
    Uploads,    \* presses of Upload Photo and Record Profile Video
    NoBlob      \* `undefined'

ASSUME NoBlobAssumption == NoBlob \notin Uploads

VARIABLES
    stage,        \* how far the chain of an upload is
    read,         \* the uploads whose put has read its whole file
    tempFiles,    \* temporary files, named by the upload that made them
    uploadBlob,   \* the blob the global names
    puts          \* history: the uploads in the order their puts began

vars == <<stage, read, tempFiles, uploadBlob, puts>>

Active == {"readFile", "build", "put", "getDownloadURL"}
Ended == {"resolved", "rejected", "killed"}

Init ==
    /\ stage = [u \in Uploads |-> "unused"]
    /\ read = {}
    /\ tempFiles = {}
    /\ uploadBlob = NoBlob
    /\ puts = <<>>

Goes(u, from, to) == stage[u] = from /\ stage' = [stage EXCEPT ![u] = to]

\* The picker has given a file. Nothing keeps a second upload from starting:
\* isFetching is true only while the press is handled.
Upload(u) ==
    /\ Goes(u, "unused", "readFile")
    /\ UNCHANGED <<read, tempFiles, uploadBlob, puts>>

\* The media is read; Blob.build begins.
FileRead(u) ==
    /\ Goes(u, "readFile", "build")
    /\ UNCHANGED <<read, tempFiles, uploadBlob, puts>>

\* The temporary file is written; uploadBlob = blob; put begins.
BlobBuilt(u) ==
    /\ Goes(u, "build", "put")
    /\ tempFiles' = tempFiles \cup {u}
    /\ uploadBlob' = u
    /\ puts' = Append(puts, u)
    /\ UNCHANGED read

\* The storage SDK has read the file.
PutReads(u) ==
    /\ stage[u] = "put"
    /\ u \in tempFiles
    /\ read' = read \cup {u}
    /\ UNCHANGED <<stage, tempFiles, uploadBlob, puts>>

\* (Mutant: the blob is not closed.)
PutDoneUnclosed(u) ==
    /\ u \in read
    /\ Goes(u, "put", "getDownloadURL")
    /\ UNCHANGED <<read, tempFiles, uploadBlob, puts>>

\* put ends: uploadBlob.close() deletes the file of whichever blob the global
\* names by now (closing it again only rejects a promise nobody awaits), and
\* getDownloadURL begins.
PutDone(u) ==
    /\ u \in read
    /\ Goes(u, "put", "getDownloadURL")
    /\ tempFiles' = tempFiles \ {uploadBlob}
    /\ UNCHANGED <<read, uploadBlob, puts>>

\* (Mutant: the blob is closed when the URL arrives.)
UrlFoundThenClose(u) ==
    /\ Goes(u, "getDownloadURL", "resolved")
    /\ tempFiles' = tempFiles \ {uploadBlob}
    /\ UNCHANGED <<read, uploadBlob, puts>>

\* resolve(url)
UrlFound(u) ==
    /\ Goes(u, "getDownloadURL", "resolved")
    /\ UNCHANGED <<read, tempFiles, uploadBlob, puts>>

\* (Mutant: a catch that covers only what comes before put.)
FailsBeforePut(u) ==
    /\ stage[u] \in {"readFile", "build"}
    /\ stage' = [stage EXCEPT ![u] = "rejected"]
    /\ UNCHANGED <<read, tempFiles, uploadBlob, puts>>

\* Any promise of the chain rejects: the catch rejects the upload and closes
\* nothing.
Fails(u) ==
    /\ stage[u] \in Active
    /\ stage' = [stage EXCEPT ![u] = "rejected"]
    /\ UNCHANGED <<read, tempFiles, uploadBlob, puts>>

\* The process is killed and started again; temporary files stay.
Restart ==
    /\ \E u \in Uploads : stage[u] \in Active
    /\ stage' = [u \in Uploads |-> IF stage[u] \in Active THEN "killed" ELSE stage[u]]
    /\ uploadBlob' = NoBlob
    /\ UNCHANGED <<read, tempFiles, puts>>

Next ==
    \/ \E u \in Uploads :
        \/ Upload(u) \/ FileRead(u) \/ BlobBuilt(u) \/ PutReads(u) \/ PutDone(u)
        \/ UrlFound(u) \/ Fails(u)
    \/ Restart

Spec == Init /\ [][Next]_vars

\* What has been begun ends one way or the other: the file system, the storage
\* SDK (which gives up after a time) and the event loop see to that.
Fairness ==
    \A u \in Uploads :
        WF_vars(FileRead(u) \/ BlobBuilt(u) \/ PutDone(u) \/ UrlFound(u) \/ Fails(u))

FairSpec == Spec /\ Fairness

-----------------------------------------------------------------------------
(***************************************************************************)
(* Properties.                                                             *)
(***************************************************************************)
BeganBefore(u, v) ==
    \E i, j \in DOMAIN puts : i < j /\ puts[i] = u /\ puts[j] = v

\* A put that still reads its file loses it only to a put that began before it
\* and ends while it runs, and only while it is the newest put: uploads one after
\* the other never fail for want of their file, and an upload that a newer one
\* has overtaken keeps its own.
FileLostOnlyToOverlap ==
    [][\A u \in Uploads :
         stage[u] = "put" /\ u \notin read /\ u \in tempFiles \ tempFiles' =>
            /\ Last(puts) = u
            /\ \E v \in Uploads : /\ BeganBefore(v, u)
                                  /\ stage[v] = "put"
                                  /\ stage'[v] # "put"]_vars

\* An upload that resolved has left its temporary file behind only if another put
\* began after its own: uploads one after the other leave nothing behind.
FileLeftOnlyIfOvertaken ==
    \A u \in Uploads :
        stage[u] = "resolved" /\ u \in tempFiles => \E v \in Uploads : BeganBefore(u, v)

\* What an upload of a photo or a video promises its screen: it is resolved or
\* rejected (or dies with the process).
UploadEnds == \A u \in Uploads : stage[u] \in Active ~> stage[u] \in Ended
=============================================================================
