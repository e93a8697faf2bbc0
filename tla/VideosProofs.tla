---------------------------- MODULE VideosProofs ----------------------------
(***************************************************************************)
(* The list of videos.  RecordScreen writes its list whole, over broken    *)
(* streams and restarts that send writes again, beside loads and           *)
(* verifications that write the same document.  As long as one RecordScreen*)
(* of one account writes the list, every list on its way contains those    *)
(* sent before it, and so whatever write arrives, and however often, the   *)
(* acknowledged videos stay in the document.                               *)
(***************************************************************************)
EXTENDS BeYouIDProofs

(***************************************************************************)
(* The inductive invariant, part by part.                                  *)
(***************************************************************************)
Listed(s) == {s[i] : i \in DOMAIN s}

\* A write of the list of document k.
ListWrite(w, k) == w.key = k /\ "videos" \in DOMAIN w.data

\* Queued lists are those of video operations, and contain their own video.
QueuedListOK(w) ==
    /\ job[w.id].kind \in {"location", "video"}
    /\ "videos" \in DOMAIN w.data <=> job[w.id].kind = "video"
    /\ job[w.id].kind = "video" => job[w.id].key = w.key /\ w.id \in Listed(w.data.videos)

QueuedListsOK == \A u \in Users : \A i \in 1 .. Len(queue[u]) : QueuedListOK(queue[u][i])

\* No request brings a list but that of a load, which is the one it has read, or SAVE.
ListlessRequest(m) ==
    \/ job[m.tx].kind \in {"infoLoad", "verifyLoad", "save"}
    \/ "videos" \notin DOMAIN m.mutations[job[m.tx].key].data

RequestsListless == \A m \in commits : ListlessRequest(m)

\* A load that came late replaced a list by one that is not empty.
LateOK ==
    \A r \in Records : Opened(r) =>
        record[r].late \in BOOLEAN /\ (record[r].late => record[r].videos # <<>>)

\* Somebody has signed in with request q, or the process died before it was known.
Served(q) == request[q].stage \in {"accepted", "done"}

\* RecordScreen r is the only writer of its list.
OneWriter(r) ==
    /\ Opened(r)
    /\ ~record[r].late
    /\ \A s \in TxIds : job[s].key = record[r].user =>
          job[s].kind # "save" /\ (job[s].kind = "video" => job[s].owner = r)
    /\ \A q \in Requests : Served(q) => request[q].user = record[r].user

\* Then: its lists are in one queue, each within those after it and the one held;
\* what the stream has confirmed is in the document; and an acknowledged video is
\* in all of them.
QueueOrdered(r, k) ==
    /\ \A u \in Users : \A i \in 1 .. Len(queue[u]) : ListWrite(queue[u][i], k) =>
          u = k /\ Listed(queue[u][i].data.videos) \subseteq Listed(record[r].videos)
    /\ \A i, j \in 1 .. Len(queue[k]) :
          i <= j /\ ListWrite(queue[k][i], k) /\ ListWrite(queue[k][j], k) =>
              Listed(queue[k][i].data.videos) \subseteq Listed(queue[k][j].data.videos)

ConfirmedStored(k) ==
    \A i \in 1 .. Len(outcomes) : outcomes[i] = "ok" /\ ListWrite(queue[k][i], k) =>
        Listed(queue[k][i].data.videos) \subseteq Videos(k)

AcknowledgedEverywhere(r, k) ==
    \A t \in TxIds : job[t].stage = "acknowledged" /\ job[t].key = k =>
        /\ t \in Listed(record[r].videos)
        /\ t \in Videos(k)
        /\ \A i \in 1 .. Len(queue[k]) :
              ListWrite(queue[k][i], k) => t \in Listed(queue[k][i].data.videos)

ListKept(r) ==
    /\ currentUser = record[r].user
    /\ QueueOrdered(r, record[r].user)
    /\ ConfirmedStored(record[r].user)
    /\ AcknowledgedEverywhere(r, record[r].user)

VideosIInv ==
    /\ QueuedListsOK
    /\ RequestsListless
    /\ LateOK
    /\ \A r \in Records : OneWriter(r) => ListKept(r)

-----------------------------------------------------------------------------
(***************************************************************************)
(* What the steps of the app do to lists, queues and acknowledgements.     *)
(***************************************************************************)
NoNews ==
    \A t \in TxIds : job'[t].stage = "acknowledged" => job[t].stage = "acknowledged"

ListsHeld ==
    \A r \in Records : Opened(r) =>
        record'[r].videos = record[r].videos /\ record'[r].late = record[r].late

PipeStill == UNCHANGED queue /\ (UNCHANGED outcomes \/ outcomes' = <<>>)

\* Nothing is queued, answered, loaded or acknowledged: documents may change by a
\* commit, and the stream may end.
QuietStep == PipeStill /\ NoNews /\ ListsHeld

AnswerStep(t) ==
    /\ \E o : Answer(t, o)
    /\ NoNews \/ VideoSaved(t)
    /\ UNCHANGED <<store, record>>

\* Only the answer to a video operation acknowledges one (RecordScreen.js, uploadVideo).
LEMMA QuietJobs ==
    ASSUME JobsOK, NEW t \in TxIds
    PROVE  /\ \A s : s # "acknowledged" /\ GoTo(t, s) => NoNews
           /\ \A kind, owner, key, s : s # "acknowledged" /\ Begin(t, kind, owner, key, s) => NoNews
           /\ UNCHANGED job => NoNews
           /\ RestartJobs => NoNews
           /\ FacebookToken(t) => NoNews
           /\ LinkedInSignedIn(t) => NoNews
           /\ SaveLinkedinData(t) => NoNews
           /\ RecordSnapshot(t) \/ RecordCachedSnapshot(t) => NoNews
           /\ RecordLoaded(t) => NoNews
  <1>1. DOMAIN job = TxIds
    BY DEF JobsOK
  <1>2. \A s \in TxIds :
           job[s] = [kind |-> job[s].kind, owner |-> job[s].owner, key |-> job[s].key,
                     stage |-> job[s].stage, data |-> job[s].data]
    BY DEF JobsOK, JobOK
  <1>3. ASSUME NEW x, x.stage # "acknowledged", job' = [job EXCEPT ![t] = x] PROVE NoNews
    BY <1>1, <1>3 DEF NoNews
  <1>4. ASSUME NEW s, s # "acknowledged", GoTo(t, s) PROVE NoNews
    <2>1. PICK x : x = [job[t] EXCEPT !.stage = s]
      OBVIOUS
    <2>2. x.stage = s
      BY <1>2, <2>1
    <2>3. job' = [job EXCEPT ![t] = x]
      BY <1>1, <1>4, <2>1 DEF GoTo
    <2> QED
      BY <1>3, <1>4, <2>2, <2>3
  <1>5. ASSUME NEW kind, NEW owner, NEW key, NEW s, s # "acknowledged",
               Begin(t, kind, owner, key, s)
        PROVE  NoNews
    BY <1>3, <1>5 DEF Begin
  <1>6. UNCHANGED job => NoNews
    BY DEF NoNews
  <1>7. ASSUME RestartJobs PROVE NoNews
    <2>1. ASSUME NEW s \in TxIds PROVE [job[s] EXCEPT !.stage = "done", !.data = Null].stage = "done"
      BY <1>2
    <2> QED
      BY <1>7, <2>1 DEF RestartJobs, NoNews
  <1>8. ASSUME NEW s, NEW x, x = [job[t] EXCEPT !.stage = s]
        PROVE  /\ x.stage = s
               /\ \A d : [x EXCEPT !.data = d].stage = s
               /\ \A k : [x EXCEPT !.key = k].stage = s
               /\ \A d, k : [[x EXCEPT !.data = d] EXCEPT !.key = k].stage = s
    <2>1. PICK i : i = job[t] /\ i = [kind |-> i.kind, owner |-> i.owner, key |-> i.key,
                                     stage |-> i.stage, data |-> i.data]
      BY <1>2
    <2>2. x = [kind |-> i.kind, owner |-> i.owner, key |-> i.key, stage |-> s, data |-> i.data]
      BY <1>8, <2>1
    <2> QED
      BY <2>2
  <1>9. ASSUME FacebookToken(t) PROVE NoNews
    <2>1. PICK x, y : x = [job[t] EXCEPT !.stage = "transaction"] /\ y = [[x EXCEPT !.data = fbToken] EXCEPT !.key = currentUser]
      OBVIOUS
    <2>2. x.stage = "transaction" /\ y.stage = "transaction"
      BY <1>8, <2>1
    <2>3. job' = [job EXCEPT ![t] = y]
      BY <1>1, <1>9, <2>1 DEF FacebookToken
    <2> QED
      BY <1>3, <2>2, <2>3
  <1>10. ASSUME LinkedInSignedIn(t) PROVE NoNews
    <2>1. PICK x, y : x = [job[t] EXCEPT !.stage = "timer"] /\ y = [x EXCEPT !.data = verify[job[t].owner].user]
      OBVIOUS
    <2>2. x.stage = "timer" /\ y.stage = "timer"
      BY <1>8, <2>1
    <2>3. job' = [job EXCEPT ![t] = y]
      BY <1>1, <1>10, <2>1 DEF LinkedInSignedIn
    <2> QED
      BY <1>3, <2>2, <2>3
  <1>11. ASSUME SaveLinkedinData(t) PROVE NoNews
    <2>1. PICK x, y : x = [job[t] EXCEPT !.stage = "transaction"] /\ y = [x EXCEPT !.key = currentUser]
      OBVIOUS
    <2>2. x.stage = "transaction" /\ y.stage = "transaction"
      BY <1>8, <2>1
    <2>3. job' = [job EXCEPT ![t] = y]
      BY <1>1, <1>11, <2>1 DEF SaveLinkedinData
    <2> QED
      BY <1>3, <2>2, <2>3
  <1>12. ASSUME RecordSnapshot(t) \/ RecordCachedSnapshot(t) PROVE NoNews
    <2>0. PICK d : job' = [job EXCEPT ![t].stage = "snapshot", ![t].data = d]
      BY <1>12 DEF RecordSnapshot, RecordCachedSnapshot
    <2>1. PICK x, y : x = [job[t] EXCEPT !.stage = "snapshot"] /\ y = [x EXCEPT !.data = d]
      OBVIOUS
    <2>2. x.stage = "snapshot" /\ y.stage = "snapshot"
      BY <1>8, <2>1
    <2>3. job' = [job EXCEPT ![t] = y]
      BY <1>1, <2>0, <2>1
    <2> QED
      BY <1>3, <2>2, <2>3
  <1>13. ASSUME RecordLoaded(t) PROVE NoNews
    <2>1. PICK x, y : x = [job[t] EXCEPT !.stage = "done"] /\ y = [x EXCEPT !.data = Null]
      OBVIOUS
    <2>2. x.stage = "done" /\ y.stage = "done"
      BY <1>8, <2>1
    <2>3. job' = [job EXCEPT ![t] = y]
      BY <1>1, <1>13, <2>1 DEF RecordLoaded
    <2> QED
      BY <1>3, <2>2, <2>3
  <1> QED
    BY <1>4, <1>5, <1>6, <1>7, <1>9, <1>10, <1>11, <1>12, <1>13

\* Screens that are left keep their lists, which late callbacks go on using.
LEMMA QuietRecords ==
    ASSUME RecordOK
    PROVE  /\ UNCHANGED record => ListsHeld
           /\ LeaveHome \/ Restart => ListsHeld
           /\ \A r \in Records : CloseRecord(r) => ListsHeld
  <1>1. /\ DOMAIN record = Records
        /\ \A r \in Records :
             record[r] = [status |-> record[r].status, home |-> record[r].home,
                          user |-> record[r].user, videos |-> record[r].videos,
                          late |-> record[r].late]
    BY DEF RecordOK
  <1>2. ASSUME NEW r \in Records
        PROVE  LET x == [record[r] EXCEPT !.status = "gone"] IN
               x.videos = record[r].videos /\ x.late = record[r].late
    BY <1>1
  <1>3. ASSUME LeaveHome \/ Restart PROVE ListsHeld
    <2>1. \A r \in Records : \/ record'[r] = [record[r] EXCEPT !.status = "gone"]
                             \/ record'[r] = record[r]
      BY <1>3 DEF LeaveHome, Restart, UnmountRecords
    <2> QED
      BY <1>2, <2>1 DEF ListsHeld
  <1>4. ASSUME NEW r \in Records, CloseRecord(r) PROVE ListsHeld
    <2>1. PICK x : x = [record[r] EXCEPT !.status = "gone"]
      OBVIOUS
    <2>2. record' = [record EXCEPT ![r] = x]
      BY <1>1, <1>4, <2>1 DEF CloseRecord
    <2> QED
      BY <1>1, <1>2, <2>1, <2>2 DEF ListsHeld
  <1> QED
    BY <1>3, <1>4 DEF ListsHeld

\* The steps that touch lists, queues or acknowledgements, and all others.
LEMMA ListSteps ==
    ASSUME AppIInv, [Next]_vars
    PROVE  \/ QuietStep
           \/ DeliverWrite /\ UNCHANGED <<accountVars, record>>
           \/ /\ UNCHANGED accountVars
              /\ \E t \in TxIds :
                    \/ AnswerStep(t)
                    \/ PositionFound(t) /\ UNCHANGED record
                    \/ VideoUploaded(t)
                    \/ RecordLoaded(t)
  <1> DEFINE Noted ==
               \/ QuietStep
               \/ DeliverWrite /\ UNCHANGED <<accountVars, record>>
               \/ /\ UNCHANGED accountVars
                  /\ \E t \in TxIds :
                        \/ AnswerStep(t)
                        \/ PositionFound(t) /\ UNCHANGED record
                        \/ VideoUploaded(t)
                        \/ RecordLoaded(t)
  <1>1. JobsOK /\ RecordOK
    BY DEF AppIInv
  <1>2. UNCHANGED pipeVars => PipeStill
    BY DEF pipeVars, PipeStill
  <1>3. \A b : StreamCloses(b) => PipeStill
    BY DEF StreamCloses, PipeStill
  <1>4. UNCHANGED record => ListsHeld
    BY <1>1, QuietRecords
  <1>5. UNCHANGED job => NoNews
    BY DEF NoNews
  <1>6. ASSUME NEW t \in TxIds, NEW kind, NEW owner, NEW key, NEW s, s # "acknowledged",
               Begin(t, kind, owner, key, s)
        PROVE  NoNews
    BY <1>1, <1>6, QuietJobs
  <1>7. ASSUME NEW t \in TxIds, NEW kind, NEW owner, NEW key, BeginTransaction(t, kind, owner, key)
        PROVE  NoNews
    BY <1>6, <1>7 DEF BeginTransaction
  <1>8. ASSUME NEW t \in TxIds, NEW s, s # "acknowledged", GoTo(t, s) PROVE NoNews
    BY <1>1, <1>8, QuietJobs
  <1>9. UNCHANGED fsVars => UNCHANGED store
    BY DEF fsVars
  <1>10. CASE Auth
    BY <1>2, <1>3, <1>4, <1>5, <1>10 DEF Auth, QuietStep, screenVars
  <1>11. CASE \E q \in Requests, h \in Homes, t \in TxIds : MountHome(q, h, t)
    BY <1>4, <1>7, <1>11 DEF MountHome, InfoMount, QuietStep, PipeStill
  <1>12. CASE LeaveHome
    BY <1>1, <1>2, <1>5, <1>12, QuietRecords DEF LeaveHome, QuietStep
  <1>13. CASE Restart
    <2>1. RestartJobs => NoNews
      <3>1. ASSUME NEW t \in TxIds, RestartJobs PROVE NoNews
        BY <1>1, <3>1, QuietJobs
      <3>2. ASSUME TxIds = {} PROVE NoNews
        BY <3>2 DEF NoNews
      <3> QED
        BY <3>1, <3>2
    <2> QED
      BY <1>1, <1>3, <1>13, <2>1, QuietRecords DEF Restart, QuietStep
  <1>14. CASE Transact
    BY <1>2, <1>4, <1>5, <1>14 DEF Transact, QuietStep, screenVars
  <1>15. CASE PipelineNext /\ UNCHANGED <<accountVars, screenVars>>
    <2>1. CASE DeliverWrite
      BY <1>15, <2>1 DEF screenVars
    <2>2. ASSUME NEW t \in TxIds, AnswerUnheard(t) PROVE Noted
      BY <1>5, <1>9, <1>15, <2>2 DEF AnswerUnheard, AnswerStep, screenVars
    <2>3. CASE StreamBreaks
      BY <1>4, <1>5, <1>15, <2>3 DEF StreamBreaks, QuietStep, PipeStill, screenVars
    <2>4. CASE WatchSnapshot
      BY <1>4, <1>5, <1>15, <2>4 DEF WatchSnapshot, QuietStep, PipeStill, screenVars
    <2> QED
      BY <1>15, <2>1, <2>2, <2>3, <2>4 DEF PipelineNext
  <1>16. CASE InfoNext /\ UNCHANGED <<accountVars, pipeVars, verifyVars, record>>
    <2>1. NoNews
      BY <1>5, <1>6, <1>7, <1>8, <1>16
         DEF InfoNext, EditField, PickSmoker, Save, UploadImage, InfoLoadBlock, SaveBlock,
             ImageUploaded, ImageFails
    <2> QED
      BY <1>2, <1>4, <1>16, <2>1 DEF QuietStep
  <1>17. CASE VerifyNext /\ UNCHANGED <<accountVars, infoState, record>>
    <2>1. ASSUME NEW t \in TxIds, LocationSaved(t) \/ LocationRejected(t) PROVE Noted
      <3>1. GoTo(t, "done") /\ (\E o : Answer(t, o)) /\ UNCHANGED store
        BY <1>9, <2>1 DEF LocationSaved, LocationRejected
      <3> QED
        BY <1>8, <1>17, <3>1 DEF AnswerStep
    <2>2. ASSUME NEW t \in TxIds, FacebookToken(t) \/ LinkedInSignedIn(t) \/ SaveLinkedinData(t)
          PROVE  NoNews /\ UNCHANGED pipeVars
      BY <1>1, <2>2, QuietJobs DEF FacebookToken, LinkedInSignedIn, SaveLinkedinData
    <2>3. ASSUME NEW h \in Homes, NEW t \in TxIds,
                 VerifyMount(h, t) \/ PressFacebook(h, t) \/ PressLinkedIn(h, t) \/ PressLocation(h, t)
          PROVE  NoNews /\ UNCHANGED pipeVars
      BY <1>6, <1>7, <2>3 DEF VerifyMount, PressFacebook, PressLinkedIn, PressLocation
    <2>4. ASSUME NEW t \in TxIds,
                 \/ VerifyLoadBlock(t) \/ FacebookGranted(t) \/ FacebookLoginFails(t)
                 \/ FacebookBlock(t) \/ FacebookDone(t) \/ LinkedInFails(t) \/ LinkedInBlock(t)
                 \/ LinkedInDone(t) \/ PositionFails(t)
          PROVE  NoNews /\ UNCHANGED pipeVars
      BY <1>5, <1>8, <2>4
         DEF VerifyLoadBlock, FacebookGranted, FacebookLoginFails, FacebookBlock, FacebookDone,
             LinkedInFails, LinkedInBlock, LinkedInDone, PositionFails
    <2>5. ASSUME NoNews, UNCHANGED pipeVars PROVE Noted
      BY <1>2, <1>4, <1>17, <2>5 DEF QuietStep
    <2> QED
      BY <1>17, <2>1, <2>2, <2>3, <2>4, <2>5 DEF VerifyNext
  <1>18. CASE RecordNext /\ UNCHANGED <<accountVars, infoState>>
    <2>1. ASSUME NEW h \in Homes, NEW r \in Records, NEW t \in TxIds, OpenRecord(h, r, t) PROVE Noted
      <3>1. ListsHeld
        BY <1>1, <2>1 DEF OpenRecord, ListsHeld, Opened, RecordOK
      <3> QED
        BY <1>2, <1>6, <2>1, <3>1 DEF OpenRecord, QuietStep
    <2>2. ASSUME NEW r \in Records, CloseRecord(r) PROVE Noted
      BY <1>1, <1>2, <1>5, <2>2, QuietRecords DEF CloseRecord, QuietStep
    <2>3. ASSUME NEW r \in Records, NEW t \in TxIds, UploadVideo(r, t) PROVE Noted
      BY <1>2, <1>4, <1>6, <2>3 DEF UploadVideo, QuietStep
    <2>4. ASSUME NEW t \in TxIds,
                 \/ RecordSnapshot(t) \/ RecordCachedSnapshot(t)
                 \/ RecordGetFails(t) \/ VideoFails(t)
          PROVE  Noted
      <3>1. NoNews /\ UNCHANGED record /\ UNCHANGED <<queue, outcomes>>
        BY <1>1, <1>8, <2>4, QuietJobs
           DEF RecordSnapshot, RecordCachedSnapshot, RecordGetFails, VideoFails, pipeVars
      <3> QED
        BY <1>4, <3>1 DEF QuietStep, PipeStill
    <2>5. ASSUME NEW t \in TxIds, VideoSaved(t) \/ VideoRejected(t) PROVE Noted
      <3>1. (\E o : Answer(t, o)) /\ UNCHANGED <<store, record>>
        BY <1>9, <2>5 DEF VideoSaved, VideoRejected
      <3>2. VideoRejected(t) => NoNews
        BY <1>8 DEF VideoRejected
      <3> QED
        BY <1>18, <2>5, <3>1, <3>2 DEF AnswerStep
    <2> QED
      BY <1>18, <2>1, <2>2, <2>3, <2>4, <2>5 DEF RecordNext
  <1>19. CASE UNCHANGED vars
    BY <1>2, <1>4, <1>5, <1>19 DEF vars, QuietStep
  <1> QED
    BY <1>10, <1>11, <1>12, <1>13, <1>14, <1>15, <1>16, <1>17, <1>18, <1>19 DEF Next

\* Who signs in does so by a request, and a served request stays one.
LEMMA SignInsAreServed ==
    ASSUME AccountIInv, [AccountNext]_accountVars
    PROVE  /\ \A q \in Requests : Served(q) => Served(q)' /\ request'[q].user = request[q].user
           /\ \/ currentUser' = currentUser
              \/ \E q \in Requests : Served(q)' /\ request'[q].user = currentUser'
  <1>1. \A q \in Requests : request[q] = [kind |-> request[q].kind, user |-> request[q].user,
                                          stage |-> request[q].stage]
        /\ DOMAIN request = Requests
    BY DEF AccountIInv, AccountTypeOK
  <1>2. ASSUME NEW q \in Requests, NEW s, request' = [request EXCEPT ![q].stage = s]
        PROVE  /\ request'[q].stage = s /\ request'[q].user = request[q].user
               /\ \A p \in Requests \ {q} : request'[p] = request[p]
    <2>1. PICK x : x = [request[q] EXCEPT !.stage = s]
      OBVIOUS
    <2>2. x.stage = s /\ x.user = request[q].user
      BY <1>1, <2>1
    <2>3. request' = [request EXCEPT ![q] = x]
      BY <1>1, <1>2, <2>1
    <2> QED
      BY <1>1, <2>2, <2>3
  <1>3. ASSUME NEW q \in Requests, NEW kind, NEW u, Press(q, kind, u)
        PROVE  /\ \A p \in Requests : Served(p) => Served(p)' /\ request'[p].user = request[p].user
               /\ currentUser' = currentUser
    BY <1>1, <1>3 DEF Press, Served
  <1>4. ASSUME NEW q \in Requests, AuthAccepted(q)
        PROVE  /\ \A p \in Requests : Served(p) => Served(p)' /\ request'[p].user = request[p].user
               /\ Served(q)' /\ request'[q].user = currentUser'
    BY <1>2, <1>4 DEF AuthAccepted, Served
  <1>5. ASSUME NEW q \in Requests, AuthRejected(q) \/ Registered(q) \/ NavigateIgnored(q)
        PROVE  /\ \A p \in Requests : Served(p) => Served(p)' /\ request'[p].user = request[p].user
               /\ currentUser' = currentUser
    BY <1>2, <1>5 DEF AuthRejected, Registered, NavigateIgnored, Served
  <1>6. ASSUME NEW q \in Requests, NEW h \in Homes, Navigate(q, h)
        PROVE  /\ \A p \in Requests : Served(p) => Served(p)' /\ request'[p].user = request[p].user
               /\ currentUser' = currentUser
    BY <1>2, <1>6 DEF Navigate, Served
  <1>7. ASSUME RestartAccount
        PROVE  /\ \A p \in Requests : Served(p) => Served(p)' /\ request'[p].user = request[p].user
               /\ currentUser' = currentUser
    <2>1. ASSUME NEW p \in Requests
          PROVE  LET x == [request[p] EXCEPT !.stage = "done"] IN
                 x.stage = "done" /\ x.user = request[p].user
      BY <1>1
    <2>2. \A p \in Requests : request'[p] = IF Open(p) THEN [request[p] EXCEPT !.stage = "done"]
                                            ELSE request[p]
      BY <1>7 DEF RestartAccount
    <2> QED
      BY <1>7, <2>1, <2>2 DEF RestartAccount, Served
  <1>8. CASE SwipeBack \/ UNCHANGED accountVars
    BY <1>8 DEF SwipeBack, accountVars, Served
  <1> QED
    BY <1>3, <1>4, <1>5, <1>6, <1>7, <1>8 DEF AccountNext, AuthStep

-----------------------------------------------------------------------------
(***************************************************************************)
(* The queue of the signed-in account, write by write.                     *)
(***************************************************************************)

\* The queues hold writes.
LEMMA QueueElements ==
    ASSUME AppIInv, NEW u \in Users
    PROVE  /\ queue[u] \in Seq(Writes) /\ Len(queue[u]) \in Nat
           /\ \A i \in 1 .. Len(queue[u]) : queue[u][i] \in Writes
  <1>1. queue[u] \in Seq(Writes)
    BY DEF AppIInv, QueueOK
  <1> QED
    BY <1>1

\* An answer takes the first write, and itself, away.
LEMMA AfterAnswer ==
    ASSUME AppIInv, NEW t, NEW o, Answer(t, o), NEW c, c = currentUser
    PROVE  /\ c \in Users /\ DOMAIN queue' = Users
           /\ \A u \in Users \ {c} : queue'[u] = queue[u]
           /\ Len(queue[c]) \in Nat /\ Len(queue[c]) >= 1
           /\ Len(queue'[c]) = Len(queue[c]) - 1
           /\ \A i \in 1 .. Len(queue'[c]) : queue'[c][i] = queue[c][i + 1]
           /\ queue[c][1].id = t
           /\ Len(outcomes) \in Nat /\ Len(outcomes) >= 1 /\ Len(outcomes) <= Len(queue[c])
           /\ Len(outcomes') = Len(outcomes) - 1
           /\ \A i \in 1 .. Len(outcomes') : outcomes'[i] = outcomes[i + 1]
           /\ outcomes[1] = o
  <1>1. PICK W : W = ActiveQueue
    OBVIOUS
  <1>2. /\ outcomes \in Seq({"ok", "notFound"}) /\ outcomes # <<>>
        /\ W \in Seq(Writes) /\ Len(outcomes) <= Len(W)
    BY <1>1, ActiveQueueType DEF AppIInv, QueueOK, Answer
  <1>3. Len(outcomes) \in Nat \ {0} /\ Len(W) \in Nat
    BY <1>2
  <1>4. W # <<>> /\ Len(W) >= 1
    BY <1>2, <1>3
  <1>5. c \in Users /\ W = queue[c]
    BY <1>1, <1>4, ActiveQueueType DEF ActiveQueue, AppIInv
  <1>6. /\ Len(Tail(W)) = Len(W) - 1 /\ \A i \in 1 .. Len(Tail(W)) : Tail(W)[i] = W[i + 1]
        /\ Head(W) = W[1]
    BY <1>2, <1>4
  <1>7. /\ Len(Tail(outcomes)) = Len(outcomes) - 1 /\ Head(outcomes) = outcomes[1]
        /\ \A i \in 1 .. Len(Tail(outcomes)) : Tail(outcomes)[i] = outcomes[i + 1]
    BY <1>2
  <1>8. DOMAIN queue = Users
    BY DEF AppIInv, QueueOK
  <1>9. queue' = [queue EXCEPT ![c] = Tail(W)] /\ outcomes' = Tail(outcomes) /\ Head(W).id = t
        /\ Head(outcomes) = o
    BY <1>1, <1>5, <1>8 DEF Answer
  <1>10. DOMAIN queue' = Users /\ queue'[c] = Tail(W) /\ \A u \in Users \ {c} : queue'[u] = queue[u]
    BY <1>5, <1>8, <1>9
  <1> QED
    BY <1>2, <1>3, <1>4, <1>5, <1>6, <1>7, <1>9, <1>10

\* docRef.update appends a write.
LEMMA AfterEnqueue ==
    ASSUME AppIInv, NEW t, NEW k, NEW data, Enqueue(t, k, data), NEW c, c = currentUser,
           c \in Users
    PROVE  /\ DOMAIN queue' = Users
           /\ \A u \in Users \ {c} : queue'[u] = queue[u]
           /\ Len(queue[c]) \in Nat
           /\ Len(queue'[c]) = Len(queue[c]) + 1
           /\ \A i \in 1 .. Len(queue[c]) : queue'[c][i] = queue[c][i]
           /\ queue'[c][Len(queue[c]) + 1] = [id |-> t, key |-> k, data |-> data]
  <1>1. PICK W, w : W = queue[c] /\ w = [id |-> t, key |-> k, data |-> data]
    OBVIOUS
  <1>2. W \in Seq(Writes) /\ Len(W) \in Nat
    BY <1>1, QueueElements
  <1>3. DOMAIN queue = Users
    BY DEF AppIInv, QueueOK
  <1>4. queue' = [queue EXCEPT ![c] = Append(W, w)]
    BY <1>1, <1>3 DEF Enqueue
  <1>5. /\ Len(Append(W, w)) = Len(W) + 1 /\ Append(W, w)[Len(W) + 1] = w
        /\ \A i \in 1 .. Len(W) : Append(W, w)[i] = W[i]
    BY <1>2
  <1>6. DOMAIN queue' = Users /\ queue'[c] = Append(W, w) /\ \A u \in Users \ {c} : queue'[u] = queue[u]
    BY <1>3, <1>4
  <1> QED
    BY <1>1, <1>2, <1>5, <1>6

-----------------------------------------------------------------------------
(***************************************************************************)
(* The parts of the invariant that hold whoever writes.                    *)
(***************************************************************************)

\* What a.push adds to a list is what it was given.
LEMMA ListedAppend ==
    ASSUME NEW S, NEW s \in Seq(S), NEW x
    PROVE  Listed(Append(s, x)) = Listed(s) \cup {x}
  <1>1. /\ DOMAIN s = 1 .. Len(s) /\ Len(s) \in Nat
        /\ DOMAIN Append(s, x) = 1 .. (Len(s) + 1)
        /\ \A i \in 1 .. Len(s) : Append(s, x)[i] = s[i]
        /\ Append(s, x)[Len(s) + 1] = x
    OBVIOUS
  <1>2. PICK n : n = Len(s)
    OBVIOUS
  <1>3. PICK a : a = Append(s, x)
    OBVIOUS
  <1>4. /\ DOMAIN s = 1 .. n /\ n \in Nat /\ DOMAIN a = 1 .. (n + 1)
        /\ \A i \in 1 .. n : a[i] = s[i] /\ a[n + 1] = x
        /\ a[n + 1] = x
    BY <1>1, <1>2, <1>3
  <1>5. ASSUME NEW e \in Listed(a) PROVE e \in Listed(s) \cup {x}
    <2>1. PICK i \in 1 .. (n + 1) : e = a[i]
      BY <1>4, <1>5 DEF Listed
    <2>2. CASE i = n + 1
      BY <1>4, <2>1, <2>2
    <2>3. CASE i # n + 1
      <3>1. i \in 1 .. n
        BY <1>4, <2>1, <2>3
      <3> QED
        BY <1>4, <2>1, <3>1 DEF Listed
    <2> QED
      BY <2>2, <2>3
  <1>6. ASSUME NEW e \in Listed(s) PROVE e \in Listed(a)
    <2>1. PICK i \in 1 .. n : e = s[i]
      BY <1>4, <1>6 DEF Listed
    <2>2. i \in 1 .. (n + 1)
      BY <1>4, <2>1
    <2> QED
      BY <1>4, <2>1, <2>2 DEF Listed
  <1>7. x \in Listed(a)
    <2>1. n + 1 \in 1 .. (n + 1)
      BY <1>4
    <2> QED
      BY <1>4, <2>1 DEF Listed
  <1> QED
    BY <1>3, <1>5, <1>6, <1>7

\* What an uploaded video adds to the list held, and to the queue.
LEMMA UploadedWrite ==
    ASSUME AppIInv, NEW t \in TxIds, VideoUploaded(t), NEW r, r = job[t].owner
    PROVE  /\ r \in Records /\ Opened(r) /\ job[t].kind = "video" /\ job[t].key = record[r].user
           /\ job[t].key \in Users /\ currentUser \in Users
           /\ \E a : /\ Listed(a) = Listed(record[r].videos) \cup {t}
                     /\ a # <<>>
                     /\ record'[r].videos = a /\ record'[r].late = record[r].late
                     /\ \A q \in Records \ {r} : record'[q] = record[q]
                     /\ Enqueue(t, job[t].key, [videos |-> a])
           /\ UNCHANGED <<store, outcomes>> /\ NoNews
  <1>1. PICK i, x : i = job[t] /\ x = record[r]
    OBVIOUS
  <1>2. i.kind = "video" /\ i.stage = "put" /\ i.owner = r
    BY <1>1 DEF VideoUploaded, At
  <1>3. /\ r \in Records /\ Opened(r) /\ i.key = x.user /\ i.key \in Users /\ currentUser \in Users
    BY <1>1, <1>2, RecordJob
  <1>4. /\ x = [status |-> x.status, home |-> x.home, user |-> x.user, videos |-> x.videos,
                late |-> x.late]
        /\ x.videos \in Seq(Clips)
        /\ DOMAIN record = Records
    BY <1>1, <1>3, RecordFields DEF AppIInv, RecordOK
  <1>5. PICK a, y : a = Append(x.videos, t) /\ y = [x EXCEPT !.videos = a]
    OBVIOUS
  <1>6. y.videos = a /\ y.late = x.late
    BY <1>4, <1>5
  <1>7. record' = [record EXCEPT ![r] = y] /\ Enqueue(t, i.key, [videos |-> a])
    BY <1>1, <1>2, <1>4, <1>5 DEF VideoUploaded
  <1>8. record'[r] = y /\ \A q \in Records \ {r} : record'[q] = record[q]
    BY <1>3, <1>4, <1>7
  <1>9. Listed(a) = Listed(x.videos) \cup {t} /\ a # <<>>
    <2>1. Listed(a) = Listed(x.videos) \cup {t}
      BY <1>4, <1>5, ListedAppend
    <2>2. Len(a) = Len(x.videos) + 1 /\ Len(x.videos) \in Nat
      BY <1>4, <1>5
    <2>3. a # <<>>
      BY <2>2
    <2> QED
      BY <2>1, <2>3
  <1>10. UNCHANGED <<store, outcomes>> /\ GoTo(t, "write")
    BY DEF VideoUploaded, fsVars
  <1>11. NoNews
    <2>1. JobsOK
      BY DEF AppIInv
    <2> QED
      BY <1>10, <2>1, QuietJobs
  <1> QED
    BY <1>1, <1>2, <1>3, <1>6, <1>7, <1>8, <1>9, <1>10, <1>11

\* What a position adds to the queue: a write without a list.
LEMMA LocatedWrite ==
    ASSUME AppIInv, NEW t \in TxIds, PositionFound(t)
    PROVE  /\ job[t].kind = "location" /\ currentUser \in Users
           /\ Enqueue(t, job[t].key, [location |-> Here])
           /\ UNCHANGED <<store, outcomes>> /\ NoNews
  <1>1. job[t].kind = "location" /\ UNCHANGED <<store, outcomes>> /\ GoTo(t, "write")
        /\ Enqueue(t, job[t].key, [location |-> Here])
    BY DEF PositionFound, At, fsVars
  <1>2. currentUser \in Users
    BY <1>1, VerifyJob
  <1>3. JobsOK
    BY DEF AppIInv
  <1>4. NoNews
    BY <1>1, <1>3, QuietJobs
  <1> QED
    BY <1>1, <1>2, <1>4

\* A queued write keeps its operation, and with it what it may carry.
LEMMA QueuedListStays ==
    ASSUME AppIInv, JobsAge, NEW w, w.id \in TxIds, QueuedListOK(w)
    PROVE  QueuedListOK(w)'
  <1>1. PICK t, i : t = w.id /\ i = job[t]
    OBVIOUS
  <1>2. job'[t].kind = i.kind
    BY <1>1 DEF QueuedListOK, JobsAge
  <1>3. i.kind = "video" => job'[t].key = i.key
    <2>1. i.kind = "video" => i.key \in Users
      BY <1>1, RecordJob
    <2> QED
      BY <1>1, <2>1 DEF JobsAge
  <1> QED
    BY <1>1, <1>2, <1>3 DEF QueuedListOK

\* Every step keeps queued lists those of video operations.
LEMMA QueuedListsStay ==
    ASSUME AppIInv, JobsAge, [Next]_vars, QueuedListsOK
    PROVE  QueuedListsOK'
  <1>1. ASSUME NEW u \in Users, NEW i \in 1 .. Len(queue[u]), NEW w, w = queue[u][i]
        PROVE  QueuedListOK(w)'
    <2>1. w \in Writes /\ QueuedListOK(w)
      BY <1>1, QueueElements DEF QueuedListsOK
    <2>2. w.id \in TxIds
      BY <2>1 DEF Writes
    <2> QED
      BY <2>1, <2>2, QueuedListStays
  <1>2. ASSUME UNCHANGED queue PROVE QueuedListsOK'
    BY <1>1, <1>2 DEF QueuedListsOK
  <1>3. ASSUME NEW t, NEW o, Answer(t, o) PROVE QueuedListsOK'
    <2>1. PICK c : c = currentUser
      OBVIOUS
    <2>2. /\ \A u \in Users \ {c} : queue'[u] = queue[u]
          /\ Len(queue[c]) \in Nat
          /\ Len(queue'[c]) = Len(queue[c]) - 1
          /\ \A i \in 1 .. Len(queue'[c]) : queue'[c][i] = queue[c][i + 1]
      BY <1>3, <2>1, AfterAnswer
    <2>3. ASSUME NEW u \in Users, NEW i \in 1 .. Len(queue'[u]), NEW w, w = queue'[u][i]
          PROVE  QueuedListOK(w)'
      <3>1. CASE u # c
        BY <1>1, <2>2, <2>3, <3>1
      <3>2. CASE u = c
        <4>1. i + 1 \in 1 .. Len(queue[u]) /\ w = queue[u][i + 1]
          BY <2>2, <2>3, <3>2
        <4> QED
          BY <1>1, <4>1
      <3> QED
        BY <3>1, <3>2
    <2> QED
      BY <2>3 DEF QueuedListsOK
  <1>4. ASSUME NEW t, NEW k, NEW data, Enqueue(t, k, data), currentUser \in Users,
               QueuedListOK([id |-> t, key |-> k, data |-> data])'
        PROVE  QueuedListsOK'
    <2>1. PICK c : c = currentUser
      OBVIOUS
    <2>2. /\ \A u \in Users \ {c} : queue'[u] = queue[u]
          /\ Len(queue[c]) \in Nat
          /\ Len(queue'[c]) = Len(queue[c]) + 1
          /\ \A i \in 1 .. Len(queue[c]) : queue'[c][i] = queue[c][i]
          /\ queue'[c][Len(queue[c]) + 1] = [id |-> t, key |-> k, data |-> data]
      BY <1>4, <2>1, AfterEnqueue
    <2>3. ASSUME NEW u \in Users, NEW i \in 1 .. Len(queue'[u]), NEW w, w = queue'[u][i]
          PROVE  QueuedListOK(w)'
      <3>1. CASE u # c
        BY <1>1, <2>2, <2>3, <3>1
      <3>2. CASE u = c /\ i \in 1 .. Len(queue[c])
        BY <1>1, <2>2, <2>3, <3>2
      <3>3. CASE u = c /\ i \notin 1 .. Len(queue[c])
        <4>1. i = Len(queue[c]) + 1
          BY <2>2, <2>3, <3>3
        <4> QED
          BY <1>4, <2>2, <2>3, <3>3, <4>1
      <3> QED
        BY <3>1, <3>2, <3>3
    <2> QED
      BY <2>3 DEF QueuedListsOK
  <1>5. ASSUME NEW t \in TxIds, PositionFound(t) PROVE QueuedListsOK'
    <2>1. PICK k, data : k = job[t].key /\ data = [location |-> Here]
      OBVIOUS
    <2>2. job[t].kind = "location" /\ Enqueue(t, k, data) /\ currentUser \in Users
      BY <1>5, <2>1, LocatedWrite
    <2>3. job'[t].kind = "location"
      BY <2>2 DEF JobsAge
    <2>4. QueuedListOK([id |-> t, key |-> k, data |-> data])'
      BY <2>1, <2>3 DEF QueuedListOK
    <2> QED
      BY <1>4, <2>2, <2>4
  <1>6. ASSUME NEW t \in TxIds, VideoUploaded(t) PROVE QueuedListsOK'
    <2>1. PICK k, r : k = job[t].key /\ r = job[t].owner
      OBVIOUS
    <2>2. PICK a : /\ job[t].kind = "video" /\ k \in Users /\ currentUser \in Users
                   /\ Listed(a) = Listed(record[r].videos) \cup {t}
                   /\ Enqueue(t, k, [videos |-> a])
      BY <1>6, <2>1, UploadedWrite
    <2>3. job'[t].kind = "video" /\ job'[t].key = k
      BY <2>1, <2>2 DEF JobsAge
    <2>4. t \in Listed(a)
      BY <2>2
    <2>5. QueuedListOK([id |-> t, key |-> k, data |-> [videos |-> a]])'
      BY <2>3, <2>4 DEF QueuedListOK
    <2> QED
      BY <1>4, <2>2, <2>5
  <1> QED
    BY <1>2, <1>3, <1>5, <1>6, ListSteps
       DEF QuietStep, PipeStill, DeliverWrite, AnswerStep, RecordLoaded, pipeVars

\* What the load of a list replaces.
LEMMA LoadedList ==
    ASSUME AppIInv, NEW t \in TxIds, RecordLoaded(t), NEW r, r = job[t].owner
    PROVE  /\ r \in Records /\ Opened(r)
           /\ UNCHANGED <<store, queue, outcomes>> /\ NoNews
           /\ \A q \in Records \ {r} : record'[q] = record[q]
           /\ \/ record'[r] = record[r]
              \/ /\ record'[r].videos # <<>>
                 /\ record'[r].late = (record[r].videos # <<>>)
  <1>1. PICK i, x : i = job[t] /\ x = record[r]
    OBVIOUS
  <1>2. i.kind = "recordLoad" /\ i.stage = "snapshot" /\ i.owner = r
    BY <1>1 DEF RecordLoaded, At
  <1>3. r \in Records /\ Opened(r)
    BY <1>1, <1>2, RecordJob
  <1>4. /\ x = [status |-> x.status, home |-> x.home, user |-> x.user, videos |-> x.videos,
                late |-> x.late]
        /\ DOMAIN record = Records
    BY <1>1, <1>3, RecordFields DEF AppIInv, RecordOK
  <1>5. UNCHANGED <<store, queue, outcomes>>
    BY DEF RecordLoaded, fsVars, pipeVars
  <1>6. NoNews
    <2>1. JobsOK
      BY DEF AppIInv
    <2> QED
      BY <2>1, QuietJobs
  <1>7. PICK s : s = IF i.data # NoDoc /\ "videos" \in DOMAIN i.data THEN i.data.videos ELSE <<>>
    OBVIOUS
  <1>8. s = <<>> \/ s \in Seq(Clips)
    <2>1. JobOf(i)
      BY <1>1, <1>2, RecordJob
    <2>2. i.data = NoDoc \/ GoodDoc(i.data)
      BY <1>2, <2>1 DEF JobOf
    <2> QED
      BY <1>7, <2>2 DEF GoodDoc
  <1>9. PICK y, z : /\ y = [x EXCEPT !.videos = s]
                    /\ z = [y EXCEPT !.late = (x.videos # <<>>)]
    OBVIOUS
  <1>10. z.videos = s /\ z.late = (x.videos # <<>>)
    BY <1>4, <1>9
  <1>11. record' = record \/ (Len(s) > 0 /\ record' = [record EXCEPT ![r] = z])
    BY <1>1, <1>2, <1>4, <1>7, <1>9 DEF RecordLoaded
  <1>12. Len(s) > 0 => s # <<>>
    BY <1>8
  <1> QED
    BY <1>1, <1>3, <1>4, <1>5, <1>6, <1>10, <1>11, <1>12

\* A list that a load has replaced late is marked so for good.
LEMMA LateStays ==
    ASSUME AppIInv, [Next]_vars, LateOK
    PROVE  /\ LateOK'
           /\ \A r \in Records : Opened(r) /\ record[r].late => record'[r].late
  <1> DEFINE Aged(r) == /\ record'[r].late \in BOOLEAN
                        /\ record'[r].late => record'[r].videos # <<>>
                        /\ record[r].late => record'[r].late
  <1>1. ASSUME NEW r \in Records, Opened(r), record'[r].videos = record[r].videos,
               record'[r].late = record[r].late
        PROVE  Aged(r)
    BY <1>1 DEF LateOK
  <1>2. ASSUME NEW t \in TxIds, VideoUploaded(t), NEW r \in Records, Opened(r) PROVE Aged(r)
    <2>1. PICK q : q = job[t].owner
      OBVIOUS
    <2>2. PICK a : /\ Listed(a) = Listed(record[q].videos) \cup {t}
                   /\ a # <<>>
                   /\ record'[q].videos = a /\ record'[q].late = record[q].late
                   /\ \A p \in Records \ {q} : record'[p] = record[p]
                   /\ Enqueue(t, job[t].key, [videos |-> a])
      BY <1>2, <2>1, UploadedWrite, Zenon
    <2> QED
      BY <1>2, <2>2 DEF LateOK
  <1>3. ASSUME NEW t \in TxIds, RecordLoaded(t), NEW r \in Records, Opened(r) PROVE Aged(r)
    <2>1. PICK q : q = job[t].owner
      OBVIOUS
    <2>2. /\ \A p \in Records \ {q} : record'[p] = record[p]
          /\ \/ record'[q] = record[q]
             \/ /\ record'[q].videos # <<>>
                /\ record'[q].late = (record[q].videos # <<>>)
      BY <1>3, <2>1, LoadedList
    <2>3. record[r].late \in BOOLEAN /\ (record[r].late => record[r].videos # <<>>)
      BY <1>3 DEF LateOK
    <2>4. CASE record'[r] = record[r]
      BY <2>3, <2>4
    <2>5. CASE record'[r] # record[r]
      <3>1. r = q /\ record'[r].videos # <<>> /\ record'[r].late = (record[r].videos # <<>>)
        BY <2>2, <2>5
      <3>2. record'[r].late \in BOOLEAN
        BY <3>1
      <3> QED
        BY <2>3, <3>1, <3>2
    <2> QED
      BY <2>4, <2>5
  <1>4. ASSUME NEW r \in Records, Opened(r) PROVE Aged(r)
    BY <1>1, <1>2, <1>3, <1>4, ListSteps DEF QuietStep, ListsHeld, AnswerStep
  <1>5. ASSUME NEW r \in Records, ~Opened(r), Opened(r)'
        PROVE  record'[r].late \in BOOLEAN /\ ~record'[r].late
    <2>1. PICK h \in Homes, t \in TxIds : OpenRecord(h, r, t)
      BY <1>5, NewRecordScreen
    <2>2. DOMAIN record = Records
      BY DEF AppIInv, RecordOK
    <2>3. record'[r] = [status |-> "mounted", home |-> h, user |-> currentUser,
                        videos |-> <<>>, late |-> FALSE]
      BY <2>1, <2>2 DEF OpenRecord
    <2> QED
      BY <2>3
  <1> QED
    BY <1>4, <1>5 DEF LateOK

\* Blocks that write more than a token are those of loads and of SAVE.
LEMMA RequestsListlessStay ==
    ASSUME AppIInv, [Next]_vars, AppAges, RequestsListless
    PROVE  RequestsListless'
  <1> SUFFICES ASSUME NEW m \in commits' PROVE ListlessRequest(m)'
    BY DEF RequestsListless
  <1>1. CASE m \in commits
    <2>1. m.tx \in TxIds /\ JobOK(job[m.tx], tx[m.tx].phase) /\ tx[m.tx].phase # "idle"
      BY <1>1 DEF AppIInv, FsOK, RequestsOK, RequestOK, JobsOK
    <2>2. job[m.tx].key \in Users /\ job[m.tx].kind # "none"
      BY <2>1, NoUserAssumption DEF JobOK, NoJob, JobKinds
    <2>3. job'[m.tx].key = job[m.tx].key /\ job'[m.tx].kind = job[m.tx].kind
      BY <2>1, <2>2 DEF AppAges, JobsAge
    <2> QED
      BY <1>1, <2>3 DEF RequestsListless, ListlessRequest
  <1>2. CASE m \notin commits
    <2>1. UNCHANGED job /\ WriteOf(m.tx, m.mutations[job[m.tx].key].data)
      BY <1>2, RequestsCome
    <2>2. PICK t, d : t = m.tx /\ d = m.mutations[job[t].key].data
      OBVIOUS
    <2>3. job[t].kind \in {"infoLoad", "verifyLoad", "save"} \/ "videos" \notin DOMAIN d
      BY <2>1, <2>2 DEF WriteOf, VerifyDoc
    <2> QED
      BY <2>1, <2>2, <2>3 DEF ListlessRequest
  <1> QED
    BY <1>1, <1>2

-----------------------------------------------------------------------------
(***************************************************************************)
(* One writer.                                                             *)
(***************************************************************************)

\* A RecordScreen that is alone with its list was so from the start.
LEMMA OneWriterBefore ==
    ASSUME AppIInv, [Next]_vars, AppAges, LateOK, NEW r \in Records, Opened(r), OneWriter(r)'
    PROVE  OneWriter(r) /\ record'[r].user = record[r].user
  <1>1. PICK k : k = record[r].user
    OBVIOUS
  <1>2. k \in Users /\ record'[r].user = k
    BY <1>1 DEF AppIInv, RecordOK, AppAges, ScreensAge
  <1>3. ~record[r].late
    BY LateStays DEF OneWriter
  <1>4. ASSUME NEW s \in TxIds, job[s].key = k
        PROVE  job[s].kind # "save" /\ (job[s].kind = "video" => job[s].owner = r)
    <2>1. job'[s].key = k
      BY <1>2, <1>4 DEF AppAges, JobsAge
    <2>2. job'[s].kind # "save" /\ (job'[s].kind = "video" => job'[s].owner = r)
      BY <1>2, <2>1 DEF OneWriter
    <2> QED
      BY <2>2 DEF AppAges, JobsAge
  <1>5. ASSUME NEW q \in Requests, Served(q) PROVE request[q].user = k
    <2>1. AccountIInv /\ [AccountNext]_accountVars
      BY AppAccountStep DEF AppIInv
    <2>2. Served(q)' /\ request'[q].user = request[q].user
      BY <1>5, <2>1, SignInsAreServed
    <2> QED
      BY <1>2, <2>2 DEF OneWriter
  <1> QED
    BY <1>1, <1>2, <1>3, <1>4, <1>5 DEF OneWriter

\* The account of the list is the one that is signed in.
LEMMA SessionStays ==
    ASSUME AppIInv, [Next]_vars, NEW r \in Records, NEW k, k = record'[r].user,
           OneWriter(r)', currentUser = k
    PROVE  currentUser' = k
  <1>1. AccountIInv /\ [AccountNext]_accountVars
    BY AppAccountStep DEF AppIInv
  <1>2. currentUser' = currentUser \/ \E q \in Requests : Served(q)' /\ request'[q].user = currentUser'
    BY <1>1, SignInsAreServed
  <1> QED
    BY <1>2 DEF OneWriter

DocVideos(d) == IF d # NoDoc /\ "videos" \in DOMAIN d THEN Listed(d.videos) ELSE {}

\* The videos of a document, by its content.
LEMMA VideosOf == \A k : Videos(k) = DocVideos(store[k]) /\ Videos(k)' = DocVideos(store'[k])
  BY DEF Videos, DocVideos, HasField, Listed

\* A commit takes no video from a document nobody saves.
LEMMA CommitKeepsVideos ==
    ASSUME AppIInv, RequestsListless, NEW m \in commits, BackendCommit(m), UNCHANGED job,
           NEW k \in Keys, \A s \in TxIds : job[s].key = k => job[s].kind # "save"
    PROVE  Videos(k) \subseteq Videos(k)'
  <1>1. FsOK /\ JobsOK
    BY DEF AppIInv
  <1>2. PICK t, i, d : t = m.tx /\ i = job[t] /\ d = m.mutations[k].data
    OBVIOUS
  <1>3. CASE store'[k] = store[k]
    BY <1>3, VideosOf
  <1>4. CASE store'[k] # store[k] /\ store[k] = NoDoc
    BY <1>4, VideosOf DEF DocVideos
  <1>5. CASE store'[k] # store[k] /\ store[k] # NoDoc
    <2>1. i.key = k /\ store[k] = m.reads[k] /\ store'[k] = Merge(store[k], d)
      BY <1>1, <1>2, <1>5, CommitGrows
    <2>2. t \in TxIds /\ RequestOf(m, i.kind, k)
      BY <1>1, <1>2, <2>1 DEF FsOK, RequestsOK, RequestOK
    <2>3. i.kind # "save"
      BY <1>2, <2>1, <2>2
    <2>4. CASE i.kind \in {"infoLoad", "verifyLoad"}
      <3>1. d = store[k]
        BY <1>2, <1>5, <2>1, <2>2, <2>4 DEF RequestOf, WriteOfKind
      <3>2. store[k] \in Docs
        BY <1>1, <1>5 DEF FsOK, ServerOK, GoodDoc
      <3> QED
        BY <1>5, <2>1, <3>1, <3>2, MergeSame
    <2>5. CASE "videos" \notin DOMAIN d
      <3>1. PICK e : e = Merge(store[k], d)
        OBVIOUS
      <3>2. /\ "videos" \in DOMAIN store[k] => "videos" \in DOMAIN e /\ e["videos"] = store[k]["videos"]
        BY <2>5, <3>1 DEF Merge
      <3>3. e # NoDoc
        <4>1. GoodDoc(store[k]) /\ GoodDoc(d) /\ BackendGrows
          BY <1>1, <1>2, <1>5, <2>2, CommitGrows DEF FsOK, ServerOK, RequestOf, BlockWrite
        <4>2. e \in Docs
          BY <2>1, <3>1, <4>1, <1>5 DEF BackendGrows, Grows, GoodDoc
        <4> QED
          BY <4>2, DocsAre
      <3>4. store'[k] = e
        BY <2>1, <3>1
      <3> QED
        BY <1>5, <3>2, <3>3, <3>4, VideosOf DEF DocVideos
    <2> QED
      BY <1>2, <2>1, <2>3, <2>4, <2>5 DEF RequestsListless, ListlessRequest
  <1> QED
    BY <1>3, <1>4, <1>5

\* What was acknowledged is so since an earlier step, or since this one.
LEMMA AcknowledgedBefore ==
    ASSUME AppIInv, JobsAge, NEW t \in TxIds, job[t].stage = "acknowledged"
    PROVE  job[t].kind = "video" /\ job[t].key \in Users /\ job'[t].key = job[t].key
  <1>1. PICK i : i = job[t]
    OBVIOUS
  <1>2. JobOK(i, tx[t].phase)
    BY <1>1 DEF AppIInv, JobsOK
  <1>3. i.kind = "video"
    BY <1>1, <1>2 DEF JobOK, NoJob, JobOf, JobKinds
  <1>4. i.key \in Users
    BY <1>1, <1>3, RecordJob
  <1> QED
    BY <1>1, <1>3, <1>4 DEF JobsAge

\* Nobody's news: the queue, the lists held and the acknowledgements are as before.
LEMMA QuietKeeps ==
    ASSUME AppIInv, JobsAge, NEW r, NEW k, PipeStill, NoNews,
           record'[r].videos = record[r].videos, Videos(k) \subseteq Videos(k)',
           QueueOrdered(r, k), ConfirmedStored(k), AcknowledgedEverywhere(r, k)
    PROVE  QueueOrdered(r, k)' /\ ConfirmedStored(k)' /\ AcknowledgedEverywhere(r, k)'
  <1>1. UNCHANGED queue
    BY DEF PipeStill
  <1>2. QueueOrdered(r, k)'
    BY <1>1 DEF QueueOrdered, ListWrite
  <1>3. ConfirmedStored(k)'
    <2>1. CASE UNCHANGED outcomes
      BY <1>1, <2>1 DEF ConfirmedStored, ListWrite
    <2>2. CASE outcomes' = <<>>
      <3>1. Len(outcomes') = 0
        BY <2>2
      <3>2. 1 .. Len(outcomes') = {}
        BY <3>1
      <3> QED
        BY <3>2 DEF ConfirmedStored
    <2> QED
      BY <2>1, <2>2 DEF PipeStill
  <1>4. \A t \in TxIds : job'[t].stage = "acknowledged" /\ job'[t].key = k =>
           job[t].stage = "acknowledged" /\ job[t].key = k
    BY AcknowledgedBefore DEF NoNews
  <1>5. AcknowledgedEverywhere(r, k)'
    BY <1>1, <1>4 DEF AcknowledgedEverywhere, ListWrite
  <1> QED
    BY <1>2, <1>3, <1>5

\* Where all lists are its own, the active queue is the one that holds them.
LEMMA DeliverKeeps ==
    ASSUME AppIInv, JobsAge, DeliverWrite, UNCHANGED record, NEW r \in Records, NEW k \in Keys,
           k = currentUser, UNCHANGED currentUser,
           QueueOrdered(r, k), ConfirmedStored(k), AcknowledgedEverywhere(r, k)
    PROVE  QueueOrdered(r, k)' /\ ConfirmedStored(k)' /\ AcknowledgedEverywhere(r, k)'
  <1>1. PICK W, n, w : W = queue[k] /\ n = Len(outcomes) + 1 /\ w = W[n]
    OBVIOUS
  <1>2. FsOK /\ k \in Users /\ k # NoUser /\ ActiveQueue = W
    BY <1>1, KeysAreUids, NoUserAssumption DEF AppIInv, ActiveQueue
  <1>3. /\ UNCHANGED <<queue, job>>
        /\ n \in 1 .. Len(W) /\ w \in Writes /\ Len(W) \in Nat
        /\ outcomes \in Seq({"ok", "notFound"})
    <2>1. Len(W) \in Nat /\ \A i \in 1 .. Len(W) : W[i] \in Writes
      BY <1>1, <1>2, QueueElements
    <2>2. outcomes \in Seq({"ok", "notFound"})
      BY DEF AppIInv, QueueOK
    <2>3. n <= Len(W)
      BY <1>1, <1>2 DEF DeliverWrite
    <2>4. n \in 1 .. Len(W)
      BY <1>1, <2>1, <2>2, <2>3
    <2> QED
      BY <1>1, <2>1, <2>2, <2>4 DEF DeliverWrite
  <1>4. w.key \in Keys /\ UpdateDoc(w.data)
    BY <1>3, KeysAreUids DEF Writes
  <1>5. QueueOrdered(r, k)'
    <2>1. queue' = queue /\ record' = record
      BY <1>3
    <2>2. ASSUME NEW u \in Users, NEW i \in 1 .. Len(queue'[u]), ListWrite(queue'[u][i], k)
          PROVE  u = k /\ Listed(queue'[u][i].data.videos) \subseteq Listed(record'[r].videos)
      BY <2>1, <2>2 DEF QueueOrdered
    <2>3. ASSUME NEW i \in 1 .. Len(queue'[k]), NEW j \in 1 .. Len(queue'[k]), i <= j,
                 ListWrite(queue'[k][i], k), ListWrite(queue'[k][j], k)
          PROVE  Listed(queue'[k][i].data.videos) \subseteq Listed(queue'[k][j].data.videos)
      BY <2>1, <2>3 DEF QueueOrdered
    <2> QED
      BY <2>2, <2>3 DEF QueueOrdered, ListWrite
  <1>6. PICK o : /\ outcomes' = Append(outcomes, o)
                 /\ \/ /\ o = "ok" /\ store[w.key] # NoDoc
                       /\ store' = [store EXCEPT ![w.key] = Merge(store[w.key], w.data)]
                    \/ o = "notFound" /\ UNCHANGED store
    BY <1>1, <1>2 DEF DeliverWrite, WriteDocument, backendVars
  <1>7. /\ Len(outcomes') = n
        /\ \A i \in 1 .. (n - 1) : i \in 1 .. Len(outcomes) /\ outcomes'[i] = outcomes[i]
        /\ outcomes'[n] = o
    BY <1>1, <1>3, <1>6
  <1>8. store \in [Keys -> Docs \cup {NoDoc}]
    BY <1>2 DEF FsOK, ServerOK
  <1>9. CASE o = "ok" /\ ListWrite(w, k)
    <2>1. store'[k] = Merge(store[k], w.data) /\ store[k] # NoDoc /\ "videos" \in DOMAIN w.data
      BY <1>4, <1>6, <1>8, <1>9 DEF ListWrite
    <2>2. PICK e : e = Merge(store[k], w.data)
      OBVIOUS
    <2>3. "videos" \in DOMAIN e /\ e["videos"] = w.data["videos"]
      BY <2>1, <2>2 DEF Merge
    <2>4. e # NoDoc
      <3>1. GoodDoc(store[k]) /\ GoodDoc(w.data)
        BY <1>2, <1>4, <2>1 DEF FsOK, ServerOK, UpdateDoc
      <3>2. e \in Docs
        BY <2>2, <3>1, MergeDocs DEF GoodDoc
      <3> QED
        BY <3>2, DocsAre
    <2>5. Videos(k)' = Listed(w.data.videos)
      BY <2>1, <2>2, <2>3, <2>4, VideosOf DEF DocVideos
    <2>6. ASSUME NEW i \in 1 .. n, ListWrite(W[i], k) PROVE Listed(W[i].data.videos) \subseteq Videos(k)'
      <3>1. i \in 1 .. Len(W) /\ i <= n
        BY <1>3, <2>6
      <3>2. \A a, b \in 1 .. Len(W) :
              a <= b /\ ListWrite(W[a], k) /\ ListWrite(W[b], k) =>
                  Listed(W[a].data.videos) \subseteq Listed(W[b].data.videos)
        BY <1>1 DEF QueueOrdered
      <3>3. n \in 1 .. Len(W) /\ ListWrite(W[n], k) /\ ListWrite(W[i], k)
        BY <1>1, <1>3, <1>9, <2>6
      <3>4. Listed(W[i].data.videos) \subseteq Listed(W[n].data.videos)
        BY <3>1, <3>2, <3>3
      <3> QED
        BY <1>1, <2>5, <3>4
    <2>7. ConfirmedStored(k)'
      BY <1>1, <1>3, <1>7, <2>6 DEF ConfirmedStored, ListWrite
    <2>8. \A t \in TxIds : job[t].stage = "acknowledged" /\ job[t].key = k => t \in Videos(k)'
      BY <1>1, <1>3, <1>9, <2>5 DEF AcknowledgedEverywhere
    <2>9. AcknowledgedEverywhere(r, k)'
      BY <1>3, <2>8 DEF AcknowledgedEverywhere, ListWrite
    <2> QED
      BY <1>5, <2>7, <2>9
  <1>10. CASE ~(o = "ok" /\ ListWrite(w, k))
    <2>1. Videos(k)' = Videos(k)
      <3>1. CASE o = "ok" /\ w.key = k
        <4>1. store'[k] = Merge(store[k], w.data) /\ store[k] # NoDoc /\ "videos" \notin DOMAIN w.data
          BY <1>4, <1>6, <1>8, <1>10, <3>1 DEF ListWrite
        <4>2. PICK e : e = Merge(store[k], w.data)
          OBVIOUS
        <4>3. /\ "videos" \in DOMAIN e <=> "videos" \in DOMAIN store[k]
              /\ "videos" \in DOMAIN store[k] => e["videos"] = store[k]["videos"]
          BY <4>1, <4>2 DEF Merge
        <4>4. e # NoDoc
          <5>1. GoodDoc(store[k]) /\ GoodDoc(w.data)
            BY <1>2, <1>4, <4>1 DEF FsOK, ServerOK, UpdateDoc
          <5>2. e \in Docs
            BY <4>2, <5>1, MergeDocs DEF GoodDoc
          <5> QED
            BY <5>2, DocsAre
        <4>5. store'[k] = e
          BY <4>1, <4>2
        <4> QED
          BY <4>1, <4>3, <4>4, <4>5, VideosOf DEF DocVideos
      <3>2. CASE ~(o = "ok" /\ w.key = k)
        <4>1. store'[k] = store[k]
          BY <1>4, <1>6, <1>8, <3>2
        <4> QED
          BY <4>1, VideosOf
      <3> QED
        BY <3>1, <3>2
    <2>2. ASSUME NEW i \in 1 .. n, outcomes'[i] = "ok", ListWrite(W[i], k)
          PROVE  Listed(W[i].data.videos) \subseteq Videos(k)
      <3>1. i # n
        BY <1>1, <1>7, <1>10, <2>2
      <3>2. i \in 1 .. (n - 1)
        BY <1>3, <2>2, <3>1
      <3>3. i \in 1 .. Len(outcomes) /\ outcomes[i] = "ok"
        BY <1>7, <2>2, <3>2
      <3> QED
        BY <1>1, <2>2, <3>3 DEF ConfirmedStored
    <2>3. ConfirmedStored(k)'
      BY <1>1, <1>3, <1>7, <2>1, <2>2 DEF ConfirmedStored, ListWrite
    <2>4. AcknowledgedEverywhere(r, k)'
      BY <1>3, <2>1 DEF AcknowledgedEverywhere, ListWrite
    <2> QED
      BY <1>5, <2>3, <2>4
  <1> QED
    BY <1>9, <1>10

\* An answer: the first write goes, and if it was a list, its video is in all others.
LEMMA AnswerKeeps ==
    ASSUME AppIInv, JobsAge, QueuedListsOK, NEW s \in TxIds, AnswerStep(s), NEW r \in Records,
           NEW k \in Users, k = currentUser, UNCHANGED currentUser,
           QueueOrdered(r, k), ConfirmedStored(k), AcknowledgedEverywhere(r, k)
    PROVE  QueueOrdered(r, k)' /\ ConfirmedStored(k)' /\ AcknowledgedEverywhere(r, k)'
  <1>1. PICK o : Answer(s, o)
    BY DEF AnswerStep
  <1>2. PICK W, V, O, P : W = queue[k] /\ V = queue'[k] /\ O = outcomes /\ P = outcomes'
    OBVIOUS
  <1>3. /\ \A u \in Users \ {k} : queue'[u] = queue[u]
        /\ Len(W) \in Nat /\ Len(W) >= 1 /\ Len(V) = Len(W) - 1
        /\ \A i \in 1 .. Len(V) : V[i] = W[i + 1]
        /\ W[1].id = s
        /\ Len(O) \in Nat /\ Len(O) >= 1 /\ Len(O) <= Len(W) /\ Len(P) = Len(O) - 1
        /\ \A i \in 1 .. Len(P) : P[i] = O[i + 1]
        /\ O[1] = o
    BY <1>1, <1>2, AfterAnswer
  <1>4. UNCHANGED record /\ Videos(k)' = Videos(k)
    BY VideosOf DEF AnswerStep
  <1>5. \A i \in 1 .. Len(V) : i + 1 \in 1 .. Len(W) /\ V[i] = W[i + 1]
    BY <1>3
  <1>6. QueueOrdered(r, k)'
    <2>1. ASSUME NEW u \in Users, NEW i \in 1 .. Len(queue'[u]), ListWrite(queue'[u][i], k)
          PROVE  u = k /\ Listed(queue'[u][i].data.videos) \subseteq Listed(record[r].videos)
      <3>1. CASE u # k
        BY <1>3, <2>1, <3>1 DEF QueueOrdered
      <3>2. CASE u = k
        BY <1>2, <1>5, <2>1, <3>2 DEF QueueOrdered
      <3> QED
        BY <3>1, <3>2
    <2>2. ASSUME NEW i \in 1 .. Len(V), NEW j \in 1 .. Len(V), i <= j,
                 ListWrite(V[i], k), ListWrite(V[j], k)
          PROVE  Listed(V[i].data.videos) \subseteq Listed(V[j].data.videos)
      <3>1. PICK a, b : a = i + 1 /\ b = j + 1
        OBVIOUS
      <3>2. a \in 1 .. Len(W) /\ b \in 1 .. Len(W) /\ a <= b /\ V[i] = W[a] /\ V[j] = W[b]
        BY <1>5, <2>2, <3>1
      <3>3. ListWrite(W[a], k) /\ ListWrite(W[b], k)
        BY <2>2, <3>2
      <3>4. Listed(W[a].data.videos) \subseteq Listed(W[b].data.videos)
        BY <1>2, <3>2, <3>3 DEF QueueOrdered
      <3> QED
        BY <3>2, <3>4
    <2> QED
      BY <1>2, <1>4, <2>1, <2>2 DEF QueueOrdered, ListWrite
  <1>7. ConfirmedStored(k)'
    <2>1. ASSUME NEW i \in 1 .. Len(P), P[i] = "ok", ListWrite(V[i], k)
          PROVE  Listed(V[i].data.videos) \subseteq Videos(k)
      <3>1. i + 1 \in 1 .. Len(O) /\ i \in 1 .. Len(V) /\ O[i + 1] = "ok"
        BY <1>3, <2>1
      <3> QED
        BY <1>2, <1>5, <2>1, <3>1 DEF ConfirmedStored
    <2> QED
      BY <1>2, <1>4, <2>1 DEF ConfirmedStored, ListWrite
  <1>8. ASSUME NEW t \in TxIds, job[t].stage = "acknowledged", job[t].key = k
        PROVE  /\ t \in Listed(record[r].videos) /\ t \in Videos(k)
               /\ \A i \in 1 .. Len(V) : ListWrite(V[i], k) => t \in Listed(V[i].data.videos)
    BY <1>2, <1>5, <1>8 DEF AcknowledgedEverywhere
  <1>9. ASSUME VideoSaved(s), job'[s].key = k
        PROVE  /\ s \in Listed(record[r].videos) /\ s \in Videos(k)
               /\ \A i \in 1 .. Len(V) : ListWrite(V[i], k) => s \in Listed(V[i].data.videos)
    <2>1. job[s].kind = "video" /\ Answer(s, "ok")
      BY <1>9 DEF VideoSaved, At
    <2>2. job[s].key = k
      <3>1. job[s].key \in Users
        BY <2>1, RecordJob
      <3> QED
        BY <1>9, <3>1 DEF JobsAge
    <2>3. 1 \in 1 .. Len(W) /\ 1 \in 1 .. Len(O) /\ O[1] = "ok"
      BY <1>2, <1>3, <2>1 DEF Answer
    <2>4. QueuedListOK(W[1])
      BY <1>2, <2>3 DEF QueuedListsOK
    <2>5. ListWrite(W[1], k) /\ s \in Listed(W[1].data.videos)
      BY <1>3, <2>1, <2>2, <2>4 DEF QueuedListOK, ListWrite
    <2>6. Listed(W[1].data.videos) \subseteq Listed(record[r].videos)
      BY <1>2, <2>3, <2>5 DEF QueueOrdered
    <2>7. Listed(W[1].data.videos) \subseteq Videos(k)
      BY <1>2, <2>3, <2>5 DEF ConfirmedStored
    <2>8. ASSUME NEW i \in 1 .. Len(V), ListWrite(V[i], k)
          PROVE  Listed(W[1].data.videos) \subseteq Listed(V[i].data.videos)
      <3>1. i + 1 \in 1 .. Len(W) /\ 1 <= i + 1 /\ V[i] = W[i + 1]
        BY <1>5, <2>8
      <3> QED
        BY <1>2, <2>3, <2>5, <2>8, <3>1 DEF QueueOrdered
    <2> QED
      BY <2>5, <2>6, <2>7, <2>8
  <1>10. ASSUME NEW t \in TxIds, job'[t].stage = "acknowledged", job'[t].key = k
         PROVE  /\ t \in Listed(record[r].videos) /\ t \in Videos(k)
                /\ \A i \in 1 .. Len(V) : ListWrite(V[i], k) => t \in Listed(V[i].data.videos)
    <2>1. job[t].stage = "acknowledged" \/ (t = s /\ VideoSaved(s))
      <3>1. CASE NoNews
        BY <1>10, <3>1 DEF NoNews
      <3>2. CASE VideoSaved(s)
        <4>1. t # s => job'[t] = job[t]
          BY <3>2 DEF VideoSaved, GoTo, AppIInv, JobsOK
        <4> QED
          BY <1>10, <3>2, <4>1
      <3> QED
        BY <3>1, <3>2 DEF AnswerStep
    <2>2. CASE job[t].stage = "acknowledged"
      BY <1>8, <1>10, <2>2, AcknowledgedBefore
    <2> QED
      BY <1>9, <1>10, <2>1, <2>2
  <1>11. AcknowledgedEverywhere(r, k)'
    BY <1>2, <1>4, <1>10 DEF AcknowledgedEverywhere, ListWrite
  <1> QED
    BY <1>6, <1>7, <1>11

\* A new write: if it is a list, it is the one held, which has all before it.
LEMMA EnqueueKeeps ==
    ASSUME AppIInv, JobsAge, NoNews, NEW r \in Records, NEW k \in Users, k = currentUser,
           UNCHANGED <<store, outcomes, currentUser>>,
           NEW t, NEW key, NEW data, Enqueue(t, key, data),
           Listed(record[r].videos) \subseteq Listed(record'[r].videos),
           key = k /\ "videos" \in DOMAIN data => Listed(data.videos) = Listed(record'[r].videos),
           QueueOrdered(r, k), ConfirmedStored(k), AcknowledgedEverywhere(r, k)
    PROVE  QueueOrdered(r, k)' /\ ConfirmedStored(k)' /\ AcknowledgedEverywhere(r, k)'
  <1>1. PICK W, V, w, n, L, M :
           /\ W = queue[k] /\ V = queue'[k] /\ w = [id |-> t, key |-> key, data |-> data]
           /\ n = Len(queue[k])
           /\ L = Listed(record[r].videos) /\ M = Listed(record'[r].videos)
    OBVIOUS
  <1>2. /\ \A u \in Users \ {k} : queue'[u] = queue[u]
        /\ n \in Nat /\ n = Len(W) /\ Len(V) = n + 1
        /\ \A i \in 1 .. n : V[i] = W[i]
        /\ V[n + 1] = w
    BY <1>1, AfterEnqueue
  <1>3. L \subseteq M /\ (ListWrite(w, k) => Listed(w.data.videos) = M)
    BY <1>1 DEF ListWrite
  <1>4. \A i \in 1 .. n : ListWrite(W[i], k) => Listed(W[i].data.videos) \subseteq L
    BY <1>1, <1>2 DEF QueueOrdered
  <1>5. \A i, j \in 1 .. n : i <= j /\ ListWrite(W[i], k) /\ ListWrite(W[j], k) =>
            Listed(W[i].data.videos) \subseteq Listed(W[j].data.videos)
    BY <1>1, <1>2 DEF QueueOrdered
  <1>6. \A i \in 1 .. Len(V) : i \in 1 .. n \/ i = n + 1
    BY <1>2
  <1>7. QueueOrdered(r, k)'
    <2>1. ASSUME NEW u \in Users, NEW i \in 1 .. Len(queue'[u]), ListWrite(queue'[u][i], k)
          PROVE  u = k /\ Listed(queue'[u][i].data.videos) \subseteq M
      <3>1. CASE u # k
        BY <1>1, <1>2, <2>1, <3>1 DEF QueueOrdered
      <3>2. CASE u = k
        BY <1>1, <1>2, <1>3, <1>4, <1>6, <2>1, <3>2
      <3> QED
        BY <3>1, <3>2
    <2>2. ASSUME NEW i \in 1 .. Len(V), NEW j \in 1 .. Len(V), i <= j,
                 ListWrite(V[i], k), ListWrite(V[j], k)
          PROVE  Listed(V[i].data.videos) \subseteq Listed(V[j].data.videos)
      <3>1. CASE j = n + 1
        <4>1. Listed(V[j].data.videos) = M
          BY <1>2, <1>3, <2>2, <3>1
        <4>2. Listed(V[i].data.videos) \subseteq M
          BY <1>1, <2>1, <2>2
        <4> QED
          BY <4>1, <4>2
      <3>2. CASE j \in 1 .. n
        <4>1. i \in 1 .. n
          BY <1>2, <1>6, <2>2, <3>2
        <4> QED
          BY <1>2, <1>5, <2>2, <3>2, <4>1
      <3> QED
        BY <1>6, <3>1, <3>2
    <2> QED
      BY <1>1, <2>1, <2>2 DEF QueueOrdered, ListWrite
  <1>8. Videos(k)' = Videos(k)
    BY VideosOf
  <1>9. ConfirmedStored(k)'
    <2>1. Len(outcomes) <= n /\ Len(outcomes) \in Nat
      <3>1. ActiveQueue = W
        BY <1>1, NoUserAssumption DEF ActiveQueue
      <3> QED
        BY <1>2, <3>1 DEF AppIInv, QueueOK
    <2>2. ASSUME NEW i \in 1 .. Len(outcomes), outcomes[i] = "ok", ListWrite(V[i], k)
          PROVE  Listed(V[i].data.videos) \subseteq Videos(k)
      <3>1. i \in 1 .. n
        BY <1>2, <2>1
      <3> QED
        BY <1>1, <1>2, <2>2, <3>1 DEF ConfirmedStored
    <2> QED
      BY <1>1, <1>8, <2>2 DEF ConfirmedStored, ListWrite
  <1>10. ASSUME NEW s \in TxIds, job'[s].stage = "acknowledged", job'[s].key = k
         PROVE  s \in M /\ s \in Videos(k)
                /\ \A i \in 1 .. Len(V) : ListWrite(V[i], k) => s \in Listed(V[i].data.videos)
    <2>1. job[s].stage = "acknowledged" /\ job[s].key = k
      BY <1>10, AcknowledgedBefore DEF NoNews
    <2>2. /\ s \in L /\ s \in Videos(k)
          /\ \A i \in 1 .. n : ListWrite(W[i], k) => s \in Listed(W[i].data.videos)
      BY <1>1, <1>2, <2>1 DEF AcknowledgedEverywhere
    <2> QED
      BY <1>2, <1>3, <1>6, <2>2
  <1>11. AcknowledgedEverywhere(r, k)'
    BY <1>1, <1>8, <1>10 DEF AcknowledgedEverywhere, ListWrite
  <1> QED
    BY <1>7, <1>9, <1>11

\* A list that is loaded in time replaces an empty one: nothing is queued or
\* acknowledged yet.
LEMMA LoadKeeps ==
    ASSUME AppIInv, JobsAge, QueuedListsOK, NEW t \in TxIds, RecordLoaded(t), NEW r \in Records,
           NEW k \in Users, k = currentUser, UNCHANGED currentUser, ~record'[r].late,
           QueueOrdered(r, k), ConfirmedStored(k), AcknowledgedEverywhere(r, k)
    PROVE  QueueOrdered(r, k)' /\ ConfirmedStored(k)' /\ AcknowledgedEverywhere(r, k)'
  <1>1. PICK q : q = job[t].owner
    OBVIOUS
  <1>2. /\ UNCHANGED <<store, queue, outcomes>> /\ NoNews
        /\ \A p \in Records \ {q} : record'[p] = record[p]
        /\ \/ record'[q] = record[q]
           \/ /\ record'[q].videos # <<>>
              /\ record'[q].late = (record[q].videos # <<>>)
    BY <1>1, LoadedList
  <1>3. Videos(k)' = Videos(k) /\ PipeStill
    BY <1>2, VideosOf DEF PipeStill
  <1>4. CASE record'[r] = record[r]
    BY <1>2, <1>3, <1>4, QuietKeeps
  <1>5. CASE record'[r] # record[r]
    <2>1. record[r].videos = <<>>
      BY <1>2, <1>5
    <2>2. Listed(record[r].videos) = {}
      BY <2>1 DEF Listed
    <2>3. ASSUME NEW u \in Users, NEW i \in 1 .. Len(queue[u]), ListWrite(queue[u][i], k) PROVE FALSE
      <3>1. Listed(queue[u][i].data.videos) = {}
        BY <2>2, <2>3 DEF QueueOrdered
      <3>2. queue[u][i].id \in Listed(queue[u][i].data.videos)
        BY <2>3 DEF QueuedListsOK, QueuedListOK, ListWrite
      <3> QED
        BY <3>1, <3>2
    <2>4. \A s \in TxIds : ~(job[s].stage = "acknowledged" /\ job[s].key = k)
      BY <2>2 DEF AcknowledgedEverywhere
    <2>5. \A s \in TxIds : ~(job'[s].stage = "acknowledged" /\ job'[s].key = k)
      BY <1>2, <2>4, AcknowledgedBefore DEF NoNews
    <2>6. QueueOrdered(r, k)'
      BY <1>2, <2>3 DEF QueueOrdered, ListWrite
    <2>7. ConfirmedStored(k)'
      BY <1>2, <1>3 DEF ConfirmedStored, ListWrite
    <2>8. AcknowledgedEverywhere(r, k)'
      BY <2>5 DEF AcknowledgedEverywhere
    <2> QED
      BY <2>6, <2>7, <2>8
  <1> QED
    BY <1>4, <1>5

\* A RecordScreen that has just been opened has written nothing.
LEMMA NewWriter ==
    ASSUME AppIInv, AppIInv', [Next]_vars, AppAges, QueuedListsOK', NEW r \in Records, ~Opened(r),
           OneWriter(r)'
    PROVE  ListKept(r)'
  <1>1. PICK k : k = record'[r].user
    OBVIOUS
  <1>2. PICK h \in Homes, t \in TxIds : OpenRecord(h, r, t)
    BY NewRecordScreen DEF OneWriter
  <1>3. currentUser' = k
    BY <1>1, NewRecordScreen DEF OneWriter, accountVars
  <1>4. ASSUME NEW s \in TxIds, job'[s].kind = "video", job'[s].key = k PROVE FALSE
    <2>1. job'[s].owner = r
      BY <1>1, <1>4 DEF OneWriter
    <2>2. s # t
      BY <1>2, <1>4 DEF OpenRecord, Begin, AppIInv, JobsOK
    <2>3. job'[s] = job[s]
      BY <1>2, <2>2 DEF OpenRecord, Begin
    <2> QED
      BY <1>4, <2>1, <2>3, RecordJob
  <1>5. ASSUME NEW u \in Users, NEW i \in 1 .. Len(queue'[u]), ListWrite(queue'[u][i], k) PROVE FALSE
    <2>1. PICK w : w = queue'[u][i]
      OBVIOUS
    <2>2. w \in Writes
      <3>1. queue'[u] \in Seq(Writes)
        <4>1. queue' \in [Users -> Seq(Writes)']
          BY DEF AppIInv, QueueOK
        <4>2. Writes' = Writes
          BY DEF Writes, UpdateDoc, GoodDoc
        <4> QED
          BY <4>1, <4>2
      <3> QED
        BY <1>5, <2>1, <3>1
    <2>3. w.id \in TxIds /\ w.key = k /\ "videos" \in DOMAIN w.data
      BY <1>5, <2>1, <2>2 DEF Writes, ListWrite
    <2>4. QueuedListOK(w)'
      BY <1>5, <2>1 DEF QueuedListsOK
    <2> QED
      BY <1>4, <2>3, <2>4 DEF QueuedListOK
  <1>6. \A s \in TxIds : ~(job'[s].stage = "acknowledged" /\ job'[s].key = k)
    <2>1. ASSUME NEW s \in TxIds, job'[s].stage = "acknowledged", job'[s].key = k
          PROVE  FALSE
      <3>1. JobOK(job[s], tx[s].phase)'
        BY DEF AppIInv, JobsOK
      <3>2. job'[s].kind = "video"
        BY <2>1, <3>1 DEF JobOK, NoJob, JobOf, JobKinds
      <3> QED
        BY <1>4, <2>1, <3>2
    <2> QED
      BY <2>1
  <1>7. k \in Users
    BY <1>1 DEF OneWriter, AppIInv, RecordOK
  <1>8. QueueOrdered(r, k)'
    BY <1>5, <1>7 DEF QueueOrdered, ListWrite
  <1>9. ConfirmedStored(k)'
    <2>1. ASSUME NEW i \in 1 .. Len(outcomes') PROVE i \in 1 .. Len(queue'[k])
      <3>1. ActiveQueue' = queue'[k]
        BY <1>3, <1>7, NoUserAssumption DEF ActiveQueue
      <3>2. Len(outcomes') <= Len(queue'[k]) /\ outcomes' \in Seq({"ok", "notFound"})
            /\ queue'[k] \in Seq(Writes')
        BY <1>7, <3>1 DEF AppIInv, QueueOK
      <3> QED
        BY <2>1, <3>2
    <2> QED
      BY <1>5, <1>7, <2>1 DEF ConfirmedStored, ListWrite
  <1>10. AcknowledgedEverywhere(r, k)'
    BY <1>6 DEF AcknowledgedEverywhere
  <1> QED
    BY <1>1, <1>3, <1>8, <1>9, <1>10 DEF ListKept

\* An old one keeps what it has, whatever the step.
LEMMA OldWriter ==
    ASSUME AppIInv, [Next]_vars, AppAges, QueuedListsOK, RequestsListless, LateOK,
           NEW r \in Records, Opened(r), OneWriter(r), ListKept(r), OneWriter(r)',
           record'[r].user = record[r].user
    PROVE  ListKept(r)'
  <1>1. PICK k : k = record[r].user
    OBVIOUS
  <1>2. k \in Users /\ k \in Keys /\ record'[r].user = k
    BY <1>1, KeysAreUids DEF AppIInv, RecordOK
  <1>3. k = currentUser /\ QueueOrdered(r, k) /\ ConfirmedStored(k) /\ AcknowledgedEverywhere(r, k)
    BY <1>1 DEF ListKept
  <1>4. currentUser' = k
    BY <1>2, <1>3, SessionStays
  <1>5. JobsAge
    BY DEF AppAges
  <1> DEFINE Kept == QueueOrdered(r, k)' /\ ConfirmedStored(k)' /\ AcknowledgedEverywhere(r, k)'
  <1>6. ASSUME DeliverWrite, UNCHANGED <<accountVars, record>> PROVE Kept
    BY <1>2, <1>3, <1>4, <1>5, <1>6, DeliverKeeps
  <1>7. ASSUME QuietStep, ~DeliverWrite PROVE Kept
    <2>1. \A s \in TxIds : job[s].key = k => job[s].kind # "save"
      BY <1>1 DEF OneWriter
    <2>2. Videos(k) \subseteq Videos(k)'
      <3>1. CASE UNCHANGED store
        BY <3>1, VideosOf
      <3>2. CASE \E m \in commits : BackendCommit(m) /\ UNCHANGED job
        BY <1>2, <2>1, <3>2, CommitKeepsVideos
      <3> QED
        BY <1>7, <3>1, <3>2, StoreChanges
    <2>3. record'[r].videos = record[r].videos
      BY <1>7 DEF QuietStep, ListsHeld
    <2> QED
      BY <1>3, <1>5, <1>7, <2>2, <2>3, QuietKeeps DEF QuietStep
  <1>8. ASSUME NEW t \in TxIds, AnswerStep(t) PROVE Kept
    BY <1>2, <1>3, <1>4, <1>5, <1>8, AnswerKeeps
  <1>9. ASSUME NEW t \in TxIds, RecordLoaded(t) PROVE Kept
    <2>1. ~record'[r].late
      BY DEF OneWriter
    <2> QED
      BY <1>2, <1>3, <1>4, <1>5, <1>9, <2>1, LoadKeeps
  <1>10. ASSUME NEW t \in TxIds, PositionFound(t), UNCHANGED record PROVE Kept
    <2>1. PICK key, data : key = job[t].key /\ data = [location |-> Here]
      OBVIOUS
    <2>2. Enqueue(t, key, data) /\ UNCHANGED <<store, outcomes>> /\ NoNews
      BY <1>10, <2>1, LocatedWrite
    <2>3. "videos" \notin DOMAIN data
      BY <2>1
    <2>4. Listed(record[r].videos) \subseteq Listed(record'[r].videos)
      BY <1>10
    <2> QED
      BY <1>2, <1>3, <1>4, <1>5, <2>2, <2>3, <2>4, EnqueueKeeps
  <1>11. ASSUME NEW t \in TxIds, VideoUploaded(t) PROVE Kept
    <2>1. PICK key, q : key = job[t].key /\ q = job[t].owner
      OBVIOUS
    <2>2. PICK a : /\ q \in Records /\ job[t].kind = "video"
                   /\ Listed(a) = Listed(record[q].videos) \cup {t}
                   /\ record'[q].videos = a
                   /\ \A p \in Records \ {q} : record'[p] = record[p]
                   /\ Enqueue(t, key, [videos |-> a])
                   /\ UNCHANGED <<store, outcomes>> /\ NoNews
      BY <1>11, <2>1, UploadedWrite, Zenon
    <2>3. PICK data : data = [videos |-> a]
      OBVIOUS
    <2>4. data.videos = a /\ Enqueue(t, key, data)
      BY <2>2, <2>3
    <2>5. key = k => q = r
      BY <1>1, <2>1, <2>2 DEF OneWriter
    <2>6. Listed(record[r].videos) \subseteq Listed(record'[r].videos)
      BY <2>2
    <2>7. key = k => Listed(data.videos) = Listed(record'[r].videos)
      BY <2>2, <2>4, <2>5
    <2> QED
      BY <1>2, <1>3, <1>4, <1>5, <2>2, <2>4, <2>6, <2>7, EnqueueKeeps
  <1> HIDE DEF Kept
  <1>12. ASSUME QuietStep, DeliverWrite PROVE FALSE
    <2>1. outcomes \in Seq({"ok", "notFound"})
      BY DEF AppIInv, QueueOK
    <2>2. \E o : outcomes' = Append(outcomes, o)
      BY <1>12 DEF DeliverWrite
    <2>3. Len(outcomes') = Len(outcomes) + 1 /\ Len(outcomes) \in Nat /\ Len(<<>>) = 0
      BY <2>1, <2>2
    <2> QED
      BY <1>12, <2>3 DEF QuietStep, PipeStill
  <1>13. Kept
    BY <1>6, <1>7, <1>8, <1>9, <1>10, <1>11, <1>12, ListSteps
  <1> QED
    BY <1>2, <1>4, <1>13 DEF ListKept, Kept

\* Every step of the app keeps the invariant of the lists.
LEMMA VideosNext ==
    ASSUME AppIInv, AppIInv', VideosIInv, [Next]_vars
    PROVE  VideosIInv'
  <1>1. AppAges /\ JobsAge
    BY NextIInv DEF AppAges
  <1>2. QueuedListsOK /\ RequestsListless /\ LateOK
    BY DEF VideosIInv
  <1>3. QueuedListsOK'
    BY <1>1, <1>2, QueuedListsStay
  <1>4. RequestsListless'
    BY <1>1, <1>2, RequestsListlessStay
  <1>5. LateOK'
    BY <1>2, LateStays
  <1>6. ASSUME NEW r \in Records, OneWriter(r)' PROVE ListKept(r)'
    <2>1. CASE Opened(r)
      <3>1. OneWriter(r) /\ record'[r].user = record[r].user
        BY <1>1, <1>2, <1>6, <2>1, OneWriterBefore
      <3>2. ListKept(r)
        BY <3>1 DEF VideosIInv
      <3> QED
        BY <1>1, <1>2, <1>6, <2>1, <3>1, <3>2, OldWriter
    <2>2. CASE ~Opened(r)
      BY <1>1, <1>3, <1>6, <2>2, NewWriter
    <2> QED
      BY <2>1, <2>2
  <1> QED
    BY <1>3, <1>4, <1>5, <1>6 DEF VideosIInv

\* At the start no RecordScreen is open, and nothing is on its way.
LEMMA VideosInit == Init \/ LoadedInit => VideosIInv
  <1> SUFFICES ASSUME Init \/ LoadedInit PROVE VideosIInv
    OBVIOUS
  <1>1. PipelineInit /\ RecordInit /\ commits = {}
    BY DEF Init, LoadedInit, LoadedFor, FirestoreInit
  <1>2. \A r \in Records : ~Opened(r)
    BY <1>1 DEF RecordInit, Opened
  <1>3. QueuedListsOK
    <2>1. \A u \in Users : Len(queue[u]) = 0
      BY <1>1 DEF PipelineInit
    <2> QED
      BY <2>1 DEF QueuedListsOK
  <1> QED
    BY <1>1, <1>2, <1>3 DEF VideosIInv, RequestsListless, LateOK, OneWriter

\* The invariant of the lists: as long as one RecordScreen of one account writes
\* the list of a document, its lists grow along the queue, and every acknowledged
\* video is in all of them, in the list held and in the document.
THEOREM VideosInvariant == Spec \/ LoadedSpec => []VideosIInv
  <1>1. Spec \/ LoadedSpec => (Init \/ LoadedInit) /\ [][Next]_vars
    BY DEF Spec, LoadedSpec
  <1>2. Init \/ LoadedInit => VideosIInv
    BY VideosInit
  <1>3. AppIInv /\ AppIInv' /\ VideosIInv /\ [Next]_vars => VideosIInv'
    BY VideosNext
  <1> QED
    BY <1>1, <1>2, <1>3, AppInvariant, PTL

\* Any number of screens, operations, breaks of the stream and restarts: 'Upload
\* video success' is kept, where one RecordScreen, loaded before its first upload,
\* writes the list and nobody saves the form or signs in with another account.
THEOREM UncontendedVideosKeptHolds == Spec \/ LoadedSpec => []UncontendedVideosKept
  <1>1. AppIInv /\ VideosIInv => UncontendedVideosKept
    <2> SUFFICES ASSUME AppIInv, VideosIInv, NEW t \in TxIds, job[t].stage = "acknowledged",
                        ~Contended(t)
                 PROVE  t \in Videos(job[t].key)
      BY DEF UncontendedVideosKept
    <2>1. PICK i, r, k : i = job[t] /\ r = i.owner /\ k = i.key
      OBVIOUS
    <2>2. i.kind = "video"
      <3>1. JobOK(i, tx[t].phase)
        BY <2>1 DEF AppIInv, JobsOK
      <3> QED
        BY <2>1, <3>1 DEF JobOK, NoJob, JobOf, JobKinds
    <2>3. r \in Records /\ Opened(r) /\ k = record[r].user
      BY <2>1, <2>2, RecordJob
    <2>4. OneWriter(r)
      BY <2>1, <2>3 DEF OneWriter, Contended, Served
    <2>5. AcknowledgedEverywhere(r, k)
      BY <2>3, <2>4 DEF VideosIInv, ListKept
    <2> QED
      BY <2>1, <2>5 DEF AcknowledgedEverywhere
  <1> QED
    BY <1>1, AppInvariant, VideosInvariant, PTL

=============================================================================
