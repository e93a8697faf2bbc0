------------------------------ MODULE BeYouID ------------------------------
(***************************************************************************)
(* The app: LoginScreen and the navigators, the three screens, and the     *)
(* Firestore client and backend they share.  Callbacks of unmounted        *)
(* screens keep running, the process may be killed between any two steps,  *)
(* and a killed app starts at Login with the same account signed in.       *)
(***************************************************************************)
EXTENDS InfoScreen, RecordScreen

CONSTANT Clip     \* a video of an earlier session

\* The documents the screens can make.
FieldNames == {"user", "firstName", "haveKids", "smoker", "logo", "isFetching",
               "location", "facebookToken", "linkdintoken", "videos"}
FieldValues == Users \cup {Null, Yes, No, Picture, Text, Here} \cup Seq(TxIds \cup {Clip})
Docs == UNION {[D -> FieldValues] : D \in SUBSET FieldNames}

ASSUME ValuesAssumption ==
    /\ \A D \in SUBSET FieldNames : NoDoc \notin [D -> FieldValues]
    /\ Yes # No

vars == <<accountVars, fsVars, job, infoState, pipeVars, verifyVars, record>>

screenVars == <<infoState, verifyVars, record>>

\* A document as an earlier session of its owner left it, or none.
SavedDocs == {d \in [Keys -> {NoDoc} \cup {InfoConstructor(u) : u \in Users}] :
                \A k \in Keys : d[k] \in {NoDoc, InfoConstructor(k)}}

Init ==
    /\ AccountInit
    /\ FirestoreInit(SavedDocs)
    /\ JobInit
    /\ InfoInit
    /\ PipelineInit
    /\ CacheInit(FALSE)
    /\ VerifyInit
    /\ RecordInit

NoRequest == [kind |-> "none", user |-> NoUser, stage |-> "unused"]

\* Later in a session: HomeMain h is mounted for u with its profile tab loaded.
\* The document existed, with or without a video, or there was none and its loads
\* have failed. The requests and the VerifyScreen of h are as given.
LoadedFor(h, u, old, requests, screen) ==
    /\ accounts = Users
    /\ currentUser = u
    /\ request = requests
    /\ route = h
    /\ home = [g \in Homes |->
                 IF g = h
                 THEN [status |-> "mounted", user |-> u,
                       overlapped |-> \E q \in Requests : requests[q] # NoRequest]
                 ELSE [status |-> "unborn", user |-> NoUser, overlapped |-> FALSE]]
    /\ FirestoreInit({[k \in Keys |-> IF old = NoDoc THEN NoDoc
                                      ELSE Merge(InfoConstructor(k), old)]})
    /\ JobInit
    /\ infoState = [g \in Homes |->
                      IF g # h THEN Empty
                      ELSE IF old = NoDoc THEN InfoConstructor(u)
                      ELSE Merge(InfoConstructor(u), old)]
    /\ PipelineInit
    /\ CacheInit(TRUE)
    /\ verify = [g \in Homes |-> IF g = h THEN screen ELSE Unborn]
    /\ fbToken = Null
    /\ RecordInit

VerifyLoaded(u) == [Unborn EXCEPT !.status = "mounted", !.user = u]

\* No request is open, and the load of the verification tab is over as well.
LoadedInit ==
    \E h \in Homes, u \in Users, old \in {NoDoc, Empty, [videos |-> <<Clip>>]} :
        LoadedFor(h, u, old, [q \in Requests |-> NoRequest], VerifyLoaded(u))

\* Requests were sent besides the one that mounted h, and none is answered yet;
\* the verification tab is loaded, or has not been opened.
OverlappedInit ==
    \E h \in Homes, u \in Users, old \in {NoDoc, Empty}, by \in [Requests -> Users] :
        \E screen \in {Unborn, VerifyLoaded(u)} :
            LoadedFor(h, u, old,
                [q \in Requests |-> [kind |-> "login", user |-> by[q], stage |-> "sent"]],
                screen)

\* Sign-in and sign-up; the write stream follows the account.
Auth ==
    /\ AuthStep
    /\ IF currentUser' = currentUser THEN UNCHANGED pipeVars ELSE StreamCloses(cache.listening)
    /\ UNCHANGED <<fsVars, job, screenVars>>

\* navigate("HomeMain") mounts HomeMain with its first tab, which attaches a
\* listener to the collection.
MountHome(q, h, t) ==
    /\ Navigate(q, h)
    /\ InfoMount(h, t)
    /\ cache' = [remote |-> cache.remote, shown |-> cache.shown, known |-> cache.known,
                 listening |-> TRUE]
    /\ UNCHANGED <<queue, outcomes, verifyVars, record>>

UnmountRecords(h) ==
    record' = [r \in Records |-> IF RecordMounted(r) /\ record[r].home = h
                                 THEN [record[r] EXCEPT !.status = "gone"]
                                 ELSE record[r]]

LeaveHome ==
    /\ SwipeBack
    /\ UnmountRecords(route)
    /\ UNCHANGED <<fsVars, job, infoState, pipeVars, verifyVars>>

\* The process is killed and started again.
Restart ==
    /\ "restart" \in Kinds
    /\ outcomes = <<>> \/ clock < MaxClock
    /\ RestartAccount
    /\ tx' = Restarted
    /\ RestartJobs
    /\ StreamCloses(FALSE)
    /\ record' = [r \in Records |-> IF RecordMounted(r)
                                    THEN [record[r] EXCEPT !.status = "gone"]
                                    ELSE record[r]]
    /\ UNCHANGED <<backendVars, commits, applied, infoState, verifyVars>>

\* Transactions between the blocks the screens provide.
Transact ==
    /\ RpcNext \/ \E t \in TxIds : GetStep(t) \/ GetFails(t)
    /\ UNCHANGED <<accountVars, job, pipeVars, screenVars>>

Next ==
    \/ Auth
    \/ \E q \in Requests, h \in Homes, t \in TxIds : MountHome(q, h, t)
    \/ LeaveHome
    \/ Restart
    \/ Transact
    \/ PipelineNext /\ UNCHANGED <<accountVars, screenVars>>
    \/ InfoNext /\ UNCHANGED <<accountVars, pipeVars, verifyVars, record>>
    \/ VerifyNext /\ UNCHANGED <<accountVars, infoState, record>>
    \/ RecordNext /\ UNCHANGED <<accountVars, infoState>>

Spec == Init /\ [][Next]_vars
LoadedSpec == LoadedInit /\ [][Next]_vars

\* Callbacks and RPCs that have been started end: a started transaction and its
\* block, the position request (its timeout is 60 s), the write stream while
\* there is something to send; and a stream that is reopened again and again
\* some day lives long enough to bring the answer it owes.
Callback(A) == A /\ UNCHANGED <<accountVars, infoState, record>>

Fairness ==
    /\ \A t \in TxIds :
        /\ WF_vars(Transact /\ tx'[t] # tx[t])
        /\ WF_vars(Callback(VerifyLoadBlock(t)))
        /\ WF_vars(InfoLoadBlock(t) /\ UNCHANGED <<accountVars, pipeVars, verifyVars, record>>)
        /\ WF_vars(Callback(PositionFails(t) \/ PositionFound(t)))
        /\ SF_vars(\/ Callback(\/ LocationSaved(t) \/ LocationRejected(t)
                               \/ VideoSaved(t) \/ VideoRejected(t))
                   \/ AnswerUnheard(t) /\ UNCHANGED <<accountVars, screenVars>>)
    /\ WF_vars(DeliverWrite /\ UNCHANGED <<accountVars, screenVars>>)

FairSpec == Spec /\ Fairness
FairOverlappedSpec == OverlappedInit /\ [][Next]_vars /\ Fairness

-----------------------------------------------------------------------------
(***************************************************************************)
(* Properties.                                                             *)
(***************************************************************************)
OwnerHome(j) == IF j.kind \in {"recordLoad", "video"} THEN record[j.owner].home
                ELSE j.owner

HasField(k, f) == store[k] # NoDoc /\ f \in DOMAIN store[k]

\* Operations and screens have the shape the handlers give them.
AppTypeOK ==
    /\ \A t \in TxIds :
        /\ job[t].kind \in Kinds \cup {"none"}
        /\ job[t].key \in Users \cup {NoUser}
        /\ job[t].stage = "transaction" => tx[t].phase # "idle"
    /\ \A k \in Keys : store[k] = NoDoc <=> version[k] = 0
    /\ \A h \in Homes : Mounted(h) => infoState[h] # Empty
    /\ Len(outcomes) <= Len(ActiveQueue)
    /\ cache.known \in 0 .. Len(outcomes)

\* A document, once created, stays, and no screen's write takes a field from
\* it: the `set' of the create branches never overwrites a document that
\* appeared after the block's get.
FieldsStay ==
    [][\A k \in Keys : store[k] # NoDoc =>
         store'[k] # NoDoc /\ DOMAIN store[k] \subseteq DOMAIN store'[k]]_vars

\* Whether a document has a `user' is settled by the screen that creates it:
\* a document VerifyScreen created never gets one (every block that could add
\* it reads doc.data().user.email first), and so can be neither loaded nor saved.
UserFieldSettled ==
    [][\A k \in Keys : store[k] # NoDoc =>
         ("user" \in DOMAIN store'[k] <=> "user" \in DOMAIN store[k])]_vars

\* The isFetching that VerifyScreen may store with a new document never comes
\* back through InfoScreen's setState({...fulldoc}) to disable SAVE.
SaveNeverDisabled ==
    \A h \in Homes : infoState[h] # Empty => infoState[h].isFetching = No

\* docUpdateFunction of both tabs writes back what it read: committed on an
\* existing document, after any retries and however late, it changes nothing.
LoadChangesNothing ==
    [][\A m \in commits \ commits' :
         job[m.tx].kind \in {"infoLoad", "verifyLoad"} /\ store' # store =>
            store[job[m.tx].key] = NoDoc]_vars

\* 'Facebook Verified' and 'LinkedIN Verified' are shown only when the token is
\* in a document the screen verified: its own, or the one its operation wrote.
VerifiedIsStored ==
    \A h \in Homes :
        LET Stored(kind, f) ==
              \/ verify[h].user # NoUser /\ HasField(verify[h].user, f)
              \/ \E t \in TxIds : /\ job[t].kind = kind
                                  /\ job[t].owner = h
                                  /\ job[t].key # NoUser
                                  /\ HasField(job[t].key, f)
        IN /\ verify[h].facebookbutton => Stored("facebook", "facebookToken")
           /\ verify[h].linkdinbutton => Stored("linkedin", "linkdintoken")

\* A screen starts an operation on a document of another account only when its
\* HomeMain is gone already, or was mounted with a login request still open. (A
\* photo goes to the storage folder that the loaded document names.)
ForeignDocumentOnlyByOverlap ==
    [][\A t \in TxIds :
         LET h == OwnerHome(job[t])'
             k == job'[t].key IN
         /\ job'[t].kind # "image"
         /\ k # job[t].key /\ k # NoUser /\ k # home'[h].user
         => ~Mounted(h) \/ home[h].overlapped]_vars

\* Where no HomeMain was mounted under an open request, and while every operation
\* on a document comes from screens of its owner, the document holds its owner's
\* identity and LinkedIn token, however many accounts used the app before. (The
\* Facebook token is global to the process and left out.)
OwnDataOnly ==
    \A k \in Keys :
        /\ \A h \in Homes : ~home[h].overlapped
        /\ \A t \in TxIds : job[t].key = k /\ job[t].kind # "image" =>
                home[OwnerHome(job[t])].user = k
        => \A f \in {"user", "linkdintoken"} : HasField(k, f) => store[k][f] = k

Videos(k) == IF HasField(k, "videos") THEN {store[k].videos[i] : i \in DOMAIN store[k].videos}
             ELSE {}

\* RecordScreen.js announces 'Upload video success': the video is in the user's
\* document from then on.
AcknowledgedVideosKept ==
    \A t \in TxIds : job[t].stage = "acknowledged" => t \in Videos(job[t].key)

\* Other writers of the list that t's screen holds, and other accounts: each has a
\* mutation queue of its own, and lists written under two accounts arrive in no
\* particular order.
Contended(t) ==
    \/ record[job[t].owner].late
    \/ \E s \in TxIds :
        /\ job[s].key = job[t].key
        /\ job[s].kind = "save" \/ (job[s].kind = "video" /\ job[s].owner # job[t].owner)
    \/ \E q \in Requests :
        /\ request[q].stage \in {"accepted", "done"}
        /\ request[q].user # job[t].key

\* The same where one RecordScreen, loaded before its first upload, is the only
\* one to upload, nobody presses SAVE and no other account signs in: streams that
\* break and resend, loads that write the document back and restarts lose no
\* acknowledged video.
UncontendedVideosKept ==
    \A t \in TxIds :
        job[t].stage = "acknowledged" /\ ~Contended(t) => t \in Videos(job[t].key)

\* Profile Video and Invite are disabled only while a location is being
\* verified, or after its update was rejected (see LocationRejected).
FetchingIsExplained ==
    \A h \in Homes :
        VerifyMounted(h) /\ verify[h].isFetching = Yes =>
            \/ verify[h].stuck
            \/ \E t \in TxIds : /\ job[t].kind = "location"
                                /\ job[t].owner = h
                                /\ job[t].stage \in {"position", "write"}

\* verifyLocation ends by re-enabling the buttons, whichever of its callbacks
\* runs: both error callbacks of VerifyScreen.js say
\* this.setState({ isFetching: false}).
LocationReleasesScreen ==
    \A h \in Homes :
        VerifyMounted(h) /\ verify[h].isFetching = Yes
            ~> ~VerifyMounted(h) \/ verify[h].isFetching = No

\* A location of h waits in the mutation queue of an account that is not signed
\* in: nobody sends it.
LocationStranded(h) ==
    \E t \in TxIds, u \in Users \ {currentUser} :
        /\ job[t].kind = "location"
        /\ job[t].owner = h
        /\ \E i \in DOMAIN queue[u] : queue[u][i].id = t

\* The two exceptions: the catch of a rejected update ran, and nothing has reset
\* isFetching since; or a login request that overlaps leaves another account
\* signed in under the HomeMain for good, whose queue the write is not in. Every
\* other location releases the buttons, over broken streams, sign-ins that come
\* and go, loads and creates by the other tab.
LocationReleasesScreenUnlessRejectedOrStranded ==
    \A h \in Homes :
        VerifyMounted(h) /\ verify[h].isFetching = Yes
            ~> \/ ~VerifyMounted(h) \/ verify[h].isFetching = No \/ verify[h].stuck
               \/ []LocationStranded(h)
=============================================================================
