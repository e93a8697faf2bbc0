--------------------------- MODULE VerifyScreen ----------------------------
(***************************************************************************)
(* The verification tab: loading the document, and verifying Facebook,     *)
(* LinkedIn and the location.  Each verification is a chain of callbacks   *)
(* that looks up the signed-in account only where it starts to write.      *)
(***************************************************************************)
EXTENDS WritePipeline

CONSTANT Here     \* coordinates the geolocation service reports

VARIABLES
    verify,       \* this.state of the VerifyScreen of each HomeMain
    fbToken       \* AccessToken.getCurrentAccessToken() of the Facebook SDK

verifyVars == <<verify, fbToken>>

Unborn ==
    [status |-> "unborn", user |-> NoUser, facebookbutton |-> FALSE,
     linkdinbutton |-> FALSE, isFetching |-> No, location |-> Null, stuck |-> FALSE]

VerifyInit ==
    /\ verify = [h \in Homes |-> Unborn]
    /\ fbToken = Null

VerifyMounted(h) == Mounted(h) /\ verify[h].status = "mounted"

\* isFetching set to b. `stuck' is history: since isFetching was last set, the
\* catch of a location has run.
SetFetching(v, b) == [v EXCEPT !.isFetching = b, !.stuck = FALSE]

\* setState: r is the new state, dropped by an unmounted component.
SetVerifyState(h, r) ==
    verify' = IF VerifyMounted(h) THEN [verify EXCEPT ![h] = r] ELSE verify

\* The tab is opened: constructor and componentDidMount (docUpdateFunction).
VerifyMount(h, t) ==
    /\ Mounted(h)
    /\ verify[h].status = "unborn"
    /\ verify' = [verify EXCEPT ![h] =
                    [Unborn EXCEPT !.status = "mounted", !.user = currentUser]]
    /\ BeginTransaction(t, "verifyLoad", h, currentUser)
    /\ UNCHANGED <<fbToken, pipeVars>>

\* What `{...this.state}' writes: no `user' among its fields.
VerifyDoc(h) == [location |-> verify[h].location, isFetching |-> verify[h].isFetching]

\* (Mutant: the component state is written, not the document.)
VerifyLoadWritesState(t) ==
    LET h == job[t].owner
        k == job[t].key IN
    /\ BlockResumes(t, "verifyLoad")
    /\ Commit(t, IF DocRead(t) = NoDoc THEN SetData(tx[t], k, VerifyDoc(h))
                 ELSE UpdateData(tx[t], k, VerifyDoc(h)))
    /\ UNCHANGED <<verify, backendVars, applied, job, fbToken, pipeVars>>

\* The block of docUpdateFunction once the document is there.
VerifyLoadBlock(t) ==
    LET h == job[t].owner
        k == job[t].key
        doc == DocRead(t) IN
    /\ BlockResumes(t, "verifyLoad")
    /\ \/ /\ doc = NoDoc
          /\ Commit(t, SetData(tx[t], k, VerifyDoc(h)))
          /\ UNCHANGED <<verify, backendVars, applied>>
       \/ /\ doc # NoDoc
          /\ "user" \in DOMAIN doc
          /\ SetVerifyState(h, [verify[h] EXCEPT
                !.linkdinbutton = @ \/ "linkdintoken" \in DOMAIN doc,
                !.facebookbutton = @ \/ "facebookToken" \in DOMAIN doc])
          /\ Commit(t, UpdateData(tx[t], k, doc))
          /\ UNCHANGED <<backendVars, applied>>
       \/ /\ doc # NoDoc
          /\ "user" \notin DOMAIN doc
          /\ BlockFails(t)
          /\ UNCHANGED verify
    /\ UNCHANGED <<job, fbToken, pipeVars>>

-----------------------------------------------------------------------------
(***************************************************************************)
(* Facebook: onLoginFacebook.                                              *)
(***************************************************************************)

\* The button: LoginManager.logOut() and the login dialog; isFetching is true
\* and false again within the handler.
PressFacebook(h, t) ==
    /\ VerifyMounted(h)
    /\ ~verify[h].facebookbutton
    /\ Begin(t, "facebook", h, NoUser, "dialog")
    /\ fbToken' = Null
    /\ SetVerifyState(h, SetFetching(verify[h], No))
    /\ UNCHANGED <<fsVars, pipeVars>>

\* The person grants the permissions. A token is named after the account on
\* whose screen it was asked for.
FacebookGranted(t) ==
    /\ At(t, "facebook", "dialog")
    /\ fbToken' = verify[job[t].owner].user
    /\ GoTo(t, "granted")
    /\ UNCHANGED <<fsVars, pipeVars, verify>>

\* Cancelled or failed: the last catch of the chain.
FacebookLoginFails(t) ==
    /\ At(t, "facebook", "dialog")
    /\ SetVerifyState(job[t].owner,
                      [verify[job[t].owner] EXCEPT !.facebookbutton = FALSE])
    /\ GoTo(t, "done")
    /\ UNCHANGED <<fsVars, pipeVars, fbToken>>

\* getCurrentAccessToken resolves; the transaction on the document of whoever
\* is signed in by now begins.
FacebookToken(t) ==
    /\ At(t, "facebook", "granted")
    /\ job' = [job EXCEPT ![t].stage = "transaction", ![t].data = fbToken,
                          ![t].key = currentUser]
    /\ RunTransaction(t)
    /\ UNCHANGED <<pipeVars, verifyVars>>

\* The block: it throws on an absent document, or on an absent token.
FacebookBlock(t) ==
    LET k == job[t].key IN
    /\ BlockResumes(t, "facebook")
    /\ \/ /\ DocRead(t) # NoDoc
          /\ job[t].data # Null
          /\ Commit(t, UpdateData(tx[t], k, [facebookToken |-> job[t].data]))
          /\ UNCHANGED <<backendVars, applied>>
       \/ /\ DocRead(t) = NoDoc \/ job[t].data = Null
          /\ BlockFails(t)
    /\ UNCHANGED <<job, pipeVars, verifyVars>>

\* (Mutant: the button turns green whatever became of the transaction.)
FacebookDoneAlways(t) ==
    /\ At(t, "facebook", "transaction")
    /\ tx[t].phase \in {"committed", "failed"}
    /\ SetVerifyState(job[t].owner, [verify[job[t].owner] EXCEPT !.facebookbutton = TRUE])
    /\ GoTo(t, "done")
    /\ UNCHANGED <<fsVars, pipeVars, fbToken>>

\* The transaction's then or catch.
FacebookDone(t) ==
    /\ At(t, "facebook", "transaction")
    /\ tx[t].phase \in {"committed", "failed"}
    /\ SetVerifyState(job[t].owner,
          [verify[job[t].owner] EXCEPT !.facebookbutton = (tx[t].phase = "committed")])
    /\ GoTo(t, "done")
    /\ UNCHANGED <<fsVars, pipeVars, fbToken>>

-----------------------------------------------------------------------------
(***************************************************************************)
(* LinkedIn: the button's handler and saveLinkedinData.                    *)
(***************************************************************************)
PressLinkedIn(h, t) ==
    /\ VerifyMounted(h)
    /\ ~verify[h].linkdinbutton
    /\ Begin(t, "linkedin", h, NoUser, "signIn")
    /\ UNCHANGED <<fsVars, pipeVars, verifyVars>>

\* signIn and getRequest resolve and the timer of 1500 ms starts.
LinkedInSignedIn(t) ==
    /\ At(t, "linkedin", "signIn")
    /\ job' = [job EXCEPT ![t].stage = "timer",
                          ![t].data = verify[job[t].owner].user]
    /\ UNCHANGED <<fsVars, pipeVars, verifyVars>>

\* Nothing catches a rejection here.
LinkedInFails(t) ==
    /\ At(t, "linkedin", "signIn")
    /\ GoTo(t, "done")
    /\ UNCHANGED <<fsVars, pipeVars, verifyVars>>

\* The timer fires: saveLinkedinData.
SaveLinkedinData(t) ==
    /\ At(t, "linkedin", "timer")
    /\ job' = [job EXCEPT ![t].stage = "transaction", ![t].key = currentUser]
    /\ RunTransaction(t)
    /\ UNCHANGED <<pipeVars, verifyVars>>

LinkedInBlock(t) ==
    /\ BlockResumes(t, "linkedin")
    /\ \/ /\ DocRead(t) # NoDoc
          /\ Commit(t, UpdateData(tx[t], job[t].key, [linkdintoken |-> job[t].data]))
          /\ UNCHANGED <<backendVars, applied>>
       \/ /\ DocRead(t) = NoDoc
          /\ BlockFails(t)
    /\ UNCHANGED <<job, pipeVars, verifyVars>>

LinkedInDone(t) ==
    /\ At(t, "linkedin", "transaction")
    /\ tx[t].phase \in {"committed", "failed"}
    /\ SetVerifyState(job[t].owner,
          [verify[job[t].owner] EXCEPT !.linkdinbutton = (tx[t].phase = "committed")])
    /\ GoTo(t, "done")
    /\ UNCHANGED <<fsVars, pipeVars, fbToken>>

-----------------------------------------------------------------------------
(***************************************************************************)
(* The location: verifyLocation.                                           *)
(***************************************************************************)
PressLocation(h, t) ==
    /\ VerifyMounted(h)
    /\ verify[h].location = Null
    /\ Begin(t, "location", h, verify[h].user, "position")
    /\ SetVerifyState(h, SetFetching(verify[h], Yes))
    /\ UNCHANGED <<fsVars, pipeVars, fbToken>>

\* (Mutant: without setState({isFetching: false}).)
PositionFailsSilently(t) ==
    /\ At(t, "location", "position")
    /\ GoTo(t, "done")
    /\ UNCHANGED <<fsVars, pipeVars, verifyVars>>

\* The error callback of getCurrentPosition.
PositionFails(t) ==
    /\ At(t, "location", "position")
    /\ SetVerifyState(job[t].owner, SetFetching(verify[job[t].owner], No))
    /\ GoTo(t, "done")
    /\ UNCHANGED <<fsVars, pipeVars, fbToken>>

\* The position callback: docRef.update on the document of the constructor.
PositionFound(t) ==
    /\ At(t, "location", "position")
    /\ Enqueue(t, job[t].key, [location |-> Here])
    /\ GoTo(t, "write")
    /\ UNCHANGED <<fsVars, outcomes, cache, verifyVars>>

LocationSaved(t) ==
    /\ At(t, "location", "write")
    /\ Answer(t, "ok")
    /\ SetVerifyState(job[t].owner,
                      [SetFetching(verify[job[t].owner], No) EXCEPT !.location = Here])
    /\ GoTo(t, "done")
    /\ UNCHANGED <<fsVars, fbToken>>

\* The catch throws a ReferenceError at its first statement (`error' is not
\* defined there): neither the alert nor isFetching: false happens.
LocationRejected(t) ==
    /\ At(t, "location", "write")
    /\ Answer(t, "notFound")
    /\ SetVerifyState(job[t].owner, [verify[job[t].owner] EXCEPT !.stuck = TRUE])
    /\ GoTo(t, "done")
    /\ UNCHANGED <<fsVars, fbToken>>

VerifyNext ==
    \/ \E h \in Homes, t \in TxIds :
        \/ VerifyMount(h, t)
        \/ PressFacebook(h, t)
        \/ PressLinkedIn(h, t)
        \/ PressLocation(h, t)
    \/ \E t \in TxIds :
        \/ VerifyLoadBlock(t)
        \/ FacebookGranted(t) \/ FacebookLoginFails(t) \/ FacebookToken(t)
        \/ FacebookBlock(t) \/ FacebookDone(t)
        \/ LinkedInSignedIn(t) \/ LinkedInFails(t) \/ SaveLinkedinData(t)
        \/ LinkedInBlock(t) \/ LinkedInDone(t)
        \/ PositionFails(t) \/ PositionFound(t)
        \/ LocationSaved(t) \/ LocationRejected(t)
=============================================================================
