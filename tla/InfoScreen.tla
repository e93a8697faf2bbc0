---------------------------- MODULE InfoScreen -----------------------------
(***************************************************************************)
(* The profile tab.  Its component state is one record that is loaded from *)
(* the user's document with all the fields the document has, edited by the *)
(* form, and saved back whole.                                             *)
(***************************************************************************)
EXTENDS Session

CONSTANTS
    Picture,     \* the download URL of an uploaded photo
    Text         \* what is typed or picked in the form, Null before

VARIABLE infoState    \* this.state of the InfoScreen of each HomeMain

\* The constructor. `firstName' stands for all the fields of the form whose
\* control sets the field it shows.
InfoConstructor(u) ==
    [user |-> u, firstName |-> Null, haveKids |-> No, smoker |-> No, logo |-> Null,
     isFetching |-> No]

InfoInit == infoState = [h \in Homes |-> Empty]

\* setState does nothing on an unmounted component.
SetInfoState(h, d) ==
    infoState' = IF Mounted(h) THEN [infoState EXCEPT ![h] = Merge(@, d)] ELSE infoState

\* (Mutant: the new InfoScreen starts with the state of an earlier one.)
InfoMountReusingState(h, t) ==
    LET Prior == {g \in Homes : infoState[g] # Empty} IN
    /\ \/ /\ Prior = {}
          /\ infoState' = [infoState EXCEPT ![h] = InfoConstructor(currentUser)]
       \/ \E g \in Prior : infoState' = [infoState EXCEPT ![h] = infoState[g]]
    /\ BeginTransaction(t, "infoLoad", h, currentUser)

\* HomeMain h is being mounted: constructor and componentDidMount, which calls
\* docUpdateFunction.
InfoMount(h, t) ==
    /\ infoState' = [infoState EXCEPT ![h] = InfoConstructor(currentUser)]
    /\ BeginTransaction(t, "infoLoad", h, currentUser)

\* (Mutant: without doc.data().user.email, which throws.)
InfoLoadAnyDocument(t) ==
    LET h == job[t].owner
        k == job[t].key
        doc == DocRead(t) IN
    /\ BlockResumes(t, "infoLoad")
    /\ IF doc = NoDoc
       THEN Commit(t, SetData(tx[t], k, infoState[h])) /\ UNCHANGED infoState
       ELSE SetInfoState(h, doc) /\ Commit(t, UpdateData(tx[t], k, doc))
    /\ UNCHANGED <<backendVars, applied, job>>

\* The block of docUpdateFunction once the document is there.
InfoLoadBlock(t) ==
    LET h == job[t].owner
        k == job[t].key
        doc == DocRead(t) IN
    /\ BlockResumes(t, "infoLoad")
    /\ \/ /\ doc = NoDoc
          /\ Commit(t, SetData(tx[t], k, infoState[h]))
          /\ UNCHANGED <<infoState, backendVars, applied>>
       \/ /\ doc # NoDoc
          /\ "user" \in DOMAIN doc
          /\ SetInfoState(h, doc)
          /\ Commit(t, UpdateData(tx[t], k, doc))
          /\ UNCHANGED <<backendVars, applied>>
       \/ \* doc.data().user.email throws
          /\ doc # NoDoc
          /\ "user" \notin DOMAIN doc
          /\ BlockFails(t)
          /\ UNCHANGED infoState
    /\ UNCHANGED job

\* The controls of the form that set the field they show.
EditField(h) ==
    /\ "edit" \in Kinds
    /\ Mounted(h)
    /\ SetInfoState(h, [firstName |-> Text])
    /\ UNCHANGED <<fsVars, job>>

\* The Smoker picker calls setState on haveKids.
PickSmoker(h, v) ==
    /\ "smoker" \in Kinds
    /\ Mounted(h)
    /\ SetInfoState(h, [haveKids |-> v])
    /\ UNCHANGED <<fsVars, job>>

\* SAVE: uploadProfile. The document is that of whoever is signed in now; the
\* handler leaves isFetching false.
Save(h, t) ==
    /\ Mounted(h)
    /\ infoState[h].isFetching = No
    /\ SetInfoState(h, [isFetching |-> No])
    /\ BeginTransaction(t, "save", h, currentUser)

\* (Mutant: likewise.)
SaveAnyDocument(t) ==
    LET h == job[t].owner
        k == job[t].key IN
    /\ BlockResumes(t, "save")
    /\ Commit(t, IF DocRead(t) = NoDoc THEN SetData(tx[t], k, infoState[h])
                 ELSE UpdateData(tx[t], k, infoState[h]))
    /\ UNCHANGED <<backendVars, applied, job, infoState>>

\* The block of uploadProfile writes the whole component state as it is now.
SaveBlock(t) ==
    LET h == job[t].owner
        k == job[t].key
        doc == DocRead(t) IN
    /\ BlockResumes(t, "save")
    /\ \/ /\ doc = NoDoc
          /\ Commit(t, SetData(tx[t], k, infoState[h]))
          /\ UNCHANGED <<backendVars, applied>>
       \/ /\ doc # NoDoc
          /\ "user" \in DOMAIN doc
          /\ Commit(t, UpdateData(tx[t], k, infoState[h]))
          /\ UNCHANGED <<backendVars, applied>>
       \/ /\ doc # NoDoc
          /\ "user" \notin DOMAIN doc
          /\ BlockFails(t)
    /\ UNCHANGED <<job, infoState>>

\* Upload Photo, once the picker has given a file: uploadImage.
UploadImage(h, t) ==
    /\ Mounted(h)
    /\ infoState[h].isFetching = No
    /\ Begin(t, "image", h, infoState[h].user, "put")
    /\ UNCHANGED <<fsVars, infoState>>

\* put and getDownloadURL succeed, or one of the promises rejects.
ImageUploaded(t) ==
    /\ At(t, "image", "put")
    /\ SetInfoState(job[t].owner, [logo |-> Picture, isFetching |-> No])
    /\ GoTo(t, "done")
    /\ UNCHANGED fsVars

ImageFails(t) ==
    /\ At(t, "image", "put")
    /\ GoTo(t, "done")
    /\ UNCHANGED <<fsVars, infoState>>

InfoNext ==
    \/ \E h \in Homes : EditField(h)
    \/ \E h \in Homes, v \in {Yes, No} : PickSmoker(h, v)
    \/ \E h \in Homes, t \in TxIds : Save(h, t) \/ UploadImage(h, t)
    \/ \E t \in TxIds :
        InfoLoadBlock(t) \/ SaveBlock(t) \/ ImageUploaded(t) \/ ImageFails(t)
=============================================================================
