--------------------------- MODULE AccountProofs ---------------------------
(***************************************************************************)
(* Proofs about Account, for any accounts, presses and HomeMain instances. *)
(***************************************************************************)
EXTENDS Account, TLAPS

\* The invariant holds when the app starts.
LEMMA InitAccountIInv == AccountInit => AccountIInv
  BY LoginRouteAssumption
     DEF AccountInit, AccountIInv, AccountTypeOK, RequestsNameUsers, KnownAccountOnly,
         AcceptedIsSignedIn, HomeIsSignedIn, HomeMatchesSession, OpenUnderHomeOverlapped, Mounted, Open

\* LOGIN and SIGN UP open a request while no HomeMain is mounted.
LEMMA PressAccountIInv ==
    ASSUME AccountIInv, NEW q \in Requests, NEW kind \in {"login", "register"},
           NEW u \in Users, Press(q, kind, u)
    PROVE  AccountIInv'
  <1> USE DEF AccountIInv, Press, Mounted
  <1>1. AccountTypeOK' /\ RequestsNameUsers'
    BY DEF AccountTypeOK, RequestsNameUsers
  <1>2. KnownAccountOnly' /\ HomeIsSignedIn' /\ HomeMatchesSession'
    BY DEF KnownAccountOnly, HomeIsSignedIn, HomeMatchesSession
  <1>3. AcceptedIsSignedIn'
    BY DEF AcceptedIsSignedIn, AccountTypeOK
  <1>4. \A h \in Homes : ~Mounted(h)
    BY LoginRouteAssumption DEF AccountTypeOK
  <1>5. OpenUnderHomeOverlapped'
    BY <1>4 DEF OpenUnderHomeOverlapped
  <1> QED
    BY <1>1, <1>2, <1>3, <1>5

\* A request that advances one stage without opening a new one.
LEMMA StageType ==
    ASSUME AccountTypeOK, NEW q \in Requests,
           NEW stage \in {"accepted", "rejected", "done"},
           request' = [request EXCEPT ![q].stage = stage]
    PROVE  /\ request' \in [Requests -> [kind : {"none", "login", "register"},
                                         user : Users \cup {NoUser},
                                         stage : {"unused", "sent", "accepted",
                                                  "rejected", "done"}]]
           /\ request'[q].stage = stage
           /\ request'[q].user = request[q].user
           /\ \A p \in Requests \ {q} : request'[p] = request[p]
  BY DEF AccountTypeOK

\* The auth service signs an account in: under a HomeMain only by a request that
\* was open when it was mounted.
LEMMA AuthAcceptedAccountIInv ==
    ASSUME AccountIInv, NEW q \in Requests, AuthAccepted(q)
    PROVE  AccountIInv'
  <1> USE DEF AccountIInv, AuthAccepted, Mounted
  <1>1. /\ request'[q].stage = "accepted" /\ request[q].stage = "sent"
        /\ \A p \in Requests \ {q} : request'[p] = request[p]
    BY StageType
  <1>2. request[q].user \in Users
    BY DEF RequestsNameUsers
  <1>3. AccountTypeOK' /\ RequestsNameUsers'
    BY <1>1, <1>2, StageType DEF AccountTypeOK, RequestsNameUsers
  <1>4. KnownAccountOnly' /\ AcceptedIsSignedIn' /\ HomeIsSignedIn'
    BY DEF KnownAccountOnly, AcceptedIsSignedIn, HomeIsSignedIn
  <1>5. \A h \in Homes : Mounted(h) => home[h].overlapped
    BY <1>1 DEF OpenUnderHomeOverlapped, Open
  <1>6. HomeMatchesSession' /\ OpenUnderHomeOverlapped'
    BY <1>5 DEF HomeMatchesSession, OpenUnderHomeOverlapped
  <1> QED
    BY <1>3, <1>4, <1>6

\* The requests that end leave the session as it is.
LEMMA EndedAccountIInv ==
    ASSUME AccountIInv, NEW q \in Requests,
           AuthRejected(q) \/ Registered(q) \/ NavigateIgnored(q)
    PROVE  AccountIInv'
  <1> USE DEF AccountIInv, Mounted
  <1>1. /\ \/ request' = [request EXCEPT ![q].stage = "rejected"]
           \/ request' = [request EXCEPT ![q].stage = "done"]
        /\ UNCHANGED <<currentUser, accounts, route, home>>
    BY DEF AuthRejected, Registered, NavigateIgnored
  <1>2. /\ request'[q].stage \in {"rejected", "done"} /\ request[q].user \in Users
        /\ request'[q].user = request[q].user
        /\ \A p \in Requests \ {q} : request'[p] = request[p]
    BY <1>1, StageType DEF RequestsNameUsers, AuthRejected, Registered, NavigateIgnored
  <1>3. AccountTypeOK' /\ RequestsNameUsers'
    BY <1>1, <1>2, StageType DEF AccountTypeOK, RequestsNameUsers
  <1>4. KnownAccountOnly' /\ HomeIsSignedIn' /\ HomeMatchesSession'
    BY <1>1 DEF KnownAccountOnly, HomeIsSignedIn, HomeMatchesSession
  <1>5. AcceptedIsSignedIn' /\ OpenUnderHomeOverlapped'
    BY <1>1, <1>2 DEF AcceptedIsSignedIn, OpenUnderHomeOverlapped, Open
  <1> QED
    BY <1>3, <1>4, <1>5

\* navigate("HomeMain") mounts an instance for the account that is signed in.
LEMMA NavigateAccountIInv ==
    ASSUME AccountIInv, NEW q \in Requests, NEW h \in Homes, Navigate(q, h)
    PROVE  AccountIInv'
  <1> USE DEF AccountIInv, Navigate, Mounted
  <1> DEFINE overlap == \E p \in Requests \ {q} : Open(p)
             r == [status |-> "mounted", user |-> currentUser, overlapped |-> overlap]
  <1>1. /\ request'[q].stage = "done"
        /\ \A p \in Requests \ {q} : request'[p] = request[p]
    BY StageType
  <1>2. currentUser \in accounts
    BY DEF AcceptedIsSignedIn
  <1>3. \A g \in Homes : ~Mounted(g)
    BY LoginRouteAssumption DEF AccountTypeOK
  <1>4. home' = [home EXCEPT ![h] = r] /\ overlap \in BOOLEAN
    OBVIOUS
  <1>5. r \in [status : {"unborn", "mounted", "gone"}, user : Users \cup {NoUser},
               overlapped : BOOLEAN]
    BY <1>2 DEF AccountTypeOK
  <1>6. /\ r.status = "mounted" /\ r.user = currentUser /\ r.overlapped = overlap
    OBVIOUS
  <1> HIDE DEF r, overlap
  <1>7. home'[h] = r /\ \A g \in Homes \ {h} : home'[g] = home[g]
    BY <1>4 DEF AccountTypeOK
  <1>8. home' \in [Homes -> [status : {"unborn", "mounted", "gone"},
                            user : Users \cup {NoUser}, overlapped : BOOLEAN]]
    BY <1>4, <1>5 DEF AccountTypeOK
  <1>9. AccountTypeOK' /\ RequestsNameUsers'
    <2>1. AccountTypeOK'
      BY <1>3, <1>6, <1>7, <1>8, StageType DEF AccountTypeOK
    <2> QED
      BY <1>1, <2>1, StageType DEF RequestsNameUsers
  <1>10. KnownAccountOnly' /\ AcceptedIsSignedIn'
    BY <1>2 DEF KnownAccountOnly, AcceptedIsSignedIn
  <1>11. HomeIsSignedIn' /\ HomeMatchesSession'
    BY <1>2, <1>3, <1>6, <1>7 DEF HomeIsSignedIn, HomeMatchesSession
  <1>12. (\E p \in Requests : Open(p)') => overlap
    BY <1>1 DEF overlap, Open
  <1>13. OpenUnderHomeOverlapped'
    BY <1>3, <1>6, <1>7, <1>12 DEF OpenUnderHomeOverlapped
  <1> QED
    BY <1>9, <1>10, <1>11, <1>13

\* Leaving HomeMain, by the swipe or because the process dies, unmounts it.
LEMMA UnmountedAccountIInv ==
    ASSUME AccountIInv, AccountTypeOK', \A h \in Homes : ~Mounted(h)',
           currentUser' = currentUser, accounts \subseteq accounts',
           RequestsNameUsers',
           \A q \in Requests : request'[q].stage = "accepted" =>
                               request[q].stage = "accepted"
    PROVE  AccountIInv'
  BY DEF AccountIInv, KnownAccountOnly, AcceptedIsSignedIn, HomeIsSignedIn,
         HomeMatchesSession, OpenUnderHomeOverlapped

\* The swipe back.
LEMMA SwipeBackAccountIInv ==
    ASSUME AccountIInv, SwipeBack
    PROVE  AccountIInv'
  <1>1. route \in Homes /\ home[route].status = "mounted"
    BY DEF AccountIInv, AccountTypeOK, SwipeBack, Mounted
  <1>2. /\ home' \in [Homes -> [status : {"unborn", "mounted", "gone"},
                               user : Users \cup {NoUser}, overlapped : BOOLEAN]]
        /\ home'[route].status = "gone"
        /\ \A h \in Homes \ {route} : home'[h] = home[h]
    BY <1>1 DEF AccountIInv, AccountTypeOK, SwipeBack
  <1>3. \A h \in Homes : ~Mounted(h)'
    BY <1>1, <1>2 DEF AccountIInv, AccountTypeOK, Mounted
  <1>4. AccountTypeOK'
    BY <1>2, <1>3, LoginRouteAssumption DEF AccountIInv, AccountTypeOK, SwipeBack
  <1>5. RequestsNameUsers'
    BY DEF AccountIInv, RequestsNameUsers, SwipeBack
  <1> QED
    BY <1>3, <1>4, <1>5, UnmountedAccountIInv DEF SwipeBack

\* The process is killed.
LEMMA RestartAccountIInv ==
    ASSUME AccountIInv, RestartAccount
    PROVE  AccountIInv'
  <1>1. /\ accounts \subseteq accounts' /\ accounts' \subseteq Users
        /\ route' = "Login" /\ currentUser' = currentUser
    <2>1. \A q \in Requests :
            request[q].kind = "register" /\ request[q].stage = "sent" =>
                request[q].user \in Users
      BY DEF AccountIInv, RequestsNameUsers
    <2> QED
      BY <2>1 DEF AccountIInv, AccountTypeOK, RestartAccount
  <1>2. /\ home' \in [Homes -> [status : {"unborn", "mounted", "gone"},
                               user : Users \cup {NoUser}, overlapped : BOOLEAN]]
        /\ \A h \in Homes : ~Mounted(h)'
    BY DEF AccountIInv, AccountTypeOK, RestartAccount, Mounted
  <1>3. /\ request' \in [Requests -> [kind : {"none", "login", "register"},
                                      user : Users \cup {NoUser},
                                      stage : {"unused", "sent", "accepted",
                                               "rejected", "done"}]]
        /\ \A q \in Requests : /\ request'[q].stage # "accepted"
                               /\ request'[q].stage # "unused" => request[q].stage # "unused"
                               /\ request'[q].user = request[q].user
    BY DEF AccountIInv, AccountTypeOK, RestartAccount, Open
  <1>4. AccountTypeOK'
    BY <1>1, <1>2, <1>3, LoginRouteAssumption DEF AccountIInv, AccountTypeOK
  <1>5. RequestsNameUsers'
    BY <1>3 DEF AccountIInv, RequestsNameUsers
  <1> QED
    BY <1>1, <1>2, <1>3, <1>4, <1>5, UnmountedAccountIInv

\* Every step of LoginScreen, the auth service and the navigator preserves it.
LEMMA NextAccountIInv == AccountIInv /\ [AccountNext]_accountVars => AccountIInv'
  <1> SUFFICES ASSUME AccountIInv, [AccountNext]_accountVars PROVE AccountIInv'
    OBVIOUS
  <1>1. CASE AuthStep
    BY <1>1, PressAccountIInv, AuthAcceptedAccountIInv, EndedAccountIInv DEF AuthStep
  <1>2. ASSUME NEW q \in Requests, NEW h \in Homes, Navigate(q, h) PROVE AccountIInv'
    BY <1>2, NavigateAccountIInv
  <1>3. CASE SwipeBack
    BY <1>3, SwipeBackAccountIInv
  <1>4. CASE RestartAccount
    BY <1>4, RestartAccountIInv
  <1>5. CASE UNCHANGED accountVars
    BY <1>5 DEF accountVars, AccountIInv, AccountTypeOK, RequestsNameUsers, KnownAccountOnly,
       AcceptedIsSignedIn, HomeIsSignedIn, HomeMatchesSession, OpenUnderHomeOverlapped,
       Mounted, Open
  <1> QED
    BY <1>1, <1>2, <1>3, <1>4, <1>5 DEF AccountNext

\* The inductive invariant holds throughout.
THEOREM AccountIInvHolds == AccountSpec => []AccountIInv
  BY InitAccountIInv, NextAccountIInv, PTL DEF AccountSpec

\* The session, the requests and the stack keep their types, and the stack shows
\* exactly the mounted HomeMain.
THEOREM AccountTypeCorrect == AccountSpec => []AccountTypeOK
  <1>1. AccountIInv => AccountTypeOK
    BY DEF AccountIInv
  <1> QED
    BY <1>1, AccountIInvHolds, PTL

\* Whenever the screens of HomeMain read currentUser._user.uid, somebody the auth
\* service knows is signed in.
THEOREM SignedInAtHome == AccountSpec => []HomeIsSignedIn
  <1>1. AccountIInv => HomeIsSignedIn
    BY DEF AccountIInv
  <1> QED
    BY <1>1, AccountIInvHolds, PTL

\* A mounted HomeMain belongs to the signed-in account, unless another request
\* of LoginScreen was open when it was mounted.
THEOREM SessionMatchesHome == AccountSpec => []HomeMatchesSession
  <1>1. AccountIInv => HomeMatchesSession
    BY DEF AccountIInv
  <1> QED
    BY <1>1, AccountIInvHolds, PTL

\* Under a HomeMain with no request open, only its pop can open the next one.
THEOREM QuietSessionIsFixed == AccountSpec => SessionFixedWhenQuiet
  <1>1. ASSUME AccountIInv, [AccountNext]_accountVars,
               \A q \in Requests : ~Open(q), route # "Login"
        PROVE  currentUser' = currentUser /\ \A q \in Requests : ~Open(q)'
    BY <1>1 DEF AccountNext, AuthStep, Press, AuthAccepted, AuthRejected, Registered,
       Navigate, NavigateIgnored, SwipeBack, RestartAccount, Open, accountVars,
       AccountIInv, AccountTypeOK
  <1>2. AccountIInv /\ [AccountNext]_accountVars =>
          [(\A q \in Requests : ~Open(q)) /\ route # "Login" =>
             currentUser' = currentUser /\ \A q \in Requests : ~Open(q)']_accountVars
    BY <1>1
  <1> QED
    BY <1>2, AccountIInvHolds, PTL DEF AccountSpec, SessionFixedWhenQuiet
=============================================================================
