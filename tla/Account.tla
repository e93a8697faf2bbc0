------------------------------ MODULE Account ------------------------------
(***************************************************************************)
(* LoginScreen and the stack of RootNavigation: who is signed in, which    *)
(* requests to Firebase Auth are open, and which HomeMain is on the stack. *)
(*                                                                         *)
(* The buttons' handlers set isFetching to true and, in the same event,    *)
(* back to false, so no press ever sees a disabled button and requests     *)
(* overlap.  A HomeMain is popped by the swipe of the stack navigator; it  *)
(* is never reused: the next navigation mounts a new instance.             *)
(***************************************************************************)
EXTENDS Naturals

CONSTANTS
    Users,      \* accounts: an email and the uid it gets
    NoUser,     \* firebase.auth().currentUser = null
    Homes,      \* HomeMain instances the process may ever mount (a bound)
    Requests    \* presses of LOGIN and SIGN UP (a bound)

ASSUME NoUserAssumption == NoUser \notin Users
ASSUME LoginRouteAssumption == "Login" \notin Homes

VARIABLES
    currentUser,  \* firebase.auth().currentUser, kept over restarts
    accounts,     \* accounts the auth service knows
    request,      \* the presses, and what has become of them
    route,        \* top of UserStack: "Login" or a HomeMain instance
    home          \* the HomeMain instances

accountVars == <<currentUser, accounts, request, route, home>>

Open(q) == request[q].stage \in {"sent", "accepted"}

Mounted(h) == home[h].status = "mounted"

AccountInit ==
    /\ accounts \in SUBSET Users
    /\ currentUser \in accounts \cup {NoUser}
    /\ request = [q \in Requests |->
                    [kind |-> "none", user |-> NoUser, stage |-> "unused"]]
    /\ route = "Login"
    /\ home = [h \in Homes |->
                 [status |-> "unborn", user |-> NoUser, overlapped |-> FALSE]]

\* (Mutant: the buttons can be pressed through a HomeMain.)
PressAnywhere(q, kind, u) ==
    /\ request[q].stage = "unused"
    /\ request' = [request EXCEPT ![q] =
                     [kind |-> kind, user |-> u, stage |-> "sent"]]
    /\ UNCHANGED <<currentUser, accounts, route, home>>

\* LOGIN (onLogin) and SIGN UP (onRegister), with the credentials of u.
Press(q, kind, u) ==
    /\ route = "Login"
    /\ request[q].stage = "unused"
    /\ request' = [request EXCEPT ![q] =
                     [kind |-> kind, user |-> u, stage |-> "sent"]]
    /\ UNCHANGED <<currentUser, accounts, route, home>>

\* (Mutant: a request may be accepted a second time.)
AcceptedAgain(q) ==
    LET u == request[q].user IN
    /\ request[q].stage \in {"sent", "done"}
    /\ accounts' = accounts \cup {u}
    /\ currentUser' = u
    /\ request' = [request EXCEPT ![q].stage = "accepted"]
    /\ UNCHANGED <<route, home>>

\* The auth service signs the account in, or creates it and signs it in.
AuthAccepted(q) ==
    LET u == request[q].user IN
    /\ request[q].stage = "sent"
    /\ (request[q].kind = "login") = (u \in accounts)
    /\ accounts' = accounts \cup {u}
    /\ currentUser' = u
    /\ request' = [request EXCEPT ![q].stage = "accepted"]
    /\ UNCHANGED <<route, home>>

\* (Mutant: a rejection goes on to the then.)
RejectionIgnored(q) ==
    /\ request[q].stage = "sent"
    /\ request' = [request EXCEPT ![q].stage = "accepted"]
    /\ UNCHANGED <<currentUser, accounts, route, home>>

\* Wrong password, unknown or existing account, no network: an alert.
AuthRejected(q) ==
    /\ request[q].stage = "sent"
    /\ request' = [request EXCEPT ![q].stage = "rejected"]
    /\ UNCHANGED <<currentUser, accounts, route, home>>

\* The `then' of onRegister: an alert, and the login screen stays.
Registered(q) ==
    /\ request[q].stage = "accepted"
    /\ request[q].kind = "register"
    /\ request' = [request EXCEPT ![q].stage = "done"]
    /\ UNCHANGED <<currentUser, accounts, route, home>>

\* The `then' of onLogin: navigate("HomeMain") mounts instance h, whose screens
\* read currentUser in their constructors.
Navigate(q, h) ==
    /\ request[q].stage = "accepted"
    /\ request[q].kind = "login"
    /\ route = "Login"
    /\ home[h].status = "unborn"
    /\ request' = [request EXCEPT ![q].stage = "done"]
    /\ route' = h
    /\ home' = [home EXCEPT ![h] =
                  [status |-> "mounted", user |-> currentUser,
                   overlapped |-> \E p \in Requests \ {q} : Open(p)]]
    /\ UNCHANGED <<currentUser, accounts>>

\* The same when a HomeMain is on the stack already: nothing to navigate to.
NavigateIgnored(q) ==
    /\ request[q].stage = "accepted"
    /\ request[q].kind = "login"
    /\ route # "Login"
    /\ request' = [request EXCEPT ![q].stage = "done"]
    /\ UNCHANGED <<currentUser, accounts, route, home>>

\* (Mutant: the popped HomeMain stays mounted.)
SwipeBackOnly ==
    /\ route # "Login"
    /\ route' = "Login"
    /\ UNCHANGED <<currentUser, accounts, request, home>>

\* The swipe back from HomeMain unmounts it; nobody is signed out.
SwipeBack ==
    /\ route # "Login"
    /\ home' = [home EXCEPT ![route].status = "gone"]
    /\ route' = "Login"
    /\ UNCHANGED <<currentUser, accounts, request>>

\* The process is killed and started again: Login is the initial route. A
\* registration that was on its way may still create its account.
RestartAccount ==
    /\ \E S \in SUBSET {request[q].user : q \in {p \in Requests :
                           request[p].kind = "register" /\ request[p].stage = "sent"}} :
          accounts' = accounts \cup S
    /\ route' = "Login"
    /\ home' = [h \in Homes |-> IF Mounted(h) THEN [home[h] EXCEPT !.status = "gone"]
                                ELSE home[h]]
    /\ request' = [q \in Requests |-> IF Open(q) THEN [request[q] EXCEPT !.stage = "done"]
                                      ELSE request[q]]
    /\ UNCHANGED currentUser

\* Steps that leave the stack of screens alone.
AuthStep ==
    \/ \E q \in Requests, kind \in {"login", "register"}, u \in Users : Press(q, kind, u)
    \/ \E q \in Requests :
        AuthAccepted(q) \/ AuthRejected(q) \/ Registered(q) \/ NavigateIgnored(q)

AccountNext ==
    \/ AuthStep
    \/ \E q \in Requests, h \in Homes : Navigate(q, h)
    \/ SwipeBack
    \/ RestartAccount

AccountSpec == AccountInit /\ [][AccountNext]_accountVars

-----------------------------------------------------------------------------
\* Every variable has its type, and the stack and the instances agree on which
\* HomeMain is mounted.
AccountTypeOK ==
    /\ accounts \subseteq Users
    /\ currentUser \in Users \cup {NoUser}
    /\ request \in [Requests -> [kind : {"none", "login", "register"},
                                 user : Users \cup {NoUser},
                                 stage : {"unused", "sent", "accepted", "rejected", "done"}]]
    /\ route \in Homes \cup {"Login"}
    /\ home \in [Homes -> [status : {"unborn", "mounted", "gone"},
                           user : Users \cup {NoUser}, overlapped : BOOLEAN]]
    /\ \A h \in Homes : Mounted(h) <=> route = h

\* The constructors of InfoScreen, VerifyScreen and RecordScreen read
\* currentUser._user.uid: whenever a HomeMain is mounted, and was mounted,
\* somebody the auth service knows is signed in.
HomeIsSignedIn ==
    \A h \in Homes : Mounted(h) => currentUser \in accounts /\ home[h].user \in accounts

\* The screens of a HomeMain belong to the account that is signed in, unless
\* another request of LoginScreen was still open when it was mounted: that
\* overlap is the one way to another account under a mounted HomeMain.
HomeMatchesSession ==
    \A h \in Homes :
        Mounted(h) /\ home[h].user # currentUser => home[h].overlapped

\* What an answer in flight may still do: the account of a mounted HomeMain can
\* only be replaced while a request is open, so once LoginScreen has no open
\* request, the session of the mounted HomeMain is fixed until it is popped.
SessionFixedWhenQuiet ==
    [][(\A q \in Requests : ~Open(q)) /\ route # "Login" =>
         currentUser' = currentUser /\ \A q \in Requests : ~Open(q)']_accountVars

-----------------------------------------------------------------------------
(***************************************************************************)
(* The inductive invariant behind these.                                   *)
(***************************************************************************)

\* A request carries the credentials of an account.
RequestsNameUsers ==
    \A q \in Requests : request[q].stage # "unused" => request[q].user \in Users

\* An accepted request has signed somebody in, and nobody signs out again.
AcceptedIsSignedIn ==
    (\E q \in Requests : request[q].stage = "accepted") => currentUser \in accounts

KnownAccountOnly == currentUser \in accounts \cup {NoUser}

\* No press happens on top of a HomeMain: a request that is open under it was
\* open when it was mounted.
OpenUnderHomeOverlapped ==
    \A h \in Homes : Mounted(h) /\ (\E q \in Requests : Open(q)) => home[h].overlapped

AccountIInv ==
    /\ AccountTypeOK
    /\ RequestsNameUsers
    /\ KnownAccountOnly
    /\ AcceptedIsSignedIn
    /\ HomeIsSignedIn
    /\ HomeMatchesSession
    /\ OpenUnderHomeOverlapped
=============================================================================
