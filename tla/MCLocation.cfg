\* Verifying the location while the tab loads or creates the document, over a stream
\* that breaks; two presses may overlap, and two more sign-ins are on their way.
CONSTANTS
    Users = {u1, u2}
    Keys = {u1, u2}
    NoUser = NoUser
    Homes = {h1}
    Requests = {q1, q2}
    TxIds = {t1, t2}
    NoDoc = NoDoc
    MaxRetries = 0
    Null = Null
    Yes = Yes
    No = No
    Picture = Picture
    Text = Text
    Here = Here
    Clip = Clip
    Records = {}
    MaxClock = 2
    Kinds = {"verifyLoad", "location"}
SPECIFICATION FairOverlappedSpec
PROPERTIES
    LocationReleasesScreenUnlessRejectedOrStranded
    Settles
CHECK_DEADLOCK FALSE
