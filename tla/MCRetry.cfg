\* Blocks that run again: both tabs load or create the document and Facebook is
\* verified, with one retry for each transaction.
CONSTANTS
    Users = {u1}
    Keys = {u1}
    NoUser = NoUser
    Homes = {h1}
    Requests = {q1}
    TxIds = {t1, t2, t3}
    NoDoc = NoDoc
    MaxRetries = 1
    Null = Null
    Yes = Yes
    No = No
    Picture = Picture
    Text = Text
    Here = Here
    Clip = Clip
    Records = {}
    MaxClock = 0
    Kinds = {"infoLoad", "verifyLoad", "facebook"}
SYMMETRY AppSymmetry
SPECIFICATION Spec
INVARIANTS
    VerifiedIsStored
PROPERTIES
    LoadChangesNothing
CHECK_DEADLOCK FALSE
