\* Two accounts and overlapping logins under the verifications and SAVE.
CONSTANTS
    Users = {u1, u2}
    Keys = {u1, u2}
    NoUser = NoUser
    Homes = {h1, h2}
    Requests = {q1, q2}
    TxIds = {t1, t2}
    NoDoc = NoDoc
    MaxRetries = 0
    Null = Null
    Yes = Yes
    No = No
    Picture = Picture
    Text = Text
    Here = Here
    Clip = Clip
    Records = {}
    MaxClock = 0
    Kinds = {"infoLoad", "facebook", "linkedin", "save"}
SYMMETRY AppSymmetry
SPECIFICATION LoadedSpec
INVARIANTS
    AccountTypeOK
    HomeMatchesSession
    OwnDataOnly
PROPERTIES
    ForeignDocumentOnlyByOverlap
    SessionFixedWhenQuiet
CHECK_DEADLOCK FALSE
