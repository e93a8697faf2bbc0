\* Videos: two RecordScreens, one after the other, and SAVE.
CONSTANTS
    Users = {u1}
    Keys = {u1}
    NoUser = NoUser
    Homes = {h1}
    Requests = {q1}
    TxIds = {t1, t2, t3, t4}
    NoDoc = NoDoc
    MaxRetries = 0
    Null = Null
    Yes = Yes
    No = No
    Picture = Picture
    Text = Text
    Here = Here
    Clip = Clip
    Records = {r1, r2}
    MaxClock = 0
    Kinds = {"recordLoad", "video", "save"}
SYMMETRY AppSymmetry
SPECIFICATION LoadedSpec
INVARIANTS
    AcknowledgedVideosKept
CHECK_DEADLOCK FALSE
