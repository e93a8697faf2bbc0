\* Videos: one RecordScreen, over restarts, other sign-ins and stale reads of the cache.
CONSTANTS
    Users = {u1, u2}
    Keys = {u1, u2}
    NoUser = NoUser
    Homes = {h1, h2}
    Requests = {q1, q2}
    TxIds = {t1, t2, t3}
    NoDoc = NoDoc
    MaxRetries = 0
    Null = Null
    Yes = Yes
    No = No
    Picture = Picture
    Text = Text
    Here = Here
    Clip = Clip
    Records = {r1}
    MaxClock = 4
    Kinds = {"infoLoad", "recordLoad", "video", "restart"}
SYMMETRY AppSymmetry
SPECIFICATION LoadedSpec
INVARIANTS
    UncontendedVideosKept
CHECK_DEADLOCK FALSE
