\* A location verified before the document exists.
CONSTANTS
    Users = {u1}
    Keys = {u1}
    NoUser = NoUser
    Homes = {h1}
    Requests = {q1}
    TxIds = {t1, t2, t3}
    NoDoc = NoDoc
    MaxRetries = 0
    Null = Null
    Yes = Yes
    No = No
    Picture = Picture
    Text = Text
    Here = Here
    Clip = Clip
    Records = {}
    MaxClock = 0
    Kinds = {"infoLoad", "verifyLoad", "location"}
SPECIFICATION FairSpec
PROPERTIES
    LocationReleasesScreen
CHECK_DEADLOCK FALSE
