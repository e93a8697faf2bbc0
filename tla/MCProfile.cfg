\* The document of one account from a login on: both tabs load or create it,
\* the profile is edited and saved, the location is verified.
CONSTANTS
    Users = {u1}
    Keys = {u1}
    NoUser = NoUser
    Homes = {h1}
    Requests = {q1}
    TxIds = {t1, t2, t3, t4}
    NoDoc = NoDoc
    MaxRetries = 0
    Null = Null
    Yes = Yes
    No = No
    Picture = Picture
    Text = Text
    Here = Here
    Clip = Clip
    Records = {}
    MaxClock = 0
    Kinds = {"infoLoad", "verifyLoad", "save", "location", "image", "edit"}
SYMMETRY AppSymmetry
SPECIFICATION Spec
INVARIANTS
    AppTypeOK
    HomeIsSignedIn
    SaveNeverDisabled
    FetchingIsExplained
PROPERTIES
    FieldsStay
    UserFieldSettled
CHECK_DEADLOCK FALSE
