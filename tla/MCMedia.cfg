\* Three uploads of either screen.
CONSTANTS
    Uploads = {a, b, c}
    NoBlob = NoBlob
SPECIFICATION FairSpec
INVARIANTS
    FileLeftOnlyIfOvertaken
PROPERTIES
    FileLostOnlyToOverlap
    UploadEnds
CHECK_DEADLOCK FALSE
