\* Two threads; a memtable of one entry, so that every write rolls the log, level 0
\* fills up, and a memtable becomes full while a merge runs.
CONSTANTS
    Writers = {w1, w2}
    WriteBuffer = 1
    MaxGroup = 2
    L0Compaction = 1
    L0Stop = 2
    MaxBatches = 3
    MaxStops = 2
    MaxErrors = 1
    BlockSize = 7
    HeaderSize = 3
    MaxRecord = 9
    RecordSizes = {1, 2, 3, 4, 6, 9}
SPECIFICATION FairSpec
INVARIANTS
    LevelTypeOK
    AcknowledgedSurvive
    SyncedSurvive
    SequencesFresh
    NamedTablesExist
    LogReadsBack
PROPERTIES
    WritesReturn
CHECK_DEADLOCK FALSE
