\* Three keys, so that there can be tables with a gap between them, four writes, and
\* a level below the outputs of a merge of level 0.
CONSTANTS
    Keys = {1, 2, 3}
    NumLevels = 3
    MaxMemLevel = 1
    MaxSequence = 4
    MaxDeletes = 1
    MaxSnapshots = 1
SPECIFICATION Spec
INVARIANTS
    ReadsKept
    LevelsSorted
CHECK_DEADLOCK FALSE
