\* Two threads and the executor, one combiner, two closures that may each be
\* scheduled twice.
CONSTANTS
    Threads = {t1, t2}
    Executors = {e}
    Locks = {l}
    Closures = {a, b}
    Null = Null
    Refs = 1
    MaxScheds = 2
SPECIFICATION FairSpec
INVARIANTS
    OneOwner
    CountIsRight
    DestroyedIsQuiet
PROPERTIES
    InThreadOrder
    EveryClosureRuns
    OrphansAreFreed
CHECK_DEADLOCK FALSE
