\* Two processes, the run of Chrome that replaces one of them, and a reader; no
\* symmetry, because some properties are temporal.
SPECIFICATION FairSpec
CONSTANTS
    PoolSize = 2
    b1 = b1
    b2 = b2
    b3 = b3
    r1 = r1
    Instances = {b1, b2, b3}
    Readers = {r1}
    NoInstance = NoInstance
INVARIANTS
    NoIndexUnwatched
    OnlyDeadReplaced
    NoOrphan
    NothingLeftBehind
PROPERTIES
    ImplementsProcessTable
    CrashRepaired
    LookUpReturns
    ShutdownEnds
