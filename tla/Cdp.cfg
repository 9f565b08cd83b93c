\* Two concurrent calls, one of which may be dropped; no symmetry, because some
\* properties are temporal.
SPECIFICATION FairSpec
CONSTANTS
    c1 = c1
    c2 = c2
    Calls = {c1, c2}
    Abandoning = {c1}
INVARIANTS
    WaitersReachable
    PendingIsOwned
PROPERTIES
    RepliesReachWaiters
    ImplementsRemoteCall
    CallsReturn
