\* Two solves that share a channel of two events, one of which may be dropped;
\* no symmetry, because one property is temporal.
SPECIFICATION FairSpec
CONSTANTS
    s1 = s1
    s2 = s2
    Solves = {s1, s2}
    Disconnecting = {s1}
    Capacity = 2
INVARIANTS
    PausedIsKnown
    OnlyOwnAnswered
    InterceptorStopped
PROPERTIES
    DocumentReleased
    ImplementsStubVisit
