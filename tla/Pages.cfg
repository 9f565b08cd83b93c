\* Two solves on one process, one of which may be dropped; no symmetry, because
\* one property is temporal.
SPECIFICATION FairSpec
CONSTANTS
    s1 = s1
    s2 = s2
    Solves = {s1, s2}
    Disconnecting = {s1}
INVARIANTS
    ContextsAccounted
    SolverHasPage
PROPERTY SlotsComeBack
