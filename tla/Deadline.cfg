\* A pause that is longer than a call may take, a deadline that falls into pauses
\* as well as into calls, one that a single pause passes, and a kill that takes
\* longer than a call.
SPECIFICATION Spec
CONSTANTS
    CdpTimeout = 2
    KillTime = 3
    LoadTimeout = 2
    SolveTimeout = 4
    NavigationPoll = 1
    PollInterval = 3
    Never = Never
INVARIANTS
    HeldWithinBound
    SolvedWithinBound
    OutcomeFits
PROPERTY NoEarlyTimeout
