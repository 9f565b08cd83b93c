\* As in Deadline.cfg, with calls as long as the pauses.
SPECIFICATION Spec
CONSTANTS
    CdpTimeout = 1
    KillTime = 1
    LoadTimeout = 1
    SolveTimeout = 6
    NavigationPoll = 1
    PollInterval = 1
    Never = Never
INVARIANT SolvedWithinTimeout
