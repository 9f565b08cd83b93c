\* One process and its replacement.
SPECIFICATION Spec
CONSTANTS
    PoolSize = 1
    b1 = b1
    b2 = b2
    b3 = b3
    r1 = r1
    Instances = {b1, b2}
    Readers = {}
    NoInstance = NoInstance
INVARIANT ShutdownLeavesNoDirectory
