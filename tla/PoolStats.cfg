\* Two slots, two requests, one health probe.
SPECIFICATION Spec
CONSTANTS
    PoolSize = 1
    TabsPerProcess = 2
    r1 = r1
    r2 = r2
    r3 = r3
    r4 = r4
    h1 = h1
    Requests = {r1, r2}
    Disconnecting = {}
    Probes = {h1}
    NoSlot = NoSlot
INVARIANT TotalIsCapacity
