\* Two processes with one tab each, four requests, one of whose clients may
\* disconnect, and a health probe: two requests park while others hold the slots,
\* and one lost slot leaves one in service, so that no state is a deadlock. No
\* symmetry, because two properties are temporal.
SPECIFICATION FairSpec
CONSTANTS
    PoolSize = 2
    TabsPerProcess = 1
    r1 = r1
    r2 = r2
    r3 = r3
    r4 = r4
    h1 = h1
    Requests = {r1, r2, r3, r4}
    Disconnecting = {r1}
    Probes = {h1}
    NoSlot = NoSlot
INVARIANTS
    CapacityConserved
    PermitsBacked
    SlotExclusive
    ActiveIsHeld
    NoLostWakeup
    NoStandstill
PROPERTIES
    ImplementsSlotPool
    StayersAnswered
