\* Two workloads that change, scale, fail and are drained.
SPECIFICATION FairSpec
CONSTANTS
    w1 = w1
    w2 = w2
    None = None
    Workloads = {w1, w2}
    Inputs <- MixedInputs
    Caps <- MixedCaps
    Quotas <- MixedQuotas
    MaxEdits = 3
    MaxLoad = 1
    MaxFaults = 1
    MaxDrains = 1
INVARIANTS
    TypeOK
    WithinCaps
PROPERTIES
    ImplementsAtomicRelease
    RoomyWorkloadsServed
    RoomyDrainsEnd
CHECK_DEADLOCK FALSE
