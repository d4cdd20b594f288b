\* The default workload in its default quota: a drain that the budget never admits.
SPECIFICATION FairSpec
CONSTANTS
    w1 = w1
    w2 = w2
    None = None
    Workloads = {w1}
    Inputs <- DefaultInputs
    Caps <- DefaultCaps
    Quotas <- DefaultQuotas
    MaxEdits = 1
    MaxLoad = 1
    MaxFaults = 0
    MaxDrains = 1
PROPERTY DrainsEnd
CHECK_DEADLOCK FALSE
