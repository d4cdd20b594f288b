\* The default workload in its default quota: an update that never fits.
SPECIFICATION FairSpec
CONSTANTS
    w1 = w1
    w2 = w2
    None = None
    Workloads = {w1}
    Inputs <- DefaultInputs
    Caps <- DefaultCaps
    Quotas <- DefaultQuotas
    MaxEdits = 2
    MaxLoad = 0
    MaxFaults = 0
    MaxDrains = 0
PROPERTY ListedDeployed
CHECK_DEADLOCK FALSE
