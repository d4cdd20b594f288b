\* Two runs on one S3 state, or one with any inputs: contention, stale plans, kills, forced unlocks.
SPECIFICATION PairedSpec
CONSTANTS
    r1 = r1
    r2 = r2
    c1 = c1
    c2 = c2
    S3State = S3State
    Runs <- TwoRuns
    Configs = {c1, c2}
    BaseConfig = base
    Partial = partial
    Inputs <- AllInputs
    None = None
INVARIANTS
    LockedWork
    StateDescribesInfra
    GreenMeansDeployed
    GatedWrites
PROPERTIES
    ImplementsStateLog
    LocalStateOffered
    Termination
