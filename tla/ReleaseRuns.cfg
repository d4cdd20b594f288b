\* Three runs of a release and of a branch that may be named like its tag, with broken
\* steps and lost dispatches.
SPECIFICATION FairSpec
CONSTANTS
    t1 = t1
    b1 = b1
    r1 = r1
    r2 = r2
    r3 = r3
    Tags = {t1}
    Branches = {b1}
    NoTag = none
    Runs = {r1, r2, r3}
    RepoTypes = {"framework", "template", "other"}
    GateFaults <- SomeGateFaults
    MaxFaults = 1
INVARIANTS
    EvidenceProves
    OneRun
    GreenMeansAttached
PROPERTY EvidenceUnlessBroken
