\* Every target of verify.py in checkouts with any of six defects; scripts of any
\* length; integration runs, charts and policies, and documents with two edits.
SPECIFICATION FairSteps
CONSTANTS
    Defective <- SomeDefective
    Deepest = 6
    Cases <- SomeCases
    Absent = {}
    Slips = {"test"}
    RuleSlips = {"NET_BIND_SERVICE", "VaultStaticSecret", "tag and digest", "Job"}
    ChartSlips = {"invalid", "unrenderable", "privileged"}
    Guards <- SomeGuards
    Required <- Sections
    MaxEdits = 2
INVARIANTS
    GreenMeansClean
    OnlyLockfileRepaired
    RedHasReason
    NoOrphan
    AssembledFresh
    GreenMeansSound
    RefusalExplained
    RulesGuarded
    ChartAdmissible
    FailureIsNoDenial
    ExpectationsAgree
    NoRecordLeftBehind
    RecordsSound
    ManifestSurvivesCommit
PROPERTIES
    VerifyEnds
    PlainScriptsReported
    OddReportsExplained
