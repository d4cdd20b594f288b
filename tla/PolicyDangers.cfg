\* The policies of the repository against the list in ADR-repo/0002.
SPECIFICATION Spec
CONSTANTS
    RuleSlips = {}
    ChartSlips = {}
    Guards = {}
    MaxEdits = 0
INVARIANT DangerousDenied
