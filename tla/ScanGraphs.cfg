\* Every call graph of three workflows, cycles included.
SPECIFICATION Spec
CONSTANTS
    w1 = w1
    w2 = w2
    w3 = w3
    Workflows = {w1, w2, w3}
    Kinds = {"clean", "flagged", "broken"}
    None = None
SYMMETRY WorkflowSymmetry
INVARIANTS
    ReportExact
    Attributed
    ExactWhenAcyclic
