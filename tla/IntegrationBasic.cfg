\* The integration case of the repository, which has no examples directory.
SPECIFICATION Spec
CONSTANTS
    Cases <- BasicCase
    Absent = {"tfvars"}
    Slips = {}
    MaxEdits = 0
INVARIANT CheckoutAccepted
