SPECIFICATION Spec
CONSTANTS
    Handles = {h1, h2}
    Rows <- MCRows
    Shipped = "shipped"
    Swapped = "swapped"
    Torn = "torn"
    NULL = NULL
    Faults = {"powerLoss", "kill", "ioError"}
SYMMETRY Interchangeable
INVARIANTS
    TypeOK
    CommitIsFailsafe
    CommittedIsDurable
