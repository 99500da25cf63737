SPECIFICATION Spec
CONSTANTS
    Handles <- OneHandle
    Rows <- MCRows
    Shipped = "shipped"
    Swapped = "swapped"
    Torn = "torn"
    NULL = NULL
    Faults = {}
PROPERTIES
    BackupArrayIsSecondary
