SPECIFICATION Spec
CONSTANTS
    Names <- MCNames
    SwapNames <- MCSwapNames
    XblPrefixed <- MCXblPrefixed
    IsUfs = TRUE
    Luns <- OneLun
    FactoryRows <- OneLunRows
    Xbl = "xbl"
    HasXblPair = TRUE
    Faults = {"kill", "ioError", "shortWrite", "decay"}
    WriteBack = TRUE
    Torn = Torn
INVARIANTS
    SafeToWrite
    GrantIsDurable
