SPECIFICATION Spec
CONSTANTS
    Names <- MCNames
    SwapNames <- MCSwapNames
    XblPrefixed <- MCXblPrefixed
    IsUfs = TRUE
    Luns <- UfsLuns
    FactoryRows <- UfsRows
    Xbl = "xbl"
    HasXblPair = TRUE
    Faults = {"powerLoss"}
    WriteBack = FALSE
    Torn = Torn
INVARIANTS
    ReadyBootsBackupXbl
