SPECIFICATION Spec
CONSTANTS
    Names <- MCNames
    SwapNames <- MCSwapNames
    XblPrefixed <- MCXblPrefixed
    IsUfs = TRUE
    Luns <- ConfigLuns
    FactoryRows <- ConfigRows
    Xbl = "xbl"
    HasXblPair = FALSE
    Faults = {}
    WriteBack = FALSE
    Torn = Torn
INVARIANTS
    CorruptPrimaryBootsBackup
