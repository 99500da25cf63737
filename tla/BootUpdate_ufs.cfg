SPECIFICATION Spec
CONSTANTS
    Names <- MCNames
    SwapNames <- MCSwapNames
    XblPrefixed <- MCXblPrefixed
    IsUfs = TRUE
    Luns <- ThreeLuns
    FactoryRows <- ThreeRows
    Xbl = "xbl"
    HasXblPair = FALSE
    Faults = {"powerLoss", "ioError", "lostLink"}
    WriteBack = FALSE
    Torn = Torn
INVARIANTS
    IInv
    FailsafeTables
    SafeToWrite
    NoBackupUntouched
