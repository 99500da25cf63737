SPECIFICATION RetrySpec
CONSTANTS
    Names <- MCNames
    SwapNames <- MCSwapNames
    XblPrefixed <- MCXblPrefixed
    IsUfs = TRUE
    Luns <- UfsLuns
    FactoryRows <- UfsRows
    Xbl = "xbl"
    HasXblPair = TRUE
    Faults = {"powerLoss", "ioError"}
    WriteBack = FALSE
    Torn = Torn
    MaxFaults = 3
INVARIANTS
    FailsafeUntilFault
PROPERTIES
    ImplementsUntilFault
    AlwaysFinalizesAgain
