SPECIFICATION Spec
CONSTANTS
    Names <- MCNames
    SwapNames <- MCSwapNames
    XblPrefixed <- MCXblPrefixed
    IsUfs = FALSE
    Luns <- EmmcLuns
    FactoryRows <- EmmcRows
    Xbl = "xbl"
    HasXblPair = FALSE
    Faults = {"powerLoss", "kill", "ioError", "decay"}
    WriteBack = FALSE
    Torn = Torn
INVARIANTS
    TypeOK
    Failsafe
    NoMixedChain
    IInv
    DamagedLunUntouched
PROPERTIES
    NeverRewritesBootingTable
    ImplementsFailsafeUpdate
