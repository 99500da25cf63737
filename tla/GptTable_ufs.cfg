SPECIFICATION Spec
CONSTANTS
    SwapNames <- MCSwapNames
    SwapList <- MCSwapList
    XblPrefixed <- MCXblPrefixed
    Names <- MCNames
    IsUfs = TRUE
    MaxRows = 4
INVARIANTS
    LoopInv
    SwapIsLoop
    SwapTwiceIsIdentity
    SwapFlipsExactlyBacked
    NoEntryLost
