SPECIFICATION FairSpec
CONSTANTS
    MaxCapacity <- MCMaxCapacity
    Faults = {"kill", "powerLoss", "gaugeReset", "storageError", "gaugeError"}
    MaxFaults = 3
INVARIANTS
    TypeOK
PROPERTIES
    StoredOnlyShrinks
    GaugeIsBroughtDown
