SPECIFICATION Spec
CONSTANTS
    Buckets <- MCBuckets
    Levels <- MCLevels
    BackupTrigger = 2
    MaxCycles = 2
    Faults = {"kill", "powerLoss", "gaugeReset", "storageError", "gaugeError"}
INVARIANTS
    TypeOK
    NoPhantomCycles
    FlushedSurvives
PROPERTIES
    StoredNeverGoesBack
