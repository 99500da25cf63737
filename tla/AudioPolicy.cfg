SPECIFICATION Spec
CONSTANTS
    Configs <- MCConfigs
    Handles <- MCHandles
    Sessions = {s1, s2}
    MaxTracks = 2
    MaxSuspends = 2
    Workload <- MCWorkload
    RecClients <- MCRecClients
    Source <- MCSource
    OnPrimary <- MCOnPrimary
    SoundTrigger = {}
    NoOutput = NoOutput
SYMMETRY SessionSymmetry
INVARIANTS
    TypeOK
    OutputServesItsSession
    EachPortOpenOnce
    SuspendedIsRemembered
    HalKnowsRecording
    CaptureIsExact
PROPERTIES
    NoSessionIsCutOff
    NoOffloadStartsWhileBusy
    PhoneStateEndsDsd
