\* Every failure of every step on every host, attempt after attempt.
CONSTANTS
    Hosts <- AllHosts
    Faults <- AllSteps
    LateFaults <- Commands
    Interruptible = FALSE
    Crashes = FALSE
SPECIFICATION Spec
INVARIANTS
    TypeOK
    ResidueReported
    HandOverBootable
    KnownImageUnloaded
PROPERTIES
    FallbackStartsClean
