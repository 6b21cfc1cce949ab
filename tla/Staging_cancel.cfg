\* Nothing fails but what the operator interrupts.
CONSTANTS
    Hosts <- AllHosts
    Faults <- NoSteps
    LateFaults <- NoSteps
    Interruptible = TRUE
    Crashes = FALSE
SPECIFICATION FairSpec
INVARIANTS
    CancelledLeavesOnlyStruck
PROPERTIES
    AttemptEnds
    HandOverHappens
