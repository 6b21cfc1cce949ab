\* An attempt killed after arming is followed by one that fails in PrepareStage.
CONSTANTS
    Hosts <- GrubHosts
    Faults <- RerunFaults
    LateFaults <- NoSteps
    Interruptible = FALSE
    Crashes = TRUE
SPECIFICATION Spec
INVARIANTS
    ErrorDisarms
