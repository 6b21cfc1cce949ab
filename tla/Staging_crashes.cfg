\* Kills and power cuts at every step, attempt after attempt.
CONSTANTS
    Hosts <- SoundHosts
    Faults <- CrashFaults
    LateFaults <- CrashLateFaults
    Interruptible = FALSE
    Crashes = TRUE
SPECIFICATION Spec
INVARIANTS
    ArmedIsBootable
    ArmedSurvivesPowerCut
PROPERTIES
    OneShot
