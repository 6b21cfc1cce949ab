\* Two attempts, kills, power cuts and dying writers at every step.
CONSTANTS
    Hosts <- MCHosts
    Faults <- MCFaults
    LateFaults <- MCLateFaults
    Interruptible = FALSE
    Crashes = TRUE
    Disks <- MCDisks
    Target <- MCTarget
    Names <- MCNames
    HostName = "sda"
    Looks <- MCLooks
    Uses <- MCUses
    Chunks = 2
    WriterFaults <- MCWriterFaults
    Unplugs = FALSE
    Lossy = FALSE
    Corrupts = FALSE
    MaxAge = 0
    FutureLeeway = 0
    MaxRTCOffset = 1
    Lags <- MCLags
    Attempts = 2
    Horizon = 2
SPECIFICATION FairSpec
INVARIANTS
    LatestWriter
PROPERTIES
    InstallsSafely
    NoLimbo
CHECK_DEADLOCK FALSE
