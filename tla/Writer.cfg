\* Two disks, two names, every failing call, lost writes and lost disks.
CONSTANTS
    Disks <- MCDisks
    Target <- MCTarget
    Names <- MCNames
    HostName = "sda"
    Looks <- MCLooks
    Uses <- MCUses
    Chunks = 2
    Faults <- MCFaults
    Unplugs = TRUE
    Lossy = TRUE
    Corrupts = TRUE
SPECIFICATION FairSpec
INVARIANTS
    TypeOK
    OnlyTargetWritten
    FallbackNeedsAbsence
    BusyNotWritten
    RebootVerified
PROPERTIES
    WriterEnds
CHECK_DEADLOCK FALSE
