\* Every storage stack of a few devices, changing at any time.
CONSTANTS
    Devices <- MCDevices
    Hosts <- MCHosts
    Stacks <- MCStacks
    Below <- MCBelow
    Live = "live"
    Nothing = "nothing"
SPECIFICATION Spec
INVARIANTS
    TypeOK
    TargetBacksRoot
    RescueTargetUnused
    FallbackAlone
CHECK_DEADLOCK FALSE
