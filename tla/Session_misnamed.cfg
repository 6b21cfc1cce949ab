\* A mapping goes by the kernel name of the root partition.
CONSTANTS
    Devices <- MCDevices
    Hosts <- MisnamedHosts
    Stacks <- MCStacks
    Below <- MCBelow
    Live = "live"
    Nothing = "nothing"
SPECIFICATION Spec
INVARIANTS
    TargetDerivedFromRoot
CHECK_DEADLOCK FALSE
