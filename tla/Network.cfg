\* Every kind of host network, changing while Detect looks.
CONSTANTS
    Addresses4 <- MCAddresses4
    Addresses6 <- MCAddresses6
    Gateways4 <- MCGateways4
    Gateways6 <- MCGateways6
    LinkLocal <- MCLinkLocal
    NetOf <- MCNetOf
    Wide <- MCWide
    Servers <- MCServers
    Devices <- MCDevices
    Nics <- MCNics
    Hosts <- MCHosts
    Changes <- MCChanges
    Edits <- MCEdits
    CommandFaults <- MCFaults
    Patience = 1
    Factories <- MCFactories
SPECIFICATION FairSpec
INVARIANTS
    Idempotent
    GatewayReachable
    
    Acknowledged
PROPERTIES
    DetectEnds
CHECK_DEADLOCK FALSE
