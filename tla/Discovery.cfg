SPECIFICATION Spec
CONSTANTS
    netconfig = netconfig
    lldp = lldp
    arp = arp
    Instance = {netconfig, lldp, arp}
    Repeats = {netconfig}
    Kind <- MCKind
    Value = {v1, v2}
    Spawns = {TRUE, FALSE}
    MaxRequest = 2
    MaxChange = 2
INVARIANTS
    LivesWhileNeeded
    CachedIsLastSent
PROPERTIES
    FindingsReachCma
CHECK_DEADLOCK FALSE
