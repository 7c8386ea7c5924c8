SPECIFICATION Spec
CONSTANTS
    Peers = {p1}
    Callers = {c1, c2}
    NoLease = NoLease
    Idle = Idle
    packetTtl = 1
    clockSkewMs = 1
    nonceTtl = 2
    nonceEntries = 3
    LeaseTimes = {1, 3}
    minLeaseMs = 1
    maxLeaseMs = 2
    MaxPackets = 2
    MaxDeliveries = 3
    MaxRestarts = 1
    MaxClock = 4
CHECK_DEADLOCK FALSE
INVARIANTS
    TypeOK
    ReceivedOnce
    PresenceAccountedFor
PROPERTIES
    EvictedOnlyWhenStaleInSession
