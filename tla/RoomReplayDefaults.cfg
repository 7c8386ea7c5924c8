SPECIFICATION Spec
CONSTANTS
    Peers = {p1}
    Callers = {c1, c2}
    NoLease = NoLease
    Idle = Idle
    packetTtl = 1
    clockSkewMs = 4
    nonceTtl = 4
    nonceEntries = 3
    LeaseTimes = {}
    minLeaseMs = 1
    maxLeaseMs = 2
    MaxPackets = 2
    MaxDeliveries = 4
    MaxRestarts = 0
    MaxClock = 5
CHECK_DEADLOCK FALSE
INVARIANTS
    ReceivedOnce
