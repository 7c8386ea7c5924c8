SPECIFICATION Spec
CONSTANTS
    Rooms = {r1, r2}
    Identities = {i1}
    Requests = {q1, q2}
    Clients = {c1}
    None = None
    Kinds = {"event", "presence", "summary", "relay"}
    requireSignedPackets = TRUE
    maxEventsPerRoom = 2
    MaxOperations = 3
    MaxRestarts = 1
CHECK_DEADLOCK FALSE
INVARIANTS
    TypeOK
    ClientsFollowRoom
    RelayedOnceInOrder
