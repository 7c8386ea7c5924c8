SPECIFICATION Spec
CONSTANTS
    Runs = {1, 2}
    Conns = {c1, c2}
    framed = c1
    MaxFrames = 1
    Absent = Absent
    Torn = Torn
    None = None
CHECK_DEADLOCK FALSE
INVARIANTS
    PublishedIsTunnel
