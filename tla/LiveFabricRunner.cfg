SPECIFICATION FairSpec
CONSTANTS
    Runs = {1, 2}
    Conns = {c1, c2}
    framed = c1
    MaxFrames = 3
    Absent = Absent
    Torn = Torn
    None = None
CHECK_DEADLOCK FALSE
INVARIANTS
    TypeOK
    OnlyCrashesOrphan
    ManifestsTruthful
    HandledInOrder
PROPERTIES
    StopEnds
