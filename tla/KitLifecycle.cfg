SPECIFICATION FairSpec
CONSTANTS
    Processes = {p1, p2}
    Issues = {i1}
    Idle = Idle
    Absent = Absent
    Torn = Torn
    Mixed = Mixed
    None = None
    totalStates = 3
    summarySize = 1
    Trees <- FoundTrees
    IntakeGates = {1, 3}
    ManifestGates = {2, 3}
    MaxRuns = 4
    MaxCrashes = 1
    MaxEdits = 1
CHECK_DEADLOCK FALSE
INVARIANTS
    TypeOK
    AdvancedOnEvidence
    IssueKept
    SummaryOfLessons
PROPERTIES
    HistoryKept
    ClosingSettles
