SPECIFICATION Spec
CONSTANTS
    Callers = {c1, c2}
    Subjects <- MCSubjects
    Types <- MCTypes
    PhaseOf <- MCPhaseOf
    Terms = {0, 1}
    Payloads <- MCPayloads
    Digest <- MCDigest
    Idle = Idle
    MaxAppends = 3
    MaxClock = 1
    s1 = s1
    p1 = p1
    p2 = p2
CHECK_DEADLOCK FALSE
INVARIANTS
    OneSurvivorPerPhase
    SurvivorIsBest
    IndexMatchesEvents
    ConflictTrail
PROPERTIES
    ReplayNeverGoesBack
    ImplementsRegister
