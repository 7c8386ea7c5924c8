SPECIFICATION Spec
CONSTANTS
    JobIds = {j1, j2}
    Workers = {w1, w2}
    Models = {m1}
    OutputHashes = {h1, h2}
    Timeouts = {1}
    Leases = {0}
    Retries = {1}
    Attempts = {0}
    Copies <- MCCopies
    NoJob = NoJob
    NoClaim = NoClaim
    NoResult = NoResult
    Callers = {c1, c2}
    Idle = Idle
    Digest <- MCDigest
    Request = Request
    Refusal = Refusal
    MaxAppends = 4
    MaxClock = 1
SYMMETRY CallerSymmetry
CHECK_DEADLOCK FALSE
INVARIANTS
    TypeOK
    OutputsDistinct
    VerdictsMatchQueue
PROPERTIES
    HolderKeepsClaim
