SPECIFICATION Spec
CONSTANTS
    JobIds = {j1}
    Workers = {w1, w2}
    Models = {m1}
    OutputHashes = {h1}
    Timeouts = {2}
    Leases = {1}
    Retries = {1}
    Attempts = {0}
    Copies <- MCCopies
    NoJob = NoJob
    NoClaim = NoClaim
    NoResult = NoResult
    Callers = {c1, c2}
    Idle = Idle
    Digest <- MCDigest
    Request = Request
    Refusal = Refusal
    MaxAppends = 3
    MaxClock = 2
SYMMETRY CallerSymmetry
CHECK_DEADLOCK FALSE
PROPERTIES
    AcceptedUnderActiveClaim
