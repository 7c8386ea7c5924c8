SPECIFICATION QueueSpec
CONSTANTS
    JobIds = {j1}
    Workers = {w1, w2}
    Models = {m1}
    Results = {r1}
    Timeouts = {1, 2}
    Leases = {1, 2}
    Retries = {0, 1}
    Attempts = {0, 2}
    NoJob = NoJob
    NoClaim = NoClaim
    NoResult = NoResult
    MaxClock = 5
INVARIANTS
    StatusMatchesClaim
    RetryBudget
PROPERTIES
    ImplementsLeaseTable
