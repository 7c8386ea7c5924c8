SPECIFICATION Spec
CONSTANTS
    n1 = n1
    n2 = n2
    n3 = n3
    Nonces <- MCNonces
    blobs <- MCBlobs
    manifest <- MCManifest
    carries <- MCCarries
    openUntil <- MCOpenUntil
    ttlMs = 1
    maxEntries = 2
    MaxClock = 2
    MaxCalls = 4
    Retries = 1
    MaxReplies = 1
CHECK_DEADLOCK FALSE
INVARIANTS
    TypeOK
    ForgottenByAgeOrPressure
    SettledOnce
    BlobWholeOrNamed
