\* The single file, writes that fail, a process that dies while it stores.
CONSTANTS
    Keys = {k1, k2}
    Format = "json"
    MaxConcurrency = 2
    MaxRetries = 1
    HallucinationRetries = 1
    CanFail = TRUE
    CrashIn = {"store"}
    MaxSessions = 2
    NoKey = NoKey
SPECIFICATION FairSpec
INVARIANTS
    CompletedOnDisk
    HallucinationsRetried
    Resumable
PROPERTIES
    BatchEnds
