\* The directory format, a process that dies while it stores.
CONSTANTS
    Keys = {k1, k2}
    Format = "dir"
    MaxConcurrency = 2
    MaxRetries = 0
    HallucinationRetries = 0
    CanFail = FALSE
    CrashIn = {"store"}
    MaxSessions = 2
    NoKey = NoKey
SPECIFICATION Spec
INVARIANTS
    Resumable
