\* The directory format, writes that fail.
CONSTANTS
    Keys = {k1, k2}
    Format = "dir"
    MaxConcurrency = 2
    MaxRetries = 1
    HallucinationRetries = 1
    CanFail = TRUE
    CrashIn = {}
    MaxSessions = 1
    NoKey = NoKey
SPECIFICATION Spec
INVARIANTS
    IndexInSync
