\* The directory format, a process that dies in any file operation.
CONSTANTS
    Keys = {k1, k2}
    Format = "dir"
    MaxConcurrency = 2
    MaxRetries = 1
    HallucinationRetries = 1
    CanFail = FALSE
    CrashIn = {"create", "rewrite", "store"}
    MaxSessions = 2
    NoKey = NoKey
SPECIFICATION Spec
INVARIANTS
    OnePerKey
    ReturnedComplete
PROPERTIES
    KeepsGoodResults
