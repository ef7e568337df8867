\* One simulation at a time, every hook installed, the disk does not fail.
CONSTANTS
    Main = main
    Workers = {w1}
    Hooked <- AllHooks
    CanFail = FALSE
    MaxCalls = 8
SPECIFICATION FairSpec
INVARIANTS
    SummaryExact
    Bracketed
    OnlyOpenLackEnds
PROPERTIES
    EveryStartEnds
