SPECIFICATION Spec
CONSTANTS
    MaxCalls = 2
    MaxDeviations = 2
    CanFail = TRUE
INVARIANTS
    RowsComplete
    RanMeansObserved
    CountsMatchFiles
    StatusesAgree
    RunsAsAllowed
PROPERTIES
    CommandEnds
