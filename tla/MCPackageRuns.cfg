SPECIFICATION Spec
CONSTANTS
    Smokes <- MCSmokes
    Removals <- MCRemovals
    MaxDelay = 1
    MaxFlips = 1
INVARIANTS
    EndsAgree
    PackageRests
