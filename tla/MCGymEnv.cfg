\* Two simulations of up to three turns.
CONSTANTS
    MaxResets = 2
    MaxTurns = 3
SPECIFICATION FairSpec
INVARIANTS
    ActionsTakenOnce
    EndComesWithRun
    AtMostOneTurnOld
PROPERTIES
    CallsReturn
