SPECIFICATION Spec
CONSTANTS
    Transcript <- MCTranscript
    Expected = 18
    MaxFaults = 1
INVARIANTS
    GraphFaithful
    AcceptedOnlyAsWritten
PROPERTIES
    Contract
CHECK_DEADLOCK FALSE
