SPECIFICATION Spec
CONSTANTS
    MaxFlips = 2
INVARIANTS
    RefusedForItsReason
    PassRests
    AuditEvident
PROPERTIES
    Contract
