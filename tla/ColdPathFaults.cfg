CONSTANTS
    Flaky = {1}
    Levels = {1}
    Budget = 1
    MaxRequests = 1
    MaxStarts = 2
    Faults = {"crash", "stop", "read", "write"}
    NTurns = 2
    NEvaluators = 2
SPECIFICATION Spec
INVARIANTS
    TypeOK
    AuditTrail
PROPERTIES
    LedgerSpec
