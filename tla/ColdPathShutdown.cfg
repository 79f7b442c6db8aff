CONSTANTS
    Flaky = {1}
    Levels = {1, 2}
    Budget = 1
    MaxRequests = 0
    MaxStarts = 1
    Faults = {"stop"}
    NTurns = 2
    NEvaluators = 2
SPECIFICATION Spec
INVARIANTS
    DeferralOnlyDelays
