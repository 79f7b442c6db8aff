CONSTANTS
    Flaky = {1}
    Levels = {1, 2}
    Budget = 2
    MaxRequests = 0
    MaxStarts = 1
    Faults = {}
    NTurns = 2
    NEvaluators = 2
SPECIFICATION FairSpec
INVARIANTS
    LevelFollowsLatest
PROPERTIES
    StarvationFree
