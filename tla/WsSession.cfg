CONSTANTS
    FrameUnits = 2
    MinUnits = 2
    MinSpeech = 2
    Hangover = 1
    MaxPhrases = 1
    MaxSent = 4
SPECIFICATION FairSpec
INVARIANTS
    TypeOK
    EveryTakeClosedOnce
    TakesDoNotMix
    TurnsHoldSpeech
    TurnEndMeansPublished
    HistoryWasSeen
PROPERTIES
    UnwindsOnStop
    LeavingEndsSession
    MicComesBack
CHECK_DEADLOCK FALSE
