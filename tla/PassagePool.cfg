CONSTANTS
    easy = easy
    hard = hard
    reader = reader
    NoUser = NoUser
    NoText = NoText
    TopLevel = 1
    Demanding = 1
    Attempts = 1
    Target = 1
    Texts = {easy, hard}
    Fits <- FitsBands
    Readers = {reader}
    MaxTabs = 2
    MaxRefills = 2
    Pressures = {0, 1, 3}
SPECIFICATION FairSpec
INVARIANTS
    TypeOK
    PoolBounded
    OnLevel
    PoolNeverRepeats
PROPERTIES
    EveryReaderAnswered
    RefillsSettle
