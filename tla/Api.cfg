SPECIFICATION Spec
CONSTANTS
    u1 = u1
    u2 = u2
    c1 = c1
    h1 = h1
    h2 = h2
    p1 = p1
    p2 = p2
    r1 = r1
    r2 = r2
    t1 = t1
    t2 = t2
    None = None
    Absent = Absent
    Blank = Blank
    Keys <- MCKeys
    Users = {u1, u2}
    Members = {u1}
    Clients = {c1}
    Passwords = {p1, p2}
    Requests = {r1, r2}
    Tokens = {t1, t2}
    MaxFailures = 2
    Window = 1
    Lockout = 2
    MaxKeys = 2
    MaxArrivals = 3
    DayLen = 2
    Handlers = {h1, h2}
    Cards <- MCCards
    Horizon = 4
    MaxRows = 4
    AssessmentLimit = 3
    TrendTime = 2
    MinPoints = 2
    Offset <- MCOffset
    ListLimit = 2
    OverallLimit = 3
    HistoryTalks = 2
    HistoryLimit = 2
    Days = 2
    Passages <- MCPassages
    Transcripts <- MCTranscripts
    Finer = 10
    Durations = {Blank, 0, 4, 106}
    ShownWords = 2
    ShownPairs = 1
    HistoryRows = 2
    MaxAttempts = 3
    MaxSockets = 3
    MaxAsking = 2
    MaxTimers = 2
    MaxOwed = 2
INVARIANTS
    TypeOK
    ChangeSignsOthersOut
    ReplacedByItsOwner
    ThrottleBounded
    
    
    ReadingAddsUp
    MicrophoneComesBack
PROPERTY LockoutsEnd
CHECK_DEADLOCK FALSE
