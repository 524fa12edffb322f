CONSTANTS
    w1 = w1
    w2 = w2
    Workers = {w1, w2}
    MaxJobs = 2
    theHuman = theHuman
    Human = theHuman
    e4 = e4
    e5 = e5
    HumanMoves = {e4}
    EngineMoves = {e5}
    MaxPly = 3
    StaleLimit = 2
    AbortLimit = 2
    EngineLimit = 1
    InvalidLimit = 1

SPECIFICATION FairSpec
CHECK_DEADLOCK FALSE
INVARIANTS
    TypeOK
    JobPlayedOnce
PROPERTIES
    JobsEnd
    EngineTurnEnds
