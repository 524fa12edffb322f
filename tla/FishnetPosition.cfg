CONSTANTS
    w1 = w1
    w2 = w2
    Workers = {w1, w2}
    MaxJobs = 3
    theHuman = theHuman
    Human = theHuman
    e4 = e4
    e5 = e5
    HumanMoves = {e4}
    EngineMoves = {e5}
    MaxPly = 3
    StaleLimit = 1
    AbortLimit = 1
    EngineLimit = 1
    InvalidLimit = 1

SPECIFICATION Spec
SYMMETRY Symmetry
CHECK_DEADLOCK FALSE
PROPERTIES
    EngineMoveForItsPosition
