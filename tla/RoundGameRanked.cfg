CONSTANTS
    White = White
    Black = Black
    w1 = w1
    w2 = w2
    b1 = b1
    tw = tw
    tv = tv
    tb = tb
    Owner <- MCOwner
    ClockTask = ClockTask
    None = None
    Conns = {w1, w2, b1}
    Tasks = {tw, tv}
    Kinds = {"rated", "tournament"}
    LoadPlies = {2}
    MaxPly = 3
    MinClaimPly = 3
    MinCevalReportPly = 2

SPECIFICATION Spec
SYMMETRY WhiteSymmetry
INVARIANTS
    TypeOK
    SavedOnce
    ClosedDocument
    DurableWhenIdle
    LobbyCount
    NeverSelfStale
PROPERTIES
    MovesOnlyLive
    FlagOnTime
    GraceRespected
    RecordSpec
