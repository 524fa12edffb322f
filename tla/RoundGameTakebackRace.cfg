CONSTANTS
    White = White
    Black = Black
    w1 = w1
    w2 = w2
    b1 = b1
    tw = tw
    tv = tv
    tb = tb
    Owner <- MCOwner
    ClockTask = ClockTask
    None = None
    Conns = {w1, b1}
    Tasks = {tw, tb}
    Kinds = {"casual"}
    LoadPlies = {}
    MaxPly = 3
    MinClaimPly = 4
    MinCevalReportPly = 4

SPECIFICATION Spec
PROPERTIES
    TakebackOnlyLive
