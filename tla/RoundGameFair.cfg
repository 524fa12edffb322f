CONSTANTS
    White = White
    Black = Black
    w1 = w1
    w2 = w2
    b1 = b1
    tw = tw
    tv = tv
    tb = tb
    Owner <- MCOwner
    ClockTask = ClockTask
    None = None
    Conns = {w1, b1}
    Tasks = {tw}
    Kinds = {"casual", "tournament"}
    LoadPlies = {}
    MaxPly = 3
    MinClaimPly = 4
    MinCevalReportPly = 4

SPECIFICATION FairSpec
INVARIANTS
    TakebackOfferFresh
PROPERTIES
    HandlersReturn
    EventuallyClosed
    EventuallyFlagged
