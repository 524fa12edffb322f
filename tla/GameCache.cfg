CONSTANTS
    g1 = g1
    g2 = g2
    g3 = g3
    Games = {g1, g2}
    white = white
    black = black
    guest = guest
    Sockets = {white}
    PlayerSockets = {white}
    Restorer = Restorer
    None = None
    MaxMoves = 1

SPECIFICATION FairSpec
CHECK_DEADLOCK FALSE
INVARIANTS
    TypeOK
    SharedConstruction
    AppliedOnce
PROPERTIES
    MovesKept
    Released
