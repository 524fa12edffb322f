CONSTANTS
    g1 = g1
    g2 = g2
    g3 = g3
    Games = {g1, g2}
    white = white
    black = black
    guest = guest
    Sockets = {white, guest}
    PlayerSockets = {white}
    Restorer = Restorer
    None = None
    MaxMoves = 0

SPECIFICATION Spec
SYMMETRY Symmetry
CHECK_DEADLOCK FALSE
INVARIANTS
    OneMoveLock
