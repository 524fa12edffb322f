CONSTANTS
    anna = anna
    boris = boris
    carla = carla
    ta = ta
    tb = tb
    tc = tc
    td = td
    Users = {anna, boris, carla}
    Tabs = {ta, tb, td}
    Owner <- MCOwner
    Seekers = {anna}
    Challenges <- AnnaBoris
    Pairers = {}
    Leavers = {}
    Rivals = {}
    None = None
    MaxSeeks = 1
    MaxGames = 1

SPECIFICATION Spec
CHECK_DEADLOCK FALSE
INVARIANTS
    TerminalWithoutGame
