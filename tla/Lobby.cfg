CONSTANTS
    anna = anna
    boris = boris
    carla = carla
    ta = ta
    tb = tb
    tc = tc
    td = td
    Users = {anna, boris, carla}
    Tabs = {ta, tb, tc, td}
    Owner <- MCOwner
    Seekers = {anna}
    Challenges <- AnnaCarla
    Pairers = {boris, carla}
    Leavers = {anna, carla}
    Rivals = {anna, boris}
    None = None
    MaxSeeks = 2
    MaxGames = 2

SPECIFICATION Spec
CHECK_DEADLOCK FALSE
SYMMETRY TabSymmetry
INVARIANTS
    TypeOK
    OneGamePerSeek
    AcceptedHasGame
    OneRematch
