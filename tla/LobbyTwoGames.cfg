CONSTANTS
    anna = anna
    boris = boris
    carla = carla
    ta = ta
    tb = tb
    tc = tc
    td = td
    Users = {anna, boris, carla}
    Tabs = {ta, tb, tc}
    Owner <- MCOwner
    Seekers = {}
    Challenges = {}
    Pairers = {anna, boris, carla}
    Leavers = {}
    Rivals = {}
    None = None
    MaxSeeks = 2
    MaxGames = 2

SPECIFICATION Spec
CHECK_DEADLOCK FALSE
INVARIANTS
    OneGameAtATime
