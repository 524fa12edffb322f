CONSTANTS
    anna = anna
    boris = boris
    carla = carla
    d1 = d1
    Players = {anna, boris, carla}
    Rounds = 2
    Modes = {"auto"}
    Clock = Clock
    Directors = {d1}
    None = None
    MaxEntries = 6
    MaxCrashes = 1

SPECIFICATION Spec
CHECK_DEADLOCK FALSE
SYMMETRY Symmetry
INVARIANTS
    StandingsMatch
