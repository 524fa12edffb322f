CONSTANTS
    anna = anna
    boris = boris
    carla = carla
    d1 = d1
    Players = {anna, boris, carla}
    Rounds = 2
    Modes = {"auto", "manual"}
    Clock = Clock
    Directors = {d1}
    None = None
    MaxEntries = 6
    MaxCrashes = 1

SPECIFICATION FairSpec
CHECK_DEADLOCK FALSE
INVARIANTS
    TypeOK
    PointsMatchGames
    ResultsCounted
    RoundsInOrder
    NoShowStaysOut
    FinishedComplete
    OneEntryPerRound
PROPERTIES
    TournamentEnds
