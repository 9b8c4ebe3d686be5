SPECIFICATION Behaves
CONSTANTS
    east = east
    west = west
    quick = quick
    slow = slow
    Unknown = Unknown
    Roads = {east, west}
    Cars = {1, 2}
    StoredLaps = {quick, slow}
    StoredRoad <- MCStoredRoad
    StoredTime <- MCStoredTime
    Times = {2, 3}
    HistorySize = 2
    MaxLaps = 3
    MaxSessions = 2
    MaxPicks = 1
    MaxEvents = 1
    Retention = 5
    Crowd = 2
    Hold = 1
    PositionHold = 2
    RaceLaps = 4
    MaxPosition = 2
    MaxClock = 8
    MaxRestarts = 2
    MaxUpsets = 2
    Forgets = 6
    Few = 4
    DistanceLaps = 5
    Ranges = {2, 7, 10, 14, 18}
    Paces = {50, 56, 62}
    Places = {1, 2}
    Mistakes <- MCMistakes
    Memory = 4
    PaceWindow = 2
    PaceMinLaps = 3
    ConfirmedAfter = 2
    MaxDriven = 6
    MaxChanges = 1
    Finish = 8
    SectorEnds <- MCSectorEnds
    MaxStep = 2
    MaxPause = 4
    MaxTime = 16
    MaxRounds = 2
    MaxMishaps = 1
INVARIANTS ReferenceSound CriticalIsHeard RaceCallsInOrder PlanIsKnown HistoryIsTold SectorsAddUp
CHECK_DEADLOCK FALSE
