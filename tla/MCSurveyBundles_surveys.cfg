SPECIFICATION Spec
CONSTANTS
    home = home
    away = away
    east = east
    west = west
    wall = wall
    road = road
    None = None
    Installs = {home, away}
    Drivers = {home}
    Circuits = {east, west}
    Readings = {wall}
    MaxSurveys = 2
    MaxCopies = 2
    MaxEvents = 1
INVARIANT Census
CHECK_DEADLOCK FALSE
