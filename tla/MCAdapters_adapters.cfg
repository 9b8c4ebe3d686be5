SPECIFICATION Behaves
CONSTANTS
    w1 = w1
    w2 = w2
    east = east
    west = west
    Bundles = {east}
    Servers = {"home", "other"}
    Home = "home"
    Uploads = {w1, w2}
    MaxWrites = 2
    MaxUpsets = 2
    Runs = {w1, w2}
    MaxMoves = 3
    MaxMetas = 1
    MaxFaults = 2
INVARIANT SyncedIsTaken
PROPERTIES GoesUp Streams
CHECK_DEADLOCK FALSE
