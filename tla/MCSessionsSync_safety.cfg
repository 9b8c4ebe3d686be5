SPECIFICATION Spec
CONSTANTS
    MaxSession = 2
    MaxLap = 2
    MaxRemote = 3
    MaxRulings = 1
    MaxQueue = 2
    KeepDone = 1
    MaxChaos = 1
    w1 = w1
    w2 = w2
    Workers <- OneWorker
    Urls = {"home", "other"}
    HomeUrl = "home"
    ServerHints <- Every
INVARIANTS SyncedMeansHeld NamedOrOwed CrashLosesNothing
PROPERTY DriveInOrder
CHECK_DEADLOCK FALSE
