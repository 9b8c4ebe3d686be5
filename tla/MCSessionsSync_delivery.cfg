SPECIFICATION FairSpec
CONSTANTS
    MaxSession = 1
    MaxLap = 1
    MaxRemote = 3
    MaxRulings = 1
    MaxQueue = 2
    KeepDone = 1
    MaxChaos = 1
    w1 = w1
    w2 = w2
    Workers <- TwoWorkers
    Urls = {"home"}
    HomeUrl = "home"
    ServerHints <- Every
PROPERTY Delivered
CHECK_DEADLOCK FALSE
