SPECIFICATION UpkeepSpec
CONSTANTS
    Jobs = {1, 2, 3, 4}
    Builds = {1, 2, 3}
    Heads <- TheHeads
    Keep = 1
    MaxEdits = 2
    MaxClock = 4
    MaxMishaps = 2
    Tags = {1, 2}
    Candidates = {1}
    MaxChanges = 3
    MaxSetbacks = 2
INVARIANTS OneFiller FilesHaveOwners WayBack QuitInstallsTheOffer
PROPERTIES EachEnds GetsReady
CHECK_DEADLOCK FALSE
