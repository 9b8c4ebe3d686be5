SPECIFICATION Spec
CONSTANTS
    GiveUpAfter = 2
    MissesBeforeKill = 2
    Kinds = {"appimage", "windows-setup", "windows-setup-user"}
    Faults = {"crash", "wedge", "slow", "refuse", "install", "tray"}
    MaxEvents = 4
INVARIANTS QuitWaitsForInstall OneInstaller
PROPERTIES NothingStartedAfter QuitEnds
CHECK_DEADLOCK FALSE
