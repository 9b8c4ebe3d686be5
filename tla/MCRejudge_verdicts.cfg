SPECIFICATION Spec
CONSTANTS
    c1 = c1
    Circuits = {c1}
    None = None
    Roads = {1}
    MaxWrites = 1
    MaxLaps = 2
    MaxSessions = 2
    MaxClicks = 2
    MaxFaults = 1
INVARIANT VerdictsFollow
PROPERTIES PassHeals ComesRight
CHECK_DEADLOCK FALSE
