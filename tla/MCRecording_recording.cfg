SPECIFICATION Spec
CONSTANTS
    Cars = {1, 2}
    MinTicks = 2
    MaxTicks = 3
    Races = {0, 2}
    MaxDrives = 4
    MaxLost = 1
    MaxFailures = 1
    Spans = {50, 100, 144}
    Circuit = 100
    Times <- MCTimes
    SpanWindow = 3
    SpansForMedian = 3
    MaxLaps = 4
    MaxSessions = 2
    MaxRulings = 1
    MaxRefusals = 1
INVARIANTS RecordedAsDriven SessionPerOuting VerdictsHold
CHECK_DEADLOCK FALSE
