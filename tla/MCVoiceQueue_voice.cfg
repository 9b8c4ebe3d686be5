SPECIFICATION SpeechSpec
CONSTANTS
    alarm = alarm
    gap = gap
    fuel = fuel
    None = None
    Test = Test
    Callouts = {alarm, gap, fuel}
    Priority <- PriorityOf
    Interrupts = {alarm}
    DedupeKey <- KeyOf
    MaxQueue = 2
    MaxFailures = 2
    Fallback = TRUE
    MaxArrivals = 3
    MaxPosted = 1
    MaxDisturbances = 1
CHECK_DEADLOCK FALSE
INVARIANT Answered
PROPERTY Moves
