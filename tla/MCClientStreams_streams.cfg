SPECIFICATION Spec
CONSTANTS
    s1 = s1
    s2 = s2
    A = A
    B = B
    Sockets = {s1, s2}
    Pages = {A, B}
    Owner <- TwoPages
    Watched = {s1}
    QueueSize = 1
    Wanted <- Filters
    MaxPublished = 2
    MaxFaults = 1
PROPERTIES FeedKept Reaches
CHECK_DEADLOCK FALSE
