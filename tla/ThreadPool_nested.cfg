SPECIFICATION FairSpec
CONSTANTS
    c1 = c1
    c2 = c2
    a = a
    b = b
    d = d
    Clients = {c1, c2}
    Tasks = {a, b}
    Nobody = Nobody
    Hardware = 1
    MaxThreads = 1
    QueueLimit = 2
    Throwing = {}
    Programs <- NestedPrograms
    Body <- NestedBody
PROPERTIES
    StripReturns
CHECK_DEADLOCK FALSE
