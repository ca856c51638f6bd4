SPECIFICATION FairSpec
CONSTANTS
    c1 = c1
    c2 = c2
    a = a
    b = b
    d = d
    Clients = {c1, c2}
    Tasks = {a, b, d}
    Nobody = Nobody
    Hardware = 2
    MaxThreads = 3
    QueueLimit = 1
    Throwing = {a}
    Programs <- MCPrograms
    Body <- MCBody
INVARIANTS
    TypeOK
    PoolIsAvailable
    InFlightIsExact
    WorkIsNoticed
PROPERTIES
    ShutdownRunsEverything
    ClientsEnd
