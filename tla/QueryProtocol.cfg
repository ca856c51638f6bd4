SPECIFICATION FairSpec
CONSTANTS
    r1 = r1
    r2 = r2
    a = a
    b = b
    Receivers = {r1, r2}
    Items = {a, b}
    Queries <- MCQueries
    DBs <- MCDBs
    MaxCalls = 2
    Local = {r1}
    ThreadCount = 2
    PoolThreads = 4
INVARIANTS
    TypeOK
    PackagesBalance
    OnlyAwaited
PROPERTIES
    CallsEnd
    ImplementsAbstractPSI
