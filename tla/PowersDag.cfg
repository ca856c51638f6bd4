SPECIFICATION FairSpec
CONSTANTS
    NumTasks = 3
    PoolThreads = 2
    MaxConfigures = 2
    Throwing = {3}
    Configs <- MCConfigs
INVARIANTS
    TypeOK
    DagIsOptimal
    NoDataRace
    PowersAreRight
PROPERTIES
    ReturnsAllPowers
    ApplyEndsUnlessThrown
