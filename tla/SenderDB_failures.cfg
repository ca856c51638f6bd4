SPECIFICATION FairSpec
CONSTANTS
    NumBins = 4
    MaxBinSize = 3
    Labeled = FALSE
    BundleIdxCount = 2
    FeltsPerItem = 2
    Threads = {t1, t2, t3}
    NoThread = NoThread
    PoolThreads = 2
    t1 = t1
    t2 = t2
    t3 = t3
    w = w
    x = x
    y = y
    z = z
    f1 = f1
    f2 = f2
    f3 = f3
    f4 = f4
    f5 = f5
    f6 = f6
    f7 = f7
    L1 = L1
    L2 = L2
    Items = {w, x, y, z}
    Labels = {}
    NoLabel = NoLabel
    EmptyLabel = EmptyLabel
    Absent = Absent
    Garbled = Garbled
    ItemFelts <- MCFelts
    ItemLocs <- MCLocs
    Scripts <- UnlabeledScripts
INVARIANTS
    TypeOK
    LockExclusion
    ItemCountMatches
    PolynomialsFit
PROPERTIES
    EveryCallReturns
    ImplementsAbstractDB
