SPECIFICATION Spec
CONSTANTS
    NumBins = 4
    MaxBinSize = 3
    Labeled = TRUE
    BundleIdxCount = 2
    FeltsPerItem = 2
    Threads = {t1}
    NoThread = NoThread
    PoolThreads = 2
    t1 = t1
    t2 = t2
    t3 = t3
    w = w
    x = x
    y = y
    z = z
    f1 = f1
    f2 = f2
    f3 = f3
    f4 = f4
    f5 = f5
    f6 = f6
    f7 = f7
    L1 = L1
    L2 = L2
    Items = {x, y, z}
    Labels = {L1, L2}
    NoLabel = NoLabel
    EmptyLabel = EmptyLabel
    Absent = Absent
    Garbled = Garbled
    ItemFelts <- MCFelts
    ItemLocs <- MCLocs
    Scripts <- OverwriteScripts
PROPERTIES
    LabelIsOverwritten
