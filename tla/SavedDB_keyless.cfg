SPECIFICATION Spec
CONSTANTS
    NumBins = 4
    MaxBinSize = 3
    Labeled = TRUE
    BundleIdxCount = 2
    FeltsPerItem = 2
    x = x
    y = y
    z = z
    f1 = f1
    f2 = f2
    f3 = f3
    f4 = f4
    f5 = f5
    L1 = L1
    L2 = L2
    p = p
    q = q
    Paths = {p, q}
    NoPath = NoPath
    Items = {x, y, z}
    Labels = {L1, L2}
    NoLabel = NoLabel
    Absent = Absent
    Garbled = Garbled
    ItemFelts <- MCFelts
    ItemLocs <- MCLocs
    CsvRows <- MCRows
    Batches <- MCBatches
    MaxStarts = 2
    MaxOps = 2
SYMMETRY FileSymmetry
INVARIANTS
    ServesUnderItsKey
