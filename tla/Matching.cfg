SPECIFICATION Spec
CONSTANTS
  ItemBitCountMin = 10
  ItemBitCountMax = 15
  SerializationVersion = 1
  W = 3
  FeltBytes = 3
  BitsPerFelt = 4
  MaxNonceByteCount = 16
  KeyStream <- MCKeyStream
  PlainModulus = 17
  Slots = {0, 1, 2, 3, 4, 5, 6, 7}
  FirstChainIdx = 3
  Documents <- MCDocuments
  Order = 11
  Cofactor = 3
  PointOf <- MCPointOf
  HashOf <- MCHashOf
  LocsOf <- MCLocsOf
  OPRFKeys = {4, 5}
  Blinds = {1, 7}
  DataSets <- MCDataSets
  Queries <- MCQueries
  NonceDraws <- MCNonceDraws
  LabelByteCount = 3
  NonceByteCount = 2
  BundleIdxCount = 2
  FeltsPerItem = 3
  NumBins = 6
  MaxItemsPerBin = 8
INVARIANTS
  RecordsAreRight
  QueriesAreAnswered
  OnlyCollisionsAbort
CHECK_DEADLOCK FALSE
