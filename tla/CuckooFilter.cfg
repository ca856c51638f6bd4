SPECIFICATION Spec
CONSTANTS
    e = e
    f = f
    g = g
    h = h
    Felts = {e, f, g, h}
    Hash <- MCHash
    TagHash <- MCTagHash
    BitXor <- MCXor
    KeyCountMax = 7
    BitsPerTag = 3
    TagsPerBucket = 2
    MaxKicks = 3
INVARIANTS
    TypeOK
    NoFalseNegative
    ItemsAreCounted
