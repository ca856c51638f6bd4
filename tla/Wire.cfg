SPECIFICATION Spec
CONSTANTS
    w1 = w1
    w2 = w2
    k1 = k1
    k2 = k2
    c1 = c1
    c2 = c2
    bfv = bfv
    other = other
    Writers = {w1, w2}
    Readers = {k1, k2}
    NoThread = nobody
    Clients = {c1, c2}
    Callers = {bfv}
    Operations <- MCOperations
    Replies <- MCReplies
    Versions = {1, 2}
    MaxSent = 2
    MaxAsked = 1
    MaxReplies = 2
    MaxReceives = 3
    Contexts = {bfv, other}
    Keyswitching = {bfv}
    NoContext = null
    ThisVersion = 1
SYMMETRY WireSymmetry
CHECK_DEADLOCK FALSE
INVARIANTS
    InOrder
    GoesThrough
    AnswersReachAsker
PROPERTIES
    Realigned
