SPECIFICATION FairSpec
CONSTANTS
    u1 = u1
    a = a
    b = b
    k = k
    Users = {u1}
    Loggers = {a, b}
    Others = {k}
    Nodes = {2, 10}
    MaxStore = 2
    Jobs = {"save", "start", "command"}
INVARIANTS TypeOK PageOfOne
PROPERTIES FirstTaken ErasedAsShownCalm ErasedOnlyAgreed EveryRequestEnds
CHECK_DEADLOCK FALSE
