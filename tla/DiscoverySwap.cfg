SPECIFICATION Spec
CONSTANTS
    u1 = u1
    a = a
    b = b
    k = k
    Users = {u1}
    Loggers = {a, b}
    Others = {}
    Nodes = {2, 10}
    MaxStore = 1
    Jobs = {"start"}
PROPERTIES ErasedAsShown
CHECK_DEADLOCK FALSE
