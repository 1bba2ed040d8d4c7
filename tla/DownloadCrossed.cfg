SPECIFICATION Spec
CONSTANTS
    c1 = c1
    c2 = c2
    Clients = {c1, c2}
    MaxStore = 4
    Lasts = {0, 1}
    PacketSize = 2
    PreambleLen = 3
    UnlockAt = 2
    Firmware = {TRUE}
    Unreadable = {}
    InboxMax = 2
    BufferSize = 3
    DrainMax = 2
    Faults = {"late packet"}
INVARIANTS RecordsFaithful
CHECK_DEADLOCK FALSE
