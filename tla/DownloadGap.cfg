SPECIFICATION Spec
CONSTANTS
    c1 = c1
    c2 = c2
    Clients = {c1}
    MaxStore = 6
    Lasts = {0}
    PacketSize = 2
    PreambleLen = 3
    UnlockAt = 2
    Firmware = {TRUE}
    Unreadable = {2, 3}
    InboxMax = 2
    BufferSize = 3
    DrainMax = 2
    Faults = {}
INVARIANTS UnreadableSkipped
CHECK_DEADLOCK FALSE
