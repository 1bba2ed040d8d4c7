SPECIFICATION FairSpec
CONSTANTS
    c1 = c1
    c2 = c2
    Clients = {c1}
    MaxStore = 13
    Lasts = {0, 1, 5, 6, 7}
    PacketSize = 6
    PreambleLen = 17
    UnlockAt = 13
    Firmware = {TRUE, FALSE}
    Unreadable = {2, 7, 8}
    InboxMax = 2
    BufferSize = 4
    DrainMax = 3
    Faults = {"late read", "lose", "garble", "erase"}
INVARIANTS TypeOK RecordsFaithful AnswersCurrent DownloadComplete
PROPERTIES EveryDownloadReturns
CHECK_DEADLOCK FALSE
