SPECIFICATION FairSpec
CONSTANTS
    c1 = c1
    c2 = c2
    Clients = {c1}
    Jobs = {"info", "configure", "stop", "peek3", "peek5"}
    Settings <- TwoForms
    Factory <- FactorySettings
    MaxCount = 1
    InboxMax = 2
    BufferSize = 3
    DrainMax = 2
    FieldReads <- TwoFields
    StatusReads <- StatusParts
    ConfigBlocks <- TwoBlocks
    Faults = {"late", "lose", "garble", "blank", "reject", "forget", "wide"}
PROPERTIES Persisted EveryCallReturns CallsAdvance
CHECK_DEADLOCK FALSE
