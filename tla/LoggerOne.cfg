SPECIFICATION Spec
CONSTANTS
    c1 = c1
    c2 = c2
    Clients = {c1}
    Jobs = {"info", "configure", "stop", "peek3", "peek5"}
    Settings <- Forms
    Factory <- FactorySettings
    MaxCount = 1
    InboxMax = 2
    BufferSize = 3
    DrainMax = 2
    FieldReads <- InfoFields
    StatusReads <- OneStatus
    ConfigBlocks <- FactoryBlocks
    Faults = {"late", "lose", "garble", "reject", "wide", "blank", "ignore"}
INVARIANTS TypeOK
PROPERTIES CommitWhole StopTruthful ImplementsStore
CHECK_DEADLOCK FALSE
