SPECIFICATION Spec
CONSTANTS
    c1 = c1
    c2 = c2
    Clients = {c1, c2}
    Jobs = {"configure"}
    Settings <- SameForm
    Factory <- FactorySettings
    MaxCount = 1
    InboxMax = 2
    BufferSize = 1
    DrainMax = 0
    FieldReads <- OneField
    StatusReads <- OneStatus
    ConfigBlocks <- OneBlock
    Faults = {"late"}
SYMMETRY ClientSymmetry
INVARIANTS CountsCurrent
PROPERTIES EraseConfirmed
CHECK_DEADLOCK FALSE
