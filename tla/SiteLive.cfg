SPECIFICATION FairSpec
CONSTANTS
    u1 = u1
    u2 = u2
    Users = {u1, u2}
    MaxStore = 1
    Forms <- ShortForm
    Agreed = {}
    Wanted = {}
    Factory <- FactorySettings
    Views = {"monitor", "records"}
    Faults = {"partial", "error"}
PROPERTIES EveryRequestAnswered
CHECK_DEADLOCK FALSE
