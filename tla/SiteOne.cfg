SPECIFICATION Spec
CONSTANTS
    u1 = u1
    u2 = u2
    Users = {u1, u2}
    MaxStore = 1
    Forms <- EdgeForms
    Agreed = {0, 1}
    Wanted = {0, 15, 20}
    Factory <- FactorySettings
    Views = {"device", "records"}
    Faults = {"unread"}
SYMMETRY UserSymmetry
INVARIANTS TypeOK OwnPage
PROPERTIES NothingErasedUnasked
CHECK_DEADLOCK FALSE
