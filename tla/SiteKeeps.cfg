SPECIFICATION Spec
CONSTANTS
    u1 = u1
    u2 = u2
    Users = {u1}
    MaxStore = 1
    Forms <- ShortForm
    Agreed = {}
    Wanted = {}
    Factory <- QuietFactory
    Views = {"records"}
    Faults = {"unread"}
PROPERTIES StartKeeps
CHECK_DEADLOCK FALSE
