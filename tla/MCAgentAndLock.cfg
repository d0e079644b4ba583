SPECIFICATION PartsSpec
CONSTANTS
    Cookies = {c1, c2}
    MaxHelpers = 2
    Outputs = {o1, o2}
    Locks = {l1}
    MaxFaults = 1
INVARIANTS
    CallsAgree
PROPERTIES
    CancelCloses
    RequestDecided
    PendingSettles
    ScreensCovered
