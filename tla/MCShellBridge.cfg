SPECIFICATION Spec
CONSTANTS
    r1 = r1
    r2 = r2
    k1 = k1
    k2 = k2
    Nobody = Nobody
    Requests = {r1, r2}
    Messages <- MCMessages
    ShellConns = {k1, k2}
    Workspaces = {1, 2}
    SockCap = 2
    DevCapture = FALSE
SYMMETRY MCSymmetry
CHECK_DEADLOCK FALSE
INVARIANTS
    RequestsConserved
    CapturedWasAllowed
    ViewFollows
