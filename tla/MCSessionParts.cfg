SPECIFICATION PartsSpec
CONSTANTS
    Outputs = {o1, o2}
    Locks = {l1, l2}
    MaxFaults = 1
    Chars = {"a"}
    Right <- Password
    MaxLen = 1
    MaxInbox = 1
    Reach = 1
    MaxGrabs = 2
    MaxMotions = 2
    MaxFrames = 1
    KeyNames = {"super", "1", "h", "mute"}
    Clients = {"w1", "w2"}
    Files <- Bindings
    QueueSize = 3
    Batch = 2
    MaxStrokes = 3
    MaxTurns = 2
SYMMETRY Symmetry
INVARIANTS
    PendingIffOwed
    LockedCovers
    LockScreenAgrees
    ResizeAgrees
    HeldAsPressed
PROPERTIES
    DrawnBeforeSettled
    PowerNeverBlacksOut
    Implements
