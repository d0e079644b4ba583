SPECIFICATION PartsSpec
CONSTANTS
    Connectors = {1, 2, 3}
    NumCrtcs = 2
    Configs <- MCConfigs
    Workspaces = {0, 1}
    MaxId = 3
    win1 = win1
    win2 = win2
    win3 = win3
    NoWindow = NoWindow
SYMMETRY Symmetry
INVARIANTS
    MappingMatchesRegistry
    ConnectorTrackedOnce
    RegisteredIsDriven
    DockAgrees
PROPERTIES
    FocusStable
    TilingImplements
