SPECIFICATION FairSpec
CONSTANTS
  MaxComing = 2
  MaxNotes = 2
  InUse <- Launcher
PROPERTIES LauncherIsShown
