SPECIFICATION Spec
CONSTANTS
  MaxEvents = 1
  MaxLines = 1
  Apps = {"a", "b"}
  LauncherChanges = 1
  Buttons = {"power-off", "logout"}
  Names = {"x", "y"}
  DeviceNames = {"x"}
  PageRows = 2
  Modes <- Offered
  Sections <- Written
  SSIDs = {"home", "cafe"}
  Cats = {"web", "mail"}
  Hidden = {"b"}
  DefaultClicks = 2
  Outputs = {"eDP", "HDMI"}
  Texts <- SomeTexts
  Services = {1, 2}
  Menus <- Layouts
  PanelIcons = 2
  MenuRows = 1
  TrayChanges = 1
  TrayCalls = 2
  TrayClicks = 3
INVARIANTS
  HelpersAgree
  LauncherAgrees
  NeverAfterAction
  PagesAgree
  NetworkAgrees
  ConfigAgrees
  TrayAgrees
PROPERTIES
  DefaultsKept
