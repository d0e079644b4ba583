SPECIFICATION Spec
CONSTANTS
  a = a
  x = x
  Xdg <- OneXdg
  X11 <- OneX11
  Workspaces <- TwoWorkspaces
  NoWindow = NoWindow
INVARIANTS NoneLost
PROPERTIES FocusStaysVisible OnlyTheDragDuplicates
