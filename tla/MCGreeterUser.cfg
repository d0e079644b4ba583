SPECIFICATION Spec
CONSTANTS
  alice = alice
  bob = bob
  Users <- TwoUsers
  NoUser = NoUser
  MaxAttempts = 1
INVARIANT LaunchedAsAuthenticated
CHECK_DEADLOCK FALSE
