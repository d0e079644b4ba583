SPECIFICATION FairSpec
CONSTANTS
  InUse <- Groups
  MaxComing = 3
  MaxNotes = 2
  Users = {"alice", "bob"}
  NoUser = ""
  MaxAttempts = 2
  MaxCalls = 2
  MaxCloses = 1
INVARIANTS
  PopupsAgree
  GreeterAgrees
  CardIsQueued
PROPERTIES
  OpenIsShown
  LetsGo
  AuthDecided
  TimedOnesGo
