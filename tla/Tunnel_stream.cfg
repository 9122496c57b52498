\* The streams through both sessions, the target may speak first.
SPECIFICATION Spec
CONSTANTS
  GreetKinds = {0}
  ReqKinds = {3}
  MaxUp = 2
  MaxDown = 2
  SpeaksFirst = TRUE
  SndCap = 0
  LinkCap = 2
  LogLv = 2
  RspCut = FALSE
  Kills = TRUE
INVARIANTS
  UpEndToEnd
  DownEndToEnd
  RemoteKeepsNoMessage
PROPERTIES
  ImplementsService
CHECK_DEADLOCK FALSE
