\* The browser asks for an IPv4 address.
SPECIFICATION Spec
CONSTANTS
  GreetKinds = {0}
  ReqKinds = {1}
  MaxUp = 1
  MaxDown = 1
  SpeaksFirst = FALSE
  SndCap = 0
  LinkCap = 1
  LogLv = 2
  RspCut = FALSE
  Kills = TRUE
INVARIANT
  UpIntact
CHECK_DEADLOCK FALSE
