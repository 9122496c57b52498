\* The target speaks first.
SPECIFICATION FairSpec
CONSTANTS
  GreetKinds = {0}
  ReqKinds = {3}
  MaxUp = 0
  MaxDown = 1
  SpeaksFirst = TRUE
  SndCap = 0
  LinkCap = 2
  LogLv = 0
  RspCut = FALSE
  Kills = FALSE
PROPERTY
  DownArrives
CHECK_DEADLOCK FALSE
