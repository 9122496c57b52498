\* Delivery and release; the target answers what it receives.
SPECIFICATION FairSpec
CONSTANTS
  GreetKinds = {0}
  ReqKinds = {3}
  MaxUp = 2
  MaxDown = 1
  SpeaksFirst = FALSE
  SndCap = 0
  LinkCap = 2
  LogLv = 0
  RspCut = FALSE
  Kills = FALSE
PROPERTIES
  UpArrives
  DownArrives
  GivenBack
CHECK_DEADLOCK FALSE
