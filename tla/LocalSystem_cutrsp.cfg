\* The read that brings the connect response may end inside it.
SPECIFICATION Spec
CONSTANTS
  GreetKinds = {0}
  ReqKinds = {3}
  MaxUp = 2
  SndCap = 0
  LinkCap = 2
  LogLv = 0
  RspCut = TRUE
  PeerKinds = {"accept", "corrupt", "other", "data"}
  LaterKinds = {"accept", "corrupt", "other", "data"}
  MaxFrames = 3
INVARIANT
  ResponseWhole
CHECK_DEADLOCK FALSE
