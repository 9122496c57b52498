\* A session against any server, the connect response cut or not.
SPECIFICATION FairSpec
CONSTANTS
  GreetKinds = {0, 1}
  ReqKinds = {0, 1}
  MaxUp = 1
  SndCap = 0
  LinkCap = 2
  LogLv = 0
  RspCut = TRUE
  PeerKinds = {"accept", "refuse", "corrupt", "data", "foreign"}
  LaterKinds = {"accept", "corrupt", "data", "foreign"}
  MaxFrames = 3
INVARIANTS
  TypeOK
  NoOverlap
  NoDeadDirection
  FramedNeverThrows
  SuccessOnlyIfAccepted
  DownConserved
  UpConserved
PROPERTIES
  TornDown
  AcceptedIsReplied
CHECK_DEADLOCK FALSE
