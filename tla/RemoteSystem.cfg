\* Every first message, every outcome, and data in both directions.
SPECIFICATION FairSpec
CONSTANTS
  SpeaksFirst = TRUE
  MaxDown = 2
  SndCap = 0
  LinkCap = 2
  LogLv = 2
  ClientKinds = {0, 1, 2, 3, 4, 5, 6, 7, 8}
  LaterKinds = {3, 6, 7, 8}
  MaxFrames = 3
INVARIANTS
  TypeOK
  NoOverlap
  NoDeadDirection
  DialsOnlyForUsers
  FramedNeverThrows
  UpConserved
  DownConserved
  OneAnswerFirst
PROPERTIES
  TornDown
  Answered
CHECK_DEADLOCK FALSE
