\* Every setting of the frames, and a frame in a frame.
SPECIFICATION Spec
CONSTANTS
  Base = 5
  Lists <- MCLists
  Payloads <- MCPayloads
  Foreign <- MCForeign
  MaxMsgs = 3
INVARIANTS
  InOrder
  NothingWaits
CHECK_DEADLOCK FALSE
