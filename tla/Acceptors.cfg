\* Three threads, an index that wraps, four connections.
SPECIFICATION FairSpec
CONSTANTS
  c1 = c1
  c2 = c2
  c3 = c3
  c4 = c4
  Conns <- MCConns
  Count = 3
  Wrap = 6
  FirstIndex = 4
  Info = TRUE
INVARIANTS
  TypeOK
  Balanced
PROPERTIES
  Heard
CHECK_DEADLOCK FALSE
