\* Both builds, every address type, lengths at every limit of a byte.
SPECIFICATION Spec
CONSTANTS
  B = 16
  Greetings <- MCGreetings
  Requests <- MCRequests
  Garbage <- MCGarbage
INVARIANTS
  AsAsked
  WholeIsTaken
  SameForEveryCut
CHECK_DEADLOCK FALSE
