\* Command lines that fit, that nearly fit and that end a program.
SPECIFICATION Spec
CONSTANTS
  Sessions = {1, 2}
  Rand <- MCRand
  Files <- MCFiles
  Paddings <- MCPaddings
  Deployments <- MCDeployments
  Seeds = {1, 2}
  Memories <- MCMemories
  Addresses = {"127.0.0.1", "0.0.0.0"}
  Data <- MCData
  Garbage = {0, 52685}
  to_string <- MCToString
INVARIANTS
  TypeOK
  Understood
  ServedAsAsked
  OnlySameCodec
  WellFormed
  AsTold
CHECK_DEADLOCK FALSE
