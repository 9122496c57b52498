\* What is dialled for a browser that asks for an IPv4 address.
SPECIFICATION Spec
CONSTANTS
  Sessions = {1}
  Rand <- MCRand
  Files <- MCFiles
  Paddings <- MCPaddings
  Deployments <- MCIpv4
  Seeds = {1, 2}
  Memories <- MCMemories
  Addresses = {"127.0.0.1", "0.0.0.0"}
  Data <- MCData
  Garbage = {0, 52685}
  to_string <- MCToString
INVARIANTS
  DialledAsAsked
CHECK_DEADLOCK FALSE
