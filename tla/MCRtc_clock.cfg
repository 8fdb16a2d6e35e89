SPECIFICATION Spec
CONSTANTS
  Terminals = {0, 1}
  Period = 32
  Frequencies <- MCFrequencies
  Requests = {0, 1, 2, 3, 4, 8, 16, 32}
INVARIANTS
  TypeOK
  WaitIsBounded
PROPERTIES
  SteadyPeriod
  ReadsReturn
