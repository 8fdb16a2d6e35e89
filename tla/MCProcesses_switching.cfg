SPECIFICATION Spec
CONSTANTS
  NumTerminals = 3
  MaxProcesses = 6
  ActiveSlots = 4
  Env <- Switching
PROPERTIES
  HaltReturnsToParent
CHECK_DEADLOCK FALSE
