SPECIFICATION Spec
CONSTANTS
  NumTerminals = 3
  MaxProcesses = 6
  ActiveSlots = 4
  Env <- BadCommand
INVARIANTS
  OwnAddressSpace
CHECK_DEADLOCK FALSE
