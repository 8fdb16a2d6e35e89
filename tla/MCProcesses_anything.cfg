SPECIFICATION Spec
CONSTANTS
  NumTerminals = 2
  MaxProcesses = 4
  ActiveSlots = 2
  Env <- Anything
INVARIANTS
  TypeOK
  CurrentPcbIsCreated
  ActiveIsStack
  BaseSlotsReserved
CHECK_DEADLOCK FALSE
