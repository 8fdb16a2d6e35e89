SPECIFICATION ProgramsSpec
CONSTANTS
  NumTerminals = 3
  MaxProcesses = 5
  ActiveSlots = 4
  Env <- Ordinary
  MAX_COMMAND_LEN = 3
  BufferSize = 8
  Lines <- Typed
  Directory <- Names
  ShellName <- Shell
  AfterLiteral <- After
  ArgReads = {1}
  VideoPrograms <- Video
INVARIANTS
  OwnAddressSpace
  ActiveMatchesParent
  RunsNamedProgram
  ArgumentsReachProgram
PROPERTIES
  HaltReturnsToParent
  ExecuteReturns
  BootCompletes
  ImplementsStack
