SPECIFICATION Spec
CONSTANTS
  NUM_COLS = 4
  NUM_ROWS = 2
  Chars = {"a", "b", "p", "space", "newline", "nul"}
  Space = "space"
  Newline = "newline"
  Nul = "nul"
  Terminals = {0}
  BufferSize = 3
  TabWidth = 2
  Letters = {"a"}
  Outputs <- AnyOutput
  ReadSizes = {1, 9}
  AnyTime = TRUE
INVARIANTS
  TypeOK
  EchoMatchesBuffer
PROPERTIES
  ReadReturnsShownLine
  EnterEndsRead
