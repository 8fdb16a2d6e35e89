SPECIFICATION Spec
CONSTANTS
  NUM_COLS = 4
  NUM_ROWS = 2
  Chars = {"a", "b", "p", "space", "newline", "nul"}
  Space = "space"
  Newline = "newline"
  Nul = "nul"
  Terminals = {0, 1}
  BufferSize = 4
  TabWidth = 2
  Letters = {"a"}
  Outputs <- Prompts
  ReadSizes = {3, 9}
  AnyTime = FALSE
INVARIANT EchoMatchesBuffer
PROPERTY ReadReturnsShownLine
