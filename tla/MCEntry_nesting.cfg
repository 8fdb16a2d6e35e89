SPECIFICATION EntrySpec
CONSTANTS
  NumShells = 3
  HEX_DIGITS = 2
  NUM_COLS = 8
  NUM_ROWS = 3
  PAGE = 28
  Memory <- Structures
  CommandLines <- Lines
INVARIANTS
  TypeOK
  PreparedWhenEnabled
  ServiceMatchesHandlers
  HandlersDoNotNest
  PrintsAsDocumented
  MessagesStayInPage
PROPERTIES
  TicksResume
  ServiceEnds
