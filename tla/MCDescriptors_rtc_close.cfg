SPECIFICATION Spec
CONSTANTS
  BlockSize = 2
  NameLength = 2
  Dentries <- MCDentries
  Inodes <- MCInodes
  Blocks <- MCBlocks
  FILE_ARRAY_LEN = 5
  OpenNames = {"rtc", "short"}
  FileReads = {1}
  DirectoryReads = {2, 3}
  Exits = {"halt", "restart"}
INVARIANT InUseIsHeld
