SPECIFICATION Spec
CONSTANTS
  BlockSize = 2
  NameLength = 2
  Dentries <- MCDentries
  Inodes <- MCInodes
  Blocks <- MCBlocks
  FILE_ARRAY_LEN = 5
  OpenNames = {".", "long", "rtc", "short", "none"}
  FileReads = {1, 2, 3}
  DirectoryReads = {2, 3}
  Exits = {"halt", "restart"}
INVARIANTS
  TypeOK
  NextReadIsNextBytes
  DirectoryIsListed
  InUseUntilClosed
