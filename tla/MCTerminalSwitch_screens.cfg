SPECIFICATION Spec
CONSTANTS
  NumTerminals = 3
  garbage = garbage
  blank = blank
  text = text
  more = more
  Garbage = garbage
  Blank = blank
  Contents <- MCContents
  Positions <- MCPositions
  Origin = 0
INVARIANTS
  TypeOK
  NoGarbageAfterBoot
PROPERTIES
  ImplementsScreens
