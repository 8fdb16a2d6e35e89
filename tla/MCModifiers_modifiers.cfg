SPECIFICATION Spec
CONSTANTS
  Capitals <- MCCapitals
  Symbols <- MCSymbols
  Others = {"space"}
  L = "l"
INVARIANTS
  TypeOK
  NoStuckModifier
  KeysActAsHeld
