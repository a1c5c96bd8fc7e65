CONSTANTS
  Bytes <- MCBytes
  Delims <- MCDelims
  Nul = Nul
  Undef = Undef
  DefaultSize = 2
  MaxSize = 4
  MaxLen = 2
SPECIFICATION Spec
INVARIANT TypeOK
INVARIANT CursorBounds
PROPERTY ExtendKeepsReadable
PROPERTY YieldReturnsFirstRecord
