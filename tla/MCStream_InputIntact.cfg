CONSTANTS
  Bytes <- MCBytes
  Delims <- MCDelims
  Nul = Nul
  Undef = Undef
  DefaultSize = 2
  MaxSize = 4
  MaxLen = 2
  ScratchLen = 4
  MaxIn = 4
  MaxOut = 5
  MaxFaults = 1
SPECIFICATION SpecIn
INVARIANT InputIntact
