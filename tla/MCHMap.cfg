CONSTANTS
  Keys = {k1, k2, k3}
  Vals = {v1, v2}
  InitSize = 1
  MaxSize = 4
  Missing = Missing
  NoKey = NoKey
  Null = Null
  Junk = Junk
SPECIFICATION Spec
PROPERTY DictRefined
CHECK_DEADLOCK FALSE
