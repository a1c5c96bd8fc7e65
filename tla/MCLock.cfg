CONSTANTS
  p1 = p1
  p2 = p2
  p3 = p3
  Threads <- MCThreads
SPECIFICATION Spec
INVARIANT TypeOK
INVARIANT RWExclusive
PROPERTY WriterGetsIn
