CONSTANTS
  e1 = e1
  e2 = e2
  t1 = t1
  WakeEv = WakeEv
  Events <- MCEvents
  Others <- MCOthers
  Interests <- MCInterests
  MaxCalls = 4
  MaxEdges = 2
SPECIFICATION Spec
INVARIANT TypeOK
PROPERTY PendingDrained
CHECK_DEADLOCK FALSE
