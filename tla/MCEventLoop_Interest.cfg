CONSTANTS
  e1 = e1
  e2 = e2
  t1 = t1
  WakeEv = WakeEv
  Events <- MCOneEvent
  Others <- MCOthers
  Interests <- MCInterests
  MaxCalls = 4
  MaxEdges = 2
SPECIFICATION Spec
INVARIANT KernelMatchesInterest
CHECK_DEADLOCK FALSE
