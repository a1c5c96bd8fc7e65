CONSTANTS
  MaxFds = 3
  Backlog = 1
  MaxConnects = 2
  MaxShorts = 1
SPECIFICATION SpecDrain
PROPERTY OutputDelivered
CHECK_DEADLOCK FALSE
