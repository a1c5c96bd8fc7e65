CONSTANTS
  MaxFds = 3
  Backlog = 1
  MaxConnects = 2
  MaxShorts = 1
SPECIFICATION Spec
INVARIANT TypeOK
INVARIANT SocketPerFd
PROPERTY ConnectResolves
CHECK_DEADLOCK FALSE
