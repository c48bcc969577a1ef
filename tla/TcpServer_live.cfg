\* the limits in the order of the code: descriptors (4) run out before the event
\* table (5) is full, and accept then returns -1 while two of the three clients
\* are registered and the third waits.  No symmetry: the properties are temporal
SPECIFICATION Spec
CONSTANTS
  Conn = {c1, c2, c3}
  NoConn = NoConn
  SetSize = 5
  FdLimit = 4
  FdSetSize = 4
  ListenFd = 1
  PoolSize = 1
  IdSpace = 6
  Backlog = 1
  BufLen = 1
  MaxInbox = 1
PROPERTIES Served Released Stops
