SPECIFICATION LibrarySpec
CONSTANTS
  NKey = 3
  MaxMade = 4
  Limits = {0, 1, 2}
  Thr = {a, b}
  Tid = {1, 2}
  Half = 4
  MaxText = 4
  MaxNumber = 60
  Days = {0, 364, 365, 455, 456, 730, 789, 790, 1000, 1003, 1034, 1096, 1461}
  Seconds = {0, 1800, 84600}
  Fds = {1, 2}
  MaxAddr = 2
  SetSize = 2
  FdLimit = 2
  FdSetSize = 2
  Proc = {"p", "q"}
  MaxOpen = 2
  MaxOps = 2
INVARIANTS PoolSound ThreadsSound ArithmeticSound RoutinesSound CalendarSound SocketsSound DispatchFaithful
