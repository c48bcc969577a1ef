\* an event table (4) smaller than the descriptor limit (5), so that the third
\* client's descriptor has no slot and DoAccept takes its failure path.  With
\* the code's own limits (10240 slots, FD_SETSIZE 1024) accept would write out of
\* bounds before that: TcpServer_live.cfg has them in that order, and the
\* theorems of TcpServer_Proofs cover every order
SPECIFICATION Spec
CONSTANTS
  Conn = {c1, c2, c3}
  NoConn = NoConn
  SetSize = 4
  FdLimit = 5
  FdSetSize = 5
  ListenFd = 1
  PoolSize = 1
  IdSpace = 5
  Backlog = 2
  BufLen = 1
  MaxInbox = 1
SYMMETRY ClientSymmetry
INVARIANTS TypeOK TableMatchesKernel MaxFdExact SessionOwnership SessionIdsUnique NoSessionLost NoBlockingCallback
PROPERTIES NoEarlyClose ImplementsSessionService
