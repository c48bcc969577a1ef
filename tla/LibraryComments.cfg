SPECIFICATION CommentsSpec
CONSTANTS
  Thr = {a}
  Tid = {1}
  MaxText = 4
  MaxNumber = 1
  Days = {455, 456, 789, 790, 1003, 1034, 1096, 1461}
  Seconds = {1800, 84600}
  Fds = {1}
  MaxAddr = 1
INVARIANT SomeCommentStands
