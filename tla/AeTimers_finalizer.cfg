SPECIFICATION Spec
CONSTANTS
  MsPerSec = 2
  IdlePoll = 1
  Delay = {1}
  MaxTimer = 3
  MaxNow = 4
  MaxSet = 0
  FinalizerCreates = TRUE
PROPERTY OnlyDeletedRemoved
