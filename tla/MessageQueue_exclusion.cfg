SPECIFICATION Spec
CONSTANTS
  Producer = {p1, p2}
  QueueMax = 1
  BlockSize = 1
  MaxObj = 2
  MaxPush = 1
INVARIANT ProducerExclusion
