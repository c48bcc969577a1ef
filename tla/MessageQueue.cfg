\* two producers, as many as can be in a pool at once; a limit of 1 is passed
\* within the pushes
SPECIFICATION Spec
CONSTANTS
  Producer = {p1, p2}
  QueueMax = 1
  BlockSize = 2
  MaxObj = 4
  MaxPush = 2
INVARIANTS TypeOK ConsumerAlone QueueBound ElementsConserved
PROPERTIES ImplementsChannel Drained
