SPECIFICATION Spec
CONSTANTS
  Waiter = {t1, t2}
  MaxSet = 1
  MaxReset = 0
INVARIANT OneWaitPerSignal
