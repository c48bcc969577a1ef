\* three waiters: one released, one overtaken, one that comes late
SPECIFICATION Spec
CONSTANTS
  Waiter = {t1, t2, t3}
  MaxSet = 3
  MaxReset = 2
INVARIANTS TypeOK NoLostWakeup
PROPERTIES SignalKept SetServesWaiter
