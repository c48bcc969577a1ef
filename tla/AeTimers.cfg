\* three timers: one walked, one before and one behind it; seconds of two
\* milliseconds, so that a delay of 1 can carry; the clock is set once, either way
SPECIFICATION Spec
CONSTANTS
  MsPerSec = 2
  IdlePoll = 1
  Delay = {1, 2}
  MaxTimer = 3
  MaxNow = 4
  MaxSet = 1
  FinalizerCreates = FALSE
INVARIANTS TypeOK TimersConserved NotEarly NoOversleep SkewForces
PROPERTY Attended
