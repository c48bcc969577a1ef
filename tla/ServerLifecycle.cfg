\* two signals: one to interrupt a call or the shutdown, one to use what it left;
\* one midnight between them
SPECIFICATION Spec
CONSTANTS
  MaxDay = 2
  MaxSignal = 2
  MaxAccept = 1
INVARIANTS TypeOK LinesKept StampMeansOpen
PROPERTIES StopNeverFaults StopEnds
