-------------------------------- MODULE Log ---------------------------------
(***************************************************************************)
(* CLog (common/log/log.cpp) over CFileStream: three streams, each with an *)
(* open file and the day the file was opened for, and one buffer in which  *)
(* the line of the current call is composed.                               *)
(*                                                                         *)
(* The state is a record, so that a call can be taken step by step, or as  *)
(* a whole by a signal handler that runs between two steps.  m_csLock is   *)
(* recursive and the process has one thread: the lock stops nobody here.   *)
(***************************************************************************)
EXTENDS Integers, Sequences

CONSTANT MaxDay   \* bound on the days a run lasts; a day is a number, 0 is none

ASSUME LogAssumption == MaxDay \in Nat \ {0}

Stream == {"log", "warn", "error"}
Day    == 1 .. MaxDay
NoLine == 0
Line   == Nat     \* a line is the number of the call that composes it

LogState == [initiated : BOOLEAN,                 \* m_bInitiate
             stamp     : [Stream -> Day \cup {0}], \* m_gSysTime
             file      : [Stream -> Day \cup {0}], \* m_clgFile: its day, 0 if closed
             buffer    : Line,                    \* m_szBuffer
             written   : Seq(Line \X Stream \X Day)] \* what the files contain

NoLog == [initiated |-> FALSE, stamp |-> [s \in Stream |-> 0],
          file |-> [s \in Stream |-> 0], buffer |-> NoLine, written |-> <<>>]

\* Mutant of Initialized: the stamps survive.
InitializedStale(log, dirMade) ==
  IF log.initiated THEN log ELSE [log EXCEPT !.initiated = dirMade, !.buffer = NoLine]

\* initialize: the stamps are cleared even when the directory cannot be made,
\* and then the next call initialises again.
Initialized(log, dirMade) ==
  IF log.initiated THEN log
  ELSE [log EXCEPT !.initiated = dirMade, !.stamp = [s \in Stream |-> 0],
                   !.buffer = NoLine]

\* _print composes the line in the common buffer.
Composed(log, line) == [log EXCEPT !.buffer = line]

\* Mutant of NeedsFile: once a file is open the date does not matter.
NeedsFileOnce(log, s, today) == log.stamp[s] = 0

\* createAFile, in two halves: the stamp first, then the file.  fopen may fail.
NeedsFile(log, s, today)       == log.stamp[s] # today
Stamped(log, s, today)         == [log EXCEPT !.stamp[s] = today]
Opened(log, s, today, created) == [log EXCEPT !.file[s] = IF created THEN today ELSE 0]

\* Mutant of Printed: the file pointer is not tested.
PrintedAnyway(log, s) ==
  [log EXCEPT !.written = Append(@, <<log.buffer, s, log.file[s]>>)]

\* fprintf of the buffer, and flush: nothing on a closed file.
Printed(log, s) ==
  IF log.file[s] = 0 THEN log
  ELSE [log EXCEPT !.written = Append(@, <<log.buffer, s, log.file[s]>>)]

\* info, warn and error without an interruption.
Logged(log, s, line, today, dirMade, created) ==
  LET begun == Composed(Initialized(log, dirMade), line) IN
  Printed(IF NeedsFile(begun, s, today)
          THEN Opened(Stamped(begun, s, today), s, today, created) ELSE begun, s)

\* shutdown: the flag falls before the lock is taken and the files are closed.
Unmarked(log) == [log EXCEPT !.initiated = FALSE]
Closed(log)   == [log EXCEPT !.file = [s \in Stream |-> 0]]
=============================================================================
