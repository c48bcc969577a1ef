-------------------------- MODULE ServerLifecycle ---------------------------
(***************************************************************************)
(* The life of the process: main (main.cpp), CDomiServer                   *)
(* (logic/domiServer.cpp), CTcpServer::StartServer and StopServer, aeMain, *)
(* and the signal handler onBreak, which runs between any two steps of     *)
(* main, asks the event loop to stop and logs that it did.                 *)
(*                                                                         *)
(* What the loop serves is in module TcpServer; here a turn of the loop    *)
(* is a step that may log, as DoAccept does.                               *)
(***************************************************************************)
EXTENDS Log

CONSTANTS MaxSignal,  \* bound on the signals that arrive
          MaxAccept   \* bound on the lines logged by the loop

ASSUME LifecycleAssumption == MaxSignal \in Nat /\ MaxAccept \in Nat

VARIABLES
  pc,        \* where main is
  call,      \* the log call main is in, or NoCall
  log,       \* the state of CLog
  day,       \* the calendar
  loop,      \* m_event_loop: "null", "live" or "freed"
  stop,      \* eventLoop->stop
  handlers,  \* installBreakHandlers has run
  signals,   \* signals that may still arrive
  accepts,   \* lines the loop may still log
  \* history
  nline,     \* number of the last line
  due,       \* <<line, stream, day>> of the calls that ended undisturbed
  blind,     \* streams that an fopen has failed on
  torn,      \* a signal has come inside createAFile or CLog::shutdown
  fault,     \* an event loop that is not there has been used
  asked      \* a stop was asked for: "no", "early" (before aeMain) or "served"

procVars == <<pc, call, loop, stop, handlers>>
vars == <<procVars, log, day, signals, accepts, nline, due, blind, torn, fault, asked>>

\* A log call: its stream ("none" for CLog::print), its line, its next step, the
\* day createAFile read, and whether a signal has interrupted the call.
NoCall == [stream |-> "none", line |-> NoLine, step |-> "none", day |-> 0, hit |-> FALSE]

Begin(stream) == /\ call = NoCall
                 /\ nline' = nline + 1
                 /\ call' = [stream |-> stream, line |-> nline + 1, step |-> "print",
                             day |-> 0, hit |-> FALSE]

Init ==
  /\ pc = "initialize" /\ call = NoCall
  /\ log = NoLog /\ day = 1
  /\ loop = "null" /\ stop = FALSE /\ handlers = FALSE
  /\ signals = MaxSignal /\ accepts = MaxAccept
  /\ nline = 0 /\ due = {} /\ blind = {} /\ torn = FALSE /\ fault = FALSE
  /\ asked = "no"

(***************************************************************************)
(* One log call of main, step by step.                                     *)
(***************************************************************************)
Step(where) == call' = [call EXCEPT !.step = where]

\* initialize and _print.
LogPrint ==
  /\ call.step = "print"
  /\ \E dirMade \in BOOLEAN :
       log' = Composed(Initialized(log, dirMade), call.line)
  /\ IF call.stream = "none" THEN call' = NoCall ELSE Step("stamp")
  /\ UNCHANGED <<due, blind>>

\* createAFile up to the assignment of m_gSysTime.
LogStamp ==
  /\ call.step = "stamp"
  /\ \/ /\ NeedsFile(log, call.stream, day)
        /\ log' = Stamped(log, call.stream, day)
        /\ call' = [call EXCEPT !.step = "open", !.day = day]
     \/ /\ ~NeedsFile(log, call.stream, day)
        /\ call' = [call EXCEPT !.step = "write", !.day = day]
        /\ UNCHANGED log
  /\ UNCHANGED <<due, blind>>

\* The rest of createAFile, for the day it has read.
LogOpen ==
  /\ call.step = "open"
  /\ \E created \in BOOLEAN :
       /\ log' = Opened(log, call.stream, call.day, created)
       /\ blind' = IF created THEN blind ELSE blind \cup {call.stream}
  /\ Step("write") /\ UNCHANGED due

LogWrite ==
  /\ call.step = "write"
  /\ log' = Printed(log, call.stream)
  /\ due' = IF call.hit \/ torn \/ call.stream \in blind THEN due 
            ELSE due \cup {<<call.line, call.stream, call.day>>}
  /\ call' = NoCall /\ UNCHANGED blind

LogStep == /\ LogPrint \/ LogStamp \/ LogOpen \/ LogWrite
           /\ UNCHANGED <<pc, day, loop, stop, handlers, signals, accepts, nline, torn,
                          fault, asked>>

(***************************************************************************)
(* main, while it is in no log call.                                       *)
(***************************************************************************)
At(where)   == pc = where /\ call = NoCall
Goto(where) == pc' = where
Quiet       == UNCHANGED <<day, signals, accepts, due, blind, torn, fault, asked>>

\* CDomiServer::initialize.  CLog's result is not looked at.
Initialize ==
  /\ At("initialize")
  /\ \E dirMade \in BOOLEAN : log' = Initialized(log, dirMade)
  /\ handlers' = TRUE
  /\ Goto("print") /\ Quiet
  /\ UNCHANGED <<call, loop, stop, nline>>

\* The three log calls of startServices, and the one of stopServices.
LogCall ==
  /\ \/ At("print") /\ Begin("none") /\ Goto("error")
     \/ At("error") /\ Begin("error") /\ Goto("warn")
     \/ At("warn") /\ Begin("warn") /\ Goto("create")
     \/ At("info") /\ Begin("log") /\ Goto("shutdown")
  /\ Quiet /\ UNCHANGED <<log, loop, stop, handlers>>

\* aeCreateEventLoop.  It may return NULL, which StartServer does not look at.
CreateLoop ==
  /\ At("create")
  /\ \/ loop' = "live" /\ stop' = FALSE
     \/ UNCHANGED <<loop, stop>>
  /\ Goto("listen") /\ Quiet
  /\ UNCHANGED <<call, handlers, log, nline>>

\* Mutant of Listen: the failing exits free the event loop.
ListenFrees ==
  /\ At("listen")
  /\ \/ loop = "live" /\ Goto("aeMain") /\ UNCHANGED <<loop, fault>>
     \/ loop' = "freed" /\ Goto("info") /\ UNCHANGED fault
     \/ loop = "null" /\ fault' = TRUE /\ Goto("crashed") /\ UNCHANGED loop
  /\ UNCHANGED <<call, stop, handlers, log, nline, day, signals, accepts, due, blind, torn,
                 asked>>

\* anetTcpServer and aeCreateFileEvent; startServices fails with either.  The
\* second begins by reading eventLoop->setsize, be there a loop or not.
Listen ==
  /\ At("listen")
  /\ \/ Goto("info") /\ UNCHANGED fault
     \/ loop = "live" /\ Goto("aeMain") /\ UNCHANGED fault
     \/ loop = "null" /\ Goto("crashed") /\ fault' = TRUE
  /\ UNCHANGED <<call, loop, stop, handlers, log, nline, day, signals, accepts, due, blind,
                 torn, asked>>

\* The first statement of aeMain.
EnterLoop ==
  /\ At("aeMain")
  /\ stop' = FALSE
  /\ Goto("loop") /\ Quiet
  /\ UNCHANGED <<call, loop, handlers, log, nline>>

\* Mutant of Turn: the flag is not looked at.
TurnAgain == /\ At("loop") /\ Goto("batch") /\ Quiet
             /\ UNCHANGED <<call, loop, stop, handlers, log, nline>>

\* A turn of the loop; stop is tested again once the batch is done.
Turn ==
  /\ At("loop")
  /\ IF stop THEN Goto("info") ELSE Goto("batch")
  /\ Quiet /\ UNCHANGED <<call, loop, stop, handlers, log, nline>>

Batch ==
  /\ At("batch")
  /\ \/ Goto("loop") /\ UNCHANGED <<call, nline, accepts>>
     \/ accepts > 0 /\ accepts' = accepts - 1 /\ Begin("log") /\ UNCHANGED pc
  /\ UNCHANGED <<loop, stop, handlers, log, day, signals, due, blind, torn, fault, asked>>

\* CLog::shutdown, the flag and then the files; dSleep; the static destructors,
\* with ~CTcpServer, which frees the event loop, if there is one, and leaves the
\* pointer; exit.
ShutDown ==
  /\ \/ At("shutdown") /\ log' = Unmarked(log) /\ Goto("close") /\ UNCHANGED loop
     \/ At("close") /\ log' = Closed(log) /\ Goto("sleep") /\ UNCHANGED loop
     \/ /\ At("sleep") /\ Goto("destroyed") /\ UNCHANGED log
        /\ loop' = IF loop = "live" THEN "freed" ELSE loop
     \/ At("destroyed") /\ Goto("gone") /\ UNCHANGED <<loop, log>>
  /\ Quiet /\ UNCHANGED <<call, stop, handlers, nline>>

MainStep == \/ LogStep \/ Initialize \/ LogCall \/ CreateLoop \/ Listen
            \/ EnterLoop \/ Turn \/ Batch \/ ShutDown

(***************************************************************************)
(* onBreak: denyServices, StopServer, aeStop, CLog::info.                  *)
(***************************************************************************)
Alive == pc \notin {"gone", "crashed"}

\* aeStop on a live loop, then the whole of info.
HandlerLogs ==
  \E dirMade, created \in BOOLEAN :
    /\ log' = Logged(log, "log", nline + 1, day, dirMade, created)
    /\ nline' = nline + 1
    /\ blind' = IF created THEN blind ELSE blind \cup {"log"}
    /\ torn' = (torn \/ pc = "close" \/ call.step = "open")
    /\ due' = IF call = NoCall /\ ~torn' /\ "log" \notin blind'
              THEN due \cup {<<nline + 1, "log", day>>} ELSE due
    /\ call' = IF call = NoCall THEN call ELSE [call EXCEPT !.hit = TRUE]

Signal ==
  /\ handlers /\ Alive /\ signals > 0
  /\ signals' = signals - 1
  /\ loop = "live"
  /\ stop' = TRUE
  /\ asked' = IF pc \in {"loop", "batch"} THEN "served"
              ELSE IF asked = "no" /\ pc \in {"listen", "aeMain"} THEN "early" ELSE asked
  /\ HandlerLogs
  /\ UNCHANGED <<pc, day, loop, handlers, accepts, fault>>

\* m_event_loop is null before CreateLoop, or for ever when that got none, and
\* dangles after the destructors.
SignalFaults ==
  /\ handlers /\ Alive /\ signals > 0
  /\ signals' = signals - 1
  /\ loop # "live"
  /\ fault' = TRUE
  /\ \/ pc' = "crashed" /\ UNCHANGED <<log, nline, blind, torn, due, call>>
     \/ loop = "freed" /\ HandlerLogs /\ UNCHANGED pc
  /\ UNCHANGED <<day, loop, stop, handlers, accepts, asked>>

Midnight ==
  /\ Alive /\ day < MaxDay /\ day' = day + 1
  /\ UNCHANGED <<procVars, log, signals, accepts, nline, due, blind, torn, fault, asked>>

Ended == ~Alive /\ UNCHANGED vars

Next == MainStep \/ Signal \/ SignalFaults \/ Midnight \/ Ended

\* The process is scheduled; nothing obliges a signal to come.
Spec == Init /\ [][Next]_vars /\ WF_vars(MainStep)

-----------------------------------------------------------------------------
(***************************************************************************)
(* Properties.                                                             *)
(***************************************************************************)

\* Types of the process and of the log.
TypeOK ==
  /\ pc \in {"initialize", "print", "error", "warn", "create", "listen", "aeMain",
             "loop", "batch", "info", "shutdown", "close", "sleep", "destroyed",
             "gone", "crashed"}
  /\ call \in [stream : Stream \cup {"none"}, line : Line, day : Day \cup {0}, hit : BOOLEAN,
               step : {"none", "print", "stamp", "open", "write"}]
  /\ log \in LogState
  /\ day \in Day /\ loop \in {"null", "live", "freed"}
  /\ stop \in BOOLEAN /\ handlers \in BOOLEAN /\ torn \in BOOLEAN /\ fault \in BOOLEAN
  /\ signals \in 0 .. MaxSignal /\ accepts \in 0 .. MaxAccept
  /\ nline \in Nat /\ due \subseteq (1 .. nline) \X Stream \X Day
  /\ blind \subseteq Stream
  /\ asked \in {"no", "early", "served"}

\* A line whose call no signal interrupted is in the files exactly once, and in
\* the file of its stream and day, through midnights, restarts of the log after
\* its shutdown, and calls by the handler.
LinesKept ==
  \A d \in due : \E i \in DOMAIN log.written :
    /\ log.written[i] = d
    /\ \A j \in DOMAIN log.written : log.written[j][1] = d[1] => j = i

\* While the log is initialised, a stamp vouches for an open file of that day:
\* createAFile leaves early on it.  The exceptions are a call that is between
\* stamp and file, a failed fopen, and a handler that came there or in the
\* middle of shutdown.
StampMeansOpen ==
  log.initiated /\ ~torn =>
    \A s \in Stream \ blind :
      \/ log.stamp[s] = 0
      \/ log.file[s] = log.stamp[s]
      \/ call.step = "open" /\ call.stream = s

\* From the return of aeCreateEventLoop to the destructors, neither a stop request
\* nor main uses an event loop that is not there, also when the service could not
\* be started.  The exception is a loop that could not be created: StartServer
\* goes on with NULL, and so does the handler.
HasLoop == {"listen", "aeMain", "loop", "batch", "info", "shutdown", "close", "sleep"}
LoopRefused == pc \in HasLoop /\ loop = "null"
StopNeverFaults == [][~fault /\ fault' => pc \notin HasLoop \/ LoopRefused]_vars

\* The process exits when the service cannot be started, and after a stop request
\* that comes while the loop serves; or it crashes first, in a handler that finds
\* no event loop any more, or found none to begin with.
StopEnds == asked = "served" \/ pc = "info" ~> pc = "gone" \/ (pc = "crashed" /\ fault)

\* "StopServer: close the service" (tcp_server.h:33): a stop request to a server
\* that has its event loop ends the service.
StopHonoured == asked # "no" ~> ~Alive
-----------------------------------------------------------------------------
(***************************************************************************)
(* The inductive invariant behind LinesKept, StampMeansOpen and            *)
(* StopNeverFaults.                                                        *)
(***************************************************************************)
InCreateAFile == call.step \in {"stamp", "open", "write"}

\* A call has a line of its own from the start, a stream once it is to print to
\* a file, and a day once createAFile has read it; none runs during shutdown.
CallShape ==
  /\ call = NoCall <=> call.step = "none"
  /\ call # NoCall => call.line \in 1 .. nline
  /\ InCreateAFile => call.stream \in Stream
  /\ call.step \in {"open", "write"} => call.day \in Day
  /\ pc = "close" => call = NoCall

\* The line of a call is written by that call alone.  A handler may have put its
\* own line into the common buffer, one that nobody counts on.
LinesFresh ==
  /\ log.buffer <= nline
  /\ \A i \in DOMAIN log.written :
       /\ log.written[i][1] <= nline
       /\ call # NoCall => log.written[i][1] # call.line
  /\ InCreateAFile => /\ ~call.hit => log.buffer = call.line
                     /\ \A d \in due : d[1] # log.buffer

\* StampMeansOpen, also for a call that could not initialise the log: its stamps
\* are cleared, and it sets its own all the same.
StampsTrue ==
  /\ (log.initiated \/ InCreateAFile) /\ ~torn =>
       \A s \in Stream \ blind :
         \/ log.stamp[s] = 0 \/ log.file[s] = log.stamp[s]
         \/ call.step = "open" /\ call.stream = s
  /\ call.step = "open" /\ ~torn => log.stamp[call.stream] = call.day
  /\ call.step = "write" /\ ~call.hit /\ ~torn /\ call.stream \notin blind
       => log.file[call.stream] = call.day
  /\ pc = "close" /\ ~torn => ~log.initiated

\* Nothing frees the loop before the destructors, and aeMain is not entered
\* without one.
LoopThere == /\ loop = "freed" => pc \in {"destroyed", "gone", "crashed"}
             /\ pc \in {"aeMain", "loop", "batch"} => loop = "live"

IndInv == TypeOK /\ CallShape /\ LinesFresh /\ LinesKept /\ StampsTrue /\ LoopThere
=============================================================================
