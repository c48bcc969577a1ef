----------------------- MODULE ServerLifecycle_Proofs -----------------------
(***************************************************************************)
(* Proofs about ServerLifecycle for any number of signals, days and log    *)
(* calls: the inductive invariant IndInv, and from it what the runs check  *)
(* of the log and of the stop request.  Lemmas on the operators of module  *)
(* Log come first, then one lemma per group of actions.                    *)
(***************************************************************************)
EXTENDS ServerLifecycle, TLAPS

USE LogAssumption, LifecycleAssumption DEF Line, NoLine

(***************************************************************************)
(* The operators of module Log.                                            *)
(***************************************************************************)

\* The fields of a log.
LEMMA LogFields ==
  ASSUME NEW l \in LogState
  PROVE  /\ l.initiated \in BOOLEAN /\ l.buffer \in Nat
         /\ l.stamp \in [Stream -> Day \cup {0}] /\ l.file \in [Stream -> Day \cup {0}]
         /\ l.written \in Seq(Nat \X Stream \X Day)
  BY DEF LogState

\* initialize changes nothing, or clears the stamps.
LEMMA InitializedIs ==
  ASSUME NEW l \in LogState, NEW dirMade \in BOOLEAN
  PROVE  /\ Initialized(l, dirMade) \in LogState
         /\ Initialized(l, dirMade).file = l.file
         /\ Initialized(l, dirMade).written = l.written
         /\ l.initiated => Initialized(l, dirMade) = l
         /\ ~l.initiated => \A s \in Stream : Initialized(l, dirMade).stamp[s] = 0
  BY DEF LogState, Initialized

\* _print composes the line.
LEMMA ComposedIs ==
  ASSUME NEW l \in LogState, NEW n \in Nat
  PROVE  /\ Composed(l, n) \in LogState /\ Composed(l, n).buffer = n
         /\ Composed(l, n).initiated = l.initiated /\ Composed(l, n).stamp = l.stamp
         /\ Composed(l, n).file = l.file /\ Composed(l, n).written = l.written
  BY DEF LogState, Composed

\* createAFile stamps, and opens a file of that day or none.
LEMMA StampedIs ==
  ASSUME NEW l \in LogState, NEW s \in Stream, NEW today \in Day
  PROVE  /\ Stamped(l, s, today) \in LogState
         /\ Stamped(l, s, today).stamp = [l.stamp EXCEPT ![s] = today]
         /\ Stamped(l, s, today).initiated = l.initiated
         /\ Stamped(l, s, today).buffer = l.buffer
         /\ Stamped(l, s, today).file = l.file /\ Stamped(l, s, today).written = l.written
  BY DEF LogState, Stamped

LEMMA OpenedIs ==
  ASSUME NEW l \in LogState, NEW s \in Stream, NEW today \in Day, NEW created \in BOOLEAN
  PROVE  /\ Opened(l, s, today, created) \in LogState
         /\ Opened(l, s, today, created).file =
              [l.file EXCEPT ![s] = IF created THEN today ELSE 0]
         /\ Opened(l, s, today, created).initiated = l.initiated
         /\ Opened(l, s, today, created).buffer = l.buffer
         /\ Opened(l, s, today, created).stamp = l.stamp
         /\ Opened(l, s, today, created).written = l.written
  BY DEF LogState, Opened

\* What is printed goes behind the rest, when there is a file.
LEMMA PrintedIs ==
  ASSUME NEW l \in LogState, NEW s \in Stream
  PROVE  /\ Printed(l, s) \in LogState
         /\ Printed(l, s).initiated = l.initiated /\ Printed(l, s).stamp = l.stamp
         /\ Printed(l, s).file = l.file /\ Printed(l, s).buffer = l.buffer
         /\ l.file[s] = 0 => Printed(l, s).written = l.written
         /\ l.file[s] # 0 => Printed(l, s).written = Append(l.written, <<l.buffer, s, l.file[s]>>)
<1>1. CASE l.file[s] = 0
  BY <1>1 DEF Printed
<1>2. CASE l.file[s] # 0
  <2>1. <<l.buffer, s, l.file[s]>> \in Nat \X Stream \X Day
    BY <1>2, LogFields
  <2>2. Append(l.written, <<l.buffer, s, l.file[s]>>) \in Seq(Nat \X Stream \X Day)
    BY <2>1, LogFields
  <2>. QED
    BY <1>2, <2>2 DEF Printed, LogState
<1>. QED
  BY <1>1, <1>2

\* What a whole call of info does to a log l: the stamp of its stream is today's,
\* and its file is too, unless it could not be created or the stamp was true
\* before.  Its line is the last in the files, or in none.
LogsTo(l, s, n, today, created, m) ==
  /\ m \in LogState /\ m.buffer = n /\ m.stamp[s] = today
  /\ \/ m.file[s] = today
     \/ m.file[s] = 0 /\ ~created
     \/ l.initiated /\ l.stamp[s] = today /\ m.file[s] = l.file[s]
  /\ \A r \in Stream \ {s} :
       m.file[r] = l.file[r] /\ m.stamp[r] = IF l.initiated THEN l.stamp[r] ELSE 0
  /\ m.file[s] = 0 => m.written = l.written
  /\ m.file[s] # 0 => m.written = Append(l.written, <<n, s, m.file[s]>>)

LEMMA LoggedIs ==
  ASSUME NEW l \in LogState, NEW s \in Stream, NEW n \in Nat, NEW today \in Day,
         NEW dirMade \in BOOLEAN, NEW created \in BOOLEAN
  PROVE  LogsTo(l, s, n, today, created, Logged(l, s, n, today, dirMade, created))
<1>. DEFINE begun == Composed(Initialized(l, dirMade), n)
            ready == IF NeedsFile(begun, s, today)
                     THEN Opened(Stamped(begun, s, today), s, today, created) ELSE begun
<1>1. /\ begun \in LogState /\ begun.buffer = n /\ begun.file = l.file
      /\ begun.written = l.written
      /\ \A r \in Stream : begun.stamp[r] = IF l.initiated THEN l.stamp[r] ELSE 0
  <2>. DEFINE ini == Initialized(l, dirMade)
  <2>1. /\ ini \in LogState /\ ini.file = l.file /\ ini.written = l.written
        /\ l.initiated => ini = l
        /\ ~l.initiated => \A r \in Stream : ini.stamp[r] = 0
    BY InitializedIs, Zenon
  <2>. HIDE DEF ini
  <2>2. /\ begun \in LogState /\ begun.buffer = n /\ begun.file = ini.file
        /\ begun.written = ini.written /\ begun.stamp = ini.stamp
    <3>1. begun = Composed(ini, n)
      BY DEF ini
    <3>. HIDE DEF begun
    <3>2. /\ Composed(ini, n) \in LogState /\ Composed(ini, n).buffer = n
          /\ Composed(ini, n).file = ini.file /\ Composed(ini, n).written = ini.written
          /\ Composed(ini, n).stamp = ini.stamp
      BY <2>1, ComposedIs, Zenon
    <3>. QED
      BY <3>1, <3>2, Zenon
  <2>. HIDE DEF begun
  <2>. QED
    BY <2>1, <2>2
<1>. HIDE DEF begun
<1>2. /\ ready \in LogState /\ ready.buffer = n /\ ready.written = l.written
      /\ ready.stamp[s] = today
      /\ \A r \in Stream \ {s} : ready.file[r] = l.file[r] /\ ready.stamp[r] = begun.stamp[r]
      /\ \/ ready.file[s] = today
         \/ ready.file[s] = 0 /\ ~created
         \/ begun.stamp[s] = today /\ ready.file[s] = l.file[s]
  <2>1. CASE NeedsFile(begun, s, today)
    <3>. DEFINE mid == Stamped(begun, s, today)
    <3>1. /\ mid \in LogState /\ mid.buffer = n /\ mid.file = l.file /\ mid.written = l.written
          /\ mid.stamp = [begun.stamp EXCEPT ![s] = today]
      BY <1>1, StampedIs
    <3>. HIDE DEF mid
    <3>2. /\ ready \in LogState /\ ready.buffer = n /\ ready.written = l.written
          /\ ready.stamp = [begun.stamp EXCEPT ![s] = today]
          /\ ready.file = [l.file EXCEPT ![s] = IF created THEN today ELSE 0]
      BY <2>1, <3>1, OpenedIs DEF mid
    <3>3. s \in DOMAIN begun.stamp /\ s \in DOMAIN l.file
      BY <1>1, LogFields
    <3>. HIDE DEF ready
    <3>. QED
      BY <3>2, <3>3
  <2>2. CASE ~NeedsFile(begun, s, today)
    BY <1>1, <2>2 DEF NeedsFile
  <2>. QED
    BY <2>1, <2>2
<1>3. today # 0
  BY DEF Day
<1>4. Logged(l, s, n, today, dirMade, created) = Printed(ready, s)
  BY DEF Logged, begun
<1>. HIDE DEF ready
<1>5. LogsTo(l, s, n, today, created, Printed(ready, s))
  <2>. DEFINE m == Printed(ready, s)
  <2>1. /\ m \in LogState /\ m.buffer = n /\ m.stamp = ready.stamp /\ m.file = ready.file
        /\ ready.file[s] = 0 => m.written = l.written
        /\ ready.file[s] # 0 => m.written = Append(l.written, <<n, s, ready.file[s]>>)
    <3>1. /\ m \in LogState /\ m.buffer = ready.buffer /\ m.stamp = ready.stamp
          /\ m.file = ready.file
      BY <1>2, PrintedIs, Zenon
    <3>2. /\ ready.file[s] = 0 => m.written = ready.written
          /\ ready.file[s] # 0 =>
               m.written = Append(ready.written, <<ready.buffer, s, ready.file[s]>>)
      BY <1>2, PrintedIs, Zenon
    <3>3. ready.buffer = n /\ ready.written = l.written
      BY <1>2
    <3>. QED
      BY <3>1, <3>2, <3>3, Zenon
  <2>. HIDE DEF m
  <2>2. \/ m.file[s] = today
        \/ m.file[s] = 0 /\ ~created
        \/ l.initiated /\ l.stamp[s] = today /\ m.file[s] = l.file[s]
    BY <1>1, <1>2, <1>3, <2>1
  <2>3. \A r \in Stream \ {s} :
          m.file[r] = l.file[r] /\ m.stamp[r] = IF l.initiated THEN l.stamp[r] ELSE 0
    BY <1>1, <1>2, <2>1
  <2>4. LogsTo(l, s, n, today, created, m)
    BY <1>2, <2>1, <2>2, <2>3 DEF LogsTo
  <2>. QED
    BY <2>4 DEF m
<1>. QED
  BY <1>4, <1>5

(***************************************************************************)
(* A line that is in the files once stays so when another one follows.     *)
(***************************************************************************)
Once(w, d) == \E i \in DOMAIN w : w[i] = d /\ \A j \in DOMAIN w : w[j][1] = d[1] => j = i

LEMMA AppendIs ==
  ASSUME NEW X, NEW w \in Seq(X), NEW e \in X
  PROVE  /\ Append(w, e) \in Seq(X) /\ DOMAIN w = 1 .. Len(w) /\ Len(w) \in Nat
         /\ DOMAIN Append(w, e) = 1 .. Len(w) + 1
         /\ \A i \in 1 .. Len(w) : Append(w, e)[i] = w[i]
         /\ Append(w, e)[Len(w) + 1] = e
  OBVIOUS

LEMMA OnceAppend ==
  ASSUME NEW X, NEW w \in Seq(X), NEW e \in X, NEW d, Once(w, d), e[1] # d[1]
  PROVE  Once(Append(w, e), d)
<1>1. PICK i \in DOMAIN w : w[i] = d /\ \A j \in DOMAIN w : w[j][1] = d[1] => j = i
  BY DEF Once
<1>2. i \in DOMAIN Append(w, e) /\ Append(w, e)[i] = d
  BY <1>1, AppendIs
<1>3. ASSUME NEW j \in DOMAIN Append(w, e), Append(w, e)[j][1] = d[1] PROVE j = i
  <2>1. (j \in DOMAIN w /\ Append(w, e)[j] = w[j]) \/ Append(w, e)[j] = e
    BY AppendIs
  <2>. QED
    BY <1>1, <1>3, <2>1
<1>. QED
  BY <1>2, <1>3 DEF Once

LEMMA OnceNew ==
  ASSUME NEW X, NEW w \in Seq(X), NEW e \in X, \A i \in DOMAIN w : w[i][1] # e[1]
  PROVE  Once(Append(w, e), e)
<1>1. Len(w) + 1 \in DOMAIN Append(w, e) /\ Append(w, e)[Len(w) + 1] = e
  BY AppendIs
<1>2. ASSUME NEW j \in DOMAIN Append(w, e), Append(w, e)[j][1] = e[1] PROVE j = Len(w) + 1
  <2>1. (j \in DOMAIN w /\ Append(w, e)[j] = w[j]) \/ j = Len(w) + 1
    BY AppendIs
  <2>. QED
    BY <1>2, <2>1
<1>. QED
  BY <1>1, <1>2 DEF Once

LEMMA KeptMeans == LinesKept <=> \A d \in due : Once(log.written, d)
BY DEF LinesKept, Once

(***************************************************************************)
(* IndInv, group by group.                                                 *)
(***************************************************************************)
LEMMA InitInv == Init => IndInv
<1> SUFFICES ASSUME Init PROVE IndInv
  OBVIOUS
<1>1. NoLog \in LogState
  BY DEF NoLog, LogState
<1>2. /\ day \in Day /\ call \in [stream : Stream \cup {"none"}, line : Nat, hit : BOOLEAN,
                               day : Day \cup {0},
                               step : {"none", "print", "stamp", "open", "write"}]
  BY DEF Init, NoCall, Day
<1>3. TypeOK
  <2>1. call \in [stream : Stream \cup {"none"}, line : Line, day : Day \cup {0}, hit : BOOLEAN,
                  step : {"none", "print", "stamp", "open", "write"}]
    BY <1>2
  <2>2. /\ pc = "initialize" /\ loop = "null" /\ asked = "no"
        /\ stop \in BOOLEAN /\ handlers \in BOOLEAN /\ torn \in BOOLEAN /\ fault \in BOOLEAN
    BY DEF Init
  <2>3. /\ signals \in 0 .. MaxSignal /\ accepts \in 0 .. MaxAccept /\ log \in LogState
        /\ nline \in Nat /\ due = {} /\ blind = {}
    BY <1>1 DEF Init
  <2>. QED
    BY <1>2, <2>1, <2>2, <2>3 DEF TypeOK
<1>. QED
  BY <1>3 DEF Init, IndInv, CallShape, LinesFresh, LinesKept, StampsTrue, LoopThere,
              InCreateAFile, NoCall, NoLog

\* What TypeOK says of the call.
LEMMA CallFields ==
  ASSUME IndInv
  PROVE  /\ call.step \in {"none", "print", "stamp", "open", "write"}
         /\ call.stream \in Stream \cup {"none"} /\ call.line \in Nat
         /\ call.day \in Day \cup {0} /\ call.hit \in BOOLEAN
         /\ call = NoCall <=> call.step = "none"
         /\ log \in LogState /\ day \in Day /\ nline \in Nat
  BY DEF IndInv, TypeOK, CallShape

\* Steps of main and of the calendar that leave the log and its calls alone.
LEMMA RestInv ==
  ASSUME IndInv, UNCHANGED <<log, call, nline, due, blind, torn>>, TypeOK',
         pc' = "close" => call = NoCall /\ (pc = "close" \/ torn \/ ~log.initiated),
         LoopThere'
  PROVE  IndInv'
<1>1. CallShape' /\ InCreateAFile' = InCreateAFile
  BY DEF IndInv, CallShape, InCreateAFile
<1>2. LinesFresh' /\ LinesKept'
  BY <1>1 DEF IndInv, LinesFresh, LinesKept, InCreateAFile
<1>3. StampsTrue'
  BY <1>1 DEF IndInv, StampsTrue, InCreateAFile
<1>. QED
  BY <1>1, <1>2, <1>3 DEF IndInv

\* A call begins with a line that nobody has.
LEMMA BeginInv ==
  ASSUME IndInv, NEW s \in Stream \cup {"none"}, Begin(s),
         UNCHANGED <<log, due, blind, torn>>, pc' \notin {"close"}, LoopThere',
         pc' \in {"error", "warn", "create", "shutdown", "batch"},
         UNCHANGED <<day, loop, stop, handlers, signals, fault, asked>>,
         accepts' \in 0 .. MaxAccept
  PROVE  IndInv'
<1>1. /\ nline \in Nat /\ nline' = nline + 1 /\ call.step = "none"
      /\ call' = [stream |-> s, line |-> nline + 1, step |-> "print", day |-> 0, hit |-> FALSE]
  BY DEF Begin, NoCall, IndInv, TypeOK
<1>2. call' \in [stream : Stream \cup {"none"}, line : Nat, day : Day \cup {0}, hit : BOOLEAN,
                 step : {"none", "print", "stamp", "open", "write"}]
  BY <1>1
<1>3. TypeOK'
  <2>1. due' \subseteq (1 .. nline') \X Stream \X Day
    BY <1>1 DEF IndInv, TypeOK
  <2>. QED
    BY <1>1, <1>2, <2>1 DEF IndInv, TypeOK
<1>4. CallShape'
  BY <1>1 DEF CallShape, InCreateAFile, NoCall
<1>5. LinesFresh'
  <2>1. log.buffer \in Nat /\ \A i \in DOMAIN log.written : log.written[i][1] \in Nat
    BY LogFields DEF IndInv, TypeOK
  <2>. QED
    BY <1>1, <2>1 DEF IndInv, LinesFresh, InCreateAFile
<1>6. LinesKept'
  BY DEF IndInv, LinesKept
<1>7. StampsTrue'
  BY <1>1 DEF IndInv, StampsTrue, InCreateAFile
<1>. QED
  BY <1>3, <1>4, <1>5, <1>6, <1>7 DEF IndInv

\* A call that goes on keeps its line and its stream, and its types.
LEMMA StepCall ==
  ASSUME IndInv, NEW s, s \in {"print", "stamp", "open", "write"}, call # NoCall,
         NEW d \in Day \cup {0}, call' = [call EXCEPT !.step = s, !.day = d]
  PROVE  /\ call' \in [stream : Stream \cup {"none"}, line : Line, day : Day \cup {0},
                       hit : BOOLEAN, step : {"none", "print", "stamp", "open", "write"}]
         /\ call'.step = s /\ call'.stream = call.stream /\ call'.line = call.line
         /\ call'.hit = call.hit /\ call'.day = d /\ call' # NoCall
<1>1. /\ call \in [stream : Stream \cup {"none"}, line : Line, day : Day \cup {0},
                   hit : BOOLEAN, step : {"none", "print", "stamp", "open", "write"}]
  BY DEF IndInv, TypeOK
<1>2. call'.step = s
  BY <1>1
<1>. QED
  BY <1>1, <1>2 DEF NoCall

LEMMA PrintInv == ASSUME IndInv, LogStep, LogPrint PROVE IndInv'
<1>1. PICK dirMade \in BOOLEAN : log' = Composed(Initialized(log, dirMade), call.line)
  BY DEF LogPrint
<1>2. /\ call.step = "print" /\ call # NoCall /\ call.line \in 1 .. nline /\ nline \in Nat
      /\ call.day \in Day \cup {0} /\ call.stream \in Stream \cup {"none"} /\ log \in LogState
  BY CallFields DEF LogPrint, NoCall, IndInv, CallShape
<1>3. /\ log' \in LogState /\ log'.buffer = call.line /\ log'.written = log.written
      /\ log'.file = log.file
      /\ log.initiated => log'.stamp = log.stamp
      /\ ~log.initiated => \A s \in Stream : log'.stamp[s] = 0
  <2>. DEFINE mid == Initialized(log, dirMade)
  <2>1. /\ mid \in LogState /\ mid.file = log.file /\ mid.written = log.written
        /\ log.initiated => mid = log
        /\ ~log.initiated => \A s \in Stream : mid.stamp[s] = 0
    BY <1>2, InitializedIs
  <2>2. log' = Composed(mid, call.line) /\ call.line \in Nat
    BY <1>1, <1>2
  <2>. HIDE DEF mid
  <2>. QED
    BY <2>1, <2>2, ComposedIs
<1>4. UNCHANGED <<pc, day, loop, stop, handlers, signals, accepts, nline, torn, fault, asked,
                  due, blind>>
  BY DEF LogStep, LogPrint
<1>5. \/ call.stream = "none" /\ call' = NoCall
      \/ /\ call.stream \in Stream /\ call'.step = "stamp" /\ call' # NoCall
         /\ call'.stream = call.stream /\ call'.line = call.line /\ call'.hit = call.hit
         /\ call' \in [stream : Stream \cup {"none"}, line : Line, day : Day \cup {0},
                       hit : BOOLEAN, step : {"none", "print", "stamp", "open", "write"}]
  <2>1. CASE call.stream = "none"
    BY <2>1 DEF LogPrint
  <2>2. CASE call.stream # "none"
    <3>1. call' = [call EXCEPT !.step = "stamp", !.day = call.day]
      BY <2>2 DEF LogPrint, Step, IndInv, TypeOK
    <3>. QED
      BY <1>2, <2>2, <3>1, StepCall
  <2>. QED
    BY <2>1, <2>2
<1>6. TypeOK'
  <2>1. NoCall \in [stream : Stream \cup {"none"}, line : Line, day : Day \cup {0},
                    hit : BOOLEAN, step : {"none", "print", "stamp", "open", "write"}]
    BY DEF NoCall
  <2>. QED
    BY <1>3, <1>4, <1>5, <2>1 DEF IndInv, TypeOK
<1>7. CallShape'
  BY <1>2, <1>4, <1>5 DEF IndInv, CallShape, InCreateAFile, NoCall
<1>8. LinesFresh'
  <2>1. \A i \in DOMAIN log.written : log.written[i][1] <= nline /\ log.written[i][1] # call.line
    BY <1>2 DEF IndInv, LinesFresh
  <2>2. \A d \in due : d[1] # call.line
    BY <2>1 DEF IndInv, LinesKept
  <2>3. call.line <= nline
    BY <1>2
  <2>4. /\ log'.buffer <= nline'
        /\ \A k \in DOMAIN log'.written :
             log'.written[k][1] <= nline' /\ log'.written[k][1] # call.line
    BY <1>3, <1>4, <2>1, <2>3
  <2>5. /\ call' # NoCall => call'.line = call.line
        /\ InCreateAFile' => log'.buffer = call'.line
    BY <1>3, <1>5 DEF InCreateAFile, NoCall
  <2>. QED
    BY <1>3, <1>4, <2>2, <2>4, <2>5 DEF LinesFresh
<1>9. LinesKept'
  BY <1>3, <1>4 DEF IndInv, LinesKept
<1>10. StampsTrue'
  <2>1. pc # "close" /\ call'.step \notin {"open", "write"}
    BY <1>2, <1>5 DEF IndInv, CallShape, NoCall
  <2>2. ~torn => \A s \in Stream \ blind : log'.stamp[s] = 0 \/ log'.file[s] = log'.stamp[s]
    BY <1>2, <1>3 DEF IndInv, StampsTrue
  <2>. QED
    BY <1>4, <2>1, <2>2 DEF StampsTrue
<1>11. LoopThere'
  BY <1>4 DEF IndInv, LoopThere
<1>. QED
  BY <1>6, <1>7, <1>8, <1>9, <1>10, <1>11 DEF IndInv

LEMMA StampInv == ASSUME IndInv, LogStep, LogStamp PROVE IndInv'
<1>1. /\ call.step = "stamp" /\ call # NoCall /\ call.stream \in Stream /\ call.line \in 1 .. nline
      /\ log \in LogState /\ day \in Day /\ day # 0 /\ nline \in Nat
  BY CallFields DEF LogStamp, NoCall, IndInv, CallShape, InCreateAFile, Day
<1>2. UNCHANGED <<pc, day, loop, stop, handlers, signals, accepts, nline, torn, fault, asked,
                  due, blind>>
  BY DEF LogStep, LogStamp
<1>3. \/ /\ log' = Stamped(log, call.stream, day)
         /\ call' = [call EXCEPT !.step = "open", !.day = day]
      \/ /\ log' = log /\ log.stamp[call.stream] = day
         /\ call' = [call EXCEPT !.step = "write", !.day = day]
  BY DEF LogStamp, NeedsFile
<1>4. /\ call'.step \in {"open", "write"} /\ call'.stream = call.stream /\ call'.line = call.line
      /\ call'.hit = call.hit /\ call'.day = day /\ call' # NoCall
      /\ call' \in [stream : Stream \cup {"none"}, line : Line, day : Day \cup {0},
                    hit : BOOLEAN, step : {"none", "print", "stamp", "open", "write"}]
      /\ \/ /\ call'.step = "open" /\ log' \in LogState
            /\ log'.stamp = [log.stamp EXCEPT ![call.stream] = day]
            /\ log'.initiated = log.initiated /\ log'.buffer = log.buffer
            /\ log'.file = log.file /\ log'.written = log.written
         \/ call'.step = "write" /\ log' = log /\ log.stamp[call.stream] = day
  <2>1. CASE log' = log /\ log.stamp[call.stream] = day
                /\ call' = [call EXCEPT !.step = "write", !.day = day]
    BY <1>1, <2>1, StepCall
  <2>2. CASE log' = Stamped(log, call.stream, day)
                /\ call' = [call EXCEPT !.step = "open", !.day = day]
    <3>1. /\ log' \in LogState /\ log'.stamp = [log.stamp EXCEPT ![call.stream] = day]
          /\ log'.initiated = log.initiated /\ log'.buffer = log.buffer
          /\ log'.file = log.file /\ log'.written = log.written
      BY <1>1, <2>2, StampedIs
    <3>. QED
      BY <1>1, <2>2, <3>1, StepCall
  <2>. QED
    BY <1>3, <2>1, <2>2
<1>5. TypeOK'
  BY <1>1, <1>2, <1>4 DEF IndInv, TypeOK
<1>6. CallShape'
  BY <1>1, <1>2, <1>4 DEF IndInv, CallShape, InCreateAFile, NoCall
<1>7. LinesFresh' /\ LinesKept'
  <2>1. log'.buffer = log.buffer /\ log'.written = log.written
    BY <1>4
  <2>2. InCreateAFile
    BY <1>1 DEF InCreateAFile
  <2>. QED
    BY <1>1, <1>2, <1>4, <2>1, <2>2 DEF IndInv, LinesFresh, LinesKept
<1>8. StampsTrue'
  <2>1. ~torn => \A s \in Stream \ blind : log.stamp[s] = 0 \/ log.file[s] = log.stamp[s]
    BY <1>1 DEF IndInv, StampsTrue, InCreateAFile
  <2>2. pc # "close"
    BY <1>1 DEF IndInv, CallShape
  <2>3. CASE call'.step = "open"
    <3>1. /\ log'.stamp[call.stream] = day
          /\ \A s \in Stream \ {call.stream} : log'.stamp[s] = log.stamp[s]
      BY <1>1, <1>4, <2>3, LogFields
    <3>. QED
      BY <1>2, <1>4, <2>1, <2>2, <2>3, <3>1 DEF StampsTrue
  <2>4. CASE call'.step = "write"
    BY <1>1, <1>2, <1>4, <2>1, <2>2, <2>4 DEF StampsTrue
  <2>. QED
    BY <1>4, <2>3, <2>4
<1>9. LoopThere'
  BY <1>2 DEF IndInv, LoopThere
<1>. QED
  BY <1>5, <1>6, <1>7, <1>8, <1>9 DEF IndInv

LEMMA OpenInv == ASSUME IndInv, LogStep, LogOpen PROVE IndInv'
<1>1. /\ call.step = "open" /\ call # NoCall /\ call.stream \in Stream /\ call.line \in 1 .. nline
      /\ call.day \in Day /\ log \in LogState /\ nline \in Nat
  BY CallFields DEF LogOpen, NoCall, IndInv, CallShape, InCreateAFile
<1>2. PICK created \in BOOLEAN :
        /\ log' = Opened(log, call.stream, call.day, created)
        /\ blind' = IF created THEN blind ELSE blind \cup {call.stream}
  BY DEF LogOpen
<1>3. UNCHANGED <<pc, day, loop, stop, handlers, signals, accepts, nline, torn, fault, asked, due>>
  BY DEF LogStep, LogOpen
<1>4. /\ log' \in LogState
      /\ log'.file = [log.file EXCEPT ![call.stream] = IF created THEN call.day ELSE 0]
      /\ log'.initiated = log.initiated /\ log'.buffer = log.buffer
      /\ log'.stamp = log.stamp /\ log'.written = log.written
  BY <1>1, <1>2, OpenedIs
<1>5. /\ call'.step = "write" /\ call'.stream = call.stream /\ call'.line = call.line
      /\ call'.hit = call.hit /\ call'.day = call.day /\ call' # NoCall
      /\ call' \in [stream : Stream \cup {"none"}, line : Line, day : Day \cup {0},
                    hit : BOOLEAN, step : {"none", "print", "stamp", "open", "write"}]
  <2>1. call' = [call EXCEPT !.step = "write", !.day = call.day]
    BY DEF LogOpen, Step, IndInv, TypeOK
  <2>. QED
    BY <1>1, <2>1, StepCall
<1>6. TypeOK'
  <2>1. blind' \subseteq Stream
    BY <1>1, <1>2 DEF IndInv, TypeOK
  <2>. QED
    BY <1>3, <1>4, <1>5, <2>1 DEF IndInv, TypeOK
<1>7. CallShape'
  BY <1>1, <1>3, <1>5 DEF IndInv, CallShape, InCreateAFile, NoCall
<1>8. LinesFresh' /\ LinesKept'
  <2>1. InCreateAFile
    BY <1>1 DEF InCreateAFile
  <2>. QED
    BY <1>1, <1>3, <1>4, <1>5, <2>1 DEF IndInv, LinesFresh, LinesKept
<1>9. StampsTrue'
  <2>1. ~torn => /\ log.stamp[call.stream] = call.day
                 /\ \A s \in Stream \ blind : \/ log.stamp[s] = 0 \/ log.file[s] = log.stamp[s]
                                              \/ s = call.stream
    BY <1>1 DEF IndInv, StampsTrue, InCreateAFile
  <2>2. pc # "close"
    BY <1>1 DEF IndInv, CallShape
  <2>3. /\ \A s \in Stream \ {call.stream} : log'.file[s] = log.file[s]
        /\ created => log'.file[call.stream] = call.day
        /\ ~created => call.stream \in blind'
        /\ blind \subseteq blind'
    BY <1>1, <1>2, <1>4, LogFields
  <2>. QED
    BY <1>3, <1>4, <1>5, <2>1, <2>2, <2>3 DEF StampsTrue
<1>10. LoopThere'
  BY <1>3 DEF IndInv, LoopThere
<1>. QED
  BY <1>6, <1>7, <1>8, <1>9, <1>10 DEF IndInv

\* The line of an undisturbed call goes to the file of its stream and day.
LEMMA WriteInv == ASSUME IndInv, LogStep, LogWrite PROVE IndInv'
<1>. DEFINE e == <<log.buffer, call.stream, log.file[call.stream]>>
            d == <<call.line, call.stream, call.day>>
            W == Nat \X Stream \X Day
<1>1. /\ call.step = "write" /\ call # NoCall /\ call.stream \in Stream /\ call.line \in 1 .. nline
      /\ call.day \in Day /\ call.day # 0 /\ log \in LogState /\ nline \in Nat /\ InCreateAFile
      /\ log.written \in Seq(W)
  BY CallFields, LogFields DEF LogWrite, NoCall, IndInv, CallShape, InCreateAFile, Day
<1>2. /\ UNCHANGED <<pc, day, loop, stop, handlers, signals, accepts, nline, torn, fault, asked>>
      /\ UNCHANGED blind /\ call' = NoCall /\ log' = Printed(log, call.stream)
      /\ \/ due' = due
         \/ due' = due \cup {d} /\ ~call.hit /\ ~torn /\ call.stream \notin blind
  <2>1. due' = IF call.hit \/ torn \/ call.stream \in blind THEN due ELSE due \cup {d}
    BY Zenon DEF LogWrite
  <2>2. /\ UNCHANGED <<pc, day, loop, stop, handlers, signals, accepts, nline, torn, fault, asked>>
        /\ UNCHANGED blind /\ call' = NoCall /\ log' = Printed(log, call.stream)
    BY Zenon DEF LogStep, LogWrite
  <2>. HIDE DEF d
  <2>. QED
    BY <2>1, <2>2
<1>3. /\ log' \in LogState /\ log'.initiated = log.initiated /\ log'.stamp = log.stamp
      /\ log'.file = log.file /\ log'.buffer = log.buffer
      /\ \/ log'.written = log.written /\ log.file[call.stream] = 0
         \/ log'.written = Append(log.written, e) /\ e \in W
  <2>1. log.file[call.stream] # 0 => e \in W
    BY <1>1, LogFields
  <2>. HIDE DEF W
  <2>. QED
    BY <1>1, <1>2, <2>1, PrintedIs
<1>4. TypeOK'
  <2>1. d \in (1 .. nline) \X Stream \X Day
    BY <1>1
  <2>2. due' \subseteq (1 .. nline') \X Stream \X Day
    BY <1>2, <2>1 DEF IndInv, TypeOK
  <2>3. NoCall \in [stream : Stream \cup {"none"}, line : Line, day : Day \cup {0},
                    hit : BOOLEAN, step : {"none", "print", "stamp", "open", "write"}]
    BY DEF NoCall
  <2>. HIDE DEF d
  <2>. QED
    BY <1>2, <1>3, <2>2, <2>3 DEF IndInv, TypeOK
<1>5. CallShape'
  BY <1>2 DEF CallShape, InCreateAFile, NoCall
<1>6. LinesFresh'
  <2>1. /\ log.buffer <= nline /\ \A i \in DOMAIN log.written : log.written[i][1] <= nline
        /\ log.buffer \in Nat
    BY <1>1, LogFields DEF IndInv, LinesFresh
  <2>2. e[1] = log.buffer
    OBVIOUS
  <2>. HIDE DEF e, W
  <2>3. \A i \in DOMAIN log'.written : log'.written[i][1] <= nline
    <3>1. CASE log'.written = log.written
      BY <2>1, <3>1
    <3>2. CASE log'.written = Append(log.written, e) /\ e \in W
      BY <1>1, <2>1, <2>2, <3>2, AppendIs
    <3>. QED
      BY <1>3, <3>1, <3>2
  <2>. QED
    BY <1>2, <1>3, <2>1, <2>3 DEF LinesFresh, InCreateAFile, NoCall
<1>7. LinesKept'
  <2>1. ASSUME NEW x \in due PROVE Once(log'.written, x)
    <3>1. Once(log.written, x) /\ x[1] # log.buffer /\ e[1] = log.buffer
      BY <1>1, KeptMeans DEF IndInv, LinesFresh
    <3>. HIDE DEF e, W
    <3>. QED
      BY <1>1, <1>3, <3>1, OnceAppend
  <2>2. ASSUME ~call.hit, ~torn, call.stream \notin blind PROVE Once(log'.written, d)
    <3>1. log.file[call.stream] = call.day /\ log.buffer = call.line
      BY <1>1, <2>2 DEF IndInv, StampsTrue, LinesFresh
    <3>2. d = e /\ log'.written = Append(log.written, e) /\ e \in W /\ e[1] = call.line
      BY <1>1, <1>3, <3>1
    <3>3. \A i \in DOMAIN log.written : log.written[i][1] # call.line
      BY <1>1 DEF IndInv, LinesFresh
    <3>. HIDE DEF e, W, d
    <3>. QED
      BY <1>1, <3>2, <3>3, OnceNew
  <2>. HIDE DEF d
  <2>3. \A x \in due' : Once(log'.written, x)
    BY <1>2, <2>1, <2>2
  <2>. QED
    BY <2>3 DEF LinesKept, Once
<1>8. StampsTrue'
  <2>1. call'.step = "none" /\ ~InCreateAFile'
    BY <1>2 DEF InCreateAFile, NoCall
  <2>2. pc # "close"
    BY <1>1 DEF IndInv, CallShape
  <2>3. log.initiated /\ ~torn =>
          \A s \in Stream \ blind : log.stamp[s] = 0 \/ log.file[s] = log.stamp[s]
    BY <1>1 DEF IndInv, StampsTrue
  <2>. QED
    BY <1>2, <1>3, <2>1, <2>2, <2>3 DEF StampsTrue
<1>9. LoopThere'
  BY <1>2 DEF IndInv, LoopThere
<1>. QED
  BY <1>4, <1>5, <1>6, <1>7, <1>8, <1>9 DEF IndInv

\* What the handler logs, at any step of main and of the log call that main is in.
LEMMA HandlerInv ==
  ASSUME IndInv, HandlerLogs, UNCHANGED <<pc, day, loop, handlers, accepts>>,
         signals' \in 0 .. MaxSignal, stop' \in BOOLEAN, fault' \in BOOLEAN,
         asked' \in {"no", "early", "served"}
  PROVE  IndInv'
<1>. DEFINE n == nline + 1
            d == <<n, "log", day>>
            W == Nat \X Stream \X Day
<1>1. PICK dirMade \in BOOLEAN, created \in BOOLEAN :
        /\ log' = Logged(log, "log", n, day, dirMade, created)
        /\ nline' = n
        /\ blind' = IF created THEN blind ELSE blind \cup {"log"}
        /\ torn' = (torn \/ pc = "close" \/ call.step = "open")
        /\ due' = IF call = NoCall /\ ~torn' /\ "log" \notin blind' THEN due \cup {d} ELSE due
        /\ call' = IF call = NoCall THEN call ELSE [call EXCEPT !.hit = TRUE]
  BY DEF HandlerLogs
<1>2. /\ "log" \in Stream /\ nline \in Nat /\ n \in Nat /\ nline <= n /\ nline < n
      /\ day \in Day /\ day # 0 /\ log \in LogState /\ log.written \in Seq(W)
      /\ torn \in BOOLEAN /\ blind \subseteq Stream /\ due \subseteq (1 .. nline) \X Stream \X Day
  BY LogFields DEF IndInv, TypeOK, Stream, Day
<1>3. /\ log' \in LogState /\ log'.buffer = n /\ log'.stamp["log"] = day
      /\ \/ log'.file["log"] = day
         \/ log'.file["log"] = 0 /\ ~created
         \/ log.initiated /\ log.stamp["log"] = day /\ log'.file["log"] = log.file["log"]
      /\ \A r \in Stream \ {"log"} :
           log'.file[r] = log.file[r] /\ log'.stamp[r] = IF log.initiated THEN log.stamp[r] ELSE 0
      /\ log'.file["log"] = 0 => log'.written = log.written
      /\ log'.file["log"] # 0 => log'.written = Append(log.written, <<n, "log", log'.file["log"]>>)
  <2>. HIDE DEF n, W
  <2>1. "log" \in Stream /\ n \in Nat /\ day \in Day /\ log \in LogState
    BY <1>2
  <2>2. LogsTo(log, "log", n, day, created, Logged(log, "log", n, day, dirMade, created))
    BY <2>1, LoggedIs
  <2>3. LogsTo(log, "log", n, day, created, log')
    BY <1>1, <2>2
  <2>. QED
    BY <2>3 DEF LogsTo
<1>4. /\ call'.step = call.step /\ call'.stream = call.stream /\ call'.line = call.line
      /\ call'.day = call.day /\ call' = NoCall <=> call = NoCall
      /\ call # NoCall => call'.hit
      /\ call' \in [stream : Stream \cup {"none"}, line : Line, day : Day \cup {0},
                    hit : BOOLEAN, step : {"none", "print", "stamp", "open", "write"}]
  <2>1. call \in [stream : Stream \cup {"none"}, line : Line, day : Day \cup {0},
                  hit : BOOLEAN, step : {"none", "print", "stamp", "open", "write"}]
    BY DEF IndInv, TypeOK
  <2>2. CASE call = NoCall
    BY <1>1, <2>1, <2>2
  <2>3. CASE call # NoCall
    <3>1. call' = [call EXCEPT !.hit = TRUE]
      BY <1>1, <2>3
    <3>2. call'.hit /\ call'.step = call.step
      BY <2>1, <3>1
    <3>. QED
      BY <2>1, <2>3, <3>1, <3>2 DEF NoCall
  <2>. QED
    BY <2>2, <2>3
<1>5. InCreateAFile' = InCreateAFile /\ (InCreateAFile => call # NoCall)
  BY <1>4 DEF InCreateAFile, NoCall
<1>6. TypeOK'
  <2>1. d \in (1 .. n) \X Stream \X Day
    BY <1>2
  <2>2. due' \subseteq (1 .. n) \X Stream \X Day
    BY <1>1, <1>2, <2>1
  <2>3. blind' \subseteq Stream /\ torn' \in BOOLEAN /\ nline' = n
    BY <1>1, <1>2
  <2>. HIDE DEF d, n, W
  <2>. QED
    BY <1>2, <1>3, <1>4, <2>2, <2>3 DEF IndInv, TypeOK
<1>7. CallShape'
  BY <1>1, <1>2, <1>4, <1>5 DEF IndInv, CallShape, InCreateAFile
<1>8. /\ \A i \in DOMAIN log.written : log.written[i][1] <= nline /\ log.written[i][1] \in Nat
      /\ \A x \in due : x[1] <= nline /\ x[1] \in Nat
  BY <1>2, LogFields DEF IndInv, LinesFresh
<1>. DEFINE e == <<n, "log", log'.file["log"]>>
<1>9. /\ e[1] = n
      /\ \/ log'.written = log.written /\ log'.file["log"] = 0
         \/ log'.written = Append(log.written, e) /\ e \in W
  BY <1>2, <1>3, LogFields
<1>10. LinesFresh'
  <2>. HIDE DEF e, W
  <2>1. \A i \in DOMAIN log'.written :
          log'.written[i][1] <= n /\ (call # NoCall => log'.written[i][1] # call.line)
    <3>1. call # NoCall => call.line # n
      BY <1>2 DEF IndInv, CallShape
    <3>2. CASE log'.written = log.written
      BY <1>2, <1>8, <3>2 DEF IndInv, LinesFresh
    <3>3. CASE log'.written = Append(log.written, e) /\ e \in W
      <4>1. \A i \in DOMAIN log'.written :
              (i \in DOMAIN log.written /\ log'.written[i] = log.written[i]) \/ log'.written[i] = e
        BY <1>2, <3>3, AppendIs
      <4>. QED
        BY <1>2, <1>8, <1>9, <3>1, <4>1 DEF IndInv, LinesFresh
    <3>. QED
      BY <1>9, <3>2, <3>3
  <2>2. InCreateAFile => due' = due
    BY <1>1, <1>5
  <2>. QED
    BY <1>1, <1>2, <1>3, <1>4, <1>5, <1>8, <2>1, <2>2 DEF LinesFresh
<1>11. ASSUME call = NoCall, ~torn', "log" \notin blind' PROVE log'.file["log"] = day
  <2>1. created /\ "log" \notin blind /\ ~torn /\ call.step # "open"
    BY <1>1, <1>2, <1>11
  <2>2. log.initiated => log.stamp["log"] = 0 \/ log.file["log"] = log.stamp["log"]
    BY <1>2, <2>1 DEF IndInv, StampsTrue
  <2>. QED
    BY <1>2, <1>3, <2>1, <2>2
<1>12. LinesKept'
  <2>1. ASSUME NEW x \in due PROVE Once(log'.written, x)
    <3>1. Once(log.written, x) /\ x[1] # n
      BY <1>2, <1>8, KeptMeans DEF IndInv
    <3>. HIDE DEF e, W, n
    <3>. QED
      BY <1>2, <1>9, <3>1, OnceAppend
  <2>2. ASSUME call = NoCall, ~torn', "log" \notin blind' PROVE Once(log'.written, d)
    <3>1. d = e /\ log'.written = Append(log.written, e) /\ e \in W
      BY <1>2, <1>9, <1>11, <2>2
    <3>2. \A i \in DOMAIN log.written : log.written[i][1] # e[1]
      BY <1>2, <1>8, <1>9
    <3>. HIDE DEF e, W, d
    <3>. QED
      BY <1>2, <3>1, <3>2, OnceNew
  <2>. HIDE DEF d
  <2>3. \A x \in due' : Once(log'.written, x)
    BY <1>1, <2>1, <2>2
  <2>. QED
    BY <2>3 DEF LinesKept, Once
<1>13. StampsTrue'
  <2>1. ASSUME ~torn', NEW s \in Stream \ blind'
        PROVE  log'.stamp[s] = 0 \/ log'.file[s] = log'.stamp[s]
    <3>1. ~torn /\ s \notin blind /\ call.step # "open" /\ ("log" \in blind' \/ created)
      BY <1>1, <1>2, <2>1
    <3>2. log.initiated => log.stamp[s] = 0 \/ log.file[s] = log.stamp[s]
      BY <2>1, <3>1 DEF IndInv, StampsTrue
    <3>3. CASE s = "log"
      BY <1>1, <1>2, <1>3, <2>1, <3>1, <3>2, <3>3
    <3>4. CASE s # "log"
      BY <1>3, <2>1, <3>2, <3>4
    <3>. QED
      BY <3>3, <3>4
  <2>2. ~torn' => call'.step # "open" /\ pc' # "close"
    BY <1>1, <1>2, <1>4
  <2>3. call'.step = "write" => call'.hit
    BY <1>4 DEF NoCall
  <2>. QED
    BY <2>1, <2>2, <2>3 DEF StampsTrue
<1>14. LoopThere'
  BY DEF IndInv, LoopThere
<1>. QED
  BY <1>6, <1>7, <1>10, <1>12, <1>13, <1>14 DEF IndInv

\* initialize, before the first call.
LEMMA InitializeInv == ASSUME IndInv, Initialize PROVE IndInv'
<1>1. PICK dirMade \in BOOLEAN : log' = Initialized(log, dirMade)
  BY DEF Initialize
<1>2. /\ UNCHANGED <<call, loop, stop, nline, day, signals, accepts, due, blind, torn, fault,
                     asked>>
      /\ handlers' = TRUE /\ pc' = "print" /\ call = NoCall /\ call.step = "none"
  BY DEF Initialize, Goto, Quiet, At, NoCall
<1>3. /\ log' \in LogState /\ log'.file = log.file /\ log'.written = log.written
      /\ log.initiated => log' = log
      /\ ~log.initiated => \A s \in Stream : log'.stamp[s] = 0
      /\ log'.buffer \in {log.buffer, 0}
  <2>1. log \in LogState
    BY CallFields
  <2>. QED
    BY <1>1, <2>1, InitializedIs DEF Initialized, LogState
<1>4. TypeOK' /\ CallShape'
  BY <1>2, <1>3 DEF IndInv, TypeOK, CallShape, InCreateAFile
<1>5. LinesFresh' /\ LinesKept'
  BY <1>2, <1>3 DEF IndInv, TypeOK, LinesFresh, LinesKept, InCreateAFile
<1>6. StampsTrue'
  BY <1>2, <1>3 DEF IndInv, StampsTrue, InCreateAFile
<1>7. LoopThere'
  <2>1. pc = "initialize"
    BY DEF Initialize, At
  <2>. QED
    BY <1>2, <2>1 DEF IndInv, LoopThere
<1>. QED
  BY <1>4, <1>5, <1>6, <1>7 DEF IndInv

\* shutdown: the flag falls, the files close, and no stamp counts any more.
LEMMA ShutDownInv == ASSUME IndInv, ShutDown PROVE IndInv'
<1>1. /\ UNCHANGED <<call, stop, handlers, nline, day, signals, accepts, due, blind, torn, fault,
                     asked>>
      /\ call = NoCall /\ call.step = "none" /\ ~InCreateAFile /\ log \in LogState
  BY CallFields DEF ShutDown, Quiet, At, NoCall, InCreateAFile
<1>2. \/ pc' = "close" /\ log' = Unmarked(log) /\ loop' = loop /\ pc = "shutdown"
      \/ pc = "close" /\ pc' = "sleep" /\ log' = Closed(log) /\ loop' = loop
      \/ pc' \in {"destroyed", "gone"} /\ log' = log /\ loop' \in {loop, "freed"}
  BY DEF ShutDown, At, Goto
<1>3. /\ log' \in LogState /\ log'.buffer = log.buffer /\ log'.written = log.written
      /\ \/ pc' = "close" /\ ~log'.initiated
         \/ pc = "close" /\ pc' # "close" /\ log'.initiated = log.initiated
         \/ pc' # "close" /\ log' = log
  BY <1>1, <1>2 DEF Unmarked, Closed, LogState
<1>4. TypeOK' /\ CallShape'
  BY <1>1, <1>2, <1>3 DEF IndInv, TypeOK, CallShape, InCreateAFile
<1>5. LinesFresh' /\ LinesKept'
  BY <1>1, <1>3 DEF IndInv, LinesFresh, LinesKept, InCreateAFile
<1>6. StampsTrue'
  BY <1>1, <1>3 DEF IndInv, StampsTrue, InCreateAFile
<1>7. LoopThere'
  BY <1>2 DEF IndInv, LoopThere
<1>. QED
  BY <1>4, <1>5, <1>6, <1>7 DEF IndInv

LEMMA IndInvStep == IndInv /\ [Next]_vars => IndInv'
<1> SUFFICES ASSUME IndInv, [Next]_vars PROVE IndInv'
  OBVIOUS
<1>1. CASE LogStep
  BY <1>1, PrintInv, StampInv, OpenInv, WriteInv DEF LogStep
<1>2. CASE Initialize
  BY <1>2, InitializeInv
<1>3. CASE LogCall
  <2>1. PICK s \in Stream \cup {"none"} : Begin(s)
    BY <1>3 DEF LogCall, Stream
  <2>2. /\ UNCHANGED <<log, due, blind, torn, day, loop, stop, handlers, signals, accepts,
                       fault, asked>>
        /\ pc' \in {"error", "warn", "create", "shutdown"}
        /\ pc \notin {"destroyed", "gone", "crashed"}
    BY <1>3 DEF LogCall, Quiet, At, Goto
  <2>3. accepts' \in 0 .. MaxAccept /\ LoopThere'
    BY <2>2 DEF IndInv, TypeOK, LoopThere
  <2>. QED
    BY <2>1, <2>2, <2>3, BeginInv
<1>4. CASE CreateLoop \/ Listen \/ EnterLoop \/ Turn
  <2>1. /\ UNCHANGED <<log, call, nline, due, blind, torn, day, handlers, signals, accepts,
                       asked>>
        /\ fault' \in {fault, TRUE}
        /\ pc' \in {"listen", "aeMain", "info", "loop", "batch", "crashed"}
        /\ \/ pc = "create" /\ pc' = "listen" /\ loop' \in {"live", loop}
           \/ loop' = loop /\ pc \in {"listen", "aeMain", "loop"}
        /\ pc' \in {"aeMain", "loop", "batch"} =>
             loop' = loop /\ (loop = "live" \/ pc \in {"aeMain", "loop"})
    BY <1>4 DEF CreateLoop, Listen, EnterLoop, Turn, Quiet, At, Goto
  <2>2. stop' \in BOOLEAN /\ fault' \in BOOLEAN /\ loop' \in {"null", "live", "freed"}
    BY <1>4, <2>1 DEF CreateLoop, Listen, EnterLoop, Turn, IndInv, TypeOK
  <2>3. TypeOK' /\ LoopThere'
    BY <2>1, <2>2 DEF IndInv, TypeOK, LoopThere
  <2>. QED
    BY <2>1, <2>3, RestInv
<1>5. CASE Batch
  <2>1. /\ UNCHANGED <<loop, stop, handlers, log, day, signals, due, blind, torn, fault, asked>>
        /\ pc = "batch" /\ pc' \in {"batch", "loop"} /\ loop = "live"
    BY <1>5 DEF Batch, At, Goto, IndInv, LoopThere
  <2>2. CASE UNCHANGED <<call, nline, accepts>>
    <3>1. TypeOK' /\ LoopThere'
      BY <2>1, <2>2 DEF IndInv, TypeOK, LoopThere
    <3>. QED
      BY <2>1, <2>2, <3>1, RestInv
  <2>3. CASE accepts > 0 /\ accepts' = accepts - 1 /\ Begin("log") /\ UNCHANGED pc
    <3>1. accepts' \in 0 .. MaxAccept /\ LoopThere' /\ "log" \in Stream \cup {"none"}
      BY <2>1, <2>3 DEF IndInv, TypeOK, LoopThere, Stream
    <3>. QED
      BY <2>1, <2>3, <3>1, BeginInv
  <2>. QED
    BY <1>5, <2>2, <2>3 DEF Batch
<1>6. CASE ShutDown
  BY <1>6, ShutDownInv
<1>7. CASE Signal
  <2>1. /\ HandlerLogs /\ UNCHANGED <<pc, day, loop, handlers, accepts, fault>>
        /\ signals' = signals - 1 /\ signals > 0 /\ stop' = TRUE
        /\ asked' \in {asked, "served", "early"}
    BY <1>7 DEF Signal
  <2>2. /\ signals' \in 0 .. MaxSignal /\ stop' \in BOOLEAN /\ fault' \in BOOLEAN
        /\ asked' \in {"no", "early", "served"}
    BY <2>1 DEF IndInv, TypeOK
  <2>. QED
    BY <2>1, <2>2, HandlerInv
<1>8. CASE SignalFaults
  <2>1. /\ UNCHANGED <<day, loop, stop, handlers, accepts, asked>> /\ fault' = TRUE
        /\ signals' = signals - 1 /\ signals > 0
        /\ \/ pc' = "crashed" /\ UNCHANGED <<log, nline, blind, torn, due, call>>
           \/ HandlerLogs /\ UNCHANGED pc
    BY <1>8 DEF SignalFaults
  <2>2. /\ signals' \in 0 .. MaxSignal /\ stop' \in BOOLEAN /\ fault' \in BOOLEAN
        /\ asked' \in {"no", "early", "served"}
    BY <2>1 DEF IndInv, TypeOK
  <2>3. CASE HandlerLogs /\ UNCHANGED pc
    BY <2>1, <2>2, <2>3, HandlerInv
  <2>4. CASE pc' = "crashed" /\ UNCHANGED <<log, nline, blind, torn, due, call>>
    <3>1. TypeOK' /\ LoopThere'
      BY <2>1, <2>2, <2>4 DEF IndInv, TypeOK, LoopThere
    <3>. QED
      BY <2>1, <2>4, <3>1, RestInv
  <2>. QED
    BY <2>1, <2>3, <2>4
<1>9. CASE Midnight \/ Ended \/ UNCHANGED vars
  <2>1. /\ UNCHANGED <<pc, call, loop, stop, handlers, log, signals, accepts, nline, due, blind,
                       torn, fault, asked>>
        /\ day' \in Day
    BY <1>9 DEF Midnight, Ended, vars, procVars, IndInv, TypeOK, Day
  <2>2. TypeOK' /\ LoopThere'
    BY <2>1 DEF IndInv, TypeOK, LoopThere
  <2>3. pc = "close" => call = NoCall
    BY DEF IndInv, CallShape
  <2>. QED
    BY <2>1, <2>2, <2>3, RestInv
<1>. QED
  BY <1>1, <1>2, <1>3, <1>4, <1>5, <1>6, <1>7, <1>8, <1>9 DEF Next, MainStep

(***************************************************************************)
(* Theorems.                                                               *)
(***************************************************************************)

\* The inductive invariant, for any number of signals, days and lines.
THEOREM IndInvCorrect == Spec => []IndInv
BY InitInv, IndInvStep, PTL DEF Spec

\* Every variable of the process and of the log keeps its type.
THEOREM TypeCorrect == Spec => []TypeOK
<1>1. IndInv => TypeOK
  BY DEF IndInv
<1>. QED
  BY <1>1, IndInvCorrect, PTL

\* A line whose call no signal interrupted is in the files exactly once, and in
\* the file of its stream and day (log.cpp: _print, createAFile, info, shutdown).
THEOREM LinesCorrect == Spec => []LinesKept
<1>1. IndInv => LinesKept
  BY DEF IndInv
<1>. QED
  BY <1>1, IndInvCorrect, PTL

\* A stamp vouches for an open file of its day (createAFile's early return).
THEOREM StampCorrect == Spec => []StampMeansOpen
<1>1. IndInv => StampMeansOpen
  BY DEF IndInv, StampsTrue, StampMeansOpen
<1>. QED
  BY <1>1, IndInvCorrect, PTL

\* onBreak finds the event loop from its creation to the destructors (main.cpp,
\* tcp_server.cpp: StartServer, StopServer).
THEOREM StopSafe == Spec => StopNeverFaults
<1>1. IndInv /\ [Next]_vars =>
        [~fault /\ fault' => pc \notin HasLoop \/ LoopRefused]_vars
  <2> SUFFICES ASSUME IndInv, Next, ~fault, fault', pc \in HasLoop PROVE LoopRefused
    OBVIOUS
  <2>1. SignalFaults \/ (Listen /\ loop = "null")
    BY DEF Next, MainStep, LogStep, Initialize, LogCall, CreateLoop, Listen, EnterLoop, Turn,
           Batch, ShutDown, Signal, Midnight, Ended, Quiet, vars
  <2>2. loop # "live"
    BY <2>1 DEF SignalFaults
  <2>. QED
    BY <2>2 DEF IndInv, TypeOK, LoopThere, LoopRefused, HasLoop
<1>. QED
  BY <1>1, IndInvCorrect, PTL DEF Spec, StopNeverFaults
=============================================================================
