------------------------------ MODULE AeTimers ------------------------------
(***************************************************************************)
(* The time event half of the ae event loop (network/ae.c): a linked list  *)
(* of timers that aeProcessEvents walks after each poll, the poll timeout  *)
(* taken from the nearest timer, and the guard against a system clock that *)
(* is set back.                                                            *)
(*                                                                         *)
(* The callbacks are the user's: they create and delete timers, in file    *)
(* events, in the timers' own procedures and in finalizers.  The clock may *)
(* be set between any two steps.                                           *)
(***************************************************************************)
EXTENDS Integers, Sequences

CONSTANTS MsPerSec,   \* 1000
          IdlePoll,   \* the poll timeout without timers, 10 ms
          Delay,      \* milliseconds users ask for
          MaxTimer,   \* bound on the timers ever created
          MaxNow,     \* bound on the clock, in ms
          MaxSet,     \* bound on how often the clock is set
          FinalizerCreates   \* finalizers may create timers

ASSUME TimersAssumption ==
  /\ MsPerSec \in Nat \ {0} /\ IdlePoll \in Nat /\ Delay \subseteq Nat
  /\ MaxTimer \in Nat /\ MaxNow \in Nat /\ MaxSet \in Nat
  /\ MsPerSec <= MaxNow /\ FinalizerCreates \in BOOLEAN

VARIABLES
  timers,    \* timeEventHead: the timers in the order of the list
  nextId,    \* timeEventNextId
  lastTime,  \* the second of the last walk
  phase,     \* where aeProcessEvents is
  te, prev,  \* processTimeEvents' te and prev, by key
  maxId,
  alarm,     \* ms that select still sleeps at most
  now,       \* the system clock in ms
  sets,      \* how often the clock has been set
  \* history
  alive,     \* timers created, and not deleted or finished
  dying,     \* timers deleted or finished, and not finalized
  owed       \* timers that a clock set back has made due at once

vars == <<timers, nextId, lastTime, phase, te, prev, maxId, alarm, now, sets,
          alive, dying, owed>>

Key     == 0 .. MaxTimer - 1
None    == -1
DELETED == -1    \* AE_DELETED_EVENT_ID

\* key names the structure: it is the id at creation.  left is the time until
\* the timer's delay is over, skew that the clock has been set meanwhile or was
\* found set: history, the code does not know them.
Timer == [key : Key, id : Key \cup {DELETED}, when_sec : Nat,
          when_ms : 0 .. MsPerSec - 1, left : Nat, skew : BOOLEAN]

Sec(t) == t \div MsPerSec
Ms(t)  == t % MsPerSec

Init ==
  /\ timers = <<>> /\ nextId = 0
  /\ now = MsPerSec /\ lastTime = Sec(now)
  /\ phase = "poll" /\ te = None /\ prev = None /\ maxId = -1
  /\ alarm = 0 /\ sets = 0
  /\ alive = {} /\ dying = {} /\ owed = {}

Pos(k)  == CHOOSE i \in DOMAIN timers : timers[i].key = k
This    == timers[Pos(te)]
After(k) == IF Pos(k) = Len(timers) THEN None ELSE timers[Pos(k) + 1].key
Head0   == IF timers = <<>> THEN None ELSE timers[1].key

\* The timer is to be called at the given time, after the delay.
Timed(t, sec, ms, delay) ==
  [t EXCEPT !.when_sec = sec, !.when_ms = ms, !.left = delay, !.skew = FALSE]

\* Mutants of Scheduled: the carry is lost, or comes too late.
ScheduledNoCarry(t, delay) ==
  Timed(t, Sec(now) + delay \div MsPerSec, Ms(now + delay), delay)

ScheduledLateCarry(t, delay) ==
  LET ms == Ms(now) + (delay % MsPerSec)
      carry == IF ms > MsPerSec THEN 1 ELSE 0 IN
  Timed(t, Sec(now) + delay \div MsPerSec + carry, ms - carry * MsPerSec, delay)

\* aeAddMillisecondsToNow, with its carry from milliseconds to seconds.
Scheduled(t, delay) ==
  LET ms == Ms(now) + (delay % MsPerSec)
      carry == IF ms >= MsPerSec THEN 1 ELSE 0 IN
  Timed(t, Sec(now) + delay \div MsPerSec + carry, ms - carry * MsPerSec, delay)

(***************************************************************************)
(* What callbacks do: aeCreateTimeEvent and aeDeleteTimeEvent.             *)
(***************************************************************************)
Fresh == [key |-> nextId, id |-> nextId, when_sec |-> 0, when_ms |-> 0,
          left |-> 0, skew |-> FALSE]

\* The id is spent even when malloc fails.
Create ==
  /\ nextId < MaxTimer
  /\ nextId' = nextId + 1
  /\ \/ \E delay \in Delay :
          /\ timers' = <<Scheduled(Fresh, delay)>> \o timers
          /\ alive' = alive \cup {nextId}
     \/ UNCHANGED <<timers, alive>>
  /\ UNCHANGED <<dying, owed>>

Buried(k) == alive' = alive \ {k} /\ dying' = dying \cup {k}

Delete ==
  /\ \E i \in DOMAIN timers :
       /\ timers[i].id # DELETED
       /\ timers' = [timers EXCEPT ![i].id = DELETED]
       /\ Buried(timers[i].key)
       /\ owed' = owed \ {timers[i].key}
  /\ UNCHANGED nextId

Creating == {"files", "call"} \cup {f \in {"final"} : FinalizerCreates}

UserCall ==
  /\ \/ phase \in Creating /\ Create
     \/ phase \in {"files", "call", "final"} /\ Delete
  /\ UNCHANGED <<lastTime, phase, te, prev, maxId, alarm, now, sets>>

(***************************************************************************)
(* aeProcessEvents up to the file events.                                  *)
(***************************************************************************)
Earlier(t, u) == \/ t.when_sec < u.when_sec
                 \/ t.when_sec = u.when_sec /\ t.when_ms < u.when_ms

\* aeSearchNearestTimer does not pass over deleted timers.
Nearest == CHOOSE i \in DOMAIN timers :
             \A j \in DOMAIN timers : ~Earlier(timers[j], timers[i])

\* Mutant of Timeout: the milliseconds of the present second are forgotten.
TimeoutMs ==
  IF timers = <<>> THEN IdlePoll
  ELSE LET t == timers[Nearest]
           ms == (t.when_sec - Sec(now)) * MsPerSec + t.when_ms IN
       IF ms > 0 THEN ms ELSE 0

Timeout ==
  IF timers = <<>> THEN IdlePoll
  ELSE LET t == timers[Nearest]
           ms == (t.when_sec - Sec(now)) * MsPerSec + t.when_ms - Ms(now) IN
       IF ms > 0 THEN ms ELSE 0

Sleep == /\ phase = "poll" /\ phase' = "sleep"
         /\ alarm' = Timeout
         /\ UNCHANGED <<timers, nextId, lastTime, te, prev, maxId, now, sets,
                        alive, dying, owed>>

\* select returns, at the timeout or for a file event.
Wake == /\ phase = "sleep" /\ phase' = "files"
        /\ alarm' = 0
        /\ UNCHANGED <<timers, nextId, lastTime, te, prev, maxId, now, sets,
                       alive, dying, owed>>

(***************************************************************************)
(* processTimeEvents.                                                      *)
(***************************************************************************)
SetBack == Sec(now) < lastTime

\* Mutant of Forced: the first timer of the list is missed.
ForcedButHead == [i \in DOMAIN timers |->
                    IF i = 1 THEN timers[i]
                    ELSE [timers[i] EXCEPT !.when_sec = 0, !.skew = TRUE]]
Forced == [i \in DOMAIN timers |-> [timers[i] EXCEPT !.when_sec = 0, !.skew = TRUE]]

Start == /\ phase = "files" /\ phase' = "walk"
         /\ timers' = IF SetBack THEN Forced ELSE timers
         /\ owed' = IF SetBack THEN alive ELSE owed
         /\ lastTime' = Sec(now)
         /\ prev' = None /\ te' = Head0 /\ maxId' = nextId - 1
         /\ UNCHANGED <<nextId, alarm, now, sets, alive, dying>>

Walking == phase = "walk" /\ te # None

\* Mutant of Unlinked: prev is not looked at.
UnlinkedHead == SubSeq(timers, Pos(te) + 1, Len(timers))

\* The timer is unlinked by way of prev, or of the head if prev is null.
Unlinked == (IF prev = None THEN <<>> ELSE SubSeq(timers, 1, Pos(prev)))
              \o SubSeq(timers, Pos(te) + 1, Len(timers))

\* Mutant of Remove: a deleted timer is passed over.
RemoveNot ==
  /\ Walking /\ This.id = DELETED
  /\ te' = After(te) /\ prev' = te
  /\ UNCHANGED <<timers, nextId, lastTime, phase, maxId, alarm, now, sets,
                 alive, dying, owed>>

Remove == /\ Walking /\ This.id = DELETED
          /\ timers' = Unlinked
          /\ dying' = dying \ {te}
          /\ te' = After(te) /\ phase' = "final"
          /\ UNCHANGED <<nextId, lastTime, prev, maxId, alarm, now, sets, alive, owed>>

\* The finalizer returns, and the timer is freed.
Finalized == /\ phase = "final" /\ phase' = "walk"
             /\ UNCHANGED <<timers, nextId, lastTime, te, prev, maxId, alarm, now, sets,
                            alive, dying, owed>>

Due == \/ Sec(now) > This.when_sec
       \/ Sec(now) = This.when_sec /\ Ms(now) >= This.when_ms

Called == Walking /\ This.id # DELETED /\ This.id <= maxId /\ Due

Call == /\ Called
        /\ phase' = "call" /\ owed' = owed \ {te}
        /\ UNCHANGED <<timers, nextId, lastTime, te, prev, maxId, alarm, now, sets,
                       alive, dying>>

Pass == /\ Walking /\ This.id # DELETED /\ ~Called
        /\ te' = After(te) /\ prev' = IF This.id > maxId THEN prev ELSE te
        /\ UNCHANGED <<timers, nextId, lastTime, phase, maxId, alarm, now, sets,
                       alive, dying, owed>>

\* timeProc returns the next delay, or AE_NOMORE.
Return == /\ phase = "call" /\ phase' = "walk"
          /\ \/ /\ \E delay \in Delay : timers' = [timers EXCEPT ![Pos(te)] = Scheduled(@, delay)]
                /\ UNCHANGED <<alive, dying>>
             \/ timers' = [timers EXCEPT ![Pos(te)].id = DELETED] /\ Buried(te)
          /\ prev' = te /\ te' = After(te)
          /\ UNCHANGED <<nextId, lastTime, maxId, alarm, now, sets, owed>>

\* The locals of the walk are gone.
WalkDone == /\ phase = "walk" /\ te = None /\ phase' = "poll"
            /\ prev' = None /\ maxId' = -1
            /\ UNCHANGED <<timers, nextId, lastTime, te, alarm, now, sets,
                           alive, dying, owed>>

LoopStep == \/ Sleep \/ Wake \/ Start \/ Remove \/ Finalized \/ Call \/ Pass
            \/ Return \/ WalkDone

(***************************************************************************)
(* Time.                                                                   *)
(***************************************************************************)

\* A millisecond passes, while the loop waits or runs a callback; select does
\* not sleep past its timeout.
Tick ==
  /\ phase \in {"sleep", "files", "call", "final"}
  /\ now < MaxNow /\ now' = now + 1
  /\ phase = "sleep" => alarm > 0
  /\ alarm' = IF phase = "sleep" THEN alarm - 1 ELSE alarm
  /\ timers' = [i \in DOMAIN timers |->
                  [timers[i] EXCEPT !.left = IF @ > 0 THEN @ - 1 ELSE 0]]
  /\ UNCHANGED <<nextId, lastTime, phase, te, prev, maxId, sets, alive, dying, owed>>

\* Somebody sets the system clock.
SetClock ==
  /\ sets < MaxSet /\ sets' = sets + 1
  /\ now' \in MsPerSec .. MaxNow /\ now' # now
  /\ timers' = [i \in DOMAIN timers |-> [timers[i] EXCEPT !.skew = TRUE]]
  /\ UNCHANGED <<nextId, lastTime, phase, te, prev, maxId, alarm, alive, dying, owed>>

Next == LoopStep \/ UserCall \/ Tick \/ SetClock

\* The loop thread is scheduled, select ends, callbacks return.
Spec == Init /\ [][Next]_vars /\ WF_vars(LoopStep)

-----------------------------------------------------------------------------
(***************************************************************************)
(* Properties.                                                             *)
(***************************************************************************)

\* Every variable has its type; ids and keys are those handed out.
TypeOK ==
  /\ timers \in Seq(Timer) /\ nextId \in 0 .. MaxTimer
  /\ lastTime \in Nat /\ now \in Nat /\ alarm \in Nat /\ sets \in 0 .. MaxSet
  /\ phase \in {"poll", "sleep", "files", "walk", "call", "final"}
  /\ te \in Key \cup {None} /\ prev \in Key \cup {None} /\ maxId \in -1 .. MaxTimer - 1
  /\ alive \subseteq Key /\ dying \subseteq Key /\ owed \subseteq Key

\* The list loses nothing and keeps nothing too long: it holds every timer that
\* is alive, under its id, and every one that is deleted and not finalized, each
\* once, while callbacks and finalizers add and delete around the walk.
TimersConserved ==
  /\ \A i, j \in DOMAIN timers : timers[i].key = timers[j].key => i = j
  /\ alive = {timers[i].key : i \in {j \in DOMAIN timers : timers[j].id # DELETED}}
  /\ dying = {timers[i].key : i \in {j \in DOMAIN timers : timers[j].id = DELETED}}
  /\ \A i \in DOMAIN timers : timers[i].id \in {timers[i].key, DELETED}

\* Unless the clock was set, no procedure is called before its delay is over:
\* the seconds and milliseconds of aeAddMillisecondsToNow lose nothing.
NotEarly == phase = "call" => This.left = 0 \/ This.skew

\* Unless the clock was set, select never sleeps past the time of a timer,
\* whatever deleted timers there are, and whoever created it.
NoOversleep ==
  phase = "sleep" =>
    \A i \in DOMAIN timers :
      timers[i].id = DELETED \/ timers[i].skew \/ alarm <= timers[i].left

\* "Force all the time events to be processed ASAP" (ae.c:268): when a walk
\* finds the clock in an earlier second than the last walk did, it calls all
\* timers there were, but those deleted before their turn.
SkewForces == phase = "poll" => owed = {}

\* A timer whose delay is over is called, deleted, or put off by the clock; one
\* that is deleted is finalized.
Waiting(k) == \E i \in DOMAIN timers :
                /\ timers[i].key = k
                /\ timers[i].id = DELETED \/ (timers[i].left = 0 /\ ~timers[i].skew)
Attended == \A k \in Key : Waiting(k) ~> ~Waiting(k)

\* "Remove events scheduled for deletion" (ae.c:288): the walk removes no other.
OnlyDeletedRemoved ==
  [][\A i \in DOMAIN timers : timers[i].id # DELETED =>
       \E j \in DOMAIN timers' : timers'[j].key = timers[i].key]_vars

-----------------------------------------------------------------------------
(***************************************************************************)
(* The inductive invariant.  What a procedure or a finalizer does to the   *)
(* list must leave the walk's place in it, and the timers ahead of it.     *)
(***************************************************************************)

\* The clock was never set to the first second, and keys are handed out.
Handed == /\ now >= MsPerSec
          /\ \A i \in DOMAIN timers : timers[i].key < nextId

\* Unless the clock was set, a timer's time is the moment its delay is over.
When(t) == t.when_sec * MsPerSec + t.when_ms

Punctual ==
  \A i \in DOMAIN timers : ~timers[i].skew =>
    /\ When(timers[i]) <= now + timers[i].left
    /\ timers[i].left > 0 => When(timers[i]) = now + timers[i].left

\* The walk is at te, behind prev, and has old timers ahead of it only, all that
\* are owed among them.  A procedure may add timers between prev and te: when it
\* returns, prev is te.
Ahead(p) ==
  /\ timers[p].key = te
  /\ \A j \in p .. Len(timers) : timers[j].key <= maxId
  /\ \A k \in owed : \E j \in p .. Len(timers) :
       /\ timers[j].key = k /\ timers[j].id # DELETED /\ timers[j].when_sec = 0
       /\ phase = "call" => j # p
  /\ phase # "call" => IF prev = None THEN p = 1 ELSE p > 1 /\ timers[p - 1].key = prev
  /\ phase = "call" => timers[p].left = 0 \/ timers[p].skew

InWalk == phase \in {"walk", "call", "final"}
Cursor == /\ InWalk /\ te # None => \E p \in DOMAIN timers : Ahead(p)
          /\ InWalk /\ te = None => owed = {} /\ phase # "call"
          /\ ~InWalk => owed = {}

IndInv == TypeOK /\ TimersConserved /\ Handed /\ Punctual /\ NoOversleep /\ Cursor
=============================================================================
