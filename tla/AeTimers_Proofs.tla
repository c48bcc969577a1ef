--------------------------- MODULE AeTimers_Proofs ---------------------------
(***************************************************************************)
(* Proofs about AeTimers for any number of timers, any delays, any clock   *)
(* and any length of a second: the list loses no timer, no procedure runs  *)
(* early, select does not oversleep, and a clock set back makes all timers *)
(* due.  Finalizers do not create timers: with them the list is not kept   *)
(* (run timers_finalizer).                                                 *)
(***************************************************************************)
EXTENDS AeTimers, SequenceTheorems, WellFoundedInduction, TLAPS

USE TimersAssumption

\* Quotient and remainder of naturals.
LEMMA DivMod ==
  ASSUME NEW a \in Nat, NEW b \in Nat \ {0}
  PROVE  a \div b \in Nat /\ (a % b) \in 0 .. b - 1 /\ a = (a \div b) * b + (a % b)
BY SMT

\* Seconds and milliseconds compare as the times they make up.
LEMMA LexOrder ==
  ASSUME NEW m \in Nat \ {0}, NEW s \in Nat, NEW t \in Nat, NEW x \in 0 .. m - 1, NEW y \in 0 .. m - 1
  PROVE  (s < t \/ (s = t /\ x < y)) <=> s * m + x < t * m + y
<1>1. ASSUME NEW a \in Nat, NEW b \in Nat, a < b PROVE a * m + m <= b * m
  BY <1>1, SMT
<1>2. s * m \in Nat /\ t * m \in Nat
  OBVIOUS
<1>3. CASE s < t
  BY <1>1, <1>2, <1>3
<1>4. CASE t < s
  BY <1>1, <1>2, <1>4
<1>5. CASE s = t
  BY <1>2, <1>5
<1>. QED
  BY <1>3, <1>4, <1>5

\* The clock in seconds and milliseconds; its seconds are not zero.
LEMMA ClockParts ==
  ASSUME now \in Nat, now >= MsPerSec
  PROVE  /\ Sec(now) \in Nat \ {0} /\ Ms(now) \in 0 .. MsPerSec - 1
         /\ now = Sec(now) * MsPerSec + Ms(now)
<1>1. /\ Sec(now) \in Nat /\ Ms(now) \in 0 .. MsPerSec - 1
      /\ now = Sec(now) * MsPerSec + Ms(now)
  BY DivMod DEF Sec, Ms
<1>2. Sec(now) # 0
  <2>1. ASSUME Sec(now) = 0 PROVE FALSE
    <3>1. Sec(now) * MsPerSec = 0
      BY <2>1
    <3>. QED
      BY <1>1, <3>1
  <2>. QED
    BY <2>1
<1>. QED
  BY <1>1, <1>2

\* aeAddMillisecondsToNow: the carry loses nothing.
LEMMA ScheduledWhen ==
  ASSUME now \in Nat, NEW t \in Timer, NEW delay \in Delay
  PROVE  /\ Scheduled(t, delay) \in Timer /\ When(Scheduled(t, delay)) = now + delay
         /\ Scheduled(t, delay).left = delay /\ ~Scheduled(t, delay).skew
         /\ Scheduled(t, delay).key = t.key /\ Scheduled(t, delay).id = t.id
<1>. DEFINE s == Sec(now)  x == Ms(now)  d == delay \div MsPerSec  y == delay % MsPerSec
            c == IF x + y >= MsPerSec THEN 1 ELSE 0
<1>1. /\ s \in Nat /\ x \in 0 .. MsPerSec - 1 /\ now = s * MsPerSec + x
      /\ d \in Nat /\ y \in 0 .. MsPerSec - 1 /\ delay = d * MsPerSec + y
      /\ delay \in Nat
  <2>1. delay \in Nat
    OBVIOUS
  <2>. QED
    BY <2>1, DivMod DEF Sec, Ms
<1>2. Scheduled(t, delay) = Timed(t, s + d + c, (x + y) - c * MsPerSec, delay)
  BY DEF Scheduled
<1>. HIDE DEF s, x, d, y
<1>3. c \in {0, 1} /\ (x + y) - c * MsPerSec \in 0 .. MsPerSec - 1
  BY <1>1
<1>4. (s + d + c) * MsPerSec + ((x + y) - c * MsPerSec) = now + delay
  <2>1. CASE c = 0
    BY <1>1, <2>1
  <2>2. CASE c = 1
    BY <1>1, <2>2
  <2>. QED
    BY <1>3, <2>1, <2>2
<1>5. s + d + c \in Nat
  BY <1>1, <1>3
<1>. HIDE DEF c
<1>. DEFINE sec == s + d + c  ms == (x + y) - c * MsPerSec  u == Timed(t, sec, ms, delay)
<1>6. sec \in Nat /\ ms \in 0 .. MsPerSec - 1 /\ sec * MsPerSec + ms = now + delay
      /\ delay \in Nat /\ Scheduled(t, delay) = u
  BY <1>1, <1>2, <1>3, <1>4, <1>5
<1>. HIDE DEF sec, ms
<1>7. /\ u.when_sec = sec /\ u.when_ms = ms /\ u.left = delay /\ u.skew = FALSE
      /\ u.key = t.key /\ u.id = t.id /\ u \in Timer
  BY <1>6 DEF Timed, Timer
<1>. HIDE DEF u
<1>. QED
  BY <1>6, <1>7, Zenon DEF When

-----------------------------------------------------------------------------
(* The list. *)

\* What there is to know about a list of timers as a sequence.
LEMMA Base ==
  ASSUME TypeOK
  PROVE  /\ timers \in Seq(Timer) /\ Len(timers) \in Nat /\ DOMAIN timers = 1 .. Len(timers)
         /\ \A i \in 1 .. Len(timers) : timers[i] \in Timer
         /\ now \in Nat /\ nextId \in 0 .. MaxTimer
BY DEF TypeOK

\* TimersConserved, timer by timer.
Members ==
  /\ \A i, j \in DOMAIN timers : timers[i].key = timers[j].key => i = j
  /\ \A k : k \in alive <=> \E i \in DOMAIN timers : timers[i].key = k /\ timers[i].id # DELETED
  /\ \A k : k \in dying <=> \E i \in DOMAIN timers : timers[i].key = k /\ timers[i].id = DELETED
  /\ \A i \in DOMAIN timers : timers[i].id \in {timers[i].key, DELETED}

LEMMA MembersMean == TimersConserved <=> Members
BY DEF TimersConserved, Members

LEMMA MembersAfter == TimersConserved' <=> Members'
<1>1. (TimersConserved <=> Members)'
  BY MembersMean, PTL
<1>. QED
  BY <1>1

\* A key is in one place.
LEMMA PosIs ==
  ASSUME TimersConserved, NEW i \in DOMAIN timers
  PROVE  Pos(timers[i].key) = i
<1>1. \A j \in DOMAIN timers : timers[j].key = timers[i].key => j = i
  BY DEF TimersConserved
<1>. QED
  BY <1>1 DEF Pos

\* Where the walk is.
LEMMA Here ==
  ASSUME IndInv, InWalk, te # None
  PROVE  \E p \in 1 .. Len(timers) :
           /\ Ahead(p) /\ Pos(te) = p /\ This = timers[p]
           /\ After(te) = IF p = Len(timers) THEN None ELSE timers[p + 1].key
           /\ phase # "call" /\ prev # None => Pos(prev) = p - 1
<1>1. PICK p \in 1 .. Len(timers) : Ahead(p)
  BY Base DEF IndInv, Cursor
<1>2. timers[p].key = te /\ p \in DOMAIN timers
  BY <1>1, Base DEF Ahead, IndInv
<1>3. Pos(te) = p
  BY <1>2, PosIs DEF IndInv
<1>4. phase # "call" /\ prev # None => p - 1 \in DOMAIN timers /\ timers[p - 1].key = prev
  BY <1>1, Base DEF Ahead, IndInv
<1>5. phase # "call" /\ prev # None => Pos(prev) = p - 1
  BY <1>4, PosIs DEF IndInv
<1>. QED
  BY <1>1, <1>3, <1>5 DEF This, After

\* The state in which aeMain starts.
LEMMA InitInv == Init => IndInv
<1> SUFFICES ASSUME Init PROVE IndInv
  OBVIOUS
<1>1. MsPerSec \div MsPerSec \in Nat
  BY DivMod
<1>2. timers = <<>> /\ DOMAIN timers = {}
  BY DEF Init
<1>3. TypeOK
  BY <1>1 DEF Init, TypeOK, None, Sec
<1>4. TimersConserved
  BY <1>2 DEF Init, TimersConserved
<1>5. Handed /\ Punctual /\ NoOversleep /\ Cursor
  BY <1>2 DEF Init, Handed, Punctual, NoOversleep, Cursor, InWalk
<1>. QED
  BY <1>3, <1>4, <1>5 DEF IndInv

-----------------------------------------------------------------------------
(* Time passes, and the clock is set. *)

\* A timer's time is a natural number.
LEMMA WhenNat ==
  ASSUME NEW t \in Timer
  PROVE  When(t) \in Nat
<1>1. t.when_sec \in Nat /\ t.when_ms \in Nat
  BY DEF Timer
<1>2. t.when_sec * MsPerSec \in Nat
  BY <1>1
<1>. QED
  BY <1>1, <1>2 DEF When

\* A function on a range is a sequence.
LEMMA Listed ==
  ASSUME NEW S, NEW n \in Nat, NEW f \in [1 .. n -> S]
  PROVE  f \in Seq(S) /\ Len(f) = n /\ DOMAIN f = 1 .. n
OBVIOUS

\* TimersConserved looks at keys and ids only.
LEMMA KeysKept ==
  ASSUME TimersConserved, DOMAIN timers' = DOMAIN timers, UNCHANGED <<alive, dying>>,
         \A i \in DOMAIN timers : timers'[i].key = timers[i].key /\ timers'[i].id = timers[i].id
  PROVE  TimersConserved'
<1>1. Members
  BY MembersMean
<1>2. Members'
  BY <1>1 DEF Members
<1>. QED
  BY <1>2, MembersAfter

\* Cursor does not look at the time that is left, but whether there is any.
LEMMA CursorKept ==
  ASSUME Cursor, Len(timers') = Len(timers), DOMAIN timers' = DOMAIN timers,
         UNCHANGED <<phase, te, prev, maxId, owed>>,
         DOMAIN timers = 1 .. Len(timers), Len(timers) \in Nat,
         \A i \in DOMAIN timers :
           /\ timers'[i].key = timers[i].key /\ timers'[i].id = timers[i].id
           /\ timers'[i].when_sec = timers[i].when_sec
           /\ timers[i].left = 0 \/ timers[i].skew => timers'[i].left = 0 \/ timers'[i].skew
  PROVE  Cursor'
<1>1. ASSUME NEW p \in DOMAIN timers, Ahead(p) PROVE Ahead(p)'
  BY <1>1 DEF Ahead
<1>. QED
  BY <1>1 DEF Cursor, InWalk

\* A millisecond passes.
LEMMA TickInv == IndInv /\ Tick => IndInv'
<1> SUFFICES ASSUME IndInv, Tick PROVE IndInv'
  OBVIOUS
<1>. DEFINE n == Len(timers)
            past(i) == [timers[i] EXCEPT !.left = IF @ > 0 THEN @ - 1 ELSE 0]
<1>1. /\ n \in Nat /\ DOMAIN timers = 1 .. n /\ now \in Nat
      /\ \A i \in 1 .. n : timers[i] \in Timer
  BY Base DEF IndInv
<1>2. \A i \in 1 .. n :
        /\ past(i) \in Timer /\ past(i).key = timers[i].key /\ past(i).id = timers[i].id
        /\ past(i).when_sec = timers[i].when_sec /\ past(i).when_ms = timers[i].when_ms
        /\ past(i).left = IF timers[i].left > 0 THEN timers[i].left - 1 ELSE 0
        /\ past(i).skew = timers[i].skew
        /\ timers[i].left \in Nat
  BY <1>1 DEF Timer
<1>3. timers' = [i \in 1 .. n |-> past(i)]
  BY <1>1 DEF Tick
<1>4. /\ timers' \in Seq(Timer) /\ Len(timers') = n /\ DOMAIN timers' = 1 .. n
      /\ \A i \in 1 .. n : timers'[i] = past(i)
  BY <1>1, <1>2, <1>3, Listed
<1>. HIDE DEF n, past
<1>0. /\ UNCHANGED <<nextId, lastTime, phase, te, prev, maxId, sets, alive, dying, owed>>
      /\ now' = now + 1 /\ (phase = "sleep" => alarm > 0 /\ alarm' = alarm - 1)
  BY DEF Tick
<1>5. TypeOK'
  <2>1. now' \in Nat /\ alarm' \in Nat
    BY <1>1 DEF Tick, IndInv, TypeOK
  <2>. QED
    BY <1>4, <2>1 DEF Tick, IndInv, TypeOK
<1>6. TimersConserved'
  BY <1>1, <1>2, <1>4, KeysKept DEF Tick, IndInv
<1>7. Handed'
  BY <1>0, <1>1, <1>2, <1>4 DEF IndInv, Handed
<1>8. Punctual'
  <2> SUFFICES ASSUME NEW i \in 1 .. n, ~past(i).skew
               PROVE  /\ When(past(i)) <= now' + past(i).left
                      /\ past(i).left > 0 => When(past(i)) = now' + past(i).left
    BY <1>4 DEF Punctual, When
  <2>1. /\ When(timers[i]) <= now + timers[i].left
        /\ timers[i].left > 0 => When(timers[i]) = now + timers[i].left
    BY <1>1, <1>2 DEF IndInv, Punctual
  <2>2. When(past(i)) = When(timers[i])
    BY <1>2 DEF When
  <2>3. When(timers[i]) \in Nat
    BY <1>1, WhenNat
  <2>. QED
    BY <1>0, <1>1, <1>2, <2>1, <2>2, <2>3
<1>9. NoOversleep'
  <2> SUFFICES ASSUME phase = "sleep", NEW i \in 1 .. n
               PROVE  past(i).id = DELETED \/ past(i).skew \/ alarm' <= past(i).left
    BY <1>0, <1>4 DEF NoOversleep
  <2>1. timers[i].id = DELETED \/ timers[i].skew \/ alarm <= timers[i].left
    BY <1>1 DEF IndInv, NoOversleep
  <2>2. alarm \in Nat /\ alarm > 0 /\ alarm' = alarm - 1
    BY <1>0 DEF IndInv, TypeOK
  <2>. QED
    BY <1>2, <2>1, <2>2
<1>10. Cursor'
  BY <1>0, <1>1, <1>2, <1>4, CursorKept DEF IndInv, n
<1>. QED
  BY <1>5, <1>6, <1>7, <1>8, <1>9, <1>10 DEF IndInv

\* The clock is set: every timer is under suspicion.
LEMMA SetClockInv == IndInv /\ SetClock => IndInv'
<1> SUFFICES ASSUME IndInv, SetClock PROVE IndInv'
  OBVIOUS
<1>. DEFINE n == Len(timers)
            off(i) == [timers[i] EXCEPT !.skew = TRUE]
<1>1. /\ n \in Nat /\ DOMAIN timers = 1 .. n
      /\ \A i \in 1 .. n : timers[i] \in Timer
  BY Base DEF IndInv
<1>2. \A i \in 1 .. n :
        /\ off(i) \in Timer /\ off(i).key = timers[i].key /\ off(i).id = timers[i].id
        /\ off(i).when_sec = timers[i].when_sec /\ off(i).skew = TRUE
  BY <1>1 DEF Timer
<1>3. timers' = [i \in 1 .. n |-> off(i)]
  BY <1>1 DEF SetClock
<1>4. /\ timers' \in Seq(Timer) /\ Len(timers') = n /\ DOMAIN timers' = 1 .. n
      /\ \A i \in 1 .. n : timers'[i] = off(i)
  BY <1>1, <1>2, <1>3, Listed
<1>. HIDE DEF n, off
<1>5. /\ now' \in Nat /\ now' >= MsPerSec
      /\ UNCHANGED <<nextId, lastTime, phase, te, prev, maxId, alarm, alive, dying, owed>>
  BY DEF SetClock
<1>6. TypeOK'
  BY <1>4, <1>5 DEF SetClock, IndInv, TypeOK
<1>7. TimersConserved'
  BY <1>1, <1>2, <1>4, KeysKept DEF SetClock, IndInv
<1>8. Handed' /\ Punctual' /\ NoOversleep'
  BY <1>1, <1>2, <1>4, <1>5 DEF IndInv, Handed, Punctual, NoOversleep
<1>9. Cursor'
  BY <1>1, <1>2, <1>4, <1>5, CursorKept DEF IndInv, n
<1>. QED
  BY <1>6, <1>7, <1>8, <1>9 DEF IndInv

-----------------------------------------------------------------------------
(* From the poll to the walk. *)

\* A step that leaves the list and the clock alone.
LEMMA ListUnchanged ==
  ASSUME IndInv, UNCHANGED <<timers, nextId, now, alive, dying>>
  PROVE  TimersConserved' /\ Handed' /\ Punctual'
BY DEF IndInv, TimersConserved, Handed, Punctual, When

\* Some timer is not later than any other.
LEMMA NearestExists ==
  ASSUME TypeOK, timers # <<>>
  PROVE  /\ Nearest \in DOMAIN timers
         /\ \A j \in DOMAIN timers : When(timers[Nearest]) <= When(timers[j])
<1>. DEFINE n == Len(timers)  W == {When(timers[i]) : i \in 1 .. n}
<1>1. /\ n \in Nat \ {0} /\ DOMAIN timers = 1 .. n
      /\ \A i \in 1 .. n : timers[i] \in Timer /\ When(timers[i]) \in Nat
  BY Base, WhenNat
<1>2. W \in SUBSET Nat /\ When(timers[1]) \in W
  BY <1>1
<1>. DEFINE R == OpToRel(<, Nat)
<1>3. \A v, w \in Nat : v < w => <<v, w>> \in R
  BY DEF OpToRel
<1>4. IsWellFoundedOn(R, Nat)
  BY NatLessThanWellFounded, Zenon
<1>. HIDE DEF R
<1>5. PICK w \in W : \A v \in W : <<v, w>> \notin R
  BY <1>2, <1>4, WFMin
<1>6. PICK m \in 1 .. n : w = When(timers[m])
  OBVIOUS
<1>7. \A i \in 1 .. n : When(timers[i]) \in W
  OBVIOUS
<1>. HIDE DEF W
<1>8. ASSUME NEW v \in W PROVE w <= v
  <2>1. v \in Nat /\ w \in Nat
    BY <1>2
  <2>2. ~(v < w)
    BY <1>3, <1>5, <2>1, Zenon
  <2>. QED
    BY <2>1, <2>2
<1>9. ASSUME NEW i \in 1 .. n, NEW j \in 1 .. n
      PROVE  Earlier(timers[i], timers[j]) <=> When(timers[i]) < When(timers[j])
  <2>1. /\ timers[i].when_sec \in Nat /\ timers[i].when_ms \in 0 .. MsPerSec - 1
        /\ timers[j].when_sec \in Nat /\ timers[j].when_ms \in 0 .. MsPerSec - 1
    BY <1>1 DEF Timer
  <2>. QED
    BY <2>1, LexOrder DEF Earlier, When
<1>10. ASSUME NEW j \in 1 .. n PROVE ~Earlier(timers[j], timers[m])
  <2>1. When(timers[m]) <= When(timers[j])
    BY <1>6, <1>7, <1>8
  <2>. QED
    BY <1>1, <1>9, <2>1
<1>11. Nearest \in 1 .. n /\ \A j \in 1 .. n : ~Earlier(timers[j], timers[Nearest])
  BY <1>1, <1>10 DEF Nearest
<1>. QED
  BY <1>1, <1>9, <1>11

\* The timeout is what the nearest timer leaves.
LEMMA TimeoutIs ==
  ASSUME TypeOK, Handed, timers # <<>>
  PROVE  /\ Timeout \in Nat
         /\ \A j \in DOMAIN timers : When(timers[j]) >= now + Timeout \/ Timeout = 0
<1>. DEFINE t == timers[Nearest]
            ms == (t.when_sec - Sec(now)) * MsPerSec + t.when_ms - Ms(now)
<1>1. t \in Timer /\ \A j \in DOMAIN timers : When(t) <= When(timers[j])
  BY NearestExists, Base
<1>2. /\ t.when_sec \in Nat /\ t.when_ms \in Nat
      /\ Sec(now) \in Nat /\ Ms(now) \in Nat /\ now = Sec(now) * MsPerSec + Ms(now)
  BY <1>1, ClockParts, Base DEF Timer, Handed
<1>3. ms = When(t) - now
  BY <1>2 DEF When
<1>4. Timeout = IF ms > 0 THEN ms ELSE 0
  BY DEF Timeout
<1>. HIDE DEF t, ms
<1>5. When(t) \in Nat /\ now \in Nat /\ \A j \in DOMAIN timers : When(timers[j]) \in Nat
  BY <1>1, WhenNat, Base
<1>. QED
  BY <1>1, <1>3, <1>4, <1>5

\* The loop asks for a timeout, and sleeps.
LEMMA SleepInv == IndInv /\ Sleep => IndInv'
<1> SUFFICES ASSUME IndInv, Sleep PROVE IndInv'
  OBVIOUS
<1>1. /\ UNCHANGED <<timers, nextId, lastTime, te, prev, maxId, now, sets, alive, dying, owed>>
      /\ phase = "poll" /\ phase' = "sleep" /\ alarm' = Timeout
  BY DEF Sleep
<1>2. Timeout \in Nat
  <2>1. CASE timers = <<>>
    BY <2>1 DEF Timeout
  <2>2. CASE timers # <<>>
    BY <2>2, TimeoutIs DEF IndInv
  <2>. QED
    BY <2>1, <2>2
<1>3. TypeOK'
  BY <1>1, <1>2 DEF IndInv, TypeOK
<1>4. TimersConserved' /\ Handed' /\ Punctual'
  BY <1>1, ListUnchanged
<1>5. NoOversleep'
  <2> SUFFICES ASSUME NEW i \in DOMAIN timers, ~timers[i].skew
               PROVE  Timeout <= timers[i].left
    BY <1>1 DEF NoOversleep
  <2>1. timers[i] \in Timer /\ now \in Nat
    BY Base DEF IndInv
  <2>2. timers[i].left \in Nat /\ When(timers[i]) \in Nat
    BY <2>1, WhenNat DEF Timer
  <2>3. When(timers[i]) <= now + timers[i].left
    BY DEF IndInv, Punctual
  <2>4. timers # <<>>
    OBVIOUS
  <2>5. When(timers[i]) >= now + Timeout \/ Timeout = 0
    BY <2>4, TimeoutIs DEF IndInv
  <2>. QED
    BY <1>2, <2>1, <2>2, <2>3, <2>5
<1>6. Cursor'
  BY <1>1 DEF IndInv, Cursor, InWalk
<1>. QED
  BY <1>3, <1>4, <1>5, <1>6 DEF IndInv

\* select returns.
LEMMA WakeInv == IndInv /\ Wake => IndInv'
<1> SUFFICES ASSUME IndInv, Wake PROVE IndInv'
  OBVIOUS
<1>1. /\ UNCHANGED <<timers, nextId, lastTime, te, prev, maxId, now, sets, alive, dying, owed>>
      /\ phase = "sleep" /\ phase' = "files" /\ alarm' = 0
  BY DEF Wake
<1>2. TypeOK'
  BY <1>1 DEF IndInv, TypeOK
<1>3. TimersConserved' /\ Handed' /\ Punctual'
  BY <1>1, ListUnchanged
<1>4. NoOversleep' /\ Cursor'
  BY <1>1 DEF IndInv, NoOversleep, Cursor, InWalk
<1>. QED
  BY <1>2, <1>3, <1>4 DEF IndInv

\* The walk is over.
LEMMA WalkDoneInv == IndInv /\ WalkDone => IndInv'
<1> SUFFICES ASSUME IndInv, WalkDone PROVE IndInv'
  OBVIOUS
<1>1. /\ UNCHANGED <<timers, nextId, lastTime, te, alarm, now, sets, alive, dying, owed>>
      /\ phase = "walk" /\ te = None /\ phase' = "poll" /\ prev' = None /\ maxId' = -1
  BY DEF WalkDone
<1>2. TypeOK'
  BY <1>1 DEF IndInv, TypeOK
<1>3. TimersConserved' /\ Handed' /\ Punctual'
  BY <1>1, ListUnchanged
<1>4. NoOversleep' /\ Cursor'
  BY <1>1 DEF IndInv, NoOversleep, Cursor, InWalk
<1>. QED
  BY <1>2, <1>3, <1>4 DEF IndInv

\* The finalizer returns.
LEMMA FinalizedInv == IndInv /\ Finalized => IndInv'
<1> SUFFICES ASSUME IndInv, Finalized PROVE IndInv'
  OBVIOUS
<1>1. /\ UNCHANGED <<timers, nextId, lastTime, te, prev, maxId, alarm, now, sets, alive, dying, owed>>
      /\ phase = "final" /\ phase' = "walk"
  BY DEF Finalized
<1>2. TypeOK'
  BY <1>1 DEF IndInv, TypeOK
<1>3. TimersConserved' /\ Handed' /\ Punctual'
  BY <1>1, ListUnchanged
<1>4. NoOversleep'
  BY <1>1 DEF IndInv, NoOversleep
<1>5. ASSUME NEW p \in DOMAIN timers, Ahead(p) PROVE Ahead(p)'
  BY <1>1, <1>5 DEF Ahead
<1>6. Cursor'
  BY <1>1, <1>5 DEF IndInv, Cursor, InWalk
<1>. QED
  BY <1>2, <1>3, <1>4, <1>6 DEF IndInv

-----------------------------------------------------------------------------
(* The walk. *)

\* The walk starts; if the clock was set back, every timer is due at once.
LEMMA StartInv == IndInv /\ Start => IndInv'
<1> SUFFICES ASSUME IndInv, Start PROVE IndInv'
  OBVIOUS
<1>. DEFINE n == Len(timers)
            forced(i) == [timers[i] EXCEPT !.when_sec = 0, !.skew = TRUE]
<1>1. /\ n \in Nat /\ DOMAIN timers = 1 .. n /\ now \in Nat
      /\ \A i \in 1 .. n : timers[i] \in Timer
  BY Base DEF IndInv
<1>2. \A i \in 1 .. n :
        /\ forced(i) \in Timer /\ forced(i).key = timers[i].key /\ forced(i).id = timers[i].id
        /\ forced(i).when_sec = 0 /\ forced(i).skew = TRUE
  BY <1>1 DEF Timer
<1>3. /\ UNCHANGED <<nextId, alarm, now, sets, alive, dying>>
      /\ phase = "files" /\ phase' = "walk" /\ prev' = None /\ te' = Head0
      /\ maxId' = nextId - 1 /\ lastTime' = Sec(now)
      /\ IF SetBack THEN timers' = [i \in 1 .. n |-> forced(i)] /\ owed' = alive
         ELSE timers' = timers /\ owed' = owed
  BY <1>1 DEF Start, Forced
<1>. HIDE DEF forced
<1>4. /\ timers' \in Seq(Timer) /\ Len(timers') = n /\ DOMAIN timers' = 1 .. n
      /\ \A i \in 1 .. n : timers'[i] = IF SetBack THEN forced(i) ELSE timers[i]
  <2>1. CASE SetBack
    BY <1>1, <1>2, <1>3, <2>1, Listed
  <2>2. CASE ~SetBack
    BY <1>1, <1>3, <2>2, Base DEF IndInv
  <2>. QED
    BY <2>1, <2>2
<1>5. Head0 = IF n = 0 THEN None ELSE timers[1].key
  BY <1>1 DEF Head0
<1>6. TypeOK'
  <2>1. Sec(now) \in Nat /\ nextId - 1 \in -1 .. MaxTimer - 1 /\ nextId \in 0 .. MaxTimer
    BY ClockParts, Base DEF IndInv, Handed
  <2>2. Head0 \in Key \cup {None}
    BY <1>1, <1>5 DEF Timer
  <2>3. owed' \subseteq Key
    BY <1>3 DEF IndInv, TypeOK
  <2>. QED
    BY <1>3, <1>4, <2>1, <2>2, <2>3 DEF IndInv, TypeOK
<1>7. TimersConserved'
  BY <1>1, <1>2, <1>3, <1>4, KeysKept DEF IndInv
<1>8. Handed' /\ Punctual' /\ NoOversleep'
  BY <1>1, <1>2, <1>3, <1>4 DEF IndInv, Handed, Punctual, NoOversleep, When
<1>9. \A k \in owed' : \E j \in 1 .. n :
        /\ timers[j].key = k /\ timers[j].id # DELETED /\ timers'[j].when_sec = 0
  <2>1. \A k \in alive : \E j \in 1 .. n : timers[j].key = k /\ timers[j].id # DELETED
    BY <1>1, MembersMean DEF IndInv, Members
  <2>2. ~SetBack => owed' = {}
    BY <1>3 DEF IndInv, Cursor, InWalk
  <2>. QED
    BY <1>2, <1>3, <1>4, <2>1, <2>2
<1>10. Cursor'
  <2>1. CASE n = 0
    <3>1. te' = None /\ owed' = {}
      BY <1>3, <1>5, <1>9, <2>1
    <3>. QED
      BY <1>3, <3>1 DEF Cursor, InWalk
  <2>2. CASE n # 0
    <3>1. 1 \in 1 .. n /\ timers'[1].key = te'
      BY <1>1, <1>2, <1>3, <1>4, <1>5, <2>2
    <3>2. \A j \in 1 .. n : timers'[j].key <= maxId'
      <4>1. \A j \in 1 .. n : timers'[j].key = timers[j].key /\ timers[j].key \in Nat
        <5>1. \A j \in 1 .. n : timers[j].key \in Key
          BY <1>1 DEF Timer
        <5>. QED
          BY <1>2, <1>4, <5>1 DEF Key
      <4>2. \A j \in 1 .. n : timers[j].key < nextId
        BY <1>1 DEF IndInv, Handed
      <4>. QED
        BY <1>3, <4>1, <4>2, Base DEF IndInv
    <3>3. \A k \in owed' : \E j \in 1 .. n :
            timers'[j].key = k /\ timers'[j].id # DELETED /\ timers'[j].when_sec = 0
      BY <1>2, <1>4, <1>9
    <3>4. Ahead(1)'
      BY <1>3, <1>4, <3>1, <3>2, <3>3 DEF Ahead
    <3>5. te' # None
      BY <1>1, <1>3, <1>5, <2>2 DEF Timer, Key, None
    <3>. QED
      BY <1>3, <1>4, <3>1, <3>4, <3>5 DEF Cursor, InWalk
  <2>. QED
    BY <2>1, <2>2
<1>. QED
  BY <1>6, <1>7, <1>8, <1>10 DEF IndInv

\* A timer is due when its time has come.
LEMMA DueMeans ==
  ASSUME IndInv, NEW p \in 1 .. Len(timers), This = timers[p]
  PROVE  Due <=> When(timers[p]) <= now
<1>1. timers[p] \in Timer /\ now \in Nat
  BY Base DEF IndInv
<1>2. /\ Sec(now) \in Nat /\ Ms(now) \in 0 .. MsPerSec - 1
      /\ now = Sec(now) * MsPerSec + Ms(now)
  BY <1>1, ClockParts DEF IndInv, Handed
<1>3. timers[p].when_sec \in Nat /\ timers[p].when_ms \in 0 .. MsPerSec - 1
  BY <1>1 DEF Timer
<1>4. \/ Sec(now) < timers[p].when_sec
      \/ Sec(now) = timers[p].when_sec /\ Ms(now) < timers[p].when_ms
      <=> Sec(now) * MsPerSec + Ms(now) < timers[p].when_sec * MsPerSec + timers[p].when_ms
  BY <1>2, <1>3, LexOrder
<1>5. now < When(timers[p]) <=> ~Due
  BY <1>2, <1>3, <1>4 DEF When, Due
<1>6. When(timers[p]) \in Nat
  BY <1>1, WhenNat
<1>. QED
  BY <1>1, <1>5, <1>6

\* If the walk leaves a timer that is not owed its call, those owed are behind it.
LEMMA StillOwed ==
  ASSUME IndInv, NEW p \in 1 .. Len(timers), Ahead(p),
         phase = "call" \/ timers[p].id = DELETED \/ timers[p].when_sec # 0
  PROVE  \A k \in owed : \E j \in p + 1 .. Len(timers) :
           timers[j].key = k /\ timers[j].id # DELETED /\ timers[j].when_sec = 0
<1> SUFFICES ASSUME NEW k \in owed
             PROVE  \E j \in p + 1 .. Len(timers) :
                      /\ timers[j].key = k /\ timers[j].id # DELETED
                      /\ timers[j].when_sec = 0
  OBVIOUS
<1>1. PICK j \in p .. Len(timers) : /\ timers[j].key = k /\ timers[j].id # DELETED
                                    /\ timers[j].when_sec = 0
                                    /\ phase = "call" => j # p
  BY DEF Ahead
<1>2. j # p
  BY <1>1
<1>3. j \in p + 1 .. Len(timers)
  BY <1>2, Base DEF IndInv
<1>. QED
  BY <1>1, <1>3

\* The next timer's key is a key.
LEMMA NextKey ==
  ASSUME IndInv, NEW p \in 1 .. Len(timers),
         After(te) = IF p = Len(timers) THEN None ELSE timers[p + 1].key
  PROVE  After(te) \in Key \cup {None} /\ (p # Len(timers) => After(te) \in Key /\ After(te) # None)
<1>1. CASE p = Len(timers)
  BY <1>1
<1>2. CASE p # Len(timers)
  <2>0. Len(timers) \in Nat
    BY Base DEF IndInv
  <2>1. p + 1 \in 1 .. Len(timers)
    BY <1>2, <2>0
  <2>2. timers[p + 1].key \in Key
    BY <2>1, Base DEF IndInv, Timer
  <2>. QED
    BY <1>2, <2>2 DEF Key, None
<1>. QED
  BY <1>1, <1>2

\* A timer's procedure is called.
LEMMA CallInv == IndInv /\ Call => IndInv'
<1> SUFFICES ASSUME IndInv, Call PROVE IndInv'
  OBVIOUS
<1>. DEFINE n == Len(timers)
<1>1. /\ n \in Nat /\ DOMAIN timers = 1 .. n /\ now \in Nat
      /\ \A i \in 1 .. n : timers[i] \in Timer
  BY Base DEF IndInv
<1>2. /\ UNCHANGED <<timers, nextId, lastTime, te, prev, maxId, alarm, now, sets, alive, dying>>
      /\ phase = "walk" /\ te # None /\ Due /\ phase' = "call" /\ owed' = owed \ {te}
  BY DEF Call, Called, Walking
<1>3. PICK p \in 1 .. n : Ahead(p) /\ This = timers[p]
  BY <1>2, Here DEF InWalk
<1>. HIDE DEF n
<1>4. TypeOK'
  BY <1>2 DEF IndInv, TypeOK
<1>5. TimersConserved' /\ Handed' /\ Punctual'
  BY <1>2, ListUnchanged
<1>6. NoOversleep'
  BY <1>2 DEF NoOversleep
<1>7. timers[p].left = 0 \/ timers[p].skew
  <2> SUFFICES ASSUME ~timers[p].skew PROVE timers[p].left = 0
    OBVIOUS
  <2>1. /\ timers[p].left > 0 => When(timers[p]) = now + timers[p].left
        /\ timers[p].left \in Nat
    BY <1>1 DEF IndInv, Punctual, Timer
  <2>2. When(timers[p]) <= now
    BY <1>2, <1>3, DueMeans DEF n
  <2>. QED
    BY <1>1, <2>1, <2>2
<1>8. Ahead(p)'
  <2>1. ASSUME NEW k \in owed'
        PROVE  \E j \in p .. n : /\ timers[j].key = k /\ timers[j].id # DELETED
                                 /\ timers[j].when_sec = 0 /\ j # p
    <3>1. k \in owed /\ k # te
      BY <1>2, <2>1
    <3>. QED
      BY <1>3, <3>1 DEF Ahead, n
  <2>. QED
    BY <1>2, <1>3, <1>7, <2>1 DEF Ahead, n
<1>9. Cursor'
  BY <1>1, <1>2, <1>8 DEF Cursor, InWalk
<1>. QED
  BY <1>4, <1>5, <1>6, <1>9 DEF IndInv

\* A timer is passed over: one that is owed never is.
LEMMA PassInv == IndInv /\ Pass => IndInv'
<1> SUFFICES ASSUME IndInv, Pass PROVE IndInv'
  OBVIOUS
<1>. DEFINE n == Len(timers)
<1>1. /\ n \in Nat /\ DOMAIN timers = 1 .. n /\ now \in Nat
      /\ \A i \in 1 .. n : timers[i] \in Timer
  BY Base DEF IndInv
<1>2. /\ UNCHANGED <<timers, nextId, lastTime, phase, maxId, alarm, now, sets, alive, dying, owed>>
      /\ phase = "walk" /\ te # None /\ This.id # DELETED /\ te' = After(te)
      /\ prev' = IF This.id > maxId THEN prev ELSE te
  BY DEF Pass, Walking
<1>3. PICK p \in 1 .. n : /\ Ahead(p) /\ This = timers[p]
                          /\ After(te) = IF p = n THEN None ELSE timers[p + 1].key
  BY <1>2, Here DEF InWalk
<1>. HIDE DEF n
<1>4. This.id <= maxId /\ This.id \in Key /\ maxId \in Int
  <2>1. timers[p].id = timers[p].key
    BY <1>1, <1>2, <1>3 DEF IndInv, TimersConserved
  <2>2. timers[p].key <= maxId /\ timers[p].key \in Key
    BY <1>1, <1>3 DEF Ahead, n, Timer
  <2>. QED
    BY <1>3, <2>1, <2>2 DEF IndInv, TypeOK
<1>5. prev' = te /\ ~Due
  BY <1>2, <1>4 DEF Pass, Called, Key
<1>6. timers[p].when_sec # 0
  <2>1. Sec(now) \in Nat \ {0}
    BY <1>1, ClockParts DEF IndInv, Handed
  <2>. QED
    BY <1>3, <1>5, <2>1 DEF Due
<1>7. \A k \in owed : \E j \in p + 1 .. n :
        timers[j].key = k /\ timers[j].id # DELETED /\ timers[j].when_sec = 0
  BY <1>3, <1>6, StillOwed DEF n
<1>8. te' \in Key \cup {None} /\ (p # n => te' # None)
  BY <1>2, <1>3, NextKey DEF n
<1>9. TypeOK'
  BY <1>2, <1>5, <1>8 DEF IndInv, TypeOK
<1>10. TimersConserved' /\ Handed' /\ Punctual'
  BY <1>2, ListUnchanged
<1>11. NoOversleep'
  BY <1>2 DEF NoOversleep
<1>12. Cursor'
  <2>1. CASE p = n
    <3>1. owed = {}
      BY <1>1, <1>7, <2>1
    <3>. QED
      BY <1>2, <1>3, <2>1, <3>1 DEF Cursor, InWalk
  <2>2. CASE p # n
    <3>1. p + 1 \in 1 .. n /\ p + 1 > 1 /\ (p + 1) - 1 = p
      BY <1>1, <2>2
    <3>2. timers[p + 1].key = te' /\ timers[p].key = prev'
      BY <1>2, <1>3, <1>5, <2>2 DEF Ahead
    <3>3. \A j \in p + 1 .. n : timers[j].key <= maxId
      BY <1>1, <1>3 DEF Ahead, n
    <3>4. Ahead(p + 1)'
      <4>1. prev' # None
        BY <1>1, <3>2 DEF Timer, Key, None
      <4>. QED
        BY <1>2, <1>7, <3>1, <3>2, <3>3, <4>1 DEF Ahead, n
    <3>. QED
      BY <1>1, <1>2, <1>8, <2>2, <3>1, <3>4 DEF Cursor, InWalk
  <2>. QED
    BY <2>1, <2>2
<1>. QED
  BY <1>9, <1>10, <1>11, <1>12 DEF IndInv

\* A list without its p-th element.
Without(s, p) == SubSeq(s, 1, p - 1) \o SubSeq(s, p + 1, Len(s))

LEMMA Unlink ==
  ASSUME NEW S, NEW s \in Seq(S), NEW p \in 1 .. Len(s)
  PROVE  /\ Without(s, p) \in Seq(S) /\ Len(Without(s, p)) = Len(s) - 1
         /\ DOMAIN Without(s, p) = 1 .. Len(s) - 1
         /\ \A i \in 1 .. Len(s) - 1 :
              Without(s, p)[i] = IF i < p THEN s[i] ELSE s[i + 1]
<1>. DEFINE a == SubSeq(s, 1, p - 1)  b == SubSeq(s, p + 1, Len(s))  u == Without(s, p)
<1>1. /\ a \in Seq(S) /\ Len(a) = p - 1 /\ \A i \in 1 .. p - 1 : a[i] = s[i]
  OBVIOUS
<1>2. /\ b \in Seq(S) /\ Len(b) = Len(s) - p /\ \A i \in 1 .. Len(s) - p : b[i] = s[i + p]
  OBVIOUS
<1>3. u = a \o b
  BY DEF Without
<1>. HIDE DEF a, b, u
<1>4. Len(s) \in Nat /\ Len(a) \in Nat /\ Len(b) \in Nat /\ Len(a) + Len(b) = Len(s) - 1
  BY <1>1, <1>2
<1>5. /\ a \o b \in Seq(S) /\ Len(a \o b) = Len(a) + Len(b)
      /\ \A i \in 1 .. Len(a) + Len(b) :
           (a \o b)[i] = IF i <= Len(a) THEN a[i] ELSE b[i - Len(a)]
  BY <1>1, <1>2, ConcatProperties
<1>6. ASSUME NEW i \in 1 .. Len(s) - 1 PROVE u[i] = IF i < p THEN s[i] ELSE s[i + 1]
  <2>1. u[i] = IF i <= p - 1 THEN a[i] ELSE b[i - (p - 1)]
    BY <1>1, <1>3, <1>4, <1>5
  <2>2. CASE i < p
    <3>1. i \in 1 .. p - 1 /\ i <= p - 1
      BY <1>4, <2>2
    <3>2. u[i] = a[i] /\ a[i] = s[i]
      BY <1>1, <2>1, <3>1
    <3>. QED
      BY <2>2, <3>2
  <2>3. CASE ~(i < p)
    <3>1. /\ i - (p - 1) \in 1 .. Len(s) - p /\ (i - (p - 1)) + p = i + 1
          /\ ~(i <= p - 1)
      BY <1>4, <2>3
    <3>. QED
      BY <1>2, <2>1, <2>3, <3>1
  <2>. QED
    BY <2>2, <2>3
<1>7. u \in Seq(S) /\ Len(u) = Len(s) - 1
  BY <1>3, <1>4, <1>5
<1>8. DOMAIN u = 1 .. Len(u)
  BY <1>7
<1>. QED
  BY <1>6, <1>7, <1>8 DEF u

\* What the walk unlinks is its own timer, wherever that has got to.
LEMMA UnlinkedIs ==
  ASSUME IndInv, phase = "walk", NEW p \in 1 .. Len(timers), Ahead(p), Pos(te) = p,
         prev # None => Pos(prev) = p - 1
  PROVE  /\ Unlinked \in Seq(Timer) /\ Len(Unlinked) = Len(timers) - 1
         /\ DOMAIN Unlinked = 1 .. Len(timers) - 1
         /\ \A i \in 1 .. Len(timers) - 1 :
              Unlinked[i] = IF i < p THEN timers[i] ELSE timers[i + 1]
<1>1. timers \in Seq(Timer)
  BY Base DEF IndInv
<1>2. Unlinked = Without(timers, p)
  <2>1. CASE prev = None
    <3>1. p = 1
      BY <2>1 DEF Ahead
    <3>2. SubSeq(timers, 1, 1 - 1) = <<>>
      BY <1>1
    <3>. QED
      BY <2>1, <3>1, <3>2 DEF Unlinked, Without
  <2>2. CASE prev # None
    BY <2>2 DEF Unlinked, Without
  <2>. QED
    BY <2>1, <2>2
<1>. QED
  BY <1>1, <1>2, Unlink

\* A deleted timer leaves the list.
LEMMA RemoveInv == IndInv /\ Remove => IndInv'
<1> SUFFICES ASSUME IndInv, Remove PROVE IndInv'
  OBVIOUS
<1>. DEFINE n == Len(timers)
<1>1. /\ n \in Nat /\ DOMAIN timers = 1 .. n /\ now \in Nat /\ nextId \in Nat
      /\ \A i \in 1 .. n : timers[i] \in Timer
  BY Base DEF IndInv
<1>2. /\ UNCHANGED <<nextId, lastTime, prev, maxId, alarm, now, sets, alive, owed>>
      /\ phase = "walk" /\ te # None /\ This.id = DELETED /\ te' = After(te)
      /\ phase' = "final" /\ timers' = Unlinked /\ dying' = dying \ {te}
  BY DEF Remove, Walking
<1>3. PICK p \in 1 .. n : /\ Ahead(p) /\ This = timers[p] /\ Pos(te) = p
                          /\ After(te) = IF p = n THEN None ELSE timers[p + 1].key
                          /\ prev # None => Pos(prev) = p - 1
  BY <1>2, Here DEF InWalk
<1>. DEFINE old(i) == IF i < p THEN i ELSE i + 1
            new(i) == IF i < p THEN i ELSE i - 1
<1>4. /\ timers' \in Seq(Timer) /\ Len(timers') = n - 1 /\ DOMAIN timers' = 1 .. n - 1
      /\ \A i \in 1 .. n - 1 : timers'[i] = timers[old(i)]
  BY <1>2, <1>3, UnlinkedIs
<1>. HIDE DEF n
<1>5. /\ \A i \in 1 .. n - 1 : old(i) \in 1 .. n /\ old(i) # p
      /\ \A i, j \in 1 .. n - 1 : old(i) = old(j) => i = j
      /\ \A j \in 1 .. n : j # p => new(j) \in 1 .. n - 1 /\ old(new(j)) = j
  BY <1>1
<1>6. timers[p].key = te /\ timers[p].id = DELETED
  BY <1>2, <1>3 DEF Ahead
<1>7. \A k \in owed : \E j \in p + 1 .. n :
        timers[j].key = k /\ timers[j].id # DELETED /\ timers[j].when_sec = 0
  BY <1>3, <1>6, StillOwed DEF n
<1>8. te' \in Key \cup {None} /\ (p # n => te' # None)
  BY <1>2, <1>3, NextKey DEF n
<1>9. TypeOK'
  BY <1>2, <1>4, <1>8 DEF IndInv, TypeOK
<1>10. TimersConserved'
  <2>. HIDE DEF old, new
  <2>1. Members
    BY MembersMean DEF IndInv
  <2>2. \A i \in 1 .. n - 1 : timers'[i].id \in {timers'[i].key, DELETED}
    BY <1>1, <1>4, <1>5, <2>1 DEF Members
  <2>3. \A i, j \in 1 .. n - 1 : timers'[i].key = timers'[j].key => i = j
    BY <1>1, <1>4, <1>5, <2>1 DEF Members
  <2>4. ASSUME NEW k
        PROVE  k \in alive' <=> \E i \in 1 .. n - 1 : timers'[i].key = k /\ timers'[i].id # DELETED
    <3>1. k \in alive <=> \E i \in 1 .. n : timers[i].key = k /\ timers[i].id # DELETED
      BY <1>1, <2>1 DEF Members
    <3>2. ASSUME NEW j \in 1 .. n, timers[j].key = k, timers[j].id # DELETED
          PROVE  \E i \in 1 .. n - 1 : timers'[i].key = k /\ timers'[i].id # DELETED
      BY <1>4, <1>5, <1>6, <3>2
    <3>. QED
      BY <1>2, <1>4, <1>5, <3>1, <3>2
  <2>5. ASSUME NEW k
        PROVE  k \in dying' <=> \E i \in 1 .. n - 1 : timers'[i].key = k /\ timers'[i].id = DELETED
    <3>1. k \in dying <=> \E i \in 1 .. n : timers[i].key = k /\ timers[i].id = DELETED
      BY <1>1, <2>1 DEF Members
    <3>2. ASSUME NEW j \in 1 .. n, timers[j].key = k, timers[j].id = DELETED, k # te
          PROVE  \E i \in 1 .. n - 1 : timers'[i].key = k /\ timers'[i].id = DELETED
      BY <1>4, <1>5, <1>6, <3>2
    <3>3. \A i \in 1 .. n - 1 : timers'[i].key # te
      BY <1>1, <1>4, <1>5, <1>6, <2>1 DEF Members
    <3>. QED
      BY <1>2, <1>4, <1>5, <3>1, <3>2, <3>3
  <2>6. Members'
    BY <1>4, <2>2, <2>3, <2>4, <2>5 DEF Members
  <2>. QED
    BY <2>6, MembersAfter
<1>11. Handed' /\ Punctual' /\ NoOversleep'
  <2>. HIDE DEF old, new
  <2>1. Handed'
    BY <1>1, <1>2, <1>4, <1>5 DEF IndInv, Handed
  <2>2. Punctual'
    BY <1>1, <1>2, <1>4, <1>5 DEF IndInv, Punctual, When
  <2>. QED
    BY <1>2, <2>1, <2>2 DEF NoOversleep
<1>12. Cursor'
  <2>1. CASE p = n
    <3>1. owed = {}
      BY <1>1, <1>7, <2>1
    <3>. QED
      BY <1>2, <1>3, <2>1, <3>1 DEF Cursor, InWalk
  <2>2. CASE p # n
    <3>1. p \in 1 .. n - 1
      BY <1>1, <2>2
    <3>2. timers'[p].key = te'
      BY <1>2, <1>3, <1>4, <2>2, <3>1
    <3>3. ASSUME NEW j \in p .. n - 1 PROVE timers'[j].key <= maxId
      <4>1. j \in 1 .. n - 1 /\ ~(j < p) /\ j + 1 \in p .. n
        BY <1>1, <3>1
      <4>. QED
        BY <1>3, <1>4, <4>1 DEF Ahead, n
    <3>4. ASSUME NEW k \in owed
          PROVE  \E j \in p .. n - 1 : /\ timers'[j].key = k /\ timers'[j].id # DELETED
                                       /\ timers'[j].when_sec = 0
      <4>1. PICK j \in p + 1 .. n : /\ timers[j].key = k /\ timers[j].id # DELETED
                                    /\ timers[j].when_sec = 0
        BY <1>7
      <4>2. /\ j - 1 \in p .. n - 1 /\ j - 1 \in 1 .. n - 1 /\ ~(j - 1 < p)
            /\ (j - 1) + 1 = j
        BY <1>1, <3>1
      <4>3. timers'[j - 1] = timers[j]
        BY <1>4, <4>2
      <4>. QED
        BY <4>1, <4>2, <4>3
    <3>5. IF prev = None THEN p = 1 ELSE p > 1 /\ timers'[p - 1].key = prev
      <4>1. IF prev = None THEN p = 1 ELSE p > 1 /\ timers[p - 1].key = prev
        BY <1>2, <1>3 DEF Ahead
      <4>2. p > 1 => p - 1 \in 1 .. n - 1 /\ p - 1 < p
        BY <1>1, <3>1
      <4>. QED
        BY <1>4, <4>1, <4>2
    <3>6. Ahead(p)'
      BY <1>2, <1>4, <3>2, <3>3, <3>4, <3>5 DEF Ahead
    <3>. QED
      BY <1>2, <1>4, <1>8, <2>2, <3>1, <3>6 DEF Cursor, InWalk
  <2>. QED
    BY <2>1, <2>2
<1>. QED
  BY <1>9, <1>10, <1>11, <1>12 DEF IndInv

\* A timer is marked deleted in its place.
LEMMA Marked ==
  ASSUME TypeOK, NEW p \in 1 .. Len(timers), timers' = [timers EXCEPT ![p].id = DELETED]
  PROVE  /\ timers' \in Seq(Timer) /\ Len(timers') = Len(timers)
         /\ DOMAIN timers' = 1 .. Len(timers)
         /\ \A i \in 1 .. Len(timers) :
              /\ timers'[i].key = timers[i].key /\ timers'[i].left = timers[i].left
              /\ timers'[i].skew = timers[i].skew /\ When(timers'[i]) = When(timers[i])
              /\ timers'[i].when_sec = timers[i].when_sec
              /\ timers'[i].id = IF i = p THEN DELETED ELSE timers[i].id
<1>. DEFINE u == [timers[p] EXCEPT !.id = DELETED]
<1>1. /\ timers \in Seq(Timer) /\ Len(timers) \in Nat /\ timers[p] \in Timer
      /\ DOMAIN timers = 1 .. Len(timers)
  BY Base
<1>2. /\ u \in Timer /\ u.key = timers[p].key /\ u.left = timers[p].left /\ u.id = DELETED
      /\ u.skew = timers[p].skew /\ u.when_sec = timers[p].when_sec
      /\ u.when_ms = timers[p].when_ms
  BY <1>1 DEF Timer
<1>3. timers' = [timers EXCEPT ![p] = u]
  BY <1>1
<1>. HIDE DEF u
<1>4. /\ timers' \in Seq(Timer) /\ Len(timers') = Len(timers)
      /\ DOMAIN timers' = 1 .. Len(timers)
      /\ \A i \in 1 .. Len(timers) : timers'[i] = IF i = p THEN u ELSE timers[i]
  BY <1>1, <1>2, <1>3
<1>. QED
  BY <1>2, <1>4 DEF When

\* Then it is among the dying.
LEMMA MarkedConserved ==
  ASSUME TypeOK, TimersConserved, NEW p \in 1 .. Len(timers),
         timers' = [timers EXCEPT ![p].id = DELETED], Buried(timers[p].key)
  PROVE  TimersConserved'
<1>. DEFINE n == Len(timers)
<1>1. Members /\ DOMAIN timers = 1 .. n
  BY MembersMean, Base
<1>2. /\ DOMAIN timers' = 1 .. n
      /\ \A i \in 1 .. n : /\ timers'[i].key = timers[i].key
                           /\ timers'[i].id = IF i = p THEN DELETED ELSE timers[i].id
  BY Marked
<1>. HIDE DEF n
<1>3. p \in 1 .. n
  BY DEF n
<1>4. \A i \in 1 .. n : timers[i].key = timers[p].key => i = p
  BY <1>1, <1>3 DEF Members
<1>5. ASSUME NEW k
      PROVE  k \in alive' <=> \E i \in 1 .. n : timers'[i].key = k /\ timers'[i].id # DELETED
  <2>1. k \in alive <=> \E i \in 1 .. n : timers[i].key = k /\ timers[i].id # DELETED
    BY <1>1 DEF Members
  <2>. QED
    BY <1>2, <1>3, <1>4, <2>1 DEF Buried
<1>6. ASSUME NEW k
      PROVE  k \in dying' <=> \E i \in 1 .. n : timers'[i].key = k /\ timers'[i].id = DELETED
  <2>1. k \in dying <=> \E i \in 1 .. n : timers[i].key = k /\ timers[i].id = DELETED
    BY <1>1 DEF Members
  <2>. QED
    BY <1>2, <1>3, <1>4, <2>1 DEF Buried
<1>7. Members'
  BY <1>1, <1>2, <1>5, <1>6 DEF Members
<1>. QED
  BY <1>7, MembersAfter

\* A procedure returns: its timer is put on its next time, or marked deleted.
LEMMA ReturnInv == IndInv /\ Return => IndInv'
<1> SUFFICES ASSUME IndInv, Return PROVE IndInv'
  OBVIOUS
<1>. DEFINE n == Len(timers)
<1>1. /\ n \in Nat /\ DOMAIN timers = 1 .. n /\ now \in Nat
      /\ timers \in Seq(Timer) /\ \A i \in 1 .. n : timers[i] \in Timer
  BY Base DEF IndInv
<1>2. /\ UNCHANGED <<nextId, lastTime, maxId, alarm, now, sets, owed>>
      /\ phase = "call" /\ phase' = "walk" /\ prev' = te /\ te' = After(te)
  BY DEF Return
<1>3. te # None
  BY <1>2 DEF IndInv, Cursor, InWalk
<1>4. PICK p \in 1 .. n : /\ Ahead(p) /\ Pos(te) = p
                          /\ After(te) = IF p = n THEN None ELSE timers[p + 1].key
  BY <1>2, <1>3, Here DEF InWalk
<1>5. timers[p].key = te
  BY <1>4 DEF Ahead
<1>. HIDE DEF n
<1>. DEFINE Replaced ==
      /\ timers' \in Seq(Timer) /\ Len(timers') = n /\ DOMAIN timers' = 1 .. n
      /\ \A i \in 1 .. n : /\ timers'[i].key = timers[i].key
                           /\ i # p => /\ timers'[i].id = timers[i].id
                                       /\ timers'[i].when_sec = timers[i].when_sec
      /\ alive' \subseteq Key /\ dying' \subseteq Key
      /\ TimersConserved' /\ Punctual'
<1>6. Replaced
  <2>1. ASSUME NEW delay \in Delay, timers' = [timers EXCEPT ![p] = Scheduled(timers[p], delay)],
               UNCHANGED <<alive, dying>>
        PROVE  Replaced
    <3>. DEFINE u == Scheduled(timers[p], delay)
    <3>1. /\ u \in Timer /\ When(u) = now + delay /\ u.left = delay /\ ~u.skew
          /\ u.key = timers[p].key /\ u.id = timers[p].id
      BY <1>1, ScheduledWhen
    <3>2. timers' = [timers EXCEPT ![p] = u]
      BY <2>1
    <3>. HIDE DEF u
    <3>3. /\ timers' \in Seq(Timer) /\ Len(timers') = n /\ DOMAIN timers' = 1 .. n
          /\ \A i \in 1 .. n : timers'[i] = IF i = p THEN u ELSE timers[i]
      BY <1>1, <3>1, <3>2 DEF n
    <3>4. TimersConserved'
      BY <1>1, <2>1, <3>1, <3>3, KeysKept DEF IndInv
    <3>5. Punctual'
      <4> SUFFICES ASSUME NEW i \in 1 .. n, ~timers'[i].skew
                   PROVE  /\ When(timers'[i]) <= now + timers'[i].left
                          /\ timers'[i].left > 0 => When(timers'[i]) = now + timers'[i].left
        BY <1>2, <3>3 DEF Punctual, When
      <4>1. CASE i = p
        BY <1>1, <3>1, <3>3, <4>1
      <4>2. CASE i # p
        BY <1>1, <3>3, <4>2 DEF IndInv, Punctual
      <4>. QED
        BY <4>1, <4>2
    <3>. QED
      BY <2>1, <3>1, <3>3, <3>4, <3>5 DEF IndInv, TypeOK
  <2>2. ASSUME timers' = [timers EXCEPT ![p].id = DELETED], Buried(te)
        PROVE  Replaced
    <3>1. /\ timers' \in Seq(Timer) /\ Len(timers') = n /\ DOMAIN timers' = 1 .. n
          /\ \A i \in 1 .. n :
               /\ timers'[i].key = timers[i].key /\ timers'[i].left = timers[i].left
               /\ timers'[i].skew = timers[i].skew /\ When(timers'[i]) = When(timers[i])
               /\ timers'[i].when_sec = timers[i].when_sec
               /\ timers'[i].id = IF i = p THEN DELETED ELSE timers[i].id
      BY <2>2, Marked DEF IndInv, n
    <3>2. TimersConserved'
      BY <1>5, <2>2, MarkedConserved DEF IndInv, n
    <3>3. Punctual'
      <4> SUFFICES ASSUME NEW i \in 1 .. n, ~timers'[i].skew
                   PROVE  /\ When(timers'[i]) <= now + timers'[i].left
                          /\ timers'[i].left > 0 => When(timers'[i]) = now + timers'[i].left
        BY <1>2, <3>1 DEF Punctual, When
      <4>. QED
        BY <1>1, <3>1 DEF IndInv, Punctual
    <3>4. te \in Key
      BY <1>1, <1>5 DEF Timer
    <3>. QED
      BY <2>2, <3>1, <3>2, <3>3, <3>4 DEF IndInv, TypeOK, Buried
  <2>. HIDE DEF Replaced
  <2>3. \/ \E delay \in Delay : /\ timers' = [timers EXCEPT ![p] = Scheduled(timers[p], delay)]
                                /\ UNCHANGED <<alive, dying>>
        \/ timers' = [timers EXCEPT ![p].id = DELETED] /\ Buried(te)
    <3>1. Pos(te) = p
      BY <1>4
    <3>. QED
      BY <3>1 DEF Return
  <2>4. CASE timers' = [timers EXCEPT ![p].id = DELETED] /\ Buried(te)
    BY <2>2, <2>4
  <2>5. CASE \E delay \in Delay : /\ timers' = [timers EXCEPT ![p] = Scheduled(timers[p], delay)]
                                 /\ UNCHANGED <<alive, dying>>
    <3>1. PICK delay \in Delay : /\ timers' = [timers EXCEPT ![p] = Scheduled(timers[p], delay)]
                                 /\ UNCHANGED <<alive, dying>>
      BY <2>5
    <3>. QED
      BY <2>1, <3>1
  <2>. QED
    BY <2>3, <2>4, <2>5
<1>7. \A k \in owed : \E j \in p + 1 .. n :
        timers[j].key = k /\ timers[j].id # DELETED /\ timers[j].when_sec = 0
  BY <1>2, <1>4, StillOwed DEF n
<1>8. te' \in Key \cup {None} /\ (p # n => te' # None)
  BY <1>2, <1>4, NextKey DEF n
<1>9. TypeOK'
  BY <1>2, <1>6, <1>8 DEF IndInv, TypeOK
<1>10. Handed' /\ NoOversleep'
  BY <1>1, <1>2, <1>6 DEF IndInv, Handed, NoOversleep
<1>11. Cursor'
  <2>1. CASE p = n
    <3>1. owed = {}
      BY <1>1, <1>7, <2>1
    <3>. QED
      BY <1>2, <1>4, <2>1, <3>1 DEF Cursor, InWalk
  <2>2. CASE p # n
    <3>1. p + 1 \in 1 .. n /\ p + 1 > 1 /\ (p + 1) - 1 = p
      BY <1>1, <2>2
    <3>2. timers'[p + 1].key = te' /\ timers'[p].key = prev'
      BY <1>2, <1>4, <1>5, <1>6, <2>2, <3>1
    <3>3. ASSUME NEW j \in p + 1 .. n PROVE timers'[j].key <= maxId
      <4>1. j \in 1 .. n /\ j \in p .. n
        BY <1>1
      <4>. QED
        BY <1>4, <1>6, <4>1 DEF Ahead, n
    <3>4. ASSUME NEW k \in owed
          PROVE  \E j \in p + 1 .. n : /\ timers'[j].key = k /\ timers'[j].id # DELETED
                                       /\ timers'[j].when_sec = 0
      <4>1. PICK j \in p + 1 .. n : /\ timers[j].key = k /\ timers[j].id # DELETED
                                    /\ timers[j].when_sec = 0
        BY <1>7
      <4>2. j \in 1 .. n /\ j # p
        BY <1>1
      <4>. QED
        BY <1>6, <4>1, <4>2
    <3>5. prev' # None
      BY <1>2, <1>3
    <3>6. Ahead(p + 1)'
      BY <1>2, <1>6, <3>1, <3>2, <3>3, <3>4, <3>5 DEF Ahead
    <3>. QED
      BY <1>2, <1>6, <1>8, <2>2, <3>1, <3>6 DEF Cursor, InWalk
  <2>. QED
    BY <2>1, <2>2
<1>. QED
  BY <1>6, <1>9, <1>10, <1>11 DEF IndInv

-----------------------------------------------------------------------------
(* What callbacks do. *)

\* A timer is deleted: it is still in the list, and owed nothing.
LEMMA DeleteInv ==
  ASSUME IndInv, Delete, phase \in {"files", "call", "final"},
         UNCHANGED <<lastTime, phase, te, prev, maxId, alarm, now, sets>>
  PROVE  IndInv'
<1>. DEFINE n == Len(timers)
<1>1. /\ n \in Nat /\ DOMAIN timers = 1 .. n
      /\ \A i \in 1 .. n : timers[i] \in Timer
  BY Base DEF IndInv
<1>2. PICK d \in 1 .. n : /\ timers' = [timers EXCEPT ![d].id = DELETED]
                          /\ Buried(timers[d].key) /\ owed' = owed \ {timers[d].key}
  BY <1>1 DEF Delete
<1>3. nextId' = nextId
  BY DEF Delete
<1>4. /\ timers' \in Seq(Timer) /\ Len(timers') = n /\ DOMAIN timers' = 1 .. n
      /\ \A i \in 1 .. n :
           /\ timers'[i].key = timers[i].key /\ timers'[i].left = timers[i].left
           /\ timers'[i].skew = timers[i].skew /\ When(timers'[i]) = When(timers[i])
           /\ timers'[i].when_sec = timers[i].when_sec
           /\ timers'[i].id = IF i = d THEN DELETED ELSE timers[i].id
  BY <1>2, Marked DEF IndInv
<1>5. TimersConserved'
  BY <1>2, MarkedConserved DEF IndInv
<1>. HIDE DEF n
<1>6. TypeOK'
  <2>1. timers[d].key \in Key
    BY <1>1, <1>2 DEF Timer
  <2>. QED
    BY <1>2, <1>3, <1>4, <2>1 DEF IndInv, TypeOK, Buried
<1>7. Handed' /\ NoOversleep'
  BY <1>1, <1>3, <1>4 DEF IndInv, Handed, NoOversleep
<1>8. Punctual'
  <2> SUFFICES ASSUME NEW i \in 1 .. n, ~timers'[i].skew
               PROVE  /\ When(timers'[i]) <= now + timers'[i].left
                      /\ timers'[i].left > 0 => When(timers'[i]) = now + timers'[i].left
    BY <1>4 DEF Punctual, When
  <2>. QED
    BY <1>1, <1>4 DEF IndInv, Punctual
<1>9. ASSUME NEW p \in 1 .. n, Ahead(p) PROVE Ahead(p)'
  <2>1. ASSUME NEW k \in owed'
        PROVE  \E j \in p .. n : /\ timers'[j].key = k /\ timers'[j].id # DELETED
                                 /\ timers'[j].when_sec = 0 /\ (phase = "call" => j # p)
    <3>1. k \in owed /\ k # timers[d].key
      BY <1>2, <2>1
    <3>2. PICK j \in p .. n : /\ timers[j].key = k /\ timers[j].id # DELETED
                              /\ timers[j].when_sec = 0 /\ (phase = "call" => j # p)
      BY <1>9, <3>1 DEF Ahead, n
    <3>3. j \in 1 .. n /\ j # d
      BY <1>1, <3>1, <3>2
    <3>. QED
      BY <1>4, <3>2, <3>3
  <2>2. \A j \in p .. n : timers'[j].key <= maxId
    <3>1. \A j \in p .. n : timers[j].key <= maxId /\ j \in 1 .. n
      BY <1>1, <1>9 DEF Ahead, n
    <3>. QED
      BY <1>4, <3>1
  <2>3. phase # "call" => IF prev = None THEN p = 1 ELSE p > 1 /\ timers'[p - 1].key = prev
    <3>1. phase # "call" => IF prev = None THEN p = 1 ELSE p > 1 /\ timers[p - 1].key = prev
      BY <1>9 DEF Ahead
    <3>2. p > 1 => p - 1 \in 1 .. n
      BY <1>1
    <3>. QED
      BY <1>4, <3>1, <3>2
  <2>4. /\ timers'[p].key = te
        /\ phase = "call" => timers'[p].left = 0 \/ timers'[p].skew
    BY <1>4, <1>9 DEF Ahead
  <2>. QED
    BY <1>4, <2>1, <2>2, <2>3, <2>4 DEF Ahead
<1>10. Cursor'
  BY <1>1, <1>2, <1>4, <1>9 DEF IndInv, Cursor, InWalk
<1>. QED
  BY <1>5, <1>6, <1>7, <1>8, <1>10 DEF IndInv

\* A list with a new head.
LEMMA Pushed ==
  ASSUME NEW S, NEW s \in Seq(S), NEW u \in S
  PROVE  /\ <<u>> \o s \in Seq(S) /\ Len(<<u>> \o s) = Len(s) + 1
         /\ DOMAIN (<<u>> \o s) = 1 .. Len(s) + 1
         /\ (<<u>> \o s)[1] = u /\ \A i \in 1 .. Len(s) : (<<u>> \o s)[i + 1] = s[i]
         /\ \A j \in 1 .. Len(s) + 1 : j # 1 => (j - 1) \in 1 .. Len(s) /\ (j - 1) + 1 = j
OBVIOUS

\* A timer is created, in a file event or a procedure: it goes before all others,
\* so the walk does not meet it.
LEMMA CreateInv ==
  ASSUME IndInv, Create, phase \in {"files", "call"},
         UNCHANGED <<lastTime, phase, te, prev, maxId, alarm, now, sets>>
  PROVE  IndInv'
<1>. DEFINE n == Len(timers)
<1>1. /\ n \in Nat /\ DOMAIN timers = 1 .. n /\ now \in Nat
      /\ timers \in Seq(Timer) /\ \A i \in 1 .. n : timers[i] \in Timer
  BY Base DEF IndInv
<1>2. /\ nextId \in Key /\ nextId \in Nat /\ nextId' = nextId + 1 /\ nextId' \in 0 .. MaxTimer
      /\ dying' = dying /\ owed' = owed
  BY Base DEF IndInv, Create, Key
<1>3. CASE UNCHANGED <<timers, alive>>
  <2>1. TypeOK'
    BY <1>2, <1>3 DEF IndInv, TypeOK
  <2>2. TimersConserved' /\ Punctual' /\ NoOversleep'
    BY <1>2, <1>3 DEF IndInv, TimersConserved, Punctual, NoOversleep, When
  <2>3. Handed'
    <3>1. \A i \in 1 .. n : timers[i].key \in Nat
      BY <1>1 DEF Timer, Key
    <3>. QED
      BY <1>1, <1>2, <1>3, <3>1 DEF IndInv, Handed
  <2>4. Cursor'
    BY <1>2, <1>3 DEF IndInv, Cursor, InWalk, Ahead
  <2>. QED
    BY <2>1, <2>2, <2>3, <2>4 DEF IndInv
<1>4. ASSUME NEW delay \in Delay, timers' = <<Scheduled(Fresh, delay)>> \o timers,
             alive' = alive \cup {nextId}
      PROVE  IndInv'
  <2>. DEFINE u == Scheduled(Fresh, delay)
  <2>1. Fresh \in Timer /\ Fresh.key = nextId /\ Fresh.id = nextId
    BY <1>2 DEF Fresh, Timer
  <2>2. /\ u \in Timer /\ When(u) = now + delay /\ u.left = delay /\ ~u.skew
        /\ u.key = nextId /\ u.id = nextId
    BY <1>1, <2>1, ScheduledWhen
  <2>3. timers' = <<u>> \o timers
    BY <1>4
  <2>. HIDE DEF u, n
  <2>4. /\ timers' \in Seq(Timer) /\ Len(timers') = n + 1 /\ DOMAIN timers' = 1 .. n + 1
        /\ timers'[1] = u /\ \A i \in 1 .. n : timers'[i + 1] = timers[i]
        /\ \A j \in 1 .. n + 1 : j # 1 => (j - 1) \in 1 .. n /\ (j - 1) + 1 = j
    BY <1>1, <2>2, <2>3, Pushed DEF n
  <2>5. ASSUME NEW j \in 1 .. n + 1, j # 1
        PROVE  (j - 1) \in 1 .. n /\ timers'[j] = timers[j - 1]
    BY <2>4, <2>5
  <2>6. \A i \in 1 .. n : i + 1 \in 1 .. n + 1 /\ i + 1 # 1
    BY <1>1
  <2>7. /\ 1 \in 1 .. n + 1 /\ nextId # DELETED
        /\ \A i \in 1 .. n : timers[i].key # nextId
    <3>1. \A i \in 1 .. n : timers[i].key \in Key /\ timers[i].key < nextId
      BY <1>1 DEF IndInv, Handed, Timer
    <3>. QED
      BY <1>1, <1>2, <3>1 DEF DELETED, Key
  <2>8. TypeOK'
    BY <1>2, <1>4, <2>4 DEF IndInv, TypeOK
  <2>9. TimersConserved'
    <3>1. Members
      BY MembersMean DEF IndInv
    <3>2. ASSUME NEW i \in 1 .. n + 1, NEW j \in 1 .. n + 1, timers'[i].key = timers'[j].key
          PROVE  i = j
      <4>1. CASE i = 1 /\ j = 1
        BY <4>1
      <4>2. CASE i # 1 /\ j # 1
        <5>1. timers[i - 1].key = timers[j - 1].key /\ i - 1 \in 1 .. n /\ j - 1 \in 1 .. n
          BY <2>5, <3>2, <4>2
        <5>2. i - 1 = j - 1
          BY <1>1, <3>1, <5>1 DEF Members
        <5>. QED
          BY <1>1, <5>2
      <4>3. CASE i = 1 /\ j # 1
        BY <2>2, <2>4, <2>5, <2>7, <3>2, <4>3
      <4>4. CASE i # 1 /\ j = 1
        BY <2>2, <2>4, <2>5, <2>7, <3>2, <4>4
      <4>. QED
        BY <4>1, <4>2, <4>3, <4>4
    <3>3. ASSUME NEW k
          PROVE  k \in alive' <=> \E i \in 1 .. n + 1 : timers'[i].key = k /\ timers'[i].id # DELETED
      <4>1. k \in alive <=> \E i \in 1 .. n : timers[i].key = k /\ timers[i].id # DELETED
        BY <1>1, <3>1 DEF Members
      <4>. QED
        BY <1>4, <2>2, <2>4, <2>5, <2>6, <2>7, <4>1
    <3>4. ASSUME NEW k
          PROVE  k \in dying' <=> \E i \in 1 .. n + 1 : timers'[i].key = k /\ timers'[i].id = DELETED
      <4>1. k \in dying <=> \E i \in 1 .. n : timers[i].key = k /\ timers[i].id = DELETED
        BY <1>1, <3>1 DEF Members
      <4>. QED
        BY <1>2, <2>2, <2>4, <2>5, <2>6, <2>7, <4>1
    <3>5. ASSUME NEW i \in 1 .. n + 1 PROVE timers'[i].id \in {timers'[i].key, DELETED}
      <4>1. CASE i = 1
        BY <2>2, <2>4, <4>1
      <4>2. CASE i # 1
        BY <1>1, <2>5, <3>1, <4>2 DEF Members
      <4>. QED
        BY <4>1, <4>2
    <3>6. Members'
      BY <2>4, <3>2, <3>3, <3>4, <3>5 DEF Members
    <3>. QED
      BY <3>6, MembersAfter
  <2>10. Handed'
    <3>1. ASSUME NEW j \in 1 .. n + 1 PROVE timers'[j].key < nextId + 1
      <4>1. CASE j = 1
        BY <1>2, <2>2, <2>4, <4>1
      <4>2. CASE j # 1
        <5>1. timers[j - 1].key \in Key /\ timers[j - 1].key < nextId
          BY <1>1, <2>5, <4>2 DEF IndInv, Handed, Timer
        <5>. QED
          BY <1>2, <2>5, <4>2, <5>1 DEF Key
      <4>. QED
        BY <4>1, <4>2
    <3>. QED
      BY <1>2, <2>4, <3>1 DEF IndInv, Handed
  <2>11. Punctual'
    <3> SUFFICES ASSUME NEW j \in 1 .. n + 1, ~timers'[j].skew
                 PROVE  /\ When(timers'[j]) <= now + timers'[j].left
                        /\ timers'[j].left > 0 => When(timers'[j]) = now + timers'[j].left
      BY <2>4 DEF Punctual, When
    <3>1. CASE j = 1
      <4>1. delay \in Nat
        OBVIOUS
      <4>. QED
        BY <1>1, <2>2, <2>4, <3>1, <4>1
    <3>2. CASE j # 1
      BY <1>1, <2>5, <3>2 DEF IndInv, Punctual
    <3>. QED
      BY <3>1, <3>2
  <2>12. NoOversleep'
    BY DEF NoOversleep
  <2>13. ASSUME phase = "call", NEW p \in 1 .. n, Ahead(p) PROVE Ahead(p + 1)'
    <3>1. /\ timers[p].key = te
          /\ \A j \in p .. n : timers[j].key <= maxId
          /\ timers[p].left = 0 \/ timers[p].skew
      BY <2>13 DEF Ahead, n
    <3>2. ASSUME NEW j \in p + 1 .. n + 1 PROVE timers'[j].key <= maxId
      <4>1. j - 1 \in p .. n /\ j \in 1 .. n + 1 /\ j # 1
        BY <1>1
      <4>. QED
        BY <2>5, <3>1, <4>1
    <3>3. ASSUME NEW k \in owed
          PROVE  \E j \in p + 1 .. n + 1 : /\ timers'[j].key = k /\ timers'[j].id # DELETED
                                           /\ timers'[j].when_sec = 0 /\ j # p + 1
      <4>1. PICK j \in p .. n : /\ timers[j].key = k /\ timers[j].id # DELETED
                                /\ timers[j].when_sec = 0 /\ j # p
        BY <2>13 DEF Ahead, n
      <4>2. j \in 1 .. n /\ j + 1 \in p + 1 .. n + 1 /\ j + 1 # p + 1
        BY <1>1, <4>1
      <4>3. timers'[j + 1] = timers[j]
        BY <2>4, <4>2
      <4>. QED
        BY <4>1, <4>2, <4>3
    <3>4. timers'[p + 1] = timers[p]
      BY <2>4
    <3>. QED
      BY <1>2, <2>4, <2>13, <3>1, <3>2, <3>3, <3>4 DEF Ahead
  <2>14. Cursor'
    <3>1. CASE phase = "files"
      BY <1>2, <3>1 DEF IndInv, Cursor, InWalk
    <3>2. CASE phase = "call"
      <4>1. PICK p \in 1 .. n : Ahead(p)
        BY <1>1, <3>2 DEF IndInv, Cursor, InWalk
      <4>2. p + 1 \in 1 .. n + 1 /\ Ahead(p + 1)'
        BY <1>1, <2>13, <3>2, <4>1
      <4>3. te # None
        BY <3>2 DEF IndInv, Cursor, InWalk
      <4>. QED
        BY <1>2, <2>4, <3>2, <4>2, <4>3 DEF Cursor, InWalk
    <3>. QED
      BY <3>1, <3>2
  <2>. QED
    BY <2>8, <2>9, <2>10, <2>11, <2>12, <2>14 DEF IndInv
<1>. QED
  BY <1>3, <1>4 DEF Create

\* Every step but a finalizer's new timer keeps the invariant.
LEMMA IndInvStep ==
  ASSUME FinalizerCreates = FALSE
  PROVE  IndInv /\ [Next]_vars => IndInv'
<1> SUFFICES ASSUME IndInv, [Next]_vars PROVE IndInv'
  OBVIOUS
<1>1. CASE LoopStep
  BY <1>1, SleepInv, WakeInv, StartInv, RemoveInv, FinalizedInv, CallInv, PassInv, ReturnInv,
     WalkDoneInv DEF LoopStep
<1>2. CASE UserCall
  <2>1. UNCHANGED <<lastTime, phase, te, prev, maxId, alarm, now, sets>>
    BY <1>2 DEF UserCall
  <2>2. CASE phase \in Creating /\ Create
    BY <2>1, <2>2, CreateInv DEF Creating
  <2>3. CASE phase \in {"files", "call", "final"} /\ Delete
    BY <2>1, <2>3, DeleteInv
  <2>. QED
    BY <1>2, <2>2, <2>3 DEF UserCall
<1>3. CASE Tick
  BY <1>3, TickInv
<1>4. CASE SetClock
  BY <1>4, SetClockInv
<1>5. CASE UNCHANGED vars
  BY <1>5 DEF vars, IndInv, TypeOK, TimersConserved, Handed, Punctual, When, NoOversleep, Cursor,
              InWalk, Ahead
<1>. QED
  BY <1>1, <1>2, <1>3, <1>4, <1>5 DEF Next

\* The inductive invariant holds, whatever the timers, the delays and the clock.
THEOREM IndInvCorrect ==
  ASSUME FinalizerCreates = FALSE
  PROVE  Spec => []IndInv
BY InitInv, IndInvStep, PTL DEF Spec

\* Every variable keeps its type.
THEOREM TypeCorrect ==
  ASSUME FinalizerCreates = FALSE
  PROVE  Spec => []TypeOK
<1>1. IndInv => TypeOK
  BY DEF IndInv
<1>. QED
  BY <1>1, IndInvCorrect, PTL

\* Every timer that is alive, and every one not yet finalized, is in the list once,
\* whatever procedures and finalizers do to the list around the walk.
THEOREM ConservedCorrect ==
  ASSUME FinalizerCreates = FALSE
  PROVE  Spec => []TimersConserved
<1>1. IndInv => TimersConserved
  BY DEF IndInv
<1>. QED
  BY <1>1, IndInvCorrect, PTL

\* No procedure is called before its delay is over, unless the clock was set:
\* aeAddMillisecondsToNow and the comparison of times in processTimeEvents agree.
THEOREM NotEarlyCorrect ==
  ASSUME FinalizerCreates = FALSE
  PROVE  Spec => []NotEarly
<1>1. IndInv => NotEarly
  <2> SUFFICES ASSUME IndInv, phase = "call" PROVE This.left = 0 \/ This.skew
    BY DEF NotEarly
  <2>1. te # None
    BY DEF IndInv, Cursor, InWalk
  <2>2. PICK p \in 1 .. Len(timers) : Ahead(p) /\ This = timers[p]
    BY <2>1, Here DEF InWalk
  <2>. QED
    BY <2>2 DEF Ahead
<1>. QED
  BY <1>1, IndInvCorrect, PTL

\* select never sleeps past the time of a timer, unless the clock was set.
THEOREM NoOversleepCorrect ==
  ASSUME FinalizerCreates = FALSE
  PROVE  Spec => []NoOversleep
<1>1. IndInv => NoOversleep
  BY DEF IndInv
<1>. QED
  BY <1>1, IndInvCorrect, PTL

\* A walk that finds the clock set back leaves no timer uncalled that it found.
THEOREM SkewForcesCorrect ==
  ASSUME FinalizerCreates = FALSE
  PROVE  Spec => []SkewForces
<1>1. IndInv => SkewForces
  BY DEF IndInv, Cursor, InWalk, SkewForces
<1>. QED
  BY <1>1, IndInvCorrect, PTL

\* The walk unlinks deleted timers only: who was alive is in the list after a
\* step, because that step at most moves it to the dying.
THEOREM OnlyDeletedRemovedCorrect ==
  ASSUME FinalizerCreates = FALSE
  PROVE  Spec => OnlyDeletedRemoved
<1>1. IndInv /\ IndInv' /\ [Next]_vars =>
        [\A i \in DOMAIN timers : timers[i].id # DELETED =>
           \E j \in DOMAIN timers' : timers'[j].key = timers[i].key]_vars
  <2> SUFFICES ASSUME IndInv, IndInv', Next, NEW i \in DOMAIN timers, timers[i].id # DELETED
               PROVE  \E j \in DOMAIN timers' : timers'[j].key = timers[i].key
    OBVIOUS
  <2>1. timers[i].key \in alive
    BY MembersMean DEF IndInv, Members
  <2>2. alive \subseteq alive' \cup dying'
    BY DEF Next, LoopStep, UserCall, Create, Delete, Buried, Sleep, Wake, Start, Remove,
           Finalized, Call, Pass, Return, WalkDone, Tick, SetClock
  <2>3. Members'
    BY MembersAfter DEF IndInv
  <2>. QED
    BY <2>1, <2>2, <2>3 DEF Members
<1>. QED
  BY <1>1, IndInvCorrect, PTL DEF Spec, OnlyDeletedRemoved
=============================================================================
