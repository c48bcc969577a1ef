---------------------------- MODULE Common_Proofs ----------------------------
(***************************************************************************)
(* Proofs about four modules of src/common, each with the whole of its     *)
(* state in its own invariant.                                             *)
(*                                                                         *)
(* CondEvent: for any waiters and any number of signals.  Types and        *)
(* NoLostWakeup are inductive together: a thread falls asleep only under a *)
(* flag that is down, and the flag of a manual event rises only in         *)
(* set_event, which then wakes everybody.                                  *)
(*                                                                         *)
(* MapPool: for any number of keys, any limits and any order of calls and  *)
(* failures, the pool keeps each element in one place and a walk meets     *)
(* each once.                                                              *)
(*                                                                         *)
(* Threads: for any number of CThread objects and of identifiers that the  *)
(* system reuses, every handle that a successful create vouches for names  *)
(* the object's own thread, and no joinable thread is left without one.    *)
(*                                                                         *)
(* Arithmetic: ArithmeticSound for a word of any width.  Each lemma is     *)
(* about one function on arbitrary words; the theorem reads them off the   *)
(* calls.                                                                  *)
(***************************************************************************)
EXTENDS CondEvent, MapPool, Threads, Arithmetic, FiniteSetTheorems, TLAPS

(***************************************************************************)
(* CondEvent                                                               *)
(***************************************************************************)

\* Every variable has its type at creation and after each step.
LEMMA TypeInit == Init => TypeOK
<1> SUFFICES ASSUME Init PROVE TypeOK
  OBVIOUS
<1>1. sets \in 0 .. MaxSet
  <2>1. CASE signaled
    <3>1. {s \in {1} : signaled} = {1}
      BY <2>1
    <3>2. Cardinality({1}) = 1
      BY FS_Singleton
    <3>. QED
      BY <3>1, <3>2, CondAssumption DEF Init
  <2>2. CASE ~signaled
    <3>1. {s \in {1} : signaled} = {}
      BY <2>2
    <3>. QED
      BY <3>1, FS_EmptySet, CondAssumption DEF Init
  <2>. QED
    BY <2>1, <2>2
<1>2. signaled \in BOOLEAN /\ manual \in BOOLEAN /\ claim \in BOOLEAN
  BY Zenon DEF Init
<1>3. \A t \in Waiter : ~limit[t]
  BY DEF Init
<1>. QED
  BY <1>1, <1>2, <1>3, CondAssumption DEF Init, TypeOK

\* Each action keeps the types.
LEMMA TypeStep == TypeOK /\ [Next]_vars => TypeOK'
<1> SUFFICES ASSUME TypeOK, [Next]_vars PROVE TypeOK'
  OBVIOUS
<1> USE DEF TypeOK, InWait
<1>1. ASSUME NEW t \in Waiter, WaitReady(t) PROVE TypeOK'
  <2>1. signaled' \in BOOLEAN /\ claim' \in BOOLEAN /\ manual' \in BOOLEAN
    BY <1>1, Zenon DEF WaitReady, Taken, Success
  <2>2. ended' \in Nat
    BY <1>1 DEF WaitReady, Success
  <2>. QED
    BY <1>1, <2>1, <2>2 DEF WaitReady
<1>2. ASSUME NEW t \in Waiter, WaitBlocks(t) PROVE TypeOK'
  BY <1>2 DEF WaitBlocks
<1>3. ASSUME NEW t \in Waiter, Wake(t) PROVE TypeOK'
  BY <1>3 DEF Wake
<1>4. ASSUME NEW t \in Waiter, WaitDone(t) PROVE TypeOK'
  <2>1. signaled' \in BOOLEAN /\ claim' \in BOOLEAN /\ manual' \in BOOLEAN
    BY <1>4, Zenon DEF WaitDone, Success
  <2>2. ended' \in Nat
    BY <1>4 DEF WaitDone, Success
  <2>. QED
    BY <1>4, <2>1, <2>2 DEF WaitDone
<1>5. ASSUME NEW t \in Waiter, WaitAgain(t) PROVE TypeOK'
  BY <1>5 DEF WaitAgain
<1>6. ASSUME NEW t \in Waiter, WaitLate(t) PROVE TypeOK'
  BY <1>6 DEF WaitLate
<1>7. CASE SetEvent
  BY <1>7, CondAssumption DEF SetEvent
<1>8. CASE ResetEvent
  <2>1. signaled' \in BOOLEAN /\ claim' \in BOOLEAN /\ manual' \in BOOLEAN
    BY <1>8, Zenon DEF ResetEvent
  <2>2. resets' \in 0 .. MaxReset
    BY <1>8, CondAssumption DEF ResetEvent
  <2>. QED
    BY <1>8, <2>1, <2>2 DEF ResetEvent
<1>9. CASE UNCHANGED vars
  BY <1>9 DEF vars
<1>. QED
  BY <1>1, <1>2, <1>3, <1>4, <1>5, <1>6, <1>7, <1>8, <1>9 DEF Next, Resume

\* Type correctness of the event and its waiters.
THEOREM CondTypeCorrect == Spec => []TypeOK
<1>. QED
  BY TypeInit, TypeStep, PTL DEF Spec

\* A step never leaves somebody asleep in a manual event that is signalled.
LEMMA WakeupStep == TypeOK /\ NoLostWakeup /\ [Next]_vars => NoLostWakeup'
<1> SUFFICES ASSUME TypeOK, NoLostWakeup, [Next]_vars, manual', signaled'
             PROVE  Blocked' = {}
  BY DEF NoLostWakeup
<1>1. manual' = manual /\ pc \in [Waiter -> {"idle", "blocked", "woken", "late"}]
  BY DEF Next, WaitReady, WaitBlocks, Wake, Resume, WaitDone, WaitAgain, WaitLate,
         SetEvent, ResetEvent, vars, TypeOK
\* Everybody sleeps on or has woken under a flag that was up already.
<1>2. ASSUME signaled, \A t \in Waiter : pc'[t] = "blocked" => pc[t] = "blocked"
      PROVE  Blocked' = {}
  BY <1>1, <1>2 DEF Blocked, NoLostWakeup
<1>3. ASSUME NEW t \in Waiter, WaitReady(t) \/ Wake(t) \/ WaitDone(t) \/ WaitLate(t)
      PROVE  Blocked' = {}
  <2>1. signaled
    BY <1>3 DEF WaitReady, Wake, WaitDone, WaitLate
  <2>2. \A u \in Waiter : pc'[u] = "blocked" => pc[u] = "blocked"
    BY <1>1, <1>3 DEF WaitReady, Wake, WaitDone, WaitLate
  <2>. QED
    BY <1>2, <2>1, <2>2
<1>4. ASSUME NEW t \in Waiter, WaitBlocks(t) \/ WaitAgain(t) PROVE FALSE
  BY <1>4 DEF WaitBlocks, WaitAgain
<1>5. CASE SetEvent
  <2>1. \A u \in Waiter : pc'[u] # "blocked"
    BY <1>1, <1>5 DEF SetEvent, Notified, Blocked
  <2>. QED
    BY <2>1 DEF Blocked
<1>6. CASE ResetEvent
  BY <1>6 DEF ResetEvent
<1>7. CASE UNCHANGED vars
  BY <1>2, <1>7 DEF vars
<1>. QED
  BY <1>3, <1>4, <1>5, <1>6, <1>7 DEF Next, Resume

\* Nobody stays asleep in a manual event that is signalled.
THEOREM WakeupCorrect == Spec => []NoLostWakeup
<1>1. Init => NoLostWakeup
  BY DEF Init, NoLostWakeup, Blocked
<1>. QED
  BY <1>1, CondTypeCorrect, WakeupStep, PTL DEF Spec

\* A signal falls only to reset_event or, in an automatic event, to a wait that
\* it ends: a wait that runs out of time leaves it.
LEMMA SignalStep ==
  ASSUME TypeOK, [Next]_vars, signaled, ~signaled'
  PROVE  resets' > resets \/ (~manual /\ ended' > ended)
<1>1. resets \in Nat /\ ended \in Nat
  BY CondAssumption DEF TypeOK
<1>2. ASSUME NEW t \in Waiter, WaitReady(t) PROVE ~manual /\ ended' > ended
  <2>1. signaled' = manual
    BY <1>2 DEF WaitReady, Taken
  <2>2. ended' = IF manual THEN ended ELSE ended + 1
    BY <1>2 DEF WaitReady, Success
  <2>. QED
    BY <1>1, <2>1, <2>2
<1>3. CASE ResetEvent
  BY <1>1, <1>3 DEF ResetEvent
<1>4. ASSUME NEW t \in Waiter, WaitBlocks(t) \/ Wake(t) \/ Resume(t) PROVE signaled' = signaled
  BY <1>4 DEF WaitBlocks, Wake, Resume, WaitDone, WaitAgain, WaitLate
<1>5. CASE SetEvent
  BY <1>5 DEF SetEvent
<1>6. CASE UNCHANGED vars
  BY <1>6 DEF vars
<1>. QED
  BY <1>2, <1>3, <1>4, <1>5, <1>6 DEF Next

\* No step of a wait takes a signal from the others, except by using it up.
THEOREM SignalCorrect == Spec => SignalKept
<1>1. TypeOK /\ [Next]_vars =>
        [signaled /\ ~signaled' => resets' > resets \/ (~manual /\ ended' > ended)]_vars
  BY SignalStep
<1>. QED
  BY <1>1, CondTypeCorrect, PTL DEF Spec, SignalKept

(***************************************************************************)
(* MapPool                                                                 *)
(***************************************************************************)

\* clear() stands on a key that the map holds, and so are the keys that a walk
\* has yet to account for.
SweepsHeld == (sweep \in Key => sweep \in InUse) /\ due \subseteq InUse

PoolInv == MapPoolTypeOK /\ SweepsHeld /\ PoolSound

USE MapPoolAssumption DEF Key, Nil, Dangling, Idle, End

LEMMA PoolInitInv == MapPoolInit => PoolInv
<1> SUFFICES ASSUME MapPoolInit PROVE PoolInv
  OBVIOUS
<1> USE DEF MapPoolInit
<1>1. MapPoolTypeOK
  <2>1. outOfMemory \in BOOLEAN
    BY Zenon
  <2>2. useList \in [Key -> Nat] /\ freeList \in Seq(Nat \ {0})
    OBVIOUS
  <2> QED BY <2>1, <2>2 DEF MapPoolTypeOK
<1>2. InUse = {} /\ Free = {} /\ Held = {} /\ Placed = {}
  BY DEF InUse, Free, Held, Placed
<1>3. SweepsHeld /\ OnePlace /\ NoneLost /\ FreeBounded /\ WalkComplete
  BY <1>2 DEF SweepsHeld, OnePlace, NoneLost, FreeBounded, WalkComplete
<1> QED BY <1>1, <1>3 DEF PoolInv, PoolSound

Elements(list) == {list[i] : i \in DOMAIN list}

\* The free list after a push.
LEMMA Pushed ==
  ASSUME NEW p \in Nat \ {0}, NEW list \in Seq(Nat \ {0}),
         \A i, j \in DOMAIN list : list[i] = list[j] => i = j,
         p \notin Elements(list), NEW l, l = Append(list, p)
  PROVE  /\ l \in Seq(Nat \ {0}) /\ Len(l) = Len(list) + 1
         /\ Elements(l) = Elements(list) \cup {p}
         /\ \A i, j \in DOMAIN l : l[i] = l[j] => i = j
<1>1. /\ l \in Seq(Nat \ {0}) /\ Len(l) = Len(list) + 1 /\ DOMAIN l = 1 .. Len(list) + 1
      /\ DOMAIN list = 1 .. Len(list) /\ Len(list) \in Nat
  OBVIOUS
<1>2. l[Len(list) + 1] = p /\ \A i \in DOMAIN list : l[i] = list[i]
  OBVIOUS
<1>3. Elements(l) = Elements(list) \cup {p}
  <2>1. \A i \in DOMAIN l : l[i] \in Elements(list) \cup {p}
    BY <1>1, <1>2 DEF Elements
  <2>2. p \in Elements(l) /\ \A i \in DOMAIN list : list[i] \in Elements(l)
    <3>1. Len(list) + 1 \in DOMAIN l /\ \A i \in DOMAIN list : i \in DOMAIN l
      BY <1>1
    <3> QED BY <1>2, <3>1 DEF Elements
  <2> QED BY <2>1, <2>2 DEF Elements
<1>4. \A i, j \in DOMAIN l : l[i] = l[j] => i = j
  BY <1>1, <1>2 DEF Elements
<1> QED BY <1>1, <1>3, <1>4

\* The free list after its front is taken.
LEMMA ElementTaken ==
  ASSUME NEW list \in Seq(Nat \ {0}), list # <<>>,
         \A i, j \in DOMAIN list : list[i] = list[j] => i = j,
         NEW l, l = Tail(list)
  PROVE  /\ l \in Seq(Nat \ {0}) /\ Len(l) = Len(list) - 1
         /\ Head(list) \in Elements(list)
         /\ Elements(l) = Elements(list) \ {Head(list)}
         /\ \A i, j \in DOMAIN l : l[i] = l[j] => i = j
<1>1. /\ l \in Seq(Nat \ {0}) /\ Len(l) = Len(list) - 1 /\ DOMAIN l = 1 .. Len(list) - 1
      /\ DOMAIN list = 1 .. Len(list) /\ Len(list) \in Nat \ {0} /\ Head(list) = list[1]
      /\ \A i \in DOMAIN l : l[i] = list[i + 1]
  OBVIOUS
<1>2. Elements(l) = Elements(list) \ {Head(list)}
  <2>1. ASSUME NEW i \in DOMAIN l
        PROVE  l[i] \in Elements(list) \ {Head(list)}
    <3>1. i + 1 \in DOMAIN list /\ 1 \in DOMAIN list /\ l[i] = list[i + 1] /\ i + 1 # 1
      BY <1>1
    <3> QED BY <3>1, <1>1 DEF Elements
  <2>2. ASSUME NEW i \in DOMAIN list, list[i] # Head(list)
        PROVE  list[i] \in Elements(l)
    <3>1. i # 1
      BY <1>1, <2>2
    <3>2. i - 1 \in DOMAIN l /\ (i - 1) + 1 = i
      BY <1>1, <3>1
    <3>3. l[i - 1] = list[i]
      BY <1>1, <3>2
    <3> QED BY <3>2, <3>3 DEF Elements
  <2> QED BY <2>1, <2>2 DEF Elements
<1>3. \A i, j \in DOMAIN l : l[i] = l[j] => i = j
  <2> SUFFICES ASSUME NEW i \in DOMAIN l, NEW j \in DOMAIN l, l[i] = l[j] PROVE i = j
    OBVIOUS
  <2>1. i + 1 \in DOMAIN list /\ j + 1 \in DOMAIN list /\ list[i + 1] = list[j + 1]
    BY <1>1
  <2>2. i + 1 = j + 1
    BY <2>1
  <2> QED BY <1>1, <2>2
<1>4. Head(list) \in Elements(list)
  <2>1. 1 \in DOMAIN list
    BY <1>1
  <2> QED BY <1>1, <2>1 DEF Elements
<1> QED BY <1>1, <1>2, <1>3, <1>4

\* A push by _free, or a deletion by it, leaves every other element in place.
LEMMA FreedKeeps ==
  ASSUME PoolInv, NEW k \in Held, Freed(useList[k])
  PROVE  /\ freeList' \in Seq(Nat \ {0}) /\ outOfMemory' \in BOOLEAN
         /\ heap' \subseteq heap
         /\ \A i, j \in DOMAIN freeList' : freeList'[i] = freeList'[j] => i = j
         /\ Free \subseteq Free' /\ Free' \subseteq Free \cup {useList[k]}
         /\ Free' \cup {useList[j] : j \in Held \ {k}} \subseteq heap'
         /\ ~outOfMemory' => ~outOfMemory /\ heap' \subseteq Free' \cup {useList[j] : j \in Held \ {k}}
         /\ nMaxFree > 0 => Len(freeList') <= nMaxFree + 1 \/ Len(freeList') <= nCount
<1> DEFINE p == useList[k]
<1> USE DEF PoolInv, MapPoolTypeOK, PoolSound
<1>1. /\ k \in InUse /\ p \in Nat \ {0} /\ p \notin Free /\ p \in heap
      /\ \A j \in Held \ {k} : useList[j] # p
  BY DEF Held, InUse, OnePlace, NoneLost, Placed
<1>2. CASE nMaxFree > 0 /\ Len(freeList) > nMaxFree
  <2>1. heap' = heap \ {p} /\ freeList' = freeList /\ outOfMemory' = outOfMemory
    BY <1>2 DEF Freed
  <2>2. Free' = Free
    BY <2>1 DEF Free
  <2>3. outOfMemory' \in BOOLEAN
    BY <2>1, Zenon
  <2>4. Free' \cup {useList[j] : j \in Held \ {k}} \subseteq heap'
    BY <1>1, <2>1, <2>2 DEF NoneLost, Placed
  <2>5. ~outOfMemory' => ~outOfMemory /\ heap' \subseteq Free' \cup {useList[j] : j \in Held \ {k}}
    BY <2>1, <2>2 DEF NoneLost, Placed
  <2>6. \A i, j \in DOMAIN freeList' : freeList'[i] = freeList'[j] => i = j
    BY <2>1 DEF OnePlace
  <2> QED BY <2>1, <2>2, <2>3, <2>4, <2>5, <2>6 DEF FreeBounded
<1>3. CASE ~(nMaxFree > 0 /\ Len(freeList) > nMaxFree) /\ freeList' = Append(freeList, p)
  <2>1. heap' = heap /\ outOfMemory' = outOfMemory
    BY <1>3 DEF Freed
  <2>2. /\ freeList' \in Seq(Nat \ {0}) /\ Len(freeList') = Len(freeList) + 1
        /\ Free' = Free \cup {p}
        /\ \A i, j \in DOMAIN freeList' : freeList'[i] = freeList'[j] => i = j
    <3>1. /\ freeList \in Seq(Nat \ {0}) /\ p \in Nat \ {0} /\ p \notin Elements(freeList)
          /\ \A i, j \in DOMAIN freeList : freeList[i] = freeList[j] => i = j
      BY <1>1 DEF OnePlace, Free, Elements
    <3>2. Free = Elements(freeList) /\ Free' = Elements(freeList')
      BY DEF Free, Elements
    <3> HIDE DEF p
    <3> QED BY <1>3, <3>1, <3>2, Pushed
  <2>3. outOfMemory' \in BOOLEAN
    BY <2>1, Zenon
  <2>4. Len(freeList) \in Nat
    OBVIOUS
  <2> QED BY <1>1, <1>3, <2>1, <2>2, <2>3, <2>4 DEF NoneLost, Placed
<1>4. CASE ~(nMaxFree > 0 /\ Len(freeList) > nMaxFree) /\ outOfMemory' /\ freeList' = freeList
  <2>1. heap' = heap
    BY <1>4 DEF Freed
  <2>2. Free' = Free
    BY <1>4 DEF Free
  <2>3. outOfMemory' \in BOOLEAN
    BY <1>4, Zenon DEF Freed
  <2> QED BY <1>1, <1>4, <2>1, <2>2, <2>3 DEF OnePlace, NoneLost, FreeBounded, Placed
<1> QED BY <1>2, <1>3, <1>4 DEF Freed

\* What _build leaves for allocate: distinct elements that nobody uses.
LEMMA RefilledSound ==
  ASSUME PoolInv, sweep = Idle, NEW r \in Refilled
  PROVE  /\ r.list \in Seq(Nat \ {0}) /\ r.made \in Nat /\ r.made >= made
         /\ \A i, j \in DOMAIN r.list : r.list[i] = r.list[j] => i = j
         /\ Elements(r.list) \subseteq heap \cup (made + 1 .. r.made)
         /\ \A j \in InUse : useList[j] \notin Elements(r.list)
         /\ r.short \in Nat
         /\ r.short = 0 => made + 1 .. r.made \subseteq Elements(r.list)
         /\ Free \subseteq Elements(r.list)
         /\ nMaxFree > 0 => Len(r.list) <= nMaxFree + 1 \/ Len(r.list) <= nCount
<1> USE DEF PoolInv, MapPoolTypeOK, PoolSound
<1>0. Held = InUse
  BY DEF Held, InUse
<1>1. CASE freeList # <<>>
  <2>1. r.list = freeList /\ r.made = made /\ r.short = 0
    BY <1>1 DEF Refilled
  <2>2. made + 1 .. r.made = {}
    BY <2>1
  <2>3. Elements(r.list) = Free
    BY <2>1 DEF Elements, Free
  <2>4. Free \subseteq heap /\ \A j \in InUse : useList[j] \notin Free
    BY <1>0 DEF OnePlace, NoneLost, Placed
  <2> QED BY <2>1, <2>2, <2>3, <2>4 DEF OnePlace, FreeBounded
<1>2. CASE freeList = <<>>
  <2>1. PICK b \in Builds : r = [list |-> [i \in 1 .. b.kept |-> made + i],
                                 made |-> made + b.kept + b.lost, short |-> nCount - b.kept]
    BY <1>2 DEF Refilled
  <2> DEFINE m == b.kept
  <2>2. m \in Nat /\ m <= nCount /\ b.lost \in 0 .. 1 /\ m + b.lost <= nCount
    BY DEF Builds
  <2>3. r.list = [i \in 1 .. m |-> made + i] /\ r.made = made + m + b.lost /\ r.short = nCount - m
    BY <2>1
  <2> HIDE DEF m
  <2>4. r.list \in Seq(Nat \ {0}) /\ Len(r.list) = m /\ DOMAIN r.list = 1 .. m
        /\ \A i \in 1 .. m : r.list[i] = made + i
    <3>1. \A i \in 1 .. m : made + i \in Nat \ {0}
      BY <2>2
    <3>2. [i \in 1 .. m |-> made + i] \in [1 .. m -> Nat \ {0}]
      BY <3>1
    <3> QED BY <2>2, <2>3, <3>1, <3>2
  <2>5. \A x \in Elements(r.list) : x \in made + 1 .. r.made
    BY <2>2, <2>3, <2>4 DEF Elements
  <2>6. ASSUME r.short = 0, NEW x \in made + 1 .. r.made PROVE x \in Elements(r.list)
    <3>1. m = nCount /\ b.lost = 0
      <4>1. nCount - m = 0
        BY <2>3, <2>6
      <4> QED BY <2>2, <4>1
    <3>2. x - made \in 1 .. m /\ made + (x - made) = x
      BY <2>2, <2>3, <3>1
    <3> QED BY <2>4, <3>2 DEF Elements
  <2>7. \A j \in InUse : useList[j] \notin Elements(r.list)
    <3>1. \A j \in InUse : useList[j] \in 1 .. made
      BY <1>0 DEF NoneLost, Placed
    <3> QED BY <2>5, <3>1
  <2>8. Free = {}
    BY <1>2 DEF Free
  <2>9. r.short \in Nat
    BY <2>2, <2>3
  <2>10. \A i, j \in DOMAIN r.list : r.list[i] = r.list[j] => i = j
    <3> SUFFICES ASSUME NEW i \in 1 .. m, NEW j \in 1 .. m, r.list[i] = r.list[j]
                 PROVE  i = j
      BY <2>4
    <3>1. made + i = made + j
      BY <2>4
    <3>2. made \in Int /\ i \in Int /\ j \in Int
      OBVIOUS
    <3> QED BY ONLY <3>1, <3>2
  <2>11. r.made \in Nat /\ r.made >= made
    BY <2>2, <2>3
  <2>12. r.short = 0 => made + 1 .. r.made \subseteq Elements(r.list)
    BY <2>6
  <2>13. Elements(r.list) \subseteq heap \cup (made + 1 .. r.made) /\ Free \subseteq Elements(r.list)
    BY <2>5, <2>8
  <2>14. nMaxFree > 0 => Len(r.list) <= nMaxFree + 1 \/ Len(r.list) <= nCount
    BY <2>2, <2>4
  <2> QED BY <2>4, <2>7, <2>9, <2>10, <2>11, <2>12, <2>13, <2>14, Zenon
<1> QED BY <1>1, <1>2

\* An element that is in no list goes into the map, or is left with the caller.
LEMMA InsertedInv ==
  ASSUME PoolInv, sweep = Idle, sweep' = Idle, NEW k \in Key, useList[k] = Nil,
         NEW p, NEW list, NEW m, NEW short,
         Inserted(k, p, list, m, short),
         UNCHANGED <<nCount, nMaxFree, pos, due, seen>>,
         p \in Nat \ {0}, list \in Seq(Nat \ {0}), m \in Nat, m >= made, short \in Nat,
         \A i, j \in DOMAIN list : list[i] = list[j] => i = j,
         Elements(list) \cup {p} \subseteq heap \cup (made + 1 .. m),
         p \notin Elements(list),
         \A j \in InUse : useList[j] \notin Elements(list) \cup {p},
         short = 0 => made + 1 .. m \subseteq Elements(list) \cup {p},
         Free \subseteq Elements(list) \cup {p},
         nMaxFree > 0 => Len(list) <= nMaxFree + 1 \/ Len(list) <= nCount
  PROVE  PoolInv'
<1> USE DEF PoolInv, MapPoolTypeOK, PoolSound
<1>0. /\ Held = InUse /\ Held' = InUse' /\ freeList' = list /\ made' = m
      /\ heap' = heap \cup (made + 1 .. m) /\ Free' = Elements(list)
  BY DEF Held, InUse, Inserted, Free, Elements
<1>1. CASE useList' = [useList EXCEPT ![k] = p] /\ outOfMemory' = (outOfMemory \/ short > 0)
  <2>1. InUse' = InUse \cup {k} /\ useList'[k] = p /\ \A j \in InUse : useList'[j] = useList[j] /\ j # k
    BY <1>1 DEF InUse
  <2>2. outOfMemory' \in BOOLEAN
    BY <1>1, Zenon
  <2>3. MapPoolTypeOK'
    <3>1. useList' \in [Key -> Nat]
      BY <1>1
    <3> QED BY <1>0, <2>2, <3>1
  <2>4. OnePlace'
    <3>1. \A i, j \in InUse' : useList'[i] = useList'[j] => i = j
      BY <2>1 DEF OnePlace
    <3> QED BY <1>0, <2>1, <3>1 DEF OnePlace
  <2>5. NoneLost'
    <3>1. Placed' = Elements(list) \cup {useList[j] : j \in InUse} \cup {p}
      <4>1. {useList'[j] : j \in InUse'} = {useList[j] : j \in InUse} \cup {p}
        BY <2>1
      <4> QED BY <1>0, <4>1 DEF Placed
    <3>2. ~outOfMemory' => ~outOfMemory /\ short = 0
      <4>1. outOfMemory' <=> (outOfMemory \/ short > 0)
        BY <1>1, Zenon
      <4> QED BY <4>1
    <3> QED BY <1>0, <3>1, <3>2 DEF NoneLost, Placed
  <2>6. WalkComplete' /\ FreeBounded' /\ SweepsHeld'
    BY <1>0, <2>1 DEF WalkComplete, FreeBounded, SweepsHeld
  <2> QED BY <2>3, <2>4, <2>5, <2>6
<1>2. CASE useList' = useList /\ outOfMemory'
  <2>1. InUse' = InUse
    BY <1>2 DEF InUse
  <2>2. outOfMemory' \in BOOLEAN
    BY DEF Inserted
  <2>3. MapPoolTypeOK'
    BY <1>0, <1>2, <2>2
  <2>4. OnePlace'
    BY <1>0, <1>2, <2>1 DEF OnePlace
  <2>5. NoneLost'
    <3>1. Placed' = Elements(list) \cup {useList[j] : j \in InUse}
      BY <1>0, <1>2, <2>1 DEF Placed
    <3> QED BY <1>0, <1>2, <3>1 DEF NoneLost, Placed
  <2>6. WalkComplete' /\ FreeBounded' /\ SweepsHeld'
    BY <1>0, <2>1 DEF WalkComplete, FreeBounded, SweepsHeld
  <2> QED BY <2>3, <2>4, <2>5, <2>6
<1> QED BY <1>1, <1>2 DEF Inserted

\* allocate keeps the invariant, wherever memory runs out.
LEMMA AllocateInv == ASSUME PoolInv, NEW k \in Key, Allocate(k) PROVE PoolInv'
<1> USE DEF PoolInv, MapPoolTypeOK, PoolSound
<1>1. PICK r \in Refilled :
        \/ /\ r.list # <<>> /\ Inserted(k, Head(r.list), Tail(r.list), r.made, r.short)
        \/ /\ r.list = <<>> /\ Inserted(k, r.made + 1, <<>>, r.made + 1, r.short)
        \/ /\ r.list = <<>> /\ made' = r.made /\ heap' = heap \cup (made + 1 .. r.made)
           /\ outOfMemory' = TRUE /\ useList' = useList /\ freeList' = freeList
  BY DEF Allocate
<1>2. sweep = Idle /\ sweep' = Idle /\ useList[k] = Nil /\ UNCHANGED <<nCount, nMaxFree, pos, due, seen>>
  BY DEF Allocate
<1>3. /\ r.list \in Seq(Nat \ {0}) /\ r.made \in Nat /\ r.made >= made
      /\ \A i, j \in DOMAIN r.list : r.list[i] = r.list[j] => i = j
      /\ Elements(r.list) \subseteq heap \cup (made + 1 .. r.made)
      /\ \A j \in InUse : useList[j] \notin Elements(r.list)
      /\ r.short \in Nat
      /\ r.short = 0 => made + 1 .. r.made \subseteq Elements(r.list)
      /\ Free \subseteq Elements(r.list)
      /\ nMaxFree > 0 => Len(r.list) <= nMaxFree + 1 \/ Len(r.list) <= nCount
  BY <1>2, RefilledSound
<1>4. \A j \in InUse : useList[j] \in heap
  BY <1>2 DEF NoneLost, Placed, Held, InUse
<1>5. CASE r.list # <<>> /\ Inserted(k, Head(r.list), Tail(r.list), r.made, r.short)
  <2> DEFINE l == Tail(r.list)
             p == Head(r.list)
  <2>1. /\ l \in Seq(Nat \ {0}) /\ Len(l) = Len(r.list) - 1 /\ p \in Elements(r.list)
        /\ Elements(l) = Elements(r.list) \ {p}
        /\ \A i, j \in DOMAIN l : l[i] = l[j] => i = j
    BY <1>3, <1>5, ElementTaken
  <2>2. p \in Nat \ {0} /\ Len(l) <= Len(r.list) /\ Len(r.list) \in Nat
    BY <1>3, <1>5, <2>1
  <2>3. nMaxFree > 0 => Len(l) <= nMaxFree + 1 \/ Len(l) <= nCount
    BY <1>3, <2>1, <2>2
  <2>4. Inserted(k, p, l, r.made, r.short)
    BY <1>5
  <2> HIDE DEF l, p
  <2>5. /\ Elements(l) \cup {p} = Elements(r.list)
        /\ p \notin Elements(l)
    BY <2>1
  <2> QED BY <1>2, <1>3, <2>1, <2>2, <2>3, <2>4, <2>5, InsertedInv
<1>6. CASE r.list = <<>> /\ Inserted(k, r.made + 1, <<>>, r.made + 1, r.short)
  <2> DEFINE p == r.made + 1
             l == <<>>
  <2>1. Elements(r.list) = {} /\ Elements(l) = {}
    BY <1>6 DEF Elements
  <2>2. p \in Nat \ {0} /\ p \in made + 1 .. p /\ p >= made /\ made + 1 .. p = (made + 1 .. r.made) \cup {p}
    BY <1>3
  <2>3. \A j \in InUse : useList[j] # p
    BY <1>3, <1>4
  <2>4. l \in Seq(Nat \ {0}) /\ Len(l) = 0 /\ DOMAIN l = {}
    OBVIOUS
  <2>5. Inserted(k, p, l, p, r.short)
    BY <1>6
  <2> HIDE DEF p, l
  <2>6. Elements(l) \cup {p} \subseteq heap \cup (made + 1 .. p)
    BY <2>1, <2>2
  <2>7. r.short = 0 => made + 1 .. p \subseteq Elements(l) \cup {p}
    BY <1>3, <2>1, <2>2
  <2>8. /\ \A i, j \in DOMAIN l : l[i] = l[j] => i = j
        /\ p \notin Elements(l) /\ \A j \in InUse : useList[j] \notin Elements(l) \cup {p}
        /\ Free \subseteq Elements(l) \cup {p}
        /\ nMaxFree > 0 => Len(l) <= nMaxFree + 1 \/ Len(l) <= nCount
    BY <1>3, <2>1, <2>2, <2>3, <2>4
  <2>9. p \in Nat
    BY <2>2
  <2> QED BY <1>2, <1>3, <2>2, <2>4, <2>5, <2>6, <2>7, <2>8, <2>9, InsertedInv
<1>7. CASE /\ r.list = <<>> /\ made' = r.made /\ heap' = heap \cup (made + 1 .. r.made)
           /\ outOfMemory' = TRUE /\ useList' = useList /\ freeList' = freeList
  <2>1. InUse' = InUse /\ Free' = Free /\ Held' = Held /\ Placed' = Placed
    BY <1>2, <1>7 DEF InUse, Free, Held, Placed
  <2>2. outOfMemory' \in BOOLEAN
    BY <1>7, Zenon
  <2>3. MapPoolTypeOK'
    <3>1. heap' \subseteq 1 .. made'
      <4>1. made' = r.made /\ heap' = heap \cup (made + 1 .. r.made)
        BY <1>7
      <4>2. ASSUME NEW x \in heap' PROVE x \in 1 .. made'
        <5>1. x \in 1 .. made \/ x \in made + 1 .. r.made
          BY <4>1
        <5> QED BY <1>3, <4>1, <5>1
      <4> QED BY <4>2
    <3> QED BY <1>2, <1>3, <1>7, <2>2, <3>1
  <2>4. OnePlace' /\ NoneLost'
    BY <1>7, <2>1 DEF OnePlace, NoneLost
  <2>5. WalkComplete' /\ FreeBounded' /\ SweepsHeld'
    BY <1>2, <1>7, <2>1 DEF WalkComplete, FreeBounded, SweepsHeld
  <2> QED BY <2>3, <2>4, <2>5
<1> QED BY <1>1, <1>5, <1>6, <1>7

\* release keeps the invariant: the element leaves the map before it is freed.
LEMMA ReleaseInv == ASSUME PoolInv, NEW k \in Key, Release(k) PROVE PoolInv'
<1> USE DEF PoolInv, MapPoolTypeOK, PoolSound
<1>1. sweep = Idle /\ sweep' = Idle /\ k \in Held /\ Held = InUse /\ Held' = InUse' /\ InUse' = InUse \ {k}
      /\ \A j \in InUse' : useList'[j] = useList[j]
  BY DEF Release, Held, InUse
<1>2. /\ freeList' \in Seq(Nat \ {0}) /\ outOfMemory' \in BOOLEAN /\ heap' \subseteq heap
      /\ \A i, j \in DOMAIN freeList' : freeList'[i] = freeList'[j] => i = j
      /\ Free' \subseteq Free \cup {useList[k]}
      /\ Free' \cup {useList[j] : j \in Held \ {k}} \subseteq heap'
      /\ ~outOfMemory' => ~outOfMemory /\ heap' \subseteq Free' \cup {useList[j] : j \in Held \ {k}}
      /\ nMaxFree > 0 => Len(freeList') <= nMaxFree + 1 \/ Len(freeList') <= nCount
  BY <1>1, FreedKeeps DEF Release
<1>3. MapPoolTypeOK'
  BY <1>1, <1>2 DEF Release, Erased
<1>4. OnePlace'
  BY <1>1, <1>2 DEF OnePlace
<1>5. NoneLost'
  <2>1. Placed' = Free' \cup {useList[j] : j \in Held \ {k}}
    BY <1>1 DEF Placed
  <2> QED BY <1>2, <2>1 DEF NoneLost
<1>6. WalkComplete'
  BY <1>1 DEF WalkComplete, Release, Erased
<1>7. FreeBounded'
  <2>1. nCount' = nCount /\ nMaxFree' = nMaxFree
    BY DEF Release
  <2> QED BY <1>2, <2>1, Zenon DEF FreeBounded
<1>8. SweepsHeld'
  <2>1. due' = due \ {k} /\ sweep' = Idle
    BY <1>1 DEF Release
  <2>2. due \subseteq InUse
    BY DEF SweepsHeld
  <2>3. sweep' \notin Key
    BY <2>1
  <2> QED BY <1>1, <2>1, <2>2, <2>3, Zenon DEF SweepsHeld
<1> QED BY <1>3, <1>4, <1>5, <1>6, <1>7, <1>8

\* A turn of clear() keeps it: the keys swept are held no more.
LEMMA ClearTurnInv == ASSUME PoolInv, ClearTurn PROVE PoolInv'
<1> USE DEF PoolInv, MapPoolTypeOK, PoolSound
<1>1. /\ sweep \in Held /\ useList' = useList /\ InUse' = InUse /\ Held' = Held \ {sweep}
      /\ sweep' \in InUse \cup {End}
  BY DEF ClearTurn, Held, InUse, SweepsHeld, At
<1>2. /\ freeList' \in Seq(Nat \ {0}) /\ outOfMemory' \in BOOLEAN /\ heap' \subseteq heap
      /\ \A i, j \in DOMAIN freeList' : freeList'[i] = freeList'[j] => i = j
      /\ Free' \subseteq Free \cup {useList[sweep]}
      /\ Free' \cup {useList[j] : j \in Held \ {sweep}} \subseteq heap'
      /\ ~outOfMemory' => ~outOfMemory /\ heap' \subseteq Free' \cup {useList[j] : j \in Held \ {sweep}}
      /\ nMaxFree > 0 => Len(freeList') <= nMaxFree + 1 \/ Len(freeList') <= nCount
  BY <1>1, FreedKeeps DEF ClearTurn
<1>3. MapPoolTypeOK'
  BY <1>1, <1>2 DEF ClearTurn, InUse
<1>4. OnePlace'
  BY <1>1, <1>2 DEF OnePlace, Held
<1>5. NoneLost'
  <2>1. Placed' = Free' \cup {useList[j] : j \in Held \ {sweep}}
    BY <1>1 DEF Placed
  <2> QED BY <1>2, <2>1 DEF NoneLost
<1>6. WalkComplete' /\ FreeBounded' /\ SweepsHeld'
  BY <1>1, <1>2 DEF WalkComplete, FreeBounded, SweepsHeld, ClearTurn
<1> QED BY <1>3, <1>4, <1>5, <1>6

\* Every other step keeps it.
LEMMA PoolStep == PoolInv /\ [MapPoolNext]_poolVars => PoolInv'
<1> SUFFICES ASSUME PoolInv, [MapPoolNext]_poolVars PROVE PoolInv'
  OBVIOUS
<1> USE DEF PoolInv, MapPoolTypeOK, PoolSound
<1>1. ASSUME NEW n \in Limits, NEW m \in Limits, Configure(n, m) PROVE PoolInv'
  <2>1. made = 0 /\ UNCHANGED <<useList, freeList, made, heap, sweep, pos, due, seen, outOfMemory>>
        /\ nCount' = n /\ nMaxFree' = m
    BY <1>1 DEF Configure
  <2>2. InUse' = InUse /\ Free' = Free /\ Held' = Held /\ Placed' = Placed
    BY <2>1 DEF InUse, Free, Held, Placed
  <2>3. Len(freeList) = 0
    <3>1. Free = {}
      <4>1. heap = {}
        BY <2>1
      <4> QED BY <4>1 DEF NoneLost, Placed
    <3>2. SUFFICES ASSUME Len(freeList) # 0 PROVE FALSE
      OBVIOUS
    <3>3. 1 \in DOMAIN freeList
      BY <3>2
    <3> QED BY <3>1, <3>3 DEF Free
  <2>4. MapPoolTypeOK'
    BY <2>1
  <2> QED BY <2>1, <2>2, <2>3, <2>4 DEF OnePlace, NoneLost, FreeBounded, WalkComplete, SweepsHeld
<1>2. ASSUME NEW k \in Key, Allocate(k) \/ Release(k) PROVE PoolInv'
  BY <1>2, AllocateInv, ReleaseInv
<1>3. CASE ClearBegin
  <2>1. /\ UNCHANGED <<useList, freeList, nCount, nMaxFree, made, heap, pos, due, seen, outOfMemory>>
        /\ sweep = Idle /\ sweep' \in At(1)
    BY <1>3 DEF ClearBegin
  <2>2. InUse' = InUse /\ Free' = Free /\ Held = InUse /\ Held' = InUse /\ Placed' = Placed
    BY <2>1 DEF InUse, Free, Held, Placed, At
  <2>3. MapPoolTypeOK' /\ SweepsHeld'
    BY <2>1, <2>2 DEF SweepsHeld, At, InUse
  <2> QED BY <2>1, <2>2, <2>3 DEF OnePlace, NoneLost, FreeBounded, WalkComplete
<1>4. CASE ClearTurn
  BY <1>4, ClearTurnInv
<1>5. CASE ClearEnd
  <2>1. /\ UNCHANGED <<freeList, nCount, nMaxFree, made, heap, seen, outOfMemory>>
        /\ sweep = End /\ sweep' = Idle /\ due' = {} /\ pos' \in {Dangling, pos} /\ pos' \notin Key
        /\ useList' = [k \in Key |-> Nil]
    BY <1>5 DEF ClearEnd, Erased
  <2>2. InUse' = {} /\ Free' = Free /\ Held = {} /\ Held' = {} /\ Placed' = Placed
    BY <2>1 DEF InUse, Free, Held, Placed
  <2>3. MapPoolTypeOK' /\ SweepsHeld'
    BY <2>1 DEF SweepsHeld
  <2>4. WalkComplete'
    BY <2>1 DEF WalkComplete
  <2> QED BY <2>1, <2>2, <2>3, <2>4 DEF OnePlace, NoneLost, FreeBounded
<1>6. CASE InitPool
  <2>1. /\ UNCHANGED <<nCount, nMaxFree, made, sweep, seen, outOfMemory>>
        /\ sweep = Idle /\ due' = {} /\ pos' \in {Dangling, pos} /\ pos' \notin Key
        /\ useList' = [k \in Key |-> Nil] /\ freeList' = <<>>
        /\ heap' = heap \ (Free \cup {useList[k] : k \in InUse})
    BY <1>6 DEF InitPool, Erased
  <2>2. InUse' = {} /\ Free' = {} /\ Held = InUse /\ Held' = {} /\ Placed' = {}
    BY <2>1 DEF InUse, Free, Held, Placed
  <2>3. MapPoolTypeOK' /\ SweepsHeld'
    <3>1. heap' \subseteq 1 .. made'
      <4>1. heap' \subseteq heap /\ made' = made
        BY <2>1, Zenon
      <4> QED BY <4>1
    <3>2. pos' \in 0 .. End
      <4>1. pos \in 0 .. End /\ Dangling \in 0 .. End
        OBVIOUS
      <4> QED BY <2>1, <4>1, Zenon
    <3>3. useList' \in [Key -> Nat] /\ freeList' \in Seq(Nat \ {0})
      <4>1. Nil \in Nat /\ <<>> \in Seq(Nat \ {0})
        OBVIOUS
      <4> QED BY <2>1, <4>1, Zenon
    <3>4. /\ nCount' \in Nat /\ nMaxFree' \in Nat /\ made' \in Nat
          /\ sweep' \in 0 .. End /\ seen' \subseteq Key
      BY <2>1
    <3>5. outOfMemory' \in BOOLEAN
      BY <2>1, Zenon
    <3>6. due' \subseteq Key /\ SweepsHeld'
      BY <2>1 DEF SweepsHeld
    <3> QED BY <3>1, <3>2, <3>3, <3>4, <3>5, <3>6, Zenon
  <2>4. WalkComplete' /\ NoneLost'
    BY <2>1, <2>2 DEF WalkComplete, NoneLost, Placed
  <2>5. OnePlace' /\ FreeBounded'
    BY <2>1, <2>2 DEF OnePlace, FreeBounded
  <2> QED BY <2>3, <2>4, <2>5
<1>7. CASE GetHead \/ GetNext
  <2>1. UNCHANGED <<useList, freeList, nCount, nMaxFree, made, heap, sweep, outOfMemory>>
    BY <1>7 DEF GetHead, GetNext
  <2>2. InUse' = InUse /\ Free' = Free /\ Held' = Held /\ Placed' = Placed
    BY <2>1 DEF InUse, Free, Held, Placed
  <2>3. WalkComplete' /\ pos' \in 0 .. End /\ due' \subseteq InUse /\ seen' \subseteq Key
    <3>1. CASE GetHead
      BY <2>2, <3>1 DEF GetHead, WalkComplete, At, InUse, SweepsHeld
    <3>2. CASE GetNext
      <4>1. pos \in InUse /\ pos' \in At(pos + 1) /\ seen' = seen \cup {pos} /\ due' = due
        BY <3>2 DEF GetNext
      <4>2. pos' \in InUse \cup {End} /\ pos' > pos /\ \A k \in InUse : k >= pos + 1 => pos' <= k
        BY <4>1 DEF At, InUse
      <4>3. \A k \in due : k \in InUse
        BY DEF SweepsHeld
      <4>4. \A k \in due : k < pos' <=> (k < pos \/ k = pos)
        BY <4>1, <4>2, <4>3 DEF InUse
      <4>5. pos' # Dangling /\ (pos' \in Key => pos' \in InUse')
        BY <2>2, <4>1, <4>2 DEF InUse
      <4>6. \A k \in seen' : k < pos'
        BY <4>1, <4>2 DEF WalkComplete, InUse
      <4>7. \A k \in due' : k < pos' <=> k \in seen'
        BY <4>1, <4>4 DEF WalkComplete, InUse
      <4> QED BY <4>1, <4>2, <4>3, <4>5, <4>6, <4>7 DEF WalkComplete, InUse
    <3> QED BY <1>7, <3>1, <3>2
  <2>4. MapPoolTypeOK' /\ SweepsHeld'
    <3>1. InUse \subseteq Key
      BY DEF InUse
    <3> QED BY <2>1, <2>2, <2>3, <3>1 DEF SweepsHeld
  <2> QED BY <2>1, <2>2, <2>3, <2>4 DEF OnePlace, NoneLost, FreeBounded
<1>8. CASE UNCHANGED poolVars
  <2>1. InUse' = InUse /\ Free' = Free /\ Held' = Held /\ Placed' = Placed
    BY <1>8 DEF poolVars, InUse, Free, Held, Placed
  <2>2. MapPoolTypeOK' /\ OnePlace' /\ NoneLost'
    BY <1>8, <2>1 DEF poolVars, OnePlace, NoneLost
  <2> QED BY <1>8, <2>1, <2>2 DEF poolVars, FreeBounded, WalkComplete, SweepsHeld
<1> QED BY <1>1, <1>2, <1>3, <1>4, <1>5, <1>6, <1>7, <1>8 DEF MapPoolNext

\* Every element of the pool is in one place, none is lost while memory lasts,
\* the free list keeps its limit, and a walk meets each element once.
THEOREM PoolSoundCorrect == MapPoolSpec => []PoolSound
<1>1. PoolInv => PoolSound
  BY DEF PoolInv
<1> QED BY <1>1, PoolInitInv, PoolStep, PTL DEF MapPoolSpec

HIDE MapPoolAssumption DEF Key, Nil, Dangling, Idle, End


-----------------------------------------------------------------------------
ThreadsInv == ThreadsTypeOK /\ ThreadsSound

USE ThreadsAssumption DEF SYSTEM, PROCESS, JOINABLE, DETACHED, NoCall, Unused

LEMMA ThreadsInitInv == ThreadsInit => ThreadsInv
BY DEF ThreadsInit, ThreadsInv, ThreadsTypeOK, ThreadsSound, HandleIsOwn, NoThreadLost, Joinable,
       Live, Attribute

\* Calls that touch neither handle nor thread keep everything.
LEMMA AttributeInv ==
  ASSUME ThreadsInv, NEW o \in Thr, NEW a \in Attribute, NEW v \in {0, 1}, SetAttribute(o, a, v)
  PROVE  ThreadsInv'
<1> USE DEF ThreadsInv, ThreadsTypeOK, ThreadsSound, SetAttribute
<1>1. Target(a) \in Attribute
  BY DEF Target, Attribute
<1>2. attr' \in [Thr -> [Attribute -> {0, 1}]]
  BY <1>1
<1> QED BY <1>2 DEF HandleIsOwn, NoThreadLost, Owns, Joinable, Live

\* A cancellation request changes no owner and no state of a thread.
LEMMA CancelKeeps ==
  ASSUME ThreadsInv, NEW o \in Thr, Cancelled(o)
  PROVE  /\ thread' \in [Tid -> {Unused} \cup ThreadRec]
         /\ \A t \in Tid : /\ Live(t) <=> thread'[t].state # "free"
                           /\ Live(t) => /\ thread'[t].detach = thread[t].detach
                                         /\ thread'[t].owner = thread[t].owner
<1> USE DEF ThreadsInv, ThreadsTypeOK, Live
<1>1. CASE handle[o] = 0 \/ ~Live(handle[o])
  BY <1>1 DEF Cancelled
<1>2. CASE ~(handle[o] = 0 \/ ~Live(handle[o]))
  <2> DEFINE h == handle[o]
  <2>1. h \in Tid /\ thread[h] \in ThreadRec
    <3>1. h \in Tid /\ thread[h].state # "free"
      BY <1>2
    <3>2. thread[h] \in {Unused} \cup ThreadRec
      BY <3>1
    <3>3. Unused.state = "free"
      OBVIOUS
    <3> HIDE DEF Unused
    <3> QED BY <3>1, <3>2, <3>3
  <2>2. thread' = [thread EXCEPT ![h] = [thread[h] EXCEPT !.cancel = TRUE]]
    BY <1>2 DEF Cancelled
  <2>3. [thread[h] EXCEPT !.cancel = TRUE] \in ThreadRec
    BY <2>1 DEF ThreadRec
  <2> QED BY <2>1, <2>2, <2>3 DEF ThreadRec
<1> QED BY <1>1, <1>2

\* Begin and Terminate keep the invariant.
LEMMA BeginInv ==
  ASSUME ThreadsInv, NEW o \in Thr, Terminate(o) \/ \E op \in Op : Begin(o, op)
  PROVE  ThreadsInv'
<1> USE DEF ThreadsInv, ThreadsTypeOK, ThreadsSound
<1>1. UNCHANGED <<alive, init, attr, handle, suspect>> /\ o \in alive
      /\ call' \in {NoCall} \cup [op : Op, obj : alive]
  <2>1. ASSUME NEW op \in Op, Begin(o, op) PROVE call' \in [op : Op, obj : alive]
    BY <2>1 DEF Begin
  <2>2. CASE Terminate(o)
    BY <2>2 DEF Terminate
  <2> QED BY <2>1, <2>2 DEF Begin
<1>2. /\ thread' \in [Tid -> {Unused} \cup ThreadRec]
      /\ \A t \in Tid : /\ Live(t) <=> thread'[t].state # "free"
                        /\ Live(t) => /\ thread'[t].detach = thread[t].detach
                                      /\ thread'[t].owner = thread[t].owner
  <2>1. CASE Cancelled(o)
    BY <2>1, CancelKeeps
  <2>2. CASE UNCHANGED thread
    BY <2>2 DEF Live
  <2> QED BY <2>1, <2>2 DEF Terminate, Begin
<1>3. \A t \in Tid : (Joinable(t) <=> Joinable(t)') /\ (Joinable(t) => thread'[t].owner = thread[t].owner)
  BY <1>2 DEF Joinable, Live
<1>4. HandleIsOwn' /\ NoThreadLost'
  BY <1>1, <1>3 DEF HandleIsOwn, NoThreadLost, Owns
<1> QED BY <1>1, <1>2, <1>4

\* What pthread_join leaves: no thread of the joined identifier, the others
\* as they were, and every object but those bereaved with its own.
LEMMA JoinKeeps ==
  ASSUME ThreadsInv, NEW o \in Thr
  PROVE  /\ JoinedThread(o) \in [Tid -> {Unused} \cup ThreadRec]
         /\ Bereaved(o) \subseteq Thr
         /\ \A t \in Tid : JoinedThread(o)[t] \in {Unused, thread[t]}
         /\ \A t \in Tid : Joinable(t) /\ JoinedThread(o)[t] # Unused =>
              /\ thread[t].owner # o
              /\ thread[t].owner \in alive /\ handle[thread[t].owner] = t
         /\ \A p \in Thr \ (Bereaved(o) \cup {o}) : handle[p] # 0 =>
              /\ Owns(p, handle[p])
              /\ JoinedThread(o)[handle[p]] = thread[handle[p]]
         /\ o \notin Bereaved(o)
<1> USE DEF ThreadsInv, ThreadsTypeOK, ThreadsSound
<1>1. /\ JoinedThread(o) \in [Tid -> {Unused} \cup ThreadRec]
      /\ \A t \in Tid : JoinedThread(o)[t] \in {Unused, thread[t]}
      /\ handle[o] # 0 /\ Joinable(handle[o]) => JoinedThread(o)[handle[o]] = Unused
      /\ \A t \in Tid : t # handle[o] => JoinedThread(o)[t] = thread[t]
      /\ ~(handle[o] # 0 /\ Joinable(handle[o])) => JoinedThread(o) = thread
  BY DEF JoinedThread
<1>2. Bereaved(o) \subseteq Thr /\ o \notin Bereaved(o)
  BY DEF Bereaved
<1>3. ASSUME NEW t \in Tid, Joinable(t), JoinedThread(o)[t] # Unused
      PROVE  thread[t].owner # o /\ thread[t].owner \in alive /\ handle[thread[t].owner] = t
  <2>1. thread[t].owner \in alive /\ handle[thread[t].owner] = t
    BY <1>3 DEF NoThreadLost
  <2>2. SUFFICES ASSUME thread[t].owner = o PROVE FALSE
    BY <2>1
  <2>3. handle[o] = t /\ t # 0
    BY <2>1, <2>2
  <2> QED BY <1>1, <1>3, <2>3
<1>4. ASSUME NEW p \in Thr \ (Bereaved(o) \cup {o}), handle[p] # 0
      PROVE  Owns(p, handle[p]) /\ JoinedThread(o)[handle[p]] = thread[handle[p]]
  <2>1. p \notin suspect
    BY <1>4 DEF Bereaved
  <2>2. Owns(p, handle[p]) /\ handle[p] \in Tid
    BY <1>4, <2>1 DEF HandleIsOwn
  <2>3. CASE handle[p] = handle[o]
    <3>1. handle[o] # 0 /\ Joinable(handle[o]) /\ thread[handle[o]].owner = p
      BY <1>4, <2>2, <2>3 DEF Owns
    <3>2. p \in Bereaved(o)
      BY <3>1 DEF Bereaved
    <3> QED BY <3>2
  <2> QED BY <1>1, <2>2, <2>3
<1> QED BY <1>1, <1>2, <1>3, <1>4

\* wait_exit, shutdown and the destructor.
LEMMA WaitExitInv == ASSUME ThreadsInv, NEW o \in Thr, WaitExit(o) PROVE ThreadsInv'
<1> USE DEF ThreadsInv, ThreadsTypeOK, ThreadsSound
<1>1. /\ thread' = JoinedThread(o) /\ handle' = [handle EXCEPT ![o] = 0] /\ suspect' = Bereaved(o)
      /\ init' = init /\ attr' = attr /\ call' = NoCall /\ alive \ {o} \subseteq alive' /\ alive' \subseteq alive
  BY DEF WaitExit, Forgotten
<1>2. ThreadsTypeOK'
  BY <1>1, JoinKeeps
<1>3. \A t \in Tid : Joinable(t)' => Joinable(t) /\ thread'[t] = thread[t] /\ JoinedThread(o)[t] # Unused
  BY <1>1, JoinKeeps DEF Joinable, Live
<1>4. NoThreadLost'
  <2> SUFFICES ASSUME NEW t \in Tid, Joinable(t)'
               PROVE  thread'[t].owner \in alive' /\ handle'[thread'[t].owner] = t
    BY DEF NoThreadLost
  <2>1. Joinable(t) /\ thread'[t] = thread[t] /\ JoinedThread(o)[t] # Unused
    BY <1>3
  <2>2. thread[t].owner \in alive \ {o} /\ handle[thread[t].owner] = t
    BY <2>1, JoinKeeps
  <2> QED BY <1>1, <2>1, <2>2
<1>5. HandleIsOwn'
  <2> SUFFICES ASSUME NEW p \in Thr \ suspect', handle'[p] # 0 PROVE Owns(p, handle[p])'
    BY DEF HandleIsOwn
  <2>1. p # o /\ handle'[p] = handle[p] /\ Owns(p, handle[p]) /\ thread'[handle[p]] = thread[handle[p]]
    BY <1>1, JoinKeeps
  <2> QED BY <2>1 DEF Owns, Joinable, Live
<1> QED BY <1>2, <1>4, <1>5

\* create, when pthread_create succeeds.
LEMMA CreateSucceedsInv == ASSUME ThreadsInv, NEW o \in Thr, CreateSucceeds(o) PROVE ThreadsInv'
<1> USE DEF ThreadsInv, ThreadsTypeOK, ThreadsSound
<1> DEFINE new(d) == [state |-> "running", detach |-> d, owner |-> o, cancel |-> FALSE]
<1>1. PICK t \in Tid, d \in DetachState(o) :
        /\ JoinedThread(o)[t] = Unused
        /\ thread' = [JoinedThread(o) EXCEPT ![t] = new(d)]
        /\ handle' = [Forgotten(o) EXCEPT ![o] = t]
        /\ suspect' = Bereaved(o) \cup {p \in {o} : d = DETACHED}
  BY DEF CreateSucceeds
<1>2. init' = init /\ attr' = attr /\ call' = NoCall /\ alive' = alive /\ o \in alive
  BY DEF CreateSucceeds
<1>3. d \in {0, 1} /\ new(d) \in ThreadRec
  BY DEF DetachState, ThreadRec, Attribute
<1>4. handle' = [handle EXCEPT ![o] = t] /\ Bereaved(o) \subseteq suspect' /\ suspect' \subseteq Thr
      /\ (d = 1 => o \in suspect')
  BY <1>1, JoinKeeps DEF Forgotten
<1>5. /\ thread' \in [Tid -> {Unused} \cup ThreadRec] /\ thread'[t] = new(d)
      /\ \A u \in Tid \ {t} : thread'[u] \in {Unused, thread[u]} /\ thread'[u] = JoinedThread(o)[u]
  BY <1>1, <1>3, JoinKeeps
<1>6. ThreadsTypeOK'
  BY <1>2, <1>4, <1>5
<1>7. new(d).state = "running" /\ new(d).owner = o /\ new(d).detach = d /\ Unused.state = "free"
  OBVIOUS
<1>8. NoThreadLost'
  <2> SUFFICES ASSUME NEW u \in Tid, Joinable(u)'
               PROVE  thread'[u].owner \in alive' /\ handle'[thread'[u].owner] = u
    BY DEF NoThreadLost
  <2>1. CASE u = t
    BY <1>2, <1>4, <1>5, <1>7, <2>1
  <2>2. CASE u # t
    <3>1. thread'[u] = thread[u] /\ Joinable(u) /\ JoinedThread(o)[u] # Unused
      BY <1>5, <1>7, <2>2 DEF Joinable, Live
    <3>2. thread[u].owner # o /\ thread[u].owner \in alive /\ handle[thread[u].owner] = u
      BY <3>1, JoinKeeps
    <3> QED BY <1>2, <1>4, <3>1, <3>2
  <2> QED BY <2>1, <2>2
<1>9. HandleIsOwn'
  <2> SUFFICES ASSUME NEW p \in Thr \ suspect', handle'[p] # 0 PROVE Owns(p, handle[p])'
    BY DEF HandleIsOwn
  <2>1. CASE p = o
    <3>1. handle'[p] = t /\ d = 0
      BY <1>3, <1>4, <2>1
    <3> QED BY <1>5, <1>7, <2>1, <3>1 DEF Owns, Joinable, Live
  <2>2. CASE p # o
    <3>1. handle'[p] = handle[p] /\ Owns(p, handle[p]) /\ JoinedThread(o)[handle[p]] = thread[handle[p]]
          /\ handle[p] \in Tid
      BY <1>4, <2>2, JoinKeeps
    <3>2. handle[p] # t
      BY <1>1, <1>7, <3>1 DEF Owns, Joinable, Live
    <3> QED BY <1>5, <3>1, <3>2 DEF Owns, Joinable, Live
  <2> QED BY <2>1, <2>2
<1> QED BY <1>6, <1>8, <1>9

\* create, when pthread_create fails.
LEMMA CreateFailsInv == ASSUME ThreadsInv, NEW o \in Thr, CreateFails(o) PROVE ThreadsInv'
<1> USE DEF ThreadsInv, ThreadsTypeOK, ThreadsSound
<1>1. init' = init /\ attr' = attr /\ call' = NoCall /\ alive' = alive /\ thread' = JoinedThread(o)
  BY DEF CreateFails
<1>2. PICK h \in {0} \cup Tid : /\ handle' = [handle EXCEPT ![o] = h]
                                /\ Bereaved(o) \subseteq suspect' /\ suspect' \subseteq Thr
                                /\ h # 0 => o \in suspect'
  <2>1. CASE handle' = Forgotten(o) /\ suspect' = Bereaved(o)
    BY <2>1, JoinKeeps DEF Forgotten
  <2>2. CASE \E t \in Tid : handle' = [Forgotten(o) EXCEPT ![o] = t] /\ suspect' = Bereaved(o) \cup {o}
    BY <2>2, JoinKeeps DEF Forgotten
  <2> QED BY <2>1, <2>2 DEF CreateFails
<1>3. ThreadsTypeOK'
  BY <1>1, <1>2, JoinKeeps
<1>4. NoThreadLost'
  <2> SUFFICES ASSUME NEW t \in Tid, Joinable(t)'
               PROVE  thread'[t].owner \in alive' /\ handle'[thread'[t].owner] = t
    BY DEF NoThreadLost
  <2>1. thread[t].owner \in alive \ {o} /\ handle[thread[t].owner] = t /\ thread'[t] = thread[t]
    BY <1>1, JoinKeeps DEF Joinable, Live
  <2> QED BY <1>1, <1>2, <2>1
<1>5. HandleIsOwn'
  <2> SUFFICES ASSUME NEW p \in Thr \ suspect', handle'[p] # 0 PROVE Owns(p, handle[p])'
    BY DEF HandleIsOwn
  <2>1. p # o
    BY <1>2
  <2>2. handle'[p] = handle[p] /\ Owns(p, handle[p]) /\ thread'[handle[p]] = thread[handle[p]]
    BY <1>1, <1>2, <2>1, JoinKeeps
  <2> QED BY <2>2 DEF Owns, Joinable, Live
<1> QED BY <1>3, <1>4, <1>5

\* Every step keeps the invariant.
LEMMA ThreadsStep == ThreadsInv /\ [ThreadsNext]_threadVars => ThreadsInv'
<1> SUFFICES ASSUME ThreadsInv, [ThreadsNext]_threadVars PROVE ThreadsInv'
  OBVIOUS
<1> USE DEF ThreadsInv, ThreadsTypeOK, ThreadsSound
<1>1. ASSUME NEW o \in Thr, Construct(o) PROVE ThreadsInv'
  <2>1. /\ alive' = alive \cup {o} /\ o \notin alive /\ handle' = [handle EXCEPT ![o] = 0]
        /\ thread' = thread /\ suspect' = suspect /\ call' = NoCall
        /\ init' \in [Thr -> {0, 1}] /\ attr' = [attr EXCEPT ![o] = [a \in Attribute |-> 0]]
    BY <1>1 DEF Construct
  <2>2. ThreadsTypeOK'
    BY <2>1 DEF Attribute
  <2> QED BY <2>1, <2>2 DEF HandleIsOwn, NoThreadLost, Owns, Joinable, Live
<1>2. ASSUME NEW t \in Tid, ThreadEnds(t) PROVE ThreadsInv'
  <2>1. UNCHANGED <<alive, init, attr, handle, call, suspect>> /\ Live(t)
        /\ thread' = [thread EXCEPT ![t] = IF Joinable(t) THEN [thread[t] EXCEPT !.state = "ended"] ELSE Unused]
    BY <1>2 DEF ThreadEnds
  <2>2. thread[t] \in ThreadRec
    BY <2>1 DEF Live
  <2>3. Joinable(t) => [thread[t] EXCEPT !.state = "ended"] \in ThreadRec
    BY <2>2 DEF ThreadRec
  <2>4. thread' \in [Tid -> {Unused} \cup ThreadRec]
    BY <2>1, <2>3
  <2>5. \A u \in Tid : (Joinable(u) <=> Joinable(u)') /\ (Joinable(u) => thread'[u].owner = thread[u].owner)
    BY <2>1, <2>2 DEF Joinable, Live, ThreadRec
  <2> QED BY <2>1, <2>4, <2>5 DEF HandleIsOwn, NoThreadLost, Owns
<1>3. CASE UNCHANGED threadVars
  BY <1>3 DEF threadVars, HandleIsOwn, NoThreadLost, Owns, Joinable, Live
<1>4. ASSUME NEW o \in Thr, WaitExit(o) \/ CreateSucceeds(o) \/ CreateFails(o) PROVE ThreadsInv'
  <2> HIDE DEF ThreadsInv
  <2> QED BY <1>4, WaitExitInv, CreateSucceedsInv, CreateFailsInv
<1>5. ASSUME NEW o \in Thr, Terminate(o) \/ \E op \in Op : Begin(o, op) PROVE ThreadsInv'
  <2> HIDE DEF ThreadsInv
  <2> QED BY <1>5, BeginInv
<1>6. ASSUME NEW o \in Thr, NEW a \in Attribute, NEW v \in {0, 1}, SetAttribute(o, a, v)
      PROVE  ThreadsInv'
  <2> HIDE DEF ThreadsInv
  <2> QED BY <1>6, AttributeInv
<1> HIDE DEF ThreadsInv
<1> QED BY <1>1, <1>2, <1>3, <1>4, <1>5, <1>6 DEF ThreadsNext

\* Calls of an object act on its own thread, but for the objects under suspicion,
\* and no joinable thread is lost (thread.cpp: create, terminate, wait_exit,
\* shutdown).
THEOREM ThreadsSoundCorrect == ThreadsSpec => []ThreadsSound
<1>1. ThreadsInv => ThreadsSound
  BY DEF ThreadsInv
<1> QED BY <1>1, ThreadsInitInv, ThreadsStep, PTL DEF ThreadsSpec

HIDE ThreadsAssumption DEF SYSTEM, PROCESS, JOINABLE, DETACHED, NoCall, Unused


-----------------------------------------------------------------------------
USE HalfAssumption

\* getAddValue saturates.
LEMMA GetAddValueSaturates ==
  ASSUME NEW v \in Unsigned, NEW u \in Unsigned, NEW max \in Unsigned
  PROVE  GetAddValue(v, u, max) = Least(v + u, max)
  BY DEF Unsigned, GetAddValue, Wrap, Least

\* addValue saturates at zero and at the limit, and wraps past the word.
LEMMA AddValueWraps ==
  ASSUME NEW v \in Unsigned, NEW i \in Signed, NEW max \in Unsigned
  PROVE  AddValue(v, i, max) =
           LET n == v + i IN
           Least(IF n < 0 THEN 0 ELSE IF n >= 2 * Half THEN n - 2 * Half ELSE n, max)
  BY DEF Unsigned, Signed, AddValue, Wrap, Least

\* updateUint does what canUpdateUint said.
LEMMA UpdateUintExact ==
  ASSUME NEW v \in Unsigned, NEW i \in Signed, NEW max \in Unsigned
  PROVE  /\ CanUpdateUint(v, i, max) /\ i # 0 => UpdateUint(v, i, max) = v + i
         /\ ~CanUpdateUint(v, i, max) =>
              UpdateUint(v, i, max) = IF i < 0 THEN 0 ELSE max
         /\ \/ UpdateUint(v, i, max) <= max
            \/ i < 0 /\ UpdateUint(v, i, max) < v
  BY DEF Unsigned, Signed, CanUpdateUint, UpdateUint, Passed, Wrap

\* A word is its own remainder.
LEMMA WordKept == ASSUME NEW n \in Unsigned PROVE Wrap(n) = n
  BY DEF Unsigned, Wrap

\* The three tests see exactly the sums past the limit; the others do not wrap.
LEMMA PassedExactly ==
  ASSUME NEW v \in Unsigned, NEW u \in Unsigned, NEW max \in Unsigned
  PROVE  /\ Passed(Wrap(v + u), v, u, max) <=> v + u > max
         /\ v + u <= max => Wrap(v + u) = v + u
  BY DEF Unsigned, Wrap, Passed

\* A transfer conserves what it moves: the part that fits, or all there is.
LEMMA TransferConserves ==
  ASSUME NEW v \in Unsigned, NEW u \in Unsigned, NEW max \in Unsigned, NEW add \in BOOLEAN
  PROVE  /\ v <= max =>
              /\ Transfer(v, u, add, max).out <= max
              /\ add => Transfer(v, u, add, max).out + Transfer(v, u, add, max).rest = v + u
              /\ CanTransfer(v, u, add, max) <=> Transfer(v, u, add, max).rest = 0
         /\ ~add => v - Transfer(v, u, add, max).out = u - Transfer(v, u, add, max).rest
<1>. DEFINE t == IF add THEN IF Passed(Wrap(v + u), v, u, max) THEN max ELSE Wrap(v + u)
                 ELSE IF v >= u THEN v - u ELSE 0
            r == Wrap(u - Wrap(IF add THEN t - v ELSE v - t))
<1>1. Transfer(v, u, add, max).out = t /\ Transfer(v, u, add, max).rest = r
  BY DEF Transfer
<1>2. CASE add
  <2>1. CASE Passed(Wrap(v + u), v, u, max)
    <3>1. t = max /\ r = Wrap(u - Wrap(max - v)) /\ v + u > max
      BY <1>2, <2>1, PassedExactly
    <3>2. v <= max => r = u - (max - v) /\ r # 0
      <4>1. ASSUME v <= max
            PROVE  /\ max - v \in Unsigned /\ u - (max - v) \in Unsigned
                   /\ u - (max - v) # 0
        BY <3>1, <4>1 DEF Unsigned
      <4>. HIDE DEF t, r
      <4>. QED
        BY <3>1, <4>1, WordKept
    <3>3. CanTransfer(v, u, add, max) <=> u = 0
      BY <1>2, <2>1 DEF CanTransfer
    <3>. HIDE DEF t, r
    <3>4. v <= max => t <= max /\ t + r = v + u /\ (u = 0 <=> r = 0)
      BY <3>1, <3>2 DEF Unsigned
    <3>. QED
      BY <1>1, <1>2, <3>3, <3>4, Zenon
  <2>2. CASE ~Passed(Wrap(v + u), v, u, max)
    <3>1. t = v + u /\ t <= max /\ r = Wrap(u - Wrap(t - v))
      <4>1. v + u <= max
        BY <2>2, PassedExactly DEF Unsigned
      <4>2. t = Wrap(v + u)
        BY <1>2, <2>2
      <4>. QED
        BY <1>2, <4>1, <4>2, PassedExactly
    <3>2. r = 0
      <4>1. t - v = u /\ u - u = 0 /\ 0 \in Unsigned
        BY <3>1 DEF Unsigned
      <4>. HIDE DEF t, r
      <4>. QED
        BY <3>1, <4>1, WordKept
    <3>3. CanTransfer(v, u, add, max)
      BY <1>2, <2>2 DEF CanTransfer
    <3>. HIDE DEF t, r
    <3>4. t + r = v + u
      BY <3>1, <3>2 DEF Unsigned
    <3>. QED
      BY <1>1, <1>2, <3>1, <3>2, <3>3, <3>4, Zenon
  <2>. QED
    BY <2>1, <2>2
<1>3. CASE ~add
  <2>1. /\ t = IF v >= u THEN v - u ELSE 0
        /\ r = Wrap(u - Wrap(v - t))
    BY <1>3
  <2>2. r = IF v >= u THEN 0 ELSE u - v
    <3>1. CASE v >= u
      <4>1. t = v - u /\ v - t = u /\ u - u = 0 /\ 0 \in Unsigned
        BY <2>1, <3>1 DEF Unsigned
      <4>. HIDE DEF t, r
      <4>. QED
        BY <2>1, <3>1, <4>1, WordKept
    <3>2. CASE ~(v >= u)
      <4>1. t = 0 /\ v - t = v /\ u - v \in Unsigned
        BY <2>1, <3>2 DEF Unsigned
      <4>. HIDE DEF t, r
      <4>. QED
        BY <2>1, <3>2, <4>1, WordKept
    <3>. QED
      BY <3>1, <3>2
  <2>3. CanTransfer(v, u, add, max) <=> v >= u
    BY <1>3 DEF CanTransfer, Unsigned
  <2>. HIDE DEF t, r
  <2>. QED
    BY <1>1, <1>3, <2>1, <2>2, <2>3 DEF Unsigned
<1>. QED
  BY <1>2, <1>3

\* A signed update stays within its limits, and is exact or cut when the sum is
\* a word.
LEMMA UpdateIntSaturates ==
  ASSUME NEW v \in Signed, NEW i \in Signed, NEW max \in Signed, NEW min \in Signed,
         i # 0, NEW out \in UpdateInt(v, i, max, min)
  PROVE  /\ min <= out /\ out <= Upper(max, min)
         /\ v + i \in Signed => out = Cut(v + i, max, min)
  BY DEF Signed, UpdateInt, SignedWrap, Cut, Upper, BothNegative, BothPositive

\* canUpdateInt64 checks the limit that the signs point to.
LEMMA CanUpdateIntLimits ==
  ASSUME NEW v \in Signed, NEW i \in Signed, NEW max \in Signed, NEW min \in Signed,
         i # 0, v + i \in Signed, NEW can \in CanUpdateInt(v, i, max, min)
  PROVE  /\ BothNegative(v, i) => (can <=> v + i >= min)
         /\ BothPositive(v, i) => (can <=> v + i <= Upper(max, min))
<1>1. SignedWrap(v + i) = v + i
  BY DEF Signed, SignedWrap
<1>2. can = /\ IF BothNegative(v, i) THEN v + i >= min
               ELSE BothPositive(v, i) => v + i <= Upper(max, min)
            /\ BothNegative(v, i) => v + i <= 0
            /\ BothPositive(v, i) => v + i >= 0
  BY <1>1 DEF CanUpdateInt
<1>. QED
  BY <1>2 DEF Signed, BothNegative, BothPositive

\* setInt cuts what it changes.
LEMMA SetIntCuts ==
  ASSUME NEW old \in Signed, NEW new \in Signed, NEW max \in Signed, NEW min \in Signed
  PROVE  /\ SetInt(old, new, max, min).ok <=> old # new
         /\ old # new => /\ min <= SetInt(old, new, max, min).out
                         /\ SetInt(old, new, max, min).out <= Upper(max, min)
         /\ old = new => SetInt(old, new, max, min).out = old
  BY DEF Signed, SetInt, Cut, Upper

\* Every call of the arithmetic keeps its promise, for words of any width.
THEOREM ArithmeticSoundCorrect == ArithmeticSpec => []ArithmeticSound
<1>1. ArithmeticInit => ArithmeticSound
  BY DEF ArithmeticInit, NoSum, ArithmeticSound, AddSound, UpdateUintSound, TransferSound,
         UpdateIntSound, SetIntSound
<1>2. ArithmeticSound /\ [ArithmeticNext]_arith => ArithmeticSound'
  <2> SUFFICES ASSUME ArithmeticSound, [ArithmeticNext]_arith PROVE ArithmeticSound'
    OBVIOUS
  <2>. USE DEF ArithmeticSound, AddSound, UpdateUintSound, TransferSound, UpdateIntSound,
               SetIntSound
  <2>1. CASE CallGetAddValue
    BY <2>1, GetAddValueSaturates DEF CallGetAddValue
  <2>2. CASE CallAddValue
    BY <2>2, AddValueWraps DEF CallAddValue
  <2>3. CASE CallUpdateUint
    BY <2>3, UpdateUintExact DEF CallUpdateUint
  <2>4. CASE CallTransfer
    BY <2>4, TransferConserves DEF CallTransfer
  <2>5. CASE CallSetInt
    BY <2>5, SetIntCuts DEF CallSetInt
  <2>6. CASE CallUpdateInt
    <3>1. PICK v \in Signed, i \in Signed, max \in Signed, min \in Signed :
            \E can \in CanUpdateInt(v, i, max, min), out \in UpdateInt(v, i, max, min) :
              arith' = [fn |-> "updateInt", v |-> v, u |-> i, max |-> max, min |-> min,
                        can |-> can, out |-> out]
      BY <2>6 DEF CallUpdateInt
    <3>2. PICK can \in CanUpdateInt(v, i, max, min), out \in UpdateInt(v, i, max, min) :
            arith' = [fn |-> "updateInt", v |-> v, u |-> i, max |-> max, min |-> min,
                      can |-> can, out |-> out]
      BY <3>1
    <3>3. i # 0 => /\ min <= out /\ out <= Upper(max, min)
                   /\ v + i \in Signed => out = Cut(v + i, max, min)
      BY UpdateIntSaturates
    <3>4. i # 0 /\ v + i \in Signed =>
            /\ BothNegative(v, i) => (can <=> v + i >= min)
            /\ BothPositive(v, i) => (can <=> v + i <= Upper(max, min))
      BY CanUpdateIntLimits
    <3>. QED
      BY <3>2, <3>3, <3>4
  <2>7. CASE arith' = NoSum \/ UNCHANGED arith
    BY <2>7 DEF NoSum
  <2>. QED
    BY <2>1, <2>2, <2>3, <2>4, <2>5, <2>6, <2>7 DEF ArithmeticNext, Call
<1>. QED
  BY <1>1, <1>2, PTL DEF ArithmeticSpec
==============================================================================
