------------------------ MODULE MessageQueue_Proofs -------------------------
(***************************************************************************)
(* Proofs about MessageQueue for any number of producers and any limit:    *)
(* the inductive invariant IndInv, and from it ConsumerAlone and           *)
(* QueueBound.  TypeOK, LocksHeld and Pointers carry the exclusion between *)
(* consumer and producers; Growth counts what the producers that are past  *)
(* the test can still add.  With OneQueue and FreshRead, the two pools     *)
(* implement the two lanes of a channel, and every element is accounted    *)
(* for, those that swallowed exceptions lose included.                     *)
(***************************************************************************)
EXTENDS MessageQueue, FiniteSetTheorems, SequenceTheorems, TLAPS

USE MqAssumption DEF Place

\* The initial state has two empty pools, free mutexes and idle threads.
LEMMA InitInv == Init => IndInv
<1>1. ASSUME Init PROVE TypeOK
  <2>1. EmptyPool \in Pool(Obj)
    BY DEF EmptyPool, Pool
  <2>2. pool \in [Inst -> Pool(Obj)] /\ seen \in [Producer -> Pool(Obj)]
    BY <1>1, <2>1 DEF Init
  <2>3. message \in [{"pop", "push"} -> Inst]
    BY <1>1 DEF Init, Inst
  <2>4. owner \in [Inst -> Thread \cup {"none"}] /\ chosen \in [Producer -> Inst]
    BY <1>1 DEF Init, Inst
  <2>5. val \in [Producer -> Obj \cup {0}]
    BY <1>1, 0 \in Obj \cup {0} DEF Init
  <2>6. todo \in [Producer -> 0 .. MaxPush]
    BY <1>1, MaxPush \in 0 .. MaxPush DEF Init
  <2>7. nobj \in 0 .. MaxObj
    BY <1>1 DEF Init
  <2>8. raced \in BOOLEAN /\ lost \in Seq(Obj)
    <3>1. raced = FALSE /\ lost = <<>>
      BY <1>1 DEF Init
    <3>2. <<>> \in Seq(Obj)
      OBVIOUS
    <3>. QED
      BY <3>1, <3>2
  <2>9. pc \in [Thread -> Place]
    BY <1>1 DEF Init
  <2>. QED
    BY <1>1, <2>2, <2>3, <2>4, <2>5, <2>6, <2>7, <2>8,
       <2>9 DEF TypeOK
<1>2. ASSUME Init PROVE LocksHeld /\ Pointers /\ PopReady /\ TakeReady /\ Growth
  BY <1>2 DEF Init, LocksHeld, Pointers, PopReady, TakeReady, Growth, Inst, Thread, EmptyPool,
              Writers, Writing, InHand, PushPool
<1>. QED
  BY <1>1, <1>2 DEF IndInv

\* Writers hold the mutexes they chose, so there are two of them at most, and
\* none while the consumer holds both.
LEMMA TwoWriters ==
  ASSUME IndInv
  PROVE  /\ \A p, q \in Writers : p # q => chosen[p] # chosen[q]
         /\ \A p, q, r \in Writers : p # q /\ q # r => p = r
         /\ pc["consumer"] \in {"swap2", "swap3", "reset2", "clear0", "clear1"} => Writers = {}
<1>1. \A p \in Writers : /\ p \in Producer /\ chosen[p] \in {0, 1}
                         /\ owner[chosen[p]] = p
  BY DEF IndInv, TypeOK, LocksHeld, Writers, Writing, Inst
<1>2. \A p, q \in Writers : p # q => chosen[p] # chosen[q]
  BY <1>1
<1>3. \A p, q, r \in Writers : p # q /\ q # r => p = r
  BY <1>1
<1>4. pc["consumer"] \in {"swap2", "swap3", "reset2", "clear0", "clear1"} => Writers = {}
  BY <1>1 DEF IndInv, LocksHeld, Inst
<1>. QED
  BY <1>2, <1>3, <1>4

\* Choosing a mutex takes a producer nowhere near the pools.
LEMMA ChooseInv ==
  ASSUME IndInv, NEW p \in Producer, Choose(p)
  PROVE  IndInv'
<1>1. TypeOK'
  BY DEF IndInv, TypeOK, Choose, Goto, Thread, Inst
<1>2. LocksHeld' /\ Pointers' /\ PopReady' /\ TakeReady'
  BY DEF IndInv, TypeOK, LocksHeld, Pointers, PopReady, PopPool, TakeReady, Choose, Goto, Thread
<1>3. Growth'
  BY DEF IndInv, TypeOK, Growth, Choose, Goto, Thread, Writers, Writing, InHand, PushPool
<1>. QED
  BY <1>1, <1>2, <1>3 DEF IndInv

\* A mutex is taken only when nobody holds it.
LEMMA AcquireInv ==
  ASSUME IndInv, NEW p \in Producer, Acquire(p)
  PROVE  IndInv'
<1>1. TypeOK'
  BY DEF IndInv, TypeOK, Acquire, Lock, Goto, Thread, Inst
<1>2. LocksHeld' /\ Pointers' /\ PopReady' /\ TakeReady'
  BY DEF IndInv, TypeOK, LocksHeld, Pointers, PopReady, PopPool, TakeReady, Acquire, Lock, Goto, Thread, Inst
<1>3. Growth'
  BY DEF IndInv, TypeOK, Growth, Acquire, Goto, Thread, Writers, Writing, InHand, PushPool
<1>. QED
  BY <1>1, <1>2, <1>3 DEF IndInv

\* A refused producer gives back its own mutex only.
LEMMA RefuseInv ==
  ASSUME IndInv, NEW p \in Producer, Refuse(p)
  PROVE  IndInv'
<1>1. TypeOK'
  BY DEF IndInv, TypeOK, Refuse, Leave, Goto, Thread, Inst
<1>2. LocksHeld' /\ Pointers' /\ PopReady' /\ TakeReady'
  BY DEF IndInv, TypeOK, LocksHeld, Pointers, PopReady, PopPool, TakeReady, Refuse, Leave, Goto, Thread, Inst
<1>3. Growth'
  BY DEF IndInv, TypeOK, Growth, Refuse, Leave, Goto, Thread, Writers, Writing, InHand, PushPool
<1>. QED
  BY <1>1, <1>2, <1>3 DEF IndInv

\* An admitted producer saw QueueMax messages at most, so everybody's budget
\* is back at its start.
LEMMA AdmitInv ==
  ASSUME IndInv, NEW p \in Producer, Admit(p)
  PROVE  IndInv'
<1>1. TypeOK'
  BY DEF IndInv, TypeOK, Admit, Goto, Thread, Inst
<1>2. LocksHeld' /\ Pointers' /\ PopReady' /\ TakeReady'
  BY DEF IndInv, TypeOK, LocksHeld, Pointers, PopReady, PopPool, TakeReady, Admit, Goto, Thread, Inst
<1>3. Growth'
  <2>. SUFFICES ASSUME QueueMax # 0
                PROVE  Growth'
    BY DEF Growth
  <2>1. Len(PushPool.use) \in Nat /\ Len(PushPool.use) <= QueueMax
    BY DEF IndInv, TypeOK, Admit, Full, PushPool, Pool
  <2>2. /\ \A q \in Producer \ {p} : pc'[q] = pc[q]
        /\ pc'[p] = "take"
        /\ UNCHANGED <<pool, message, seen>>
    BY DEF IndInv, TypeOK, Admit, Goto, Thread
  <2>3. InHand' = InHand
    BY <2>2 DEF InHand, Admit
  <2>. QED
    BY <2>1, <2>2, <2>3 DEF IndInv, Growth, PushPool
<1>. QED
  BY <1>1, <1>2, <1>3 DEF IndInv

\* _build allocates n elements and loses none or, of the same sort, the next.
LEMMA AllocatesIs ==
  ASSUME nobj \in 0 .. MaxObj, lost \in Seq(Obj), NEW n \in 0 .. BlockSize,
         NEW leaks \in BOOLEAN, Allocates(n, leaks)
  PROVE  /\ nobj + n <= MaxObj /\ nobj' \in 0 .. MaxObj /\ lost' \in Seq(Obj)
         /\ \/ nobj' = nobj + n /\ lost' = lost
            \/ /\ nobj' = nobj + n + 1 /\ nobj + n + 1 \in Obj
               /\ lost' = Append(lost, nobj + n + 1)
<1>1. CASE leaks
  <2>1. /\ nobj' = nobj + (n + 1) /\ nobj + (n + 1) <= MaxObj
        /\ lost' = Append(lost, nobj + (n + 1))
    BY <1>1 DEF Allocates
  <2>2. nobj + (n + 1) = nobj + n + 1 /\ nobj + n + 1 \in Obj
    BY <2>1 DEF Obj
  <2>. QED
    BY <2>1, <2>2
<1>2. CASE ~leaks
  BY <1>2 DEF Allocates
<1>. QED
  BY <1>1, <1>2

\* _malloc adds to the free queue of the push pool and touches no queue in use.
LEMMA TakeInv ==
  ASSUME IndInv, NEW p \in Producer, Take(p)
  PROVE  IndInv'
<1>1. PICK n \in 0 .. BlockSize, leaks \in BOOLEAN :
        /\ Allocates(n, leaks)
        /\ pool' = [pool EXCEPT ![message["push"]] = Built(PushPool, nobj + 1, n)]
        /\ \/ Leave(p) /\ UNCHANGED seen
           \/ /\ Built(PushPool, nobj + 1, n).free # <<>>
              /\ Goto(p, "link") /\ UNCHANGED <<owner, chosen>>
              /\ seen' = [seen EXCEPT ![p] = Built(PushPool, nobj + 1, n)]
  BY DEF Take
<1>. DEFINE ready == Built(PushPool, nobj + 1, n)
<1>2. /\ message["push"] \in Inst /\ message["pop"] \in Inst
      /\ nobj \in Nat /\ nobj + n <= MaxObj
      /\ nobj' \in 0 .. MaxObj /\ lost' \in Seq(Obj)
      /\ PushPool \in Pool(Obj)
  <2>1. nobj \in 0 .. MaxObj /\ lost \in Seq(Obj)
    BY DEF IndInv, TypeOK
  <2>2. nobj + n <= MaxObj /\ nobj' \in 0 .. MaxObj /\ lost' \in Seq(Obj)
    BY <1>1, <2>1, AllocatesIs
  <2>. QED
    BY <2>2 DEF IndInv, TypeOK, PushPool
<1>3. [i \in 1 .. n |-> nobj + 1 + i - 1] \in Seq(Obj)
  <2>1. n \in Nat /\ \A i \in 1 .. n : nobj + 1 + i - 1 \in Obj
    BY <1>2 DEF Obj
  <2>. QED
    BY <2>1
<1>4. ready \in Pool(Obj) /\ ready.use = PushPool.use
  <2>1. /\ PushPool.use \in Seq(Obj)
        /\ PushPool.free \o [i \in 1 .. n |-> nobj + 1 + i - 1] \in Seq(Obj)
    BY <1>2, <1>3 DEF Pool
  <2>. QED
    BY <1>2, <2>1 DEF Pool, Built
<1>5. /\ pool' \in [Inst -> Pool(Obj)]
      /\ \A i \in Inst : pool'[i].use = pool[i].use
      /\ UNCHANGED <<message, val, todo, raced>>
  BY <1>1, <1>2, <1>4 DEF IndInv, TypeOK, PushPool, Take
<1>6. /\ pc[p] = "take"
      /\ \A t \in Thread \ {p} : pc'[t] = pc[t]
      /\ pc'[p] \in {"idle", "link"}
      /\ pc' \in [Thread -> Place]
      /\ seen' \in [Producer -> Pool(Obj)]
      /\ \A q \in Producer \ {p} : seen'[q] = seen[q]
      /\ pc'[p] = "link" => seen'[p].free # <<>> /\ owner' = owner /\ chosen' = chosen
      /\ pc'[p] = "idle" => /\ owner' = [owner EXCEPT ![chosen[p]] = "none"]
                            /\ chosen' = [chosen EXCEPT ![p] = 0]
  <2>1. pc[p] = "take" /\ p \in Thread
    BY DEF Take, Thread
  <2>. HIDE DEF ready
  <2>2. CASE Leave(p) /\ UNCHANGED seen
    BY <2>1, <2>2 DEF IndInv, TypeOK, Goto, Leave
  <2>3. CASE /\ Goto(p, "link") /\ UNCHANGED <<owner, chosen>>
             /\ ready.free # <<>>
             /\ seen' = [seen EXCEPT ![p] = ready]
    BY <1>4, <2>1, <2>3 DEF IndInv, TypeOK, Goto
  <2>. QED
    BY <1>1, <2>2, <2>3 DEF ready
<1>7. TypeOK'
  <2>1. owner' \in [Inst -> Thread \cup {"none"}] /\ chosen' \in [Producer -> Inst]
    <3>1. /\ owner \in [Inst -> Thread \cup {"none"}] /\ chosen \in [Producer -> Inst]
          /\ 0 \in Inst /\ "none" \in Thread \cup {"none"}
      BY DEF IndInv, TypeOK, Inst
    <3>2. CASE pc'[p] = "link"
      BY <1>6, <3>1, <3>2
    <3>3. CASE pc'[p] = "idle"
      BY <1>6, <3>1, <3>3
    <3>. QED
      BY <1>6, <3>2, <3>3
  <2>. QED
    BY <1>2, <1>5, <1>6, <2>1 DEF IndInv, TypeOK
<1>8. LocksHeld' /\ Pointers' /\ PopReady' /\ TakeReady'
  <2>1. LocksHeld'
    <3>1. /\ "consumer" # p /\ "consumer" \in Thread /\ pc'["consumer"] = pc["consumer"]
          /\ owner[chosen[p]] = p /\ chosen[p] \in Inst
      BY <1>6 DEF IndInv, TypeOK, LocksHeld, Thread
    <3>2. \A i \in Inst : owner[i] # p => owner'[i] = owner[i]
      BY <1>6, <3>1 DEF IndInv, TypeOK
    <3>3. \A q \in Producer : pc'[q] \in {"check", "take", "link", "commit"} =>
                              owner'[chosen'[q]] = q
      <4>. SUFFICES ASSUME NEW q \in Producer, pc'[q] \in {"check", "take", "link", "commit"}
                    PROVE  owner'[chosen'[q]] = q
        OBVIOUS
      <4>1. CASE q = p
        BY <1>6, <3>1, <4>1
      <4>2. CASE q # p
        <5>1. pc'[q] = pc[q] /\ chosen'[q] = chosen[q] /\ chosen[q] \in Inst
          BY <1>6, <4>2 DEF IndInv, TypeOK, Thread
        <5>2. owner[chosen[q]] = q
          BY <5>1 DEF IndInv, LocksHeld
        <5>. QED
          BY <3>2, <4>2, <5>1, <5>2
      <4>. QED
        BY <4>1, <4>2
    <3>4. \A i \in Inst : owner[i] = "consumer" => owner'[i] = "consumer"
      BY <3>1, <3>2
    <3>. QED
      BY <3>1, <3>3, <3>4 DEF IndInv, LocksHeld, Inst
  <2>2. Pointers' /\ PopReady' /\ TakeReady'
    <3>1. pc'["consumer"] = pc["consumer"]
      BY <1>6 DEF Thread
    <3>2. Pointers' /\ PopReady'
      BY <1>2, <1>5, <3>1 DEF IndInv, Pointers, PopReady, PopPool, Inst
    <3>3. TakeReady'
      BY <1>5, <1>6 DEF IndInv, TakeReady, Thread
    <3>. QED
      BY <3>2, <3>3
  <2>. QED
    BY <2>1, <2>2
<1>9. Growth'
  <2>1. InHand' = InHand /\ Writers' \subseteq Writers
    BY <1>6 DEF InHand, Writers, Writing, Thread
  <2>2. /\ p \notin InHand /\ Len(PushPool'.use) = Len(PushPool.use)
        /\ \A q \in InHand : seen'[q] = seen[q]
    BY <1>2, <1>5, <1>6 DEF InHand, PushPool
  <2>. QED
    BY <1>5, <2>1, <2>2 DEF IndInv, Growth, PushPool
<1>. QED
  BY <1>7, <1>8, <1>9 DEF IndInv

\* The element read by Take leaves the free queue; what the use queue is now is
\* remembered.
LEMMA LinkInv ==
  ASSUME IndInv, NEW p \in Producer, Link(p)
  PROVE  IndInv'
<1>1. /\ message["push"] \in Inst /\ message["pop"] \in Inst
      /\ PushPool \in Pool(Obj) /\ seen[p] \in Pool(Obj)
      /\ pc[p] = "link"
  BY DEF IndInv, TypeOK, PushPool, Link
<1>0. seen[p].free # <<>>
  BY <1>1, Zenon DEF IndInv, TakeReady
<1>2. Head(seen[p].free) \in Obj /\ Tail(seen[p].free) \in Seq(Obj)
  BY <1>0, <1>1 DEF Pool
<1>3. /\ pool' = [pool EXCEPT ![message["push"]] =
                     [PushPool EXCEPT !.free = Tail(seen[p].free)]]
      /\ UNCHANGED <<message, owner, nobj, chosen, todo, raced, lost>>
  BY DEF Link, PushPool
<1>4. [PushPool EXCEPT !.free = Tail(seen[p].free)] \in Pool(Obj)
  BY <1>1, <1>2 DEF Pool
<1>5. /\ pool' \in [Inst -> Pool(Obj)]
      /\ \A i \in Inst : pool'[i].use = pool[i].use
  BY <1>1, <1>3, <1>4 DEF IndInv, TypeOK, PushPool
<1>6. /\ \A t \in Thread \ {p} : pc'[t] = pc[t]
      /\ pc'[p] = "commit"
      /\ \A q \in Producer \ {p} : seen'[q] = seen[q]
      /\ seen'[p] = PushPool
  BY DEF IndInv, TypeOK, Link, Goto, Thread
<1>7. TypeOK'
  BY <1>1, <1>2, <1>3, <1>5 DEF IndInv, TypeOK, Link, Goto, Thread
<1>8. LocksHeld' /\ Pointers' /\ PopReady' /\ TakeReady'
  <2>1. val'[p] \in Obj
    BY <1>2 DEF Link, IndInv, TypeOK
  <2>2. /\ pc' \in [Thread -> Place]
        /\ \A q \in Producer \ {p} : val'[q] = val[q]
        /\ "consumer" # p
    BY <1>7 DEF TypeOK, Link, IndInv
  <2>3. LocksHeld' /\ Pointers' /\ PopReady'
    <3>1. pc'["consumer"] = pc["consumer"]
      BY <1>6, <2>2 DEF Thread
    <3>2. LocksHeld'
      BY <1>1, <1>3, <1>6, <2>2, <3>1 DEF IndInv, LocksHeld, Thread
    <3>. QED
      BY <1>1, <1>3, <1>5, <3>1, <3>2 DEF IndInv, Pointers, PopReady, PopPool, Inst
  <2>4. TakeReady'
    BY <1>6, <2>1, <2>2 DEF IndInv, TakeReady, Thread
  <2>. QED
    BY <2>3, <2>4
<1>9. Growth'
  <2>. SUFFICES ASSUME QueueMax # 0 PROVE Growth'
    BY DEF Growth
  <2>1. Writers' = Writers /\ InHand' = InHand \cup {p} /\ p \in Writers
    BY <1>1, <1>6 DEF InHand, Writers, Writing, Thread
  <2>2. Len(PushPool'.use) = Len(PushPool.use) /\ Len(PushPool.use) \in Nat
    BY <1>1, <1>3, <1>5 DEF PushPool, Pool
  <2>3. Len(PushPool.use) <= QueueMax + 1
    BY <2>1 DEF IndInv, Growth
  <2>4. \A q \in InHand \ {p} : seen'[q] = seen[q]
    BY <1>6 DEF InHand
  <2>5. \A q \in InHand' : \/ Len(seen'[q].use) <= QueueMax
                           \/ /\ Len(seen'[q].use) = QueueMax + 1
                              /\ Len(PushPool'.use) = QueueMax + 1
    BY <1>6, <2>1, <2>2, <2>3, <2>4 DEF IndInv, Growth
  <2>. QED
    BY <1>5, <2>1, <2>2, <2>5 DEF IndInv, Growth
<1>. QED
  BY <1>7, <1>8, <1>9 DEF IndInv

\* The message is appended to the use queue as it was read.  If it grows that
\* queue beyond QueueMax + 1, no other producer is at work.
LEMMA CommitInv ==
  ASSUME IndInv, NEW p \in Producer, Commit(p)
  PROVE  IndInv'
<1>. DEFINE written == Append(seen[p].use, val[p])
<1>1. /\ message["push"] \in Inst /\ message["pop"] \in Inst
      /\ PushPool \in Pool(Obj) /\ seen[p] \in Pool(Obj)
      /\ pc[p] = "commit" /\ val[p] \in Obj
  BY DEF IndInv, TypeOK, TakeReady, PushPool, Commit
<1>2. /\ written \in Seq(Obj) /\ Len(written) = Len(seen[p].use) + 1
      /\ Len(seen[p].use) \in Nat
  BY <1>1 DEF Pool
<1>3. /\ \/ /\ pool' = [pool EXCEPT ![message["push"]] = [PushPool EXCEPT !.use = written]]
            /\ lost' = lost
         \/ pool' = pool /\ lost' = Append(lost, val[p])
      /\ UNCHANGED <<message, nobj, todo, raced>>
  BY DEF Commit, PushPool
<1>4. [PushPool EXCEPT !.use = written] \in Pool(Obj)
  BY <1>1, <1>2 DEF Pool
<1>5. /\ pool' \in [Inst -> Pool(Obj)] /\ lost' \in Seq(Obj)
      /\ pool'[message["push"]].use \in {written, PushPool.use}
      /\ \A i \in Inst : i # message["push"] => pool'[i] = pool[i]
  <2>1. pool \in [Inst -> Pool(Obj)] /\ lost \in Seq(Obj) /\ PushPool = pool[message["push"]]
    BY DEF IndInv, TypeOK, PushPool
  <2>2. CASE /\ pool' = [pool EXCEPT ![message["push"]] = [PushPool EXCEPT !.use = written]]
             /\ lost' = lost
    <3>1. [PushPool EXCEPT !.use = written].use = written
      BY <1>1 DEF Pool
    <3>. QED
      BY <1>1, <1>4, <2>1, <2>2, <3>1
  <2>3. CASE pool' = pool /\ lost' = Append(lost, val[p])
    BY <1>1, <2>1, <2>3
  <2>. QED
    BY <1>3, <2>2, <2>3
<1>6. /\ \A t \in Thread \ {p} : pc'[t] = pc[t]
      /\ pc'[p] = "idle"
      /\ \A q \in Producer \ {p} : seen'[q] = seen[q] /\ chosen'[q] = chosen[q]
      /\ EmptyPool \in Pool(Obj)
  BY DEF IndInv, TypeOK, Commit, Leave, Goto, Thread, EmptyPool, Pool
<1>7. TypeOK'
  BY <1>1, <1>3, <1>5, <1>6 DEF IndInv, TypeOK, Commit, Leave, Goto, Thread, Inst
<1>8. LocksHeld' /\ Pointers' /\ PopReady' /\ TakeReady'
  <2>1. /\ owner' = [owner EXCEPT ![chosen[p]] = "none"]
        /\ \A q \in Producer \ {p} : val'[q] = val[q]
        /\ owner[chosen[p]] = p /\ chosen[p] \in Inst
        /\ "consumer" # p
    BY <1>1 DEF IndInv, TypeOK, LocksHeld, Commit, Leave
  <2>2. \A i \in Inst : owner[i] # p => owner'[i] = owner[i]
    BY <2>1 DEF IndInv, TypeOK
  <2>3. LocksHeld'
    <3>1. \A q \in Producer : pc'[q] \in {"check", "take", "link", "commit"} =>
                              owner'[chosen'[q]] = q
      <4>. SUFFICES ASSUME NEW q \in Producer, pc'[q] \in {"check", "take", "link", "commit"}
                    PROVE  owner'[chosen'[q]] = q
        OBVIOUS
      <4>1. q # p /\ pc'[q] = pc[q] /\ chosen'[q] = chosen[q] /\ chosen[q] \in Inst
        BY <1>6 DEF Thread, IndInv, TypeOK
      <4>2. owner[chosen[q]] = q
        BY <4>1 DEF IndInv, LocksHeld
      <4>. QED
        BY <2>2, <4>1, <4>2
    <3>2. pc'["consumer"] = pc["consumer"]
      BY <1>6, <2>1 DEF Thread
    <3>3. \A i \in Inst : owner[i] = "consumer" => owner'[i] = "consumer"
      BY <2>1, <2>2
    <3>. QED
      BY <3>1, <3>2, <3>3 DEF IndInv, LocksHeld, Inst
  <2>4. Pointers' /\ PopReady'
    <3>1. pc'["consumer"] = pc["consumer"] /\ message' = message
      BY <1>3, <1>6, <2>1 DEF Thread
    <3>2. p \in Writers
      BY <1>1 DEF Writers, Writing
    <3>3. pc["consumer"] \notin {"swap2", "swap3", "reset2", "clear0", "clear1"}
      BY <3>2, TwoWriters
    <3>4. message["pop"] # message["push"] /\ pool'[message["pop"]] = pool[message["pop"]]
      BY <1>1, <1>5, <3>3 DEF IndInv, Pointers
    <3>. QED
      BY <3>1, <3>3, <3>4 DEF IndInv, Pointers, PopReady, PopPool
  <2>5. TakeReady'
    BY <1>6, <2>1 DEF IndInv, TakeReady, Thread
  <2>. QED
    BY <2>3, <2>4, <2>5
<1>9. Growth'
  <2>. SUFFICES ASSUME QueueMax # 0 PROVE Growth'
    BY DEF Growth
  <2>1. Writers' = Writers \ {p} /\ InHand' = InHand \ {p} /\ p \in Writers
        /\ p \in InHand /\ InHand \subseteq Writers
    BY <1>1, <1>6 DEF InHand, Writers, Writing, Thread
  <2>2. /\ PushPool'.use \in {written, PushPool.use} /\ Len(PushPool.use) \in Nat
        /\ \A q \in InHand' : seen'[q] = seen[q]
    BY <1>1, <1>3, <1>5, <1>6, <2>1 DEF PushPool, Pool, InHand
  <2>3. \/ Len(seen[p].use) <= QueueMax
        \/ /\ Len(seen[p].use) = QueueMax + 1
           /\ Len(PushPool.use) = QueueMax + 1
    BY <2>1 DEF IndInv, Growth
  <2>4. \A q \in Writers' : Len(PushPool.use) <= QueueMax
    BY <2>1 DEF IndInv, Growth
  <2>5. \A q \in Writers' : Len(PushPool'.use) <= QueueMax + 1
    BY <1>2, <2>2, <2>3, <2>4
  <2>6. \A q, r \in Writers' : q = r
    BY <2>1, TwoWriters
  <2>7. \A q \in InHand' : Len(seen'[q].use) <= QueueMax
    <3>. SUFFICES ASSUME NEW q \in InHand' PROVE Len(seen[q].use) <= QueueMax
      BY <2>2
    <3>1. Len(PushPool.use) <= QueueMax /\ q \in InHand
      BY <2>1, <2>4
    <3>. QED
      BY <2>2, <3>1 DEF IndInv, Growth
  <2>8. Len(written) <= QueueMax + 2
    BY <1>2, <2>3
  <2>9. \A i \in Inst : Len(pool'[i].use) <= QueueMax + 2
    BY <1>5, <2>8 DEF IndInv, Growth, PushPool
  <2>. QED
    BY <2>2, <2>5, <2>6, <2>7, <2>9 DEF Growth
<1>. QED
  BY <1>7, <1>8, <1>9 DEF IndInv

\* front looks at the pop pool and changes nothing but the consumer's place.
LEMMA FrontInv == ASSUME IndInv, ConsumerFront PROVE IndInv'
<1>1. TypeOK'
  BY DEF IndInv, TypeOK, ConsumerFront, Goto, Thread
<1>2. /\ \A p \in Producer : pc'[p] = pc[p]
      /\ pc["consumer"] = "idle" /\ pc'["consumer"] = "pop" /\ PopPool.use # <<>>
      /\ UNCHANGED <<pool, message, owner, chosen, seen, val>>
  BY DEF IndInv, TypeOK, ConsumerFront, Front, Goto, Thread
<1>4. LocksHeld' /\ Pointers' /\ PopReady' /\ TakeReady'
  <2>1. LocksHeld' /\ TakeReady'
    BY <1>2 DEF IndInv, LocksHeld, TakeReady
  <2>2. Pointers' /\ PopReady'
    BY <1>2 DEF IndInv, Pointers, PopReady, PopPool
  <2>. QED
    BY <2>1, <2>2
<1>3. Growth'
  BY DEF IndInv, TypeOK, Growth, ConsumerFront, Goto, Thread, Writers, Writing, InHand,
         PushPool
<1>. QED
  BY <1>1, <1>3, <1>4 DEF IndInv

\* A pool without the head of its queue, which goes to the free queue or is lost.
LEMMA PoppedIs ==
  ASSUME NEW q \in Pool(Obj), q.use # <<>>, NEW kept \in BOOLEAN
  PROVE  /\ Popped(q, kept) \in Pool(Obj) /\ Front(q) \in Obj /\ Front(q) = Head(q.use)
         /\ Popped(q, kept).use = Tail(q.use)
         /\ Popped(q, kept).free = (IF kept THEN Append(q.free, Head(q.use)) ELSE q.free)
<1>1. /\ Head(q.use) \in Obj /\ Tail(q.use) \in Seq(Obj) /\ q.free \in Seq(Obj)
      /\ Append(q.free, Head(q.use)) \in Seq(Obj)
  BY DEF Pool
<1>. QED
  BY <1>1 DEF Popped, Front, Pool

\* What DropHead does to instance i, whose queue has a head.
Dropped(i, kept) ==
  /\ pool' = [pool EXCEPT ![i] = Popped(pool[i], kept)]
  /\ lost' = IF kept THEN lost ELSE Append(lost, Head(pool[i].use))

LEMMA DropHeadIs ==
  ASSUME IndInv, NEW i \in Inst, DropHead(i), pool[i].use # <<>>
  PROVE  /\ \E kept \in BOOLEAN : Dropped(i, kept)
         /\ pool' \in [Inst -> Pool(Obj)] /\ lost' \in Seq(Obj)
         /\ \A j \in Inst : j # i => pool'[j] = pool[j]
         /\ pool'[i].use = Tail(pool[i].use)
         /\ Len(pool'[i].use) \in Nat /\ Len(pool'[i].use) < Len(pool[i].use)
         /\ Len(pool[i].use) \in Nat
<1>1. pool \in [Inst -> Pool(Obj)] /\ pool[i] \in Pool(Obj) /\ lost \in Seq(Obj)
  BY DEF IndInv, TypeOK
<1>2. PICK kept \in BOOLEAN :
        /\ pool' = [pool EXCEPT ![i] = Popped(pool[i], kept)]
        /\ lost' = IF kept THEN lost ELSE Append(lost, Front(pool[i]))
  BY DEF DropHead
<1>3. /\ Popped(pool[i], kept) \in Pool(Obj) /\ Front(pool[i]) \in Obj
      /\ Front(pool[i]) = Head(pool[i].use)
      /\ Popped(pool[i], kept).use = Tail(pool[i].use)
  BY <1>1, PoppedIs
<1>4. /\ Len(Tail(pool[i].use)) \in Nat /\ Len(Tail(pool[i].use)) < Len(pool[i].use)
      /\ Len(pool[i].use) \in Nat
  <2>1. pool[i].use \in Seq(Obj)
    BY <1>1 DEF Pool
  <2>. QED
    BY <2>1
<1>5. pool'[i] = Popped(pool[i], kept) /\ \A j \in Inst : j # i => pool'[j] = pool[j]
  BY <1>1, <1>2
<1>6. pool' \in [Inst -> Pool(Obj)] /\ lost' \in Seq(Obj)
  BY <1>1, <1>2, <1>3
<1>7. Dropped(i, kept)
  BY <1>2, <1>3 DEF Dropped
<1>. QED
  BY <1>3, <1>4, <1>5, <1>6, <1>7

\* The consumer pops without a lock: from a pool that no producer writes, as
\* the pointers differ outside a swap.
LEMMA PopInv == ASSUME IndInv, ConsumerPop PROVE IndInv'
<1>1. /\ message["push"] \in Inst /\ message["pop"] \in Inst
      /\ message["push"] # message["pop"]
      /\ PopPool.use # <<>> /\ DropHead(message["pop"])
      /\ UNCHANGED <<message, owner, nobj, chosen, seen, val, todo, raced>>
  BY DEF IndInv, TypeOK, Pointers, PopReady, ConsumerPop
<1>2. /\ pool' \in [Inst -> Pool(Obj)] /\ lost' \in Seq(Obj)
      /\ \A j \in Inst : j # message["pop"] => pool'[j] = pool[j]
      /\ Len(pool'[message["pop"]].use) \in Nat
      /\ Len(pool'[message["pop"]].use) < Len(PopPool.use) /\ Len(PopPool.use) \in Nat
  BY <1>1, DropHeadIs DEF PopPool
<1>3. /\ \A p \in Producer : pc'[p] = pc[p]
      /\ pc'["consumer"] = "idle" /\ pc["consumer"] = "pop"
  BY DEF IndInv, TypeOK, ConsumerPop, Goto, Thread
<1>4. TypeOK'
  BY <1>1, <1>2 DEF IndInv, TypeOK, ConsumerPop, Goto, Thread
<1>5. LocksHeld' /\ Pointers' /\ PopReady' /\ TakeReady'
  BY <1>1, <1>3 DEF IndInv, LocksHeld, Pointers, PopReady, TakeReady
<1>6. Growth'
  <2>. SUFFICES ASSUME QueueMax # 0 PROVE Growth'
    BY DEF Growth
  <2>1. Writers' = Writers /\ InHand' = InHand
    BY <1>3 DEF Writers, Writing, InHand
  <2>2. PushPool' = PushPool
    BY <1>1, <1>2 DEF PushPool
  <2>3. \A i \in Inst : Len(pool'[i].use) <= QueueMax + 2
    <3>1. \A i \in Inst : Len(pool[i].use) <= QueueMax + 2
      BY DEF IndInv, Growth
    <3>. QED
      BY <1>1, <1>2, <3>1 DEF PopPool
  <2>. QED
    BY <1>1, <2>1, <2>2, <2>3 DEF IndInv, Growth
<1>. QED
  BY <1>4, <1>5, <1>6 DEF IndInv

\* swap_queue and reset collect the mutexes one at a time.
LEMMA LockingInv == ASSUME IndInv, SwapLocks \/ ResetLocks PROVE IndInv'
<1>1. UNCHANGED <<pool, message, nobj, chosen, seen, val, todo, raced, lost>>
  BY DEF SwapLocks, ResetLocks
<1>2. /\ pc' \in [Thread -> Place]
      /\ \A p \in Producer : pc'[p] = pc[p]
      /\ pc["consumer"] \notin {"swap3", "clear0", "clear1"}
      /\ pc'["consumer"] \notin {"swap3", "clear0", "clear1", "pop"}
  BY DEF IndInv, TypeOK, SwapLocks, ResetLocks, LockBoth, Goto, Thread
<1>3. /\ owner' \in [Inst -> Thread \cup {"none"}]
      /\ \A i \in Inst : owner[i] # "none" => owner'[i] = owner[i]
  BY DEF IndInv, TypeOK, SwapLocks, ResetLocks, LockBoth, Lock, Thread
<1>4. /\ pc'["consumer"] \in {"swap1", "reset1"} => owner'[0] = "consumer"
      /\ pc'["consumer"] \in {"swap2", "reset2"} =>
            owner[0] = "consumer" /\ owner'[1] = "consumer"
  BY DEF IndInv, TypeOK, LocksHeld, SwapLocks, ResetLocks, LockBoth, Lock, Goto, Thread, Inst
<1>5. TypeOK'
  BY <1>1, <1>2, <1>3 DEF IndInv, TypeOK
<1>6. LocksHeld'
  BY <1>1, <1>2, <1>3, <1>4 DEF IndInv, TypeOK, LocksHeld, Inst
<1>7. Pointers' /\ PopReady' /\ TakeReady'
  BY <1>1, <1>2 DEF IndInv, Pointers, PopReady, TakeReady
<1>8. Growth'
  BY <1>1, <1>2 DEF IndInv, Growth, Writers, Writing, InHand, PushPool
<1>. QED
  BY <1>5, <1>6, <1>7, <1>8 DEF IndInv

\* The exchange of the pointers, and reset, happen with both mutexes held.
LEMMA ExchangeInv == ASSUME IndInv, SwapFirst \/ SwapSecond \/ Reset PROVE IndInv'
<1>0. pc["consumer"] \in {"swap2", "swap3", "reset2", "clear0", "clear1"}
  BY DEF SwapFirst, SwapSecond, Reset, ResetPop, ClearOne, ResetPush, ResetDone
<1>1. /\ Writers = {} /\ InHand = {}
      /\ \A p \in Producer : pc[p] \notin {"check", "take", "link", "commit"}
      /\ \A i \in Inst : owner[i] = "consumer"
  <2>1. /\ \A p \in Producer : pc[p] \notin {"check", "take", "link", "commit"}
        /\ \A i \in Inst : owner[i] = "consumer"
    BY <1>0 DEF IndInv, TypeOK, LocksHeld
  <2>. QED
    BY <2>1 DEF Writers, Writing, InHand
<1>2. /\ UNCHANGED <<nobj, chosen, seen, val, todo, raced>>
      /\ \A p \in Producer : pc'[p] = pc[p]
  BY DEF IndInv, TypeOK, SwapFirst, SwapSecond, Reset, ResetPop, ClearOne, ResetPush, ResetDone,
         Goto, Thread
<1>3. Writers' = {} /\ InHand' = {}
  BY <1>1, <1>2 DEF Writers, Writing, InHand
<1>4. CASE SwapFirst \/ SwapSecond \/ ResetPop \/ ResetPush \/ ResetDone
  <2>1. UNCHANGED <<pool, lost>>
    BY <1>4 DEF SwapFirst, SwapSecond, ResetPop, ResetPush, ResetDone
  <2>2. /\ message' \in [{"pop", "push"} -> Inst]
        /\ owner' \in [Inst -> Thread \cup {"none"}]
        /\ pc' \in [Thread -> Place]
    BY <1>4 DEF IndInv, TypeOK, SwapFirst, SwapSecond, ResetPop, ResetPush, ResetDone,
                Goto, Thread, Inst
  <2>3. TypeOK'
    BY <1>2, <2>1, <2>2 DEF IndInv, TypeOK
  <2>4. /\ pc'["consumer"] \in {"swap3", "clear0", "clear1"} => owner' = owner
        /\ pc'["consumer"] \in {"swap3", "clear0", "clear1", "idle"}
    BY <1>4 DEF IndInv, TypeOK, SwapFirst, SwapSecond, ResetPop, ResetPush, ResetDone, Goto, Thread
  <2>5. LocksHeld' /\ TakeReady'
    BY <1>1, <1>2, <2>4 DEF IndInv, LocksHeld, TakeReady
  <2>6. Pointers' /\ PopReady'
    BY <1>4, <2>1 DEF IndInv, TypeOK, Pointers, PopReady, PopPool, SwapFirst, SwapSecond, ResetPop,
                      ResetPush, ResetDone, Goto, Thread, Inst
  <2>7. Growth'
    BY <1>3, <2>1 DEF IndInv, Growth
  <2>. QED
    BY <2>3, <2>5, <2>6, <2>7 DEF IndInv
<1>5. CASE ClearOne
  <2>1. PICK i \in Inst : /\ pool[i].use # <<>> /\ DropHead(i)
                          /\ pc["consumer"] = "clear1" => i = 1
    BY <1>5 DEF ClearOne, Inst
  <2>0. i \in Inst /\ pool[i].use # <<>> /\ DropHead(i)
    BY <2>1
  <2>2. /\ pool' \in [Inst -> Pool(Obj)] /\ lost' \in Seq(Obj)
        /\ \A j \in Inst : j # i => pool'[j] = pool[j]
        /\ Len(pool'[i].use) \in Nat
        /\ Len(pool'[i].use) < Len(pool[i].use) /\ Len(pool[i].use) \in Nat
    BY <2>0, DropHeadIs, Zenon
  <2>3. UNCHANGED <<message, owner, pc>>
    BY <1>5 DEF ClearOne
  <2>4. TypeOK'
    BY <1>2, <2>2, <2>3 DEF IndInv, TypeOK
  <2>5. LocksHeld' /\ Pointers' /\ TakeReady'
    BY <1>2, <2>3 DEF IndInv, LocksHeld, Pointers, TakeReady
  <2>6. PopReady'
    BY <1>0, <2>1, <2>2, <2>3 DEF IndInv, PopReady, Inst
  <2>7. QueueMax # 0 => \A j \in Inst : Len(pool'[j].use) <= QueueMax + 2
    BY <2>2 DEF IndInv, Growth
  <2>8. Growth'
    BY <1>3, <2>7 DEF Growth
  <2>. QED
    BY <2>4, <2>5, <2>6, <2>8 DEF IndInv
<1>. QED
  BY <1>4, <1>5 DEF Reset

\* Each action of a producer or of the consumer carries the invariant on.
LEMMA IndInvStep == IndInv /\ [Next]_vars => IndInv'
<1>. SUFFICES ASSUME IndInv, [Next]_vars PROVE IndInv'
  OBVIOUS
<1>1. CASE UNCHANGED vars
  <2>1. TypeOK'
    BY <1>1 DEF vars, IndInv, TypeOK
  <2>2. LocksHeld' /\ Pointers' /\ PopReady' /\ TakeReady'
    BY <1>1 DEF vars, IndInv, LocksHeld, Pointers, PopReady, PopPool, TakeReady
  <2>3. Growth'
    BY <1>1 DEF vars, IndInv, Growth, Writers, Writing, InHand, PushPool
  <2>. QED
    BY <2>1, <2>2, <2>3 DEF IndInv
<1>2. CASE Consume
  BY <1>2, FrontInv, PopInv, LockingInv, ExchangeInv DEF Consume
<1>3. ASSUME NEW p \in Producer, Push(p) PROVE IndInv'
  BY <1>3, ChooseInv, AcquireInv, RefuseInv, AdmitInv, TakeInv, LinkInv, CommitInv DEF Push
<1>. QED
  BY <1>1, <1>2, <1>3 DEF Next

\* IndInv holds in every reachable state.
THEOREM IndInvCorrect == Spec => []IndInv
BY InitInv, IndInvStep, PTL DEF Spec

\* Every variable keeps its type.
THEOREM TypeCorrect == Spec => []TypeOK
<1>1. IndInv => TypeOK
  BY DEF IndInv
<1>. QED
  BY <1>1, IndInvCorrect, PTL

\* The consumer, which takes no lock to read and pop, never shares a pool with
\* a producer, however many producers there are.
THEOREM ConsumerAloneCorrect == Spec => []ConsumerAlone
<1>1. IndInv => ConsumerAlone
  <2>. SUFFICES ASSUME IndInv, Writers # {} PROVE ConsumerAlone
    BY DEF ConsumerAlone
  <2>1. pc["consumer"] \notin {"swap2", "swap3", "reset2", "clear0", "clear1"}
    BY TwoWriters
  <2>. QED
    BY <2>1 DEF ConsumerAlone, IndInv, Pointers
<1>. QED
  BY <1>1, IndInvCorrect, PTL

\* A queue never holds more than QueueMax + 2 messages, for any limit and any
\* number of producers: two mutexes let two producers past the test at most.
THEOREM QueueBoundCorrect == Spec => []QueueBound
<1>1. IndInv => QueueBound
  BY DEF IndInv, Growth, QueueBound
<1>. QED
  BY <1>1, IndInvCorrect, PTL

-----------------------------------------------------------------------------
(* The two pools as the two lanes of a channel. *)

\* The lanes that users see.
FrontLane == IF Clearing THEN <<>> ELSE PopPool.use
BackLane  == IF Clearing THEN <<>> ELSE pool[1 - message["pop"]].use

\* Nothing is in use and nobody at work when the queue is made.
LEMMA OneQueueInit == Init => OneQueue
BY DEF Init, OneQueue, Writers, Writing, InHand, Inst, Thread

\* A producer's step on the way to a push, or away from it, is not seen; the
\* last one, of a producer alone, appends one message to the back lane, or none
\* when the queue throws.
LEMMA PushOne ==
  ASSUME IndInv, OneQueue, NEW p \in Producer, Push(p)
  PROVE  /\ OneQueue'
         /\ ~raced' => /\ ~raced /\ FrontLane' = FrontLane
                       /\ \/ BackLane' = BackLane
                          \/ \E m \in Obj : BackLane' = Append(BackLane, m)
<1>1. /\ message["push"] \in Inst /\ message["pop"] \in Inst
      /\ message' = message /\ pc'["consumer"] = pc["consumer"]
      /\ \A t \in Thread \ {p} : pc'[t] = pc[t]
      /\ "consumer" \in Thread /\ p \in Thread /\ p # "consumer"
      /\ raced => raced'
  BY DEF IndInv, TypeOK, Push, Choose, Acquire, Refuse, Admit, Take, Link, Commit, Leave, Goto,
         Thread
<1>2. \A i \in Inst : pool[i] \in Pool(Obj)
  BY DEF IndInv, TypeOK
<1>0. /\ Clearing' = Clearing /\ 1 - message["pop"] \in Inst
      /\ \A i \in Inst : i # message["pop"] => i = 1 - message["pop"]
  BY <1>1 DEF Clearing, Inst
<1>3. CASE Choose(p) \/ Acquire(p) \/ Refuse(p) \/ Admit(p)
  <2>1. UNCHANGED <<pool, seen>>
    BY <1>3 DEF Choose, Acquire, Refuse, Admit
  <2>2. InHand' = InHand
    BY <1>1, <1>3 DEF IndInv, TypeOK, InHand, Choose, Acquire, Refuse, Admit, Leave, Goto, Thread
  <2>3. FrontLane' = FrontLane /\ BackLane' = BackLane /\ PushPool' = PushPool
    BY <1>0, <1>1, <2>1 DEF FrontLane, BackLane, PopPool, PushPool
  <2>4. CASE Admit(p)
    <3>1. raced' = (raced \/ Writers # {}) /\ Writers' = Writers \cup {p}
      BY <1>1, <2>4 DEF IndInv, TypeOK, Admit, Goto, Writers, Writing, Thread
    <3>2. ~raced' => Writers' = {p}
      BY <3>1, Zenon
    <3>. QED
      BY <2>1, <2>2, <2>3, <3>1, <3>2 DEF OneQueue
  <2>5. CASE Choose(p) \/ Acquire(p) \/ Refuse(p)
    <3>1. Writers' = Writers /\ raced' = raced
      BY <1>1, <2>5 DEF IndInv, TypeOK, Choose, Acquire, Refuse, Leave, Goto, Writers, Writing,
                        Thread
    <3>. QED
      BY <2>1, <2>2, <2>3, <3>1 DEF OneQueue
  <2>. QED
    BY <1>3, <2>4, <2>5
<1>4. CASE Take(p) \/ Link(p)
  <2>1. /\ \A i \in Inst : pool'[i].use = pool[i].use
        /\ raced' = raced /\ Writers' \subseteq Writers
        /\ \A q \in InHand' : seen'[q].use = PushPool.use \/ (q \in InHand /\ seen'[q] = seen[q])
    <3>1. CASE Take(p)
      <4>1. PICK n \in 0 .. BlockSize :
              pool' = [pool EXCEPT ![message["push"]] = Built(PushPool, nobj + 1, n)]
        BY <3>1 DEF Take
      <4>2. Built(PushPool, nobj + 1, n).use = PushPool.use
        BY <1>1, <1>2 DEF Built, PushPool, Pool
      <4>3. \A i \in Inst : pool'[i].use = pool[i].use
        BY <1>1, <4>1, <4>2 DEF IndInv, TypeOK, PushPool
      <4>4. pc[p] = "take" /\ pc'[p] \in {"idle", "link"} /\ raced' = raced
        BY <1>1, <3>1 DEF IndInv, TypeOK, Take, Leave, Goto
      <4>5. \A q \in Producer \ {p} : seen'[q] = seen[q]
        BY <3>1 DEF IndInv, TypeOK, Take
      <4>. QED
        BY <1>1, <4>3, <4>4, <4>5 DEF Writers, Writing, InHand, Thread
    <3>2. CASE Link(p)
      <4>1. /\ pool' = [pool EXCEPT ![message["push"]] =
                         [PushPool EXCEPT !.free = Tail(seen[p].free)]]
            /\ seen' = [seen EXCEPT ![p] = PushPool] /\ raced' = raced
        BY <3>2 DEF Link, PushPool
      <4>2. [PushPool EXCEPT !.free = Tail(seen[p].free)].use = PushPool.use
        BY <1>1, <1>2 DEF PushPool, Pool
      <4>3. \A i \in Inst : pool'[i].use = pool[i].use
        BY <1>1, <4>1, <4>2 DEF IndInv, TypeOK, PushPool
      <4>4. pc[p] = "link" /\ pc'[p] = "commit"
        BY <1>1, <3>2 DEF IndInv, TypeOK, Link, Goto
      <4>5. seen'[p] = PushPool /\ \A q \in Producer \ {p} : seen'[q] = seen[q]
        BY <4>1 DEF IndInv, TypeOK
      <4>. QED
        BY <1>1, <4>1, <4>3, <4>4, <4>5 DEF Writers, Writing, InHand, Thread
    <3>. QED
      BY <1>4, <3>1, <3>2
  <2>2. PushPool'.use = PushPool.use /\ FrontLane' = FrontLane /\ BackLane' = BackLane
    BY <1>0, <1>1, <2>1 DEF PushPool, PopPool, FrontLane, BackLane
  <2>3. OneQueue'
    BY <2>1, <2>2 DEF OneQueue
  <2>. QED
    BY <2>1, <2>2, <2>3
<1>5. CASE Commit(p)
  <2>1. /\ \/ pool' = [pool EXCEPT ![message["push"]] =
                         [PushPool EXCEPT !.use = Append(seen[p].use, val[p])]]
           \/ pool' = pool
        /\ pc[p] = "commit" /\ raced' = raced
    BY <1>5 DEF Commit, PushPool
  <2>2. p \in Writers /\ p \in InHand /\ val[p] \in Obj /\ pc'[p] = "idle"
    BY <1>1, <1>5, <2>1 DEF IndInv, TypeOK, TakeReady, Writers, Writing, InHand, Commit, Leave, Goto
  <2>3. pc["consumer"] \notin {"swap2", "swap3", "reset2", "clear0", "clear1"}
    BY <2>2, TwoWriters
  <2>4. message["push"] = 1 - message["pop"] /\ message["push"] # message["pop"] /\ ~Clearing
    BY <1>0, <1>1, <2>3 DEF IndInv, Pointers, Clearing
  <2>5. /\ PushPool'.use \in {PushPool.use, Append(seen[p].use, val[p])}
        /\ PopPool' = PopPool
    BY <1>1, <1>2, <2>1, <2>4 DEF IndInv, TypeOK, PushPool, PopPool, Pool
  <2>6. ~raced => Writers' = {} /\ InHand' = {}
    <3>1. ~raced => \A q \in Writers : q = p
      BY <2>2 DEF OneQueue
    <3>. QED
      BY <1>1, <2>2, <3>1 DEF Writers, Writing, InHand, Thread
  <2>7. OneQueue'
    BY <2>1, <2>6 DEF OneQueue
  <2>8. ~raced => seen[p].use = PushPool.use
    BY <2>2 DEF OneQueue
  <2>9. /\ FrontLane' = FrontLane
        /\ BackLane = PushPool.use /\ BackLane' = PushPool'.use
    BY <1>0, <1>1, <2>4, <2>5 DEF FrontLane, BackLane, PushPool
  <2>. QED
    BY <2>1, <2>2, <2>5, <2>7, <2>8, <2>9
<1>. QED
  BY <1>3, <1>4, <1>5 DEF Push

\* The consumer takes the oldest message of the front lane, exchanges the lanes
\* with the pop pointer, and empties both in reset.
LEMMA ConsumeOne ==
  ASSUME IndInv, OneQueue, Consume
  PROVE  /\ OneQueue' /\ raced' = raced
         /\ \/ FrontLane' = FrontLane /\ BackLane' = BackLane
            \/ FrontLane # <<>> /\ FrontLane' = Tail(FrontLane) /\ BackLane' = BackLane
            \/ FrontLane' = BackLane /\ BackLane' = FrontLane
            \/ FrontLane' = <<>> /\ BackLane' = <<>>
<1>1. /\ message["push"] \in Inst /\ message["pop"] \in Inst
      /\ \A t \in Producer : pc'[t] = pc[t]
      /\ seen' = seen /\ raced' = raced
      /\ \A i \in Inst : pool[i] \in Pool(Obj)
      /\ "consumer" \in Thread
  BY DEF IndInv, TypeOK, Consume, ConsumerFront, ConsumerPop, SwapLocks, SwapFirst, SwapSecond,
         ResetLocks, Reset, ResetPop, ClearOne, ResetPush, ResetDone, LockBoth, Goto, Thread
<1>2. Writers' = Writers /\ InHand' = InHand /\ InHand \subseteq Writers
  BY <1>1 DEF Writers, Writing, InHand
<1>3. Writers = {} => OneQueue'
  BY <1>1, <1>2 DEF OneQueue
<1>4. CASE ConsumerFront \/ SwapLocks \/ ResetLocks
  <2>1. UNCHANGED <<pool, message>> /\ ~Clearing /\ ~Clearing'
    BY <1>1, <1>4 DEF IndInv, TypeOK, ConsumerFront, SwapLocks, ResetLocks, LockBoth, Goto, Clearing
  <2>. QED
    BY <1>1, <1>2, <2>1 DEF OneQueue, PushPool, PopPool, FrontLane, BackLane
<1>5. CASE ConsumerPop
  <2>1. /\ message' = message /\ DropHead(message["pop"]) /\ PopPool.use # <<>>
        /\ ~Clearing /\ ~Clearing' /\ message["push"] # message["pop"]
    BY <1>1, <1>5 DEF ConsumerPop, Goto, Clearing, IndInv, TypeOK, Pointers, PopReady
  <2>2. /\ \A j \in Inst : j # message["pop"] => pool'[j] = pool[j]
        /\ PopPool'.use = Tail(PopPool.use)
    BY <1>1, <2>1, DropHeadIs DEF PopPool
  <2>3. PushPool' = PushPool /\ pool'[1 - message["pop"]] = pool[1 - message["pop"]]
    BY <1>1, <2>1, <2>2 DEF PushPool, Inst
  <2>. QED
    BY <1>1, <1>2, <2>1, <2>2, <2>3 DEF OneQueue, FrontLane, BackLane
<1>6. CASE SwapFirst
  <2>1. /\ pool' = pool /\ pc["consumer"] = "swap2" /\ pc'["consumer"] = "swap3"
        /\ message'["pop"] = message["push"]
    BY <1>1, <1>6 DEF IndInv, TypeOK, SwapFirst, Goto
  <2>2. message["push"] # message["pop"] /\ Writers = {}
    BY <2>1, TwoWriters DEF IndInv, Pointers
  <2>3. message'["pop"] = 1 - message["pop"] /\ 1 - message'["pop"] = message["pop"]
    BY <1>1, <2>1, <2>2 DEF Inst
  <2>4. ~Clearing /\ ~Clearing'
    BY <2>1 DEF Clearing
  <2>. QED
    BY <1>1, <1>3, <2>1, <2>2, <2>3, <2>4 DEF FrontLane, BackLane, PopPool
<1>7. CASE SwapSecond
  <2>1. /\ pool' = pool /\ pc["consumer"] = "swap3" /\ pc'["consumer"] = "idle"
        /\ message'["pop"] = message["pop"]
    BY <1>1, <1>7 DEF IndInv, TypeOK, SwapSecond, Goto
  <2>2. Writers = {} /\ ~Clearing /\ ~Clearing'
    BY <2>1, TwoWriters DEF Clearing
  <2>. QED
    BY <1>1, <1>3, <2>1, <2>2 DEF FrontLane, BackLane, PopPool
<1>8. CASE ResetPop \/ ClearOne \/ ResetPush
  <2>1. pc["consumer"] \in {"reset2", "clear0", "clear1"} /\ Clearing'
    BY <1>1, <1>8 DEF IndInv, TypeOK, ResetPop, ClearOne, ResetPush, Goto, Clearing
  <2>2. Writers = {}
    BY <2>1, TwoWriters
  <2>. QED
    BY <1>1, <1>3, <2>1, <2>2 DEF FrontLane, BackLane
<1>9. CASE ResetDone
  <2>1. /\ pool' = pool /\ message' = message /\ pc["consumer"] = "clear1"
        /\ pc'["consumer"] = "idle" /\ pool[1].use = <<>>
    BY <1>1, <1>9 DEF IndInv, TypeOK, ResetDone, Goto
  <2>2. message["pop"] = 0 /\ pool[0].use = <<>> /\ Writers = {}
    BY <2>1, TwoWriters DEF IndInv, Pointers, PopReady
  <2>3. ~Clearing'
    BY <2>1 DEF Clearing
  <2>. QED
    BY <1>1, <1>3, <2>1, <2>2, <2>3 DEF FrontLane, BackLane, PopPool
<1>. QED
  BY <1>4, <1>5, <1>6, <1>7, <1>8, <1>9 DEF Consume, Reset

\* Until two producers meet, the pools, the pointers, the swap and reset are the
\* two lanes of a channel, for any number of producers and any limit
\* (message_queue.h: push, front, pop, swap_queue, reset).
THEOREM ChannelImplemented == Spec => ImplementsChannel
<1>1. Init => OneQueue /\ Channel!Init
  <2>1. Init => Channel!Init
    BY DEF Init, Channel!Init, PopPool, EmptyPool, Inst
  <2>. QED
    BY <2>1, OneQueueInit
<1>2. IndInv /\ OneQueue /\ [Next]_vars
      => OneQueue' /\ [Channel!Next]_<<FrontLane, BackLane, raced>>
  <2>. SUFFICES ASSUME IndInv, OneQueue, [Next]_vars
                PROVE  OneQueue' /\ [Channel!Next]_<<FrontLane, BackLane, raced>>
    OBVIOUS
  <2>1. ASSUME NEW p \in Producer, Push(p)
        PROVE  OneQueue' /\ [Channel!Next]_<<FrontLane, BackLane, raced>>
    <3>1. /\ OneQueue'
          /\ ~raced' => /\ ~raced /\ FrontLane' = FrontLane
                        /\ \/ BackLane' = BackLane
                           \/ \E m \in Obj : BackLane' = Append(BackLane, m)
      BY <2>1, PushOne
    <3>2. CASE raced'
      BY <3>1, <3>2 DEF Channel!Next
    <3>3. CASE ~raced'
      <4>1. raced \in BOOLEAN /\ raced' \in BOOLEAN
        BY IndInvStep DEF IndInv, TypeOK
      <4>2. raced' = raced
        BY <3>1, <3>3, <4>1, Zenon
      <4>3. CASE BackLane' = BackLane
        BY <3>1, <3>3, <4>2, <4>3
      <4>4. CASE \E m \in Obj : BackLane' = Append(BackLane, m)
        <5>1. Channel!Put
          BY <3>1, <3>3, <4>4 DEF Channel!Put, FrontLane, BackLane
        <5>. QED
          BY <3>1, <4>2, <5>1 DEF Channel!Next
      <4>. QED
        BY <3>1, <3>3, <4>3, <4>4
    <3>. QED
      BY <3>2, <3>3
  <2>2. CASE Consume
    <3>1. /\ OneQueue' /\ raced' = raced
          /\ \/ FrontLane' = FrontLane /\ BackLane' = BackLane
             \/ FrontLane # <<>> /\ FrontLane' = Tail(FrontLane) /\ BackLane' = BackLane
             \/ FrontLane' = BackLane /\ BackLane' = FrontLane
             \/ FrontLane' = <<>> /\ BackLane' = <<>>
      BY <2>2, ConsumeOne
    <3>2. CASE FrontLane' = FrontLane /\ BackLane' = BackLane
      BY <3>1, <3>2
    <3>3. CASE FrontLane # <<>> /\ FrontLane' = Tail(FrontLane) /\ BackLane' = BackLane
      <4>1. Channel!Get
        BY <3>3 DEF Channel!Get, FrontLane, BackLane
      <4>. QED
        BY <3>1, <4>1 DEF Channel!Next
    <3>4. CASE FrontLane' = BackLane /\ BackLane' = FrontLane
      <4>1. Channel!Exchange
        BY <3>4 DEF Channel!Exchange, FrontLane, BackLane
      <4>. QED
        BY <3>1, <4>1 DEF Channel!Next
    <3>5. CASE FrontLane' = <<>> /\ BackLane' = <<>>
      <4>1. Channel!Drop
        BY <3>5 DEF Channel!Drop, FrontLane, BackLane
      <4>. QED
        BY <3>1, <4>1 DEF Channel!Next
    <3>. QED
      BY <3>1, <3>2, <3>3, <3>4, <3>5
  <2>3. CASE UNCHANGED vars
    BY <2>3 DEF vars, OneQueue, Writers, Writing, InHand, PushPool, PopPool, FrontLane, BackLane,
                Clearing
  <2>. QED
    BY <2>1, <2>2, <2>3 DEF Next
<1>. QED
  BY <1>1, <1>2, IndInvCorrect, PTL DEF Spec, ImplementsChannel, Channel!Spec, FrontLane, BackLane

-----------------------------------------------------------------------------
(* Every element is accounted for. *)

\* What is in a queue; how much is in a pool, and what.
Size(q)     == Len(q.use) + Len(q.free)
Elements(q) == Elems(q.use) \cup Elems(q.free)

\* A queue behind another.
LEMMA ElemsConcat ==
  ASSUME NEW S, NEW s \in Seq(S), NEW t \in Seq(S)
  PROVE  /\ s \o t \in Seq(S) /\ Len(s \o t) = Len(s) + Len(t)
         /\ Elems(s \o t) = Elems(s) \cup Elems(t)
<1>1. /\ Len(s) \in Nat /\ Len(t) \in Nat /\ DOMAIN s = 1 .. Len(s) /\ DOMAIN t = 1 .. Len(t)
      /\ s \o t \in Seq(S) /\ Len(s \o t) = Len(s) + Len(t)
      /\ DOMAIN (s \o t) = 1 .. Len(s) + Len(t)
      /\ \A i \in 1 .. Len(s) + Len(t) :
           (s \o t)[i] = IF i <= Len(s) THEN s[i] ELSE t[i - Len(s)]
  BY ConcatProperties
<1>2. ASSUME NEW i \in DOMAIN (s \o t) PROVE (s \o t)[i] \in Elems(s) \cup Elems(t)
  <2>1. CASE i <= Len(s)
    BY <1>1, <2>1 DEF Elems
  <2>2. CASE ~(i <= Len(s))
    <3>1. i - Len(s) \in DOMAIN t
      BY <1>1, <2>2
    <3>. QED
      BY <1>1, <2>2, <3>1 DEF Elems
  <2>. QED
    BY <2>1, <2>2
<1>3. ASSUME NEW i \in DOMAIN s PROVE s[i] \in Elems(s \o t)
  <2>1. i \in DOMAIN (s \o t) /\ (s \o t)[i] = s[i]
    BY <1>1
  <2>. QED
    BY <2>1 DEF Elems
<1>4. ASSUME NEW i \in DOMAIN t PROVE t[i] \in Elems(s \o t)
  <2>1. i + Len(s) \in DOMAIN (s \o t) /\ (s \o t)[i + Len(s)] = t[i]
    BY <1>1
  <2>. QED
    BY <2>1 DEF Elems
<1>. QED
  BY <1>1, <1>2, <1>3, <1>4 DEF Elems

\* A queue with one more at its end.
LEMMA ElemsAppend ==
  ASSUME NEW S, NEW s \in Seq(S), NEW m \in S
  PROVE  Len(Append(s, m)) = Len(s) + 1 /\ Elems(Append(s, m)) = Elems(s) \cup {m}
<1>1. /\ Len(s) \in Nat /\ DOMAIN s = 1 .. Len(s)
      /\ Len(Append(s, m)) = Len(s) + 1 /\ DOMAIN Append(s, m) = 1 .. Len(s) + 1
      /\ \A i \in 1 .. Len(s) : Append(s, m)[i] = s[i]
      /\ Append(s, m)[Len(s) + 1] = m
  OBVIOUS
<1>2. 1 .. Len(s) + 1 = (1 .. Len(s)) \cup {Len(s) + 1}
  BY <1>1
<1>. QED
  BY <1>1, <1>2 DEF Elems

\* A queue without its head.
LEMMA ElemsTail ==
  ASSUME NEW S, NEW s \in Seq(S), s # <<>>
  PROVE  /\ Tail(s) \in Seq(S) /\ Head(s) \in S
         /\ Len(Tail(s)) = Len(s) - 1 /\ Elems(s) = Elems(Tail(s)) \cup {Head(s)}
<1>1. /\ Len(s) \in Nat \ {0} /\ DOMAIN s = 1 .. Len(s)
      /\ Tail(s) \in Seq(S) /\ Head(s) = s[1] /\ Head(s) \in S
      /\ Len(Tail(s)) = Len(s) - 1 /\ DOMAIN Tail(s) = 1 .. Len(s) - 1
      /\ \A i \in 1 .. Len(s) - 1 : Tail(s)[i] = s[i + 1]
  OBVIOUS
<1>2. ASSUME NEW i \in 1 .. Len(s) PROVE s[i] \in Elems(Tail(s)) \cup {Head(s)}
  <2>1. CASE i = 1
    BY <1>1, <2>1
  <2>2. CASE i # 1
    <3>1. i - 1 \in 1 .. Len(s) - 1 /\ (i - 1) + 1 = i
      BY <1>1, <2>2
    <3>2. Tail(s)[i - 1] = s[i]
      BY <1>1, <3>1
    <3>. QED
      BY <1>1, <3>1, <3>2 DEF Elems
  <2>. QED
    BY <2>1, <2>2
<1>3. ASSUME NEW i \in 1 .. Len(s) - 1 PROVE Tail(s)[i] \in Elems(s)
  <2>1. i + 1 \in 1 .. Len(s)
    BY <1>1
  <2>. QED
    BY <1>1, <2>1 DEF Elems
<1>4. Head(s) \in Elems(s)
  BY <1>1 DEF Elems
<1>. QED
  BY <1>1, <1>2, <1>3, <1>4 DEF Elems

\* pop moves an element or drops it, build adds new ones.
LEMMA PoppedKeeps ==
  ASSUME NEW q \in Pool(Obj), q.use # <<>>
  PROVE  /\ Size(Popped(q, TRUE)) = Size(q) /\ Elements(Popped(q, TRUE)) = Elements(q)
         /\ Size(q) = Size(Popped(q, FALSE)) + 1
         /\ Elements(q) = Elements(Popped(q, FALSE)) \cup {Head(q.use)}
<1>1. q.use \in Seq(Obj) /\ q.free \in Seq(Obj) /\ Len(q.use) \in Nat /\ Len(q.free) \in Nat
  BY DEF Pool
<1>2. /\ Popped(q, TRUE).use = Tail(q.use) /\ Popped(q, TRUE).free = Append(q.free, Head(q.use))
      /\ Popped(q, FALSE).use = Tail(q.use) /\ Popped(q, FALSE).free = q.free
  BY DEF Popped
<1>3. /\ Head(q.use) \in Obj /\ Len(Tail(q.use)) = Len(q.use) - 1
      /\ Elems(q.use) = Elems(Tail(q.use)) \cup {Head(q.use)}
  BY <1>1, ElemsTail
<1>4. /\ Len(Append(q.free, Head(q.use))) = Len(q.free) + 1
      /\ Elems(Append(q.free, Head(q.use))) = Elems(q.free) \cup {Head(q.use)}
  BY <1>1, <1>3, ElemsAppend
<1>5. Elements(Popped(q, TRUE)) = Elements(q)
  BY <1>2, <1>3, <1>4 DEF Elements
<1>6. Elements(q) = Elements(Popped(q, FALSE)) \cup {Head(q.use)}
  BY <1>2, <1>3 DEF Elements
<1>7. /\ Size(Popped(q, TRUE)) = (Len(q.use) - 1) + (Len(q.free) + 1)
      /\ Size(Popped(q, FALSE)) = (Len(q.use) - 1) + Len(q.free)
      /\ Size(q) = Len(q.use) + Len(q.free)
  BY <1>2, <1>3, <1>4, Zenon DEF Size
<1>8. \A u, f \in Nat : (u - 1) + (f + 1) = u + f /\ ((u - 1) + f) + 1 = u + f
  OBVIOUS
<1>9. Size(Popped(q, TRUE)) = Size(q) /\ Size(q) = Size(Popped(q, FALSE)) + 1
  <2>1. /\ (Len(q.use) - 1) + (Len(q.free) + 1) = Len(q.use) + Len(q.free)
        /\ ((Len(q.use) - 1) + Len(q.free)) + 1 = Len(q.use) + Len(q.free)
    BY <1>1, <1>8, Zenon
  <2>2. Size(Popped(q, TRUE)) = Size(q)
    BY <1>7, <2>1, Zenon
  <2>3. Size(Popped(q, FALSE)) + 1 = ((Len(q.use) - 1) + Len(q.free)) + 1
    BY <1>7, Zenon
  <2>. QED
    BY <1>7, <2>1, <2>2, <2>3, Zenon
<1>. QED
  BY <1>5, <1>6, <1>9

LEMMA BuiltKeeps ==
  ASSUME NEW q \in Pool(Obj), NEW m \in Nat, NEW n \in Nat, m + n <= MaxObj
  PROVE  /\ Size(Built(q, m + 1, n)) = Size(q) + n
         /\ Elements(Built(q, m + 1, n)) = Elements(q) \cup (m + 1 .. m + n)
<1>. DEFINE b == [i \in 1 .. n |-> (m + 1) + i - 1]
<1>1. q.use \in Seq(Obj) /\ q.free \in Seq(Obj) /\ Len(q.use) \in Nat /\ Len(q.free) \in Nat
  BY DEF Pool
<1>2. Built(q, m + 1, n).use = q.use /\ Built(q, m + 1, n).free = q.free \o b
  BY DEF Built, Pool
<1>3. b \in Seq(Obj) /\ Len(b) = n /\ DOMAIN b = 1 .. n /\ \A i \in 1 .. n : b[i] = m + i
  <2>1. \A i \in 1 .. n : (m + 1) + i - 1 = m + i /\ m + i \in Obj
    BY DEF Obj
  <2>2. b \in [1 .. n -> Obj] /\ \A i \in 1 .. n : b[i] = m + i
    BY <2>1
  <2>. HIDE DEF b
  <2>. QED
    BY <2>2
<1>. HIDE DEF b
<1>4. Elems(b) = m + 1 .. m + n
  <2>1. \A o \in m + 1 .. m + n : o - m \in 1 .. n /\ m + (o - m) = o
    OBVIOUS
  <2>2. \A i \in 1 .. n : m + i \in m + 1 .. m + n
    OBVIOUS
  <2>3. \A o \in m + 1 .. m + n : o \in Elems(b)
    BY <1>3, <2>1 DEF Elems
  <2>. QED
    BY <1>3, <2>2, <2>3 DEF Elems
<1>5. /\ Len(q.free \o b) = Len(q.free) + n
      /\ Elems(q.free \o b) = Elems(q.free) \cup (m + 1 .. m + n)
  BY <1>1, <1>3, <1>4, ElemsConcat
<1>6. Size(Built(q, m + 1, n)) = Size(q) + n
  <2>1. Size(Built(q, m + 1, n)) = Len(q.use) + Len(q.free \o b)
    BY <1>2, Zenon DEF Size
  <2>2. Size(q) = Len(q.use) + Len(q.free)
    BY DEF Size
  <2>3. Len(q.use) + Len(q.free \o b) = (Len(q.use) + Len(q.free)) + n
    <3>1. \A u, f \in Nat : u + (f + n) = (u + f) + n
      OBVIOUS
    <3>2. Len(q.use) + Len(q.free \o b) = Len(q.use) + (Len(q.free) + n)
      BY <1>5, Zenon
    <3>. QED
      BY <1>1, <3>1, <3>2, Zenon
  <2>. QED
    BY <2>1, <2>2, <2>3, Zenon
<1>7. Elements(Built(q, m + 1, n)) = Elements(q) \cup (m + 1 .. m + n)
  BY <1>2, <1>5 DEF Elements
<1>. QED
  BY <1>6, <1>7

\* The elements in the pools and in hand, all told.
Total == Size(pool[0]) + Size(pool[1])
All   == Elements(pool[0]) \cup Elements(pool[1])
Held  == {val[p] : p \in InHand}

Kept ==
  ~raced => /\ Total + Len(lost) + Cardinality(InHand) = nobj
            /\ All \cup Elems(lost) \cup Held = 1 .. nobj

LEMMA SizeNat ==
  ASSUME NEW q \in Pool(Obj)
  PROVE  Size(q) \in Nat
<1>1. Len(q.use) \in Nat /\ Len(q.free) \in Nat
  BY DEF Pool
<1>2. \A u, f \in Nat : u + f \in Nat
  OBVIOUS
<1>. QED
  BY <1>1, <1>2, Zenon DEF Size

\* ElementsConserved says it of the queues laid end to end.
LEMMA StoredMeans == TypeOK => (ElementsConserved <=> Kept)
<1> SUFFICES ASSUME TypeOK PROVE ElementsConserved <=> Kept
  OBVIOUS
<1>. DEFINE a == pool[0].use  b == pool[0].free  c == pool[1].use  d == pool[1].free
            l == Len(a)  m == Len(b)  n == Len(c)  o == Len(d)
<1>1. a \in Seq(Obj) /\ b \in Seq(Obj) /\ c \in Seq(Obj) /\ d \in Seq(Obj)
  BY DEF TypeOK, Pool, Inst
<1>2. l \in Nat /\ m \in Nat /\ n \in Nat /\ o \in Nat
  BY <1>1
<1>3. Stored = ((a \o b) \o c) \o d
  BY DEF Stored
<1>4. Total = (l + m) + (n + o) /\ All = (Elems(a) \cup Elems(b)) \cup (Elems(c) \cup Elems(d))
  BY DEF Total, All, Size, Elements
<1>. HIDE DEF a, b, c, d
<1>5. a \o b \in Seq(Obj) /\ Len(a \o b) = l + m /\ Elems(a \o b) = Elems(a) \cup Elems(b)
  BY <1>1, ElemsConcat
<1>6. /\ (a \o b) \o c \in Seq(Obj) /\ Len((a \o b) \o c) = Len(a \o b) + n
      /\ Elems((a \o b) \o c) = Elems(a \o b) \cup Elems(c)
  BY <1>1, <1>5, ElemsConcat
<1>7. /\ Len(Stored) = Len((a \o b) \o c) + o
      /\ Elems(Stored) = Elems((a \o b) \o c) \cup Elems(d)
  BY <1>1, <1>3, <1>6, ElemsConcat
<1>8. Elems(Stored) = All
  BY <1>4, <1>5, <1>6, <1>7
<1>9. Len(Stored) = Total
  <2>. HIDE DEF l, m, n, o
  <2>1. Len(Stored) = ((l + m) + n) + o
    BY <1>5, <1>6, <1>7, Zenon
  <2>2. ((l + m) + n) + o = (l + m) + (n + o)
    BY <1>2
  <2>. QED
    BY <1>4, <2>1, <2>2, Zenon
<1>. QED
  BY <1>8, <1>9, Zenon DEF ElementsConserved, Kept, Held

\* When one pool changes, all told changes by as much.
LEMMA PoolChanged ==
  ASSUME TypeOK, NEW i \in Inst, NEW q \in Pool(Obj), pool' = [pool EXCEPT ![i] = q]
  PROVE  /\ Total' - Total = Size(q) - Size(pool[i]) /\ Total \in Nat /\ Total' \in Nat
         /\ \A D : Elements(q) = Elements(pool[i]) \cup D => All' = All \cup D
         /\ \A D : Elements(pool[i]) = Elements(q) \cup D => All = All' \cup D
<1>1. /\ pool[0] \in Pool(Obj) /\ pool[1] \in Pool(Obj)
      /\ pool'[0] = (IF i = 0 THEN q ELSE pool[0]) /\ pool'[1] = (IF i = 1 THEN q ELSE pool[1])
      /\ i = 0 \/ i = 1
  BY DEF TypeOK, Inst
<1>2. Size(pool[0]) \in Nat /\ Size(pool[1]) \in Nat /\ Size(q) \in Nat
  BY <1>1, SizeNat
<1>3. /\ Total' = Size(pool'[0]) + Size(pool'[1]) /\ Total = Size(pool[0]) + Size(pool[1])
      /\ All' = Elements(pool'[0]) \cup Elements(pool'[1])
      /\ All = Elements(pool[0]) \cup Elements(pool[1])
  BY DEF Total, All, Size, Elements
<1>4. CASE i = 0
  <2>1. pool'[0] = q /\ pool'[1] = pool[1]
    BY <1>1, <1>4
  <2>2. Total' = Size(q) + Size(pool[1]) /\ All' = Elements(q) \cup Elements(pool[1])
    BY <1>3, <2>1, Zenon
  <2>. QED
    BY <1>2, <1>3, <1>4, <2>2
<1>5. CASE i = 1
  <2>1. pool'[1] = q /\ pool'[0] = pool[0]
    BY <1>1, <1>5
  <2>2. Total' = Size(pool[0]) + Size(q) /\ All' = Elements(pool[0]) \cup Elements(q)
    BY <1>3, <2>1, Zenon
  <2>. QED
    BY <1>2, <1>3, <1>5, <2>2
<1>. QED
  BY <1>1, <1>4, <1>5

\* While no two producers have met, the one at work is the only one in reach of
\* the pool.
LEMMA Alone ==
  ASSUME OneQueue, ~raced, NEW p \in Writers
  PROVE  /\ Writers = {p} /\ InHand = (IF pc[p] = "commit" THEN {p} ELSE {})
         /\ \A q \in Producer : pc[q] = "link" => q = p
<1>1. \A q \in Writers : q = p
  BY DEF OneQueue
<1>2. \A q \in Producer : pc[q] \in {"take", "link", "commit"} => q = p
  BY <1>1 DEF Writers, Writing
<1>3. p \in Producer
  BY DEF Writers
<1>. QED
  BY <1>1, <1>2, <1>3 DEF InHand

\* DropHead moves the head to the free queue, or adds it to the lost.
LEMMA DroppedKeeps ==
  ASSUME IndInv, NEW i \in Inst, NEW kept \in BOOLEAN, pool[i].use # <<>>, Dropped(i, kept)
  PROVE  /\ Total \in Nat /\ Total' \in Nat /\ Len(lost) \in Nat /\ Len(lost') \in Nat
         /\ Total' + Len(lost') = Total + Len(lost)
         /\ All' \cup Elems(lost') = All \cup Elems(lost)
<1>. DEFINE q == pool[i]
            rest == Popped(q, kept)
<1>1. /\ TypeOK /\ q \in Pool(Obj) /\ q.use # <<>> /\ lost \in Seq(Obj)
      /\ pool' = [pool EXCEPT ![i] = rest]
      /\ lost' = IF kept THEN lost ELSE Append(lost, Head(q.use))
  BY DEF IndInv, TypeOK, Dropped
<1>2. rest \in Pool(Obj) /\ Head(q.use) \in Obj
  BY <1>1, PoppedIs
<1>3. /\ kept => Size(rest) = Size(q) /\ Elements(rest) = Elements(q)
      /\ ~kept => Size(q) = Size(rest) + 1 /\ Elements(q) = Elements(rest) \cup {Head(q.use)}
  <2>1. CASE kept = TRUE
    BY <1>1, <2>1, PoppedKeeps
  <2>2. CASE kept = FALSE
    BY <1>1, <2>2, PoppedKeeps
  <2>. QED
    BY <2>1, <2>2
<1>4. Size(q) \in Nat /\ Size(rest) \in Nat
  BY <1>1, <1>2, SizeNat
<1>. DEFINE h == Head(q.use)
<1>5. /\ Total' - Total = Size(rest) - Size(q) /\ Total \in Nat /\ Total' \in Nat
      /\ \A D : Elements(rest) = Elements(q) \cup D => All' = All \cup D
      /\ \A D : Elements(q) = Elements(rest) \cup D => All = All' \cup D
  <2>. HIDE DEF rest
  <2>1. q = pool[i]
    OBVIOUS
  <2>. HIDE DEF q
  <2>2. /\ Total' - Total = Size(rest) - Size(pool[i]) /\ Total \in Nat /\ Total' \in Nat
        /\ \A D : Elements(rest) = Elements(pool[i]) \cup D => All' = All \cup D
        /\ \A D : Elements(pool[i]) = Elements(rest) \cup D => All = All' \cup D
    BY <1>1, <1>2, PoolChanged
  <2>. QED
    BY <2>1, <2>2, Zenon
<1>6. /\ Len(lost) \in Nat /\ Len(Append(lost, Head(q.use))) = Len(lost) + 1
      /\ Elems(Append(lost, Head(q.use))) = Elems(lost) \cup {Head(q.use)}
  BY <1>1, <1>2, ElemsAppend
<1>. HIDE DEF q, rest, h
<1>7. CASE kept
  <2>1. lost' = lost /\ Total' - Total = Size(q) - Size(q)
    BY <1>1, <1>3, <1>5, <1>7
  <2>2. Elements(rest) = Elements(q) \cup {}
    BY <1>3, <1>7
  <2>3. All' = All \cup {}
    BY <1>5, <2>2
  <2>. QED
    BY <1>4, <1>5, <1>6, <2>1, <2>3
<1>8. CASE ~kept
  <2>1. /\ lost' = Append(lost, h) /\ Total' - Total = Size(rest) - (Size(rest) + 1)
        /\ Len(lost') = Len(lost) + 1 /\ Elems(lost') = Elems(lost) \cup {h}
    BY <1>1, <1>3, <1>5, <1>6, <1>8 DEF h
  <2>2. Elements(q) = Elements(rest) \cup {h}
    BY <1>3, <1>8 DEF h
  <2>3. All = All' \cup {h}
    BY <1>5, <2>2
  <2>4. Total' + Len(lost') = Total + Len(lost) /\ Len(lost') \in Nat
    BY <1>4, <1>5, <1>6, <2>1
  <2>. QED
    BY <1>5, <1>6, <2>1, <2>3, <2>4
<1>. QED
  BY <1>7, <1>8

\* A producer takes an element from the pool, allocated for it or not, holds it,
\* and puts it into the queue.
LEMMA KeptPush ==
  ASSUME IndInv, OneQueue, Kept, FreshRead, NEW p \in Producer, Push(p)
  PROVE  Kept' /\ FreshRead'
<1> SUFFICES ASSUME ~raced'
             PROVE  /\ Total' + Len(lost') + Cardinality(InHand') = nobj'
                    /\ All' \cup Elems(lost') \cup Held' = 1 .. nobj'
                    /\ \A q \in Producer : pc'[q] = "link" => seen'[q] = PushPool'
  BY DEF Kept, FreshRead, Elems
<1>1. ~raced
  BY PushOne
<1>2. /\ Total + Len(lost) + Cardinality(InHand) = nobj
      /\ All \cup Elems(lost) \cup Held = 1 .. nobj
      /\ \A q \in Producer : pc[q] = "link" => seen[q] = PushPool
  BY <1>1 DEF Kept, FreshRead
<1>3. /\ message["push"] \in Inst /\ message' = message /\ PushPool \in Pool(Obj)
      /\ \A t \in Producer \ {p} : pc'[t] = pc[t]
      /\ pc \in [Thread -> Place]
      /\ p \in Thread /\ nobj \in 0 .. MaxObj
      /\ lost \in Seq(Obj) /\ Len(lost) \in Nat
  BY DEF IndInv, TypeOK, Push, Choose, Acquire, Refuse, Admit, Take, Link, Commit, Leave, Goto,
         Thread, PushPool
<1>4. Cardinality({}) = 0 /\ Cardinality({p}) = 1
  BY FS_EmptySet, FS_Singleton
<1>5. TypeOK /\ PushPool = pool[message["push"]]
  BY DEF IndInv, PushPool
<1>6. CASE Choose(p) \/ Acquire(p) \/ Refuse(p) \/ Admit(p)
  <2>1. UNCHANGED <<pool, seen, nobj, val, lost>>
    BY <1>6 DEF Choose, Acquire, Refuse, Admit
  <2>2. pc[p] \notin {"link", "commit"} /\ pc'[p] \notin {"link", "commit"}
    BY <1>3, <1>6 DEF Choose, Acquire, Refuse, Admit, Leave, Goto
  <2>3. InHand' = InHand
    BY <1>3, <2>2 DEF InHand
  <2>4. Total' = Total /\ All' = All /\ Held' = Held /\ PushPool' = PushPool
    BY <1>3, <2>1, <2>3 DEF Total, All, Held, Size, Elements, PushPool
  <2>. QED
    BY <1>2, <1>3, <2>1, <2>2, <2>3, <2>4
<1>7. CASE Take(p)
  <2>0. PICK n \in 0 .. BlockSize, leaks \in BOOLEAN :
          /\ Allocates(n, leaks)
          /\ pool' = [pool EXCEPT ![message["push"]] = Built(PushPool, nobj + 1, n)]
          /\ \/ Leave(p)
             \/ seen' = [seen EXCEPT ![p] = Built(PushPool, nobj + 1, n)]
    BY <1>7 DEF Take
  <2>15. pc'[p] = "link" => seen'[p] = Built(PushPool, nobj + 1, n)
    <3>1. CASE Leave(p)
      BY <1>3, <3>1 DEF Leave, Goto
    <3>2. CASE seen' = [seen EXCEPT ![p] = Built(PushPool, nobj + 1, n)]
      BY <3>2 DEF IndInv, TypeOK
    <3>. QED
      BY <2>0, <3>1, <3>2
  <2>1. /\ nobj + n <= MaxObj
        /\ \/ nobj' = nobj + n /\ lost' = lost
           \/ /\ nobj' = nobj + n + 1 /\ nobj + n + 1 \in Obj
              /\ lost' = Append(lost, nobj + n + 1)
    BY <1>3, <2>0, AllocatesIs
  <2>2. pc[p] = "take" /\ pc'[p] \in {"idle", "link"} /\ val' = val
    BY <1>3, <1>7 DEF Take, Leave, Goto
  <2>3. p \in Writers
    BY <2>2 DEF Writers, Writing
  <2>4. InHand = {} /\ \A q \in Producer : pc[q] = "link" => q = p
    BY <1>1, <2>2, <2>3, Alone
  <2>5. InHand' = {} /\ Held = {} /\ Held' = {}
    BY <1>3, <2>2, <2>4 DEF InHand, Held
  <2>. DEFINE ready == Built(PushPool, nobj + 1, n)
  <2>6. n \in Nat /\ nobj \in Nat
    BY <1>3, <2>0
  <2>7. ready \in Pool(Obj)
    <3>1. PushPool.use \in Seq(Obj) /\ PushPool.free \in Seq(Obj)
      BY <1>3 DEF Pool
    <3>2. [i \in 1 .. n |-> (nobj + 1) + i - 1] \in Seq(Obj)
      BY <2>1, <2>6 DEF Obj
    <3>3. PushPool.free \o [i \in 1 .. n |-> (nobj + 1) + i - 1] \in Seq(Obj)
      BY <3>1, <3>2
    <3>. QED
      BY <1>3, <3>1, <3>3 DEF Built, Pool
  <2>8. /\ Size(ready) = Size(PushPool) + n
        /\ Elements(ready) = Elements(PushPool) \cup (nobj + 1 .. nobj + n)
    BY <1>3, <2>1, <2>6, BuiltKeeps
  <2>. HIDE DEF ready
  <2>9. /\ pool' = [pool EXCEPT ![message["push"]] = ready] /\ PushPool' = ready
        /\ pc'[p] = "link" => seen'[p] = ready
    BY <1>3, <2>0, <2>15, <2>7 DEF PushPool, ready, IndInv, TypeOK
  <2>10. /\ Total' - Total = Size(ready) - Size(PushPool) /\ Total \in Nat /\ Total' \in Nat
         /\ All' = All \cup (nobj + 1 .. nobj + n)
    <3>1. message["push"] \in Inst /\ ready \in Pool(Obj) /\ PushPool = pool[message["push"]]
      BY <1>3, <1>5, <2>7
    <3>. DEFINE fresh == nobj + 1 .. nobj + n
    <3>2. pool' = [pool EXCEPT ![message["push"]] = ready]
      BY <2>9
    <3>. HIDE DEF fresh
    <3>3. /\ Total' - Total = Size(ready) - Size(pool[message["push"]])
          /\ Total \in Nat /\ Total' \in Nat
          /\ Elements(ready) = Elements(pool[message["push"]]) \cup fresh
             => All' = All \cup fresh
      BY <1>5, <3>1, <3>2, PoolChanged
    <3>. USE DEF fresh
    <3>. QED
      BY <3>1, <3>3, <2>8, Zenon
  <2>11. Size(PushPool) \in Nat /\ Size(ready) \in Nat
    BY <1>3, <2>7, SizeNat
  <2>12. /\ Total' + Len(lost) + Cardinality(InHand') = nobj + n
         /\ All' \cup Elems(lost) \cup Held' = 1 .. nobj + n
    <3>1. Total' + Len(lost) + Cardinality(InHand') = nobj + n
      <4>1. Total' = Total + n
        BY <2>6, <2>8, <2>10, <2>11
      <4>2. Total + Len(lost) = nobj /\ Cardinality(InHand') = 0
        BY <1>2, <1>3, <1>4, <2>4, <2>5, <2>10
      <4>. QED
        BY <1>3, <2>6, <2>10, <4>1, <4>2
    <3>2. (1 .. nobj) \cup (nobj + 1 .. nobj + n) = 1 .. nobj + n
      BY <2>6
    <3>. QED
      BY <1>2, <2>5, <2>10, <3>1, <3>2
  <2>13. /\ Total' + Len(lost') + Cardinality(InHand') = nobj'
         /\ All' \cup Elems(lost') \cup Held' = 1 .. nobj'
    <3>1. CASE nobj' = nobj + n /\ lost' = lost
      BY <2>12, <3>1
    <3>2. CASE /\ nobj' = nobj + n + 1 /\ nobj + n + 1 \in Obj
               /\ lost' = Append(lost, nobj + n + 1)
      <4>1. /\ Len(lost') = Len(lost) + 1
            /\ Elems(lost') = Elems(lost) \cup {nobj + n + 1}
        BY <1>3, <3>2, ElemsAppend
      <4>2. (1 .. nobj + n) \cup {nobj + n + 1} = 1 .. nobj + n + 1
        BY <2>6
      <4>3. Total' + Len(lost') + Cardinality(InHand') = nobj'
        <5>1. Cardinality(InHand') = 0 /\ Total' \in Nat
          BY <1>4, <2>5, <2>10
        <5>2. Total' + Len(lost) = nobj + n
          BY <1>3, <2>12, <5>1
        <5>3. nobj' = nobj + n + 1 /\ Len(lost') = Len(lost) + 1 /\ Len(lost) \in Nat
          BY <1>3, <3>2, <4>1, Zenon
        <5>. QED
          BY <2>6, <5>1, <5>2, <5>3
      <4>4. All' \cup Elems(lost') \cup Held' = 1 .. nobj'
        BY <2>12, <3>2, <4>1, <4>2
      <4>. QED
        BY <4>3, <4>4
    <3>. QED
      BY <2>1, <3>1, <3>2
  <2>14. \A q \in Producer : pc'[q] = "link" => seen'[q] = PushPool'
    BY <1>3, <2>4, <2>9
  <2>. QED
    BY <2>13, <2>14
<1>8. CASE Link(p)
  <2>1. /\ pc[p] = "link" /\ pc'[p] = "commit" /\ nobj' = nobj /\ lost' = lost /\ val'[p] = Head(seen[p].free)
        /\ pool' = [pool EXCEPT ![message["push"]] =
                      [PushPool EXCEPT !.free = Tail(seen[p].free)]]
    BY <1>3, <1>8 DEF Link, Goto, IndInv, TypeOK, PushPool
  <2>2. p \in Writers /\ seen[p] = PushPool /\ PushPool.free # <<>>
    BY <1>2, <2>1 DEF Writers, Writing, IndInv, TakeReady
  <2>3. InHand = {} /\ \A q \in Producer : pc[q] = "link" => q = p
    BY <1>1, <2>1, <2>2, Alone
  <2>4. InHand' = {p} /\ Held = {} /\ Held' = {Head(PushPool.free)}
    BY <1>3, <2>1, <2>2, <2>3 DEF InHand, Held
  <2>. DEFINE left == [PushPool EXCEPT !.free = Tail(PushPool.free)]
  <2>5. PushPool.use \in Seq(Obj) /\ PushPool.free \in Seq(Obj)
    BY <1>3 DEF Pool
  <2>6. /\ Tail(PushPool.free) \in Seq(Obj) /\ Len(Tail(PushPool.free)) = Len(PushPool.free) - 1
        /\ Elems(PushPool.free) = Elems(Tail(PushPool.free)) \cup {Head(PushPool.free)}
    BY <2>2, <2>5, ElemsTail
  <2>7. left \in Pool(Obj) /\ left.use = PushPool.use /\ left.free = Tail(PushPool.free)
    BY <1>3, <2>6 DEF Pool
  <2>8. pool' = [pool EXCEPT ![message["push"]] = left]
    BY <2>1, <2>2
  <2>. HIDE DEF left
  <2>9. Elements(PushPool) = Elements(left) \cup {Head(PushPool.free)}
    BY <2>6, <2>7 DEF Elements
  <2>10. Size(left) - Size(PushPool) = -1
    <3>1. Size(PushPool) = Len(PushPool.use) + Len(PushPool.free)
      BY DEF Size
    <3>2. Size(left) = Len(PushPool.use) + (Len(PushPool.free) - 1)
      BY <2>6, <2>7, Zenon DEF Size
    <3>3. \A u, f \in Nat : (u + (f - 1)) - (u + f) = -1
      OBVIOUS
    <3>4. Len(PushPool.use) \in Nat /\ Len(PushPool.free) \in Nat
      BY <2>5
    <3>. QED
      BY <3>1, <3>2, <3>3, <3>4, Zenon
  <2>11. /\ Total' - Total = Size(left) - Size(PushPool) /\ Total \in Nat /\ Total' \in Nat
         /\ All = All' \cup {Head(PushPool.free)}
    <3>1. message["push"] \in Inst /\ left \in Pool(Obj) /\ PushPool = pool[message["push"]]
      BY <1>3, <1>5, <2>7
    <3>2. /\ Total' - Total = Size(left) - Size(pool[message["push"]])
          /\ Total \in Nat /\ Total' \in Nat
          /\ Elements(pool[message["push"]]) = Elements(left) \cup {Head(PushPool.free)}
             => All = All' \cup {Head(PushPool.free)}
      BY <1>5, <3>1, <2>8, PoolChanged
    <3>. QED
      BY <3>1, <3>2, <2>9, Zenon
  <2>12. Total' + Len(lost') + Cardinality(InHand') = nobj'
    <3>1. Total' - Total = -1
      BY <2>10, <2>11, Zenon
    <3>2. Total + Len(lost) = nobj
      BY <1>2, <1>3, <1>4, <2>3, <2>11
    <3>. QED
      BY <1>3, <1>4, <2>1, <2>4, <2>11, <3>1, <3>2
  <2>13. All' \cup Elems(lost') \cup Held' = 1 .. nobj'
    BY <1>2, <2>1, <2>4, <2>11
  <2>14. \A q \in Producer : pc'[q] = "link" => seen'[q] = PushPool'
    BY <1>3, <2>1, <2>3
  <2>. QED
    BY <2>12, <2>13, <2>14
<1>9. CASE Commit(p)
  <2>1. /\ pc[p] = "commit" /\ pc'[p] = "idle" /\ nobj' = nobj
        /\ \/ /\ pool' = [pool EXCEPT ![message["push"]] =
                            [PushPool EXCEPT !.use = Append(seen[p].use, val[p])]]
              /\ lost' = lost
           \/ pool' = pool /\ lost' = Append(lost, val[p])
    BY <1>3, <1>9 DEF Commit, Leave, Goto, PushPool
  <2>2. p \in Writers /\ val[p] \in Obj
    BY <2>1 DEF Writers, Writing, IndInv, TakeReady
  <2>3. InHand = {p} /\ \A q \in Producer : pc[q] = "link" => q = p
    BY <1>1, <2>1, <2>2, Alone
  <2>4. InHand' = {} /\ Held' = {} /\ Held = {val[p]}
    BY <1>3, <2>1, <2>3 DEF InHand, Held
  <2>5. seen[p].use = PushPool.use
    BY <1>1, <2>3 DEF OneQueue
  <2>. DEFINE more == [PushPool EXCEPT !.use = Append(PushPool.use, val[p])]
  <2>6. PushPool.use \in Seq(Obj) /\ PushPool.free \in Seq(Obj)
    BY <1>3 DEF Pool
  <2>7. /\ Append(PushPool.use, val[p]) \in Seq(Obj)
        /\ Len(Append(PushPool.use, val[p])) = Len(PushPool.use) + 1
        /\ Elems(Append(PushPool.use, val[p])) = Elems(PushPool.use) \cup {val[p]}
    BY <2>2, <2>6, ElemsAppend
  <2>8. more \in Pool(Obj) /\ more.use = Append(PushPool.use, val[p]) /\ more.free = PushPool.free
    BY <1>3, <2>7 DEF Pool
  <2>9. \/ pool' = [pool EXCEPT ![message["push"]] = more] /\ lost' = lost
        \/ pool' = pool /\ lost' = Append(lost, val[p])
    BY <2>1, <2>5
  <2>. HIDE DEF more
  <2>10. Elements(more) = Elements(PushPool) \cup {val[p]}
    BY <2>7, <2>8 DEF Elements
  <2>11. Size(more) - Size(PushPool) = 1
    <3>1. Size(PushPool) = Len(PushPool.use) + Len(PushPool.free)
      BY DEF Size
    <3>2. Size(more) = (Len(PushPool.use) + 1) + Len(PushPool.free)
      BY <2>7, <2>8, Zenon DEF Size
    <3>3. \A u, f \in Nat : ((u + 1) + f) - (u + f) = 1
      OBVIOUS
    <3>4. Len(PushPool.use) \in Nat /\ Len(PushPool.free) \in Nat
      BY <2>6
    <3>. QED
      BY <3>1, <3>2, <3>3, <3>4, Zenon
  <2>15. \A q \in Producer : pc'[q] = "link" => seen'[q] = PushPool'
    BY <1>3, <2>1, <2>3
  <2>12. Total + Len(lost) + 1 = nobj /\ All \cup {val[p]} \cup Elems(lost) = 1 .. nobj
    <3>1. Total \in Nat
      <4>1. Size(pool[0]) \in Nat /\ Size(pool[1]) \in Nat
        BY <1>5, SizeNat DEF TypeOK, Inst
      <4>. QED
        BY <4>1 DEF Total
    <3>. QED
      BY <1>2, <1>3, <1>4, <2>3, <2>4, <3>1
  <2>13. CASE pool' = [pool EXCEPT ![message["push"]] = more] /\ lost' = lost
    <3>1. message["push"] \in Inst /\ more \in Pool(Obj) /\ PushPool = pool[message["push"]]
      BY <1>3, <1>5, <2>8
    <3>2. /\ Total' - Total = Size(more) - Size(pool[message["push"]])
          /\ Total \in Nat /\ Total' \in Nat
          /\ Elements(more) = Elements(pool[message["push"]]) \cup {val[p]}
             => All' = All \cup {val[p]}
      BY <1>5, <3>1, <2>13, PoolChanged
    <3>3. Total' - Total = 1 /\ All' = All \cup {val[p]}
      BY <3>1, <3>2, <2>10, <2>11, Zenon
    <3>4. Total' + Len(lost') + Cardinality(InHand') = nobj'
      BY <1>3, <1>4, <2>1, <2>4, <2>12, <2>13, <3>2, <3>3
    <3>5. All' \cup Elems(lost') \cup Held' = 1 .. nobj'
      BY <2>1, <2>4, <2>12, <2>13, <3>3
    <3>. QED
      BY <2>15, <3>4, <3>5
  <2>14. CASE pool' = pool /\ lost' = Append(lost, val[p])
    <3>1. /\ Len(lost') = Len(lost) + 1 /\ Elems(lost') = Elems(lost) \cup {val[p]}
      BY <1>3, <2>2, <2>14, ElemsAppend
    <3>2. Total' = Total /\ All' = All
      BY <2>14 DEF Total, All, Size, Elements, Elems
    <3>0. Total \in Nat
      <4>1. Size(pool[0]) \in Nat /\ Size(pool[1]) \in Nat
        BY <1>5, SizeNat DEF TypeOK, Inst
      <4>. QED
        BY <4>1 DEF Total
    <3>3. Total' + Len(lost') + Cardinality(InHand') = nobj'
      BY <1>3, <1>4, <2>1, <2>4, <2>12, <3>0, <3>1, <3>2
    <3>4. All' \cup Elems(lost') \cup Held' = 1 .. nobj'
      BY <2>1, <2>4, <2>12, <3>1, <3>2
    <3>. QED
      BY <2>15, <3>3, <3>4
  <2>. QED
    BY <2>9, <2>13, <2>14
<1>. QED
  BY <1>6, <1>7, <1>8, <1>9 DEF Push

\* pop and reset move the heads of queues, and keep them or add them to the lost;
\* a swap moves no element.
LEMMA KeptConsume ==
  ASSUME IndInv, Kept, FreshRead, Consume
  PROVE  Kept' /\ FreshRead'
<1>1. /\ UNCHANGED <<nobj, val, seen, raced>> /\ \A p \in Producer : pc'[p] = pc[p]
      /\ InHand' = InHand
  <2>1. \A p \in Producer : p \in Thread /\ p # "consumer"
    BY MqAssumption DEF Thread
  <2>2. UNCHANGED <<nobj, val, seen, raced>> /\ \A p \in Producer : pc'[p] = pc[p]
    BY <2>1 DEF Consume, ConsumerFront, ConsumerPop, SwapLocks, SwapFirst, SwapSecond, ResetLocks,
              Reset, ResetPop, ClearOne, ResetPush, ResetDone, LockBoth, Goto, IndInv, TypeOK
  <2>. QED
    BY <2>2 DEF InHand
<1>2. Held' = Held
  BY <1>1 DEF Held
<1>3. /\ message["pop"] \in Inst /\ message["push"] \in Inst
      /\ pool[0] \in Pool(Obj) /\ pool[1] \in Pool(Obj) /\ 0 \in Inst /\ 1 \in Inst
      /\ lost \in Seq(Obj)
  BY DEF IndInv, TypeOK, Inst
<1>4. Total \in Nat /\ Len(lost) \in Nat
  <2>1. Size(pool[0]) \in Nat /\ Size(pool[1]) \in Nat
    BY <1>3, SizeNat
  <2>. QED
    BY <1>3, <2>1 DEF Total
<1>5. \A p \in Producer : pc[p] = "link" => p \in Writers
  BY DEF Writers, Writing
<1>6. /\ Total' \in Nat /\ Len(lost') \in Nat
      /\ Total' + Len(lost') = Total + Len(lost)
      /\ All' \cup Elems(lost') = All \cup Elems(lost)
  <2>1. CASE UNCHANGED <<pool, lost>>
    BY <1>4, <2>1 DEF Total, All, Size, Elements, Elems
  <2>2. CASE \E i \in Inst : DropHead(i) /\ pool[i].use # <<>>
    <3>1. PICK i \in Inst : DropHead(i) /\ pool[i].use # <<>>
      BY <2>2
    <3>2. PICK kept \in BOOLEAN : Dropped(i, kept)
      BY <3>1, DropHeadIs
    <3>. QED
      BY <3>1, <3>2, DroppedKeeps
  <2>3. \/ UNCHANGED <<pool, lost>>
        \/ \E i \in Inst : DropHead(i) /\ pool[i].use # <<>>
    <3>1. CASE ConsumerPop
      <4>1. DropHead(message["pop"]) /\ pool[message["pop"]].use # <<>>
        BY <3>1 DEF ConsumerPop, IndInv, PopReady, PopPool
      <4>. QED
        BY <1>3, <4>1
    <3>2. CASE ClearOne
      BY <1>3, <3>2 DEF ClearOne
    <3>3. CASE \/ ConsumerFront \/ SwapLocks \/ SwapFirst \/ SwapSecond \/ ResetLocks
               \/ ResetPop \/ ResetPush \/ ResetDone
      BY <3>3 DEF ConsumerFront, SwapLocks, SwapFirst, SwapSecond, ResetLocks, ResetPop, ResetPush,
                  ResetDone
    <3>. QED
      BY <3>1, <3>2, <3>3 DEF Consume, Reset
  <2>. QED
    BY <2>1, <2>2, <2>3
<1>7. FreshRead'
  <2>. SUFFICES ASSUME ~raced', NEW p \in Producer, pc'[p] = "link"
                PROVE  seen'[p] = PushPool'
    BY DEF FreshRead
  <2>1. p \in Writers /\ seen'[p] = PushPool
    BY <1>1, <1>5 DEF FreshRead
  <2>2. pc["consumer"] \notin {"swap2", "swap3", "reset2", "clear0", "clear1"}
    BY <2>1, TwoWriters
  <2>3. message' = message /\ pool'[message["push"]] = pool[message["push"]]
    <3>1. CASE ConsumerPop
      <4>1. message["push"] # message["pop"]
        BY <2>2 DEF IndInv, Pointers
      <4>. QED
        BY <1>3, <3>1, <4>1 DEF ConsumerPop, DropHead, IndInv, TypeOK
    <3>2. CASE ConsumerFront \/ SwapLocks \/ ResetLocks
      BY <3>2 DEF ConsumerFront, SwapLocks, ResetLocks
    <3>. QED
      BY <2>2, <3>1, <3>2 DEF Consume, SwapFirst, SwapSecond, Reset, ResetPop, ClearOne, ResetPush,
                              ResetDone
  <2>. QED
    BY <2>1, <2>3 DEF PushPool
<1>. QED
  BY <1>1, <1>2, <1>6, <1>7, Zenon DEF Kept

\* As long as no two producers have met in a pool, every element ever allocated
\* is in one place: in use, free, in the hand of the producer at work, or one of
\* those that a swallowed exception has left in no queue
\* (queue_pool.h: _build, _malloc, push, pop, clear; message_queue.h: push, reset).
THEOREM ElementsCorrect == Spec => []ElementsConserved
<1>1. Init => IndInv /\ OneQueue /\ Kept /\ FreshRead
  <2>. SUFFICES ASSUME Init PROVE Kept /\ FreshRead
    BY InitInv, OneQueueInit
  <2>1. InHand = {} /\ \A p \in Producer : pc[p] = "idle"
    BY DEF Init, InHand, Thread
  <2>2. pool[0] = EmptyPool /\ pool[1] = EmptyPool /\ nobj = 0 /\ lost = <<>>
    BY DEF Init, Inst
  <2>3. Size(EmptyPool) = 0 /\ Elements(EmptyPool) = {} /\ Elems(<<>>) = {} /\ Len(<<>>) = 0
    BY DEF Size, Elements, Elems, EmptyPool
  <2>4. /\ Total = 0 /\ All = {} /\ Held = {} /\ Cardinality(InHand) = 0
        /\ Len(lost) = 0 /\ Elems(lost) = {}
    BY <2>1, <2>2, <2>3, FS_EmptySet DEF Total, All, Held
  <2>. QED
    BY <2>1, <2>2, <2>4 DEF Kept, FreshRead
<1>2. IndInv /\ OneQueue /\ Kept /\ FreshRead /\ [Next]_vars
      => IndInv' /\ OneQueue' /\ Kept' /\ FreshRead'
  <2>. SUFFICES ASSUME IndInv, OneQueue, Kept, FreshRead, [Next]_vars
                PROVE  OneQueue' /\ Kept' /\ FreshRead'
    BY IndInvStep
  <2>1. ASSUME NEW p \in Producer, Push(p) PROVE OneQueue' /\ Kept' /\ FreshRead'
    BY <2>1, PushOne, KeptPush
  <2>2. CASE Consume
    BY <2>2, ConsumeOne, KeptConsume
  <2>3. CASE UNCHANGED vars
    <3>1. OneQueue' <=> OneQueue
      BY <2>3 DEF OneQueue, vars, Writers, Writing, InHand, PushPool
    <3>2. Kept' <=> Kept
      BY <2>3 DEF Kept, Total, All, Held, Size, Elements, Elems, InHand, vars
    <3>3. FreshRead' <=> FreshRead
      BY <2>3 DEF FreshRead, PushPool, vars
    <3>. QED
      BY <3>1, <3>2, <3>3
  <2>. QED
    BY <2>1, <2>2, <2>3 DEF Next
<1>3. IndInv /\ Kept => ElementsConserved
  BY StoredMeans DEF IndInv
<1>. QED
  BY <1>1, <1>2, <1>3, PTL DEF Spec
=============================================================================
