---------------------------- MODULE MessageQueue ----------------------------
(***************************************************************************)
(* CMessageQueue (network/message_queue.h): two queue pools, one that      *)
(* producers write and one that a single consumer reads, and the pointers  *)
(* m_message[pop] and m_message[push] that swap_queue exchanges.           *)
(*                                                                         *)
(* A producer picks the mutex to lock by reading m_message[push] without a *)
(* lock; by the time it has the mutex, the pointer may have moved on.      *)
(* Accesses to a pool are split where another thread can come in between:  *)
(* what an access read is kept and its write replaces what is there, so    *)
(* that two overlapping pushes can take the same element or lose one.      *)
(***************************************************************************)
EXTENDS QueuePool, FiniteSets

CONSTANTS Producer,   \* threads that push
          QueueMax,   \* m_queue_max (60000; 0 is no limit)
          BlockSize,  \* m_block_size
          MaxObj,     \* bound on the elements ever allocated
          MaxPush     \* bound on the pushes of a producer

ASSUME MqAssumption ==
  /\ QueueMax \in Nat /\ BlockSize \in Nat \ {0}
  /\ MaxObj \in Nat /\ MaxPush \in Nat
  /\ "consumer" \notin Producer /\ "none" \notin Producer

VARIABLES pool,     \* m_instance[i]: the two queue pools
          message,  \* m_message: "pop" and "push" -> instance
          owner,    \* owner[i]: the thread that holds instance i's mutex
          nobj,     \* elements allocated so far
          pc,       \* pc[t]: where thread t is
          chosen,   \* chosen[p]: instance whose mutex producer p goes for
          seen,     \* seen[p]: the pool as producer p last read it
          val,      \* val[p]: the element producer p took
          todo,     \* todo[p]: pushes producer p may still start
          \* history
          raced,    \* two producers have been in one pool at once
          lost      \* the elements that a swallowed exception left in no queue

vars == <<pool, message, owner, nobj, pc, chosen, seen, val, todo, raced, lost>>

Inst    == {0, 1}
Obj     == 1 .. MaxObj
Thread  == Producer \cup {"consumer"}
PushPool == pool[message["push"]]

Place == {"idle", "lock", "check", "take", "link", "commit",
          "pop", "swap", "swap1", "swap2", "swap3",
          "reset", "reset1", "reset2", "clear0", "clear1"}

\* A producer in the middle of reading and writing the push pool.
Writing(p) == pc[p] \in {"take", "link", "commit"}
Writers    == {p \in Producer : Writing(p)}

Init ==
  /\ pool = [i \in Inst |-> EmptyPool]
  /\ message = [pop |-> 0, push |-> 1]
  /\ owner = [i \in Inst |-> "none"]
  /\ nobj = 0
  /\ pc = [t \in Thread |-> "idle"]
  /\ chosen = [p \in Producer |-> 0]
  /\ seen = [p \in Producer |-> EmptyPool]
  /\ val = [p \in Producer |-> 0]
  /\ todo = [p \in Producer |-> MaxPush]
  /\ raced = FALSE /\ lost = <<>>

Goto(t, where) == pc' = [pc EXCEPT ![t] = where]
Lock(t, i)     == owner[i] = "none" /\ owner' = [owner EXCEPT ![i] = t]

\* The end of the locker's scope, and of push.
Leave(p) == /\ owner' = [owner EXCEPT ![chosen[p]] = "none"]
            /\ chosen' = [chosen EXCEPT ![p] = 0]
            /\ Goto(p, "idle")

(***************************************************************************)
(* push.                                                                   *)
(***************************************************************************)

\* m_message[message_push]->get_mutex(), read without a lock.
Choose(p) ==
  /\ pc[p] = "idle" /\ todo[p] > 0
  /\ chosen' = [chosen EXCEPT ![p] = message["push"]]
  /\ todo' = [todo EXCEPT ![p] = @ - 1]
  /\ Goto(p, "lock")
  /\ UNCHANGED <<pool, message, owner, nobj, seen, val, raced, lost>>

Acquire(p) ==
  /\ pc[p] = "lock"
  /\ Lock(p, chosen[p])
  /\ Goto(p, "check")
  /\ UNCHANGED <<pool, message, nobj, chosen, seen, val, todo, raced, lost>>

\* Mutant of Full: the queue tested is the consumer's.
FullPop == QueueMax # 0 /\ Len(pool[message["pop"]].use) > QueueMax

\* The limit: the test is size() > m_queue_max, on the queue of this moment.
Full == QueueMax # 0 /\ Len(PushPool.use) > QueueMax

Refuse(p) ==
  /\ pc[p] = "check" /\ Full
  /\ Leave(p)
  /\ UNCHANGED <<pool, message, nobj, seen, val, todo, raced, lost>>

Admit(p) ==
  /\ pc[p] = "check" /\ ~Full
  /\ Goto(p, "take")
  /\ raced' = (raced \/ Writers # {})
  /\ UNCHANGED <<pool, message, owner, nobj, chosen, seen, val, todo, lost>>

\* What _build allocates: n elements that are pushed and, if the push of another
\* one throws, that one.
Allocates(n, leaks) ==
  LET all == IF leaks THEN n + 1 ELSE n IN
  /\ all <= (IF PushPool.free = <<>> THEN BlockSize ELSE 0)
  /\ nobj + all <= MaxObj
  /\ nobj' = nobj + all
  /\ lost' = IF leaks THEN Append(lost, nobj + all) ELSE lost

\* _malloc, first half: build if there is no free element, and read the head.
Take(p) ==
  /\ pc[p] = "take"
  /\ \E n \in 0 .. BlockSize, leaks \in BOOLEAN :
       /\ Allocates(n, leaks)
       /\ LET ready == Built(PushPool, nobj + 1, n) IN
            /\ pool' = [pool EXCEPT ![message["push"]] = ready]
            /\ IF ready.free = <<>>
               THEN Leave(p) /\ UNCHANGED seen
               ELSE /\ Goto(p, "link") /\ UNCHANGED <<owner, chosen>>
                    /\ seen' = [seen EXCEPT ![p] = ready]
  /\ UNCHANGED <<message, val, todo, raced>>

\* Second half: drop the head of the free queue.  Then the use queue is read.
Link(p) ==
  /\ pc[p] = "link"
  /\ val' = [val EXCEPT ![p] = Head(seen[p].free)]
  /\ pool' = [pool EXCEPT ![message["push"]].free = Tail(seen[p].free)]
  /\ seen' = [seen EXCEPT ![p] = PushPool]
  /\ Goto(p, "commit")
  /\ UNCHANGED <<message, owner, nobj, chosen, todo, raced, lost>>

\* m_use_queue.push.  When it throws, the element is returned, and push reports
\* success, but it is in no queue.
Commit(p) ==
  /\ pc[p] = "commit"
  /\ \/ /\ pool' = [pool EXCEPT ![message["push"]].use = Append(seen[p].use, val[p])]
        /\ UNCHANGED lost
     \/ /\ lost' = Append(lost, val[p])
        /\ UNCHANGED pool
  /\ Leave(p)
  /\ seen' = [seen EXCEPT ![p] = EmptyPool] /\ val' = [val EXCEPT ![p] = 0]
  /\ UNCHANGED <<message, nobj, todo, raced>>

Push(p) == \/ Choose(p) \/ Acquire(p) \/ Refuse(p) \/ Admit(p)
           \/ Take(p) \/ Link(p) \/ Commit(p)

(***************************************************************************)
(* The consumer, one thread: front and then pop, as the comment on front   *)
(* asks, swap_queue and reset, in any order.  No code of the repository    *)
(* drives the queue, and nothing in it asks the consumer to swap only when *)
(* it has popped everything.                                               *)
(***************************************************************************)
PopPool == pool[message["pop"]]

\* front saw a message; pop is about to move it.
ConsumerFront ==
  /\ pc["consumer"] = "idle" /\ Front(PopPool) # 0
  /\ Goto("consumer", "pop")
  /\ UNCHANGED <<pool, message, owner, nobj, chosen, seen, val, todo, raced, lost>>

\* The head of instance i's queue is dropped, for reuse or for good.
DropHead(i) ==
  \E kept \in BOOLEAN :
    /\ pool' = [pool EXCEPT ![i] = Popped(@, kept)]
    /\ lost' = IF kept THEN lost ELSE Append(lost, Front(pool[i]))

ConsumerPop ==
  /\ pc["consumer"] = "pop"
  /\ DropHead(message["pop"])
  /\ Goto("consumer", "idle")
  /\ UNCHANGED <<message, owner, nobj, chosen, seen, val, todo, raced>>

\* Mutant of LockBoth: the mutex of instance 1 is left out.
LockOne(from, mid, to) ==
  \/ pc["consumer"] = from /\ Lock("consumer", 0) /\ Goto("consumer", mid)
  \/ pc["consumer"] = mid /\ UNCHANGED owner /\ Goto("consumer", to)

\* swap_queue and reset lock instance 0, then instance 1.
LockBoth(from, mid, to) ==
  \/ pc["consumer"] = from /\ Lock("consumer", 0) /\ Goto("consumer", mid)
  \/ pc["consumer"] = mid /\ Lock("consumer", 1) /\ Goto("consumer", to)

SwapLocks ==
  /\ \/ pc["consumer"] = "idle" /\ Goto("consumer", "swap") /\ UNCHANGED owner
     \/ LockBoth("swap", "swap1", "swap2")
  /\ UNCHANGED <<pool, message, nobj, chosen, seen, val, todo, raced, lost>>

\* Mutant of SwapFirst: the pop pointer stays.
SwapFirstStays ==
  /\ pc["consumer"] = "swap2"
  /\ Goto("consumer", "swap3")
  /\ UNCHANGED <<pool, message, owner, nobj, chosen, seen, val, todo, raced, lost>>

\* The pointers move one at a time; unlocked readers may see the middle.
SwapFirst ==
  /\ pc["consumer"] = "swap2"
  /\ message' = [message EXCEPT !["pop"] = message["push"]]
  /\ Goto("consumer", "swap3")
  /\ UNCHANGED <<pool, owner, nobj, chosen, seen, val, todo, raced, lost>>

\* Mutants of SwapSecond: _temp is forgotten, and the push pointer takes what the
\* pop pointer has become; it moves on and does not wrap.
SwapSecondSame ==
  /\ pc["consumer"] = "swap3"
  /\ message' = [message EXCEPT !["push"] = message["pop"]]
  /\ owner' = [i \in Inst |-> "none"]
  /\ Goto("consumer", "idle")
  /\ UNCHANGED <<pool, nobj, chosen, seen, val, todo, raced, lost>>

SwapSecondOn ==
  /\ pc["consumer"] = "swap3"
  /\ message' = [message EXCEPT !["push"] = message["pop"] + 1]
  /\ owner' = [i \in Inst |-> "none"]
  /\ Goto("consumer", "idle")
  /\ UNCHANGED <<pool, nobj, chosen, seen, val, todo, raced, lost>>

SwapSecond ==
  /\ pc["consumer"] = "swap3"
  /\ message' = [message EXCEPT !["push"] = 1 - message["pop"]]
  /\ owner' = [i \in Inst |-> "none"]
  /\ Goto("consumer", "idle")
  /\ UNCHANGED <<pool, nobj, chosen, seen, val, todo, raced, lost>>

ResetLocks ==
  /\ \/ /\ pc["consumer"] = "idle"
        /\ Goto("consumer", "reset") /\ UNCHANGED owner
     \/ LockBoth("reset", "reset1", "reset2")
  /\ UNCHANGED <<pool, message, nobj, chosen, seen, val, todo, raced, lost>>

\* The loop of reset: a pointer, and then the queue of that instance, element by
\* element.
ResetPop ==
  /\ pc["consumer"] = "reset2"
  /\ message' = [message EXCEPT !["pop"] = 0]
  /\ Goto("consumer", "clear0")
  /\ UNCHANGED <<pool, owner, nobj, chosen, seen, val, todo, raced, lost>>

ClearOne ==
  /\ \/ pc["consumer"] = "clear0" /\ pool[0].use # <<>> /\ DropHead(0)
     \/ pc["consumer"] = "clear1" /\ pool[1].use # <<>> /\ DropHead(1)
  /\ UNCHANGED <<message, owner, nobj, pc, chosen, seen, val, todo, raced>>

ResetPush ==
  /\ pc["consumer"] = "clear0" /\ pool[0].use = <<>>
  /\ message' = [message EXCEPT !["push"] = 1]
  /\ Goto("consumer", "clear1")
  /\ UNCHANGED <<pool, owner, nobj, chosen, seen, val, todo, raced, lost>>

ResetDone ==
  /\ pc["consumer"] = "clear1" /\ pool[1].use = <<>>
  /\ owner' = [i \in Inst |-> "none"]
  /\ Goto("consumer", "idle")
  /\ UNCHANGED <<pool, message, nobj, chosen, seen, val, todo, raced, lost>>

Reset == ResetPop \/ ClearOne \/ ResetPush \/ ResetDone

Consume == \/ ConsumerFront \/ ConsumerPop \/ SwapLocks \/ SwapFirst
           \/ SwapSecond \/ ResetLocks \/ Reset

Next == Consume \/ \E p \in Producer : Push(p)

\* Each thread goes on with what it has begun when it can.  The consumer does not
\* overlook a message at its head for ever, whatever else it does in between, and
\* swaps at last when it finds none.  A reset is never due.
Begun     == pc["consumer"] # "idle"
SwapEmpty == ~Begun /\ Front(PopPool) = 0 /\ SwapLocks

Spec == /\ Init /\ [][Next]_vars
        /\ SF_vars(ConsumerFront)
        /\ WF_vars(SwapEmpty)
        /\ WF_vars(Begun /\ Consume)
        /\ \A p \in Producer : WF_vars(Push(p))

-----------------------------------------------------------------------------
(***************************************************************************)
(* Properties.                                                             *)
(***************************************************************************)

\* Types; m_message points to the two pools, and to one only inside a swap.
TypeOK ==
  /\ pool \in [Inst -> Pool(Obj)]
  /\ message \in [{"pop", "push"} -> Inst]
  /\ owner \in [Inst -> Thread \cup {"none"}]
  /\ nobj \in 0 .. MaxObj
  /\ pc \in [Thread -> Place]
  /\ chosen \in [Producer -> Inst]
  /\ seen \in [Producer -> Pool(Obj)]
  /\ val \in [Producer -> Obj \cup {0}]
  /\ todo \in [Producer -> 0 .. MaxPush]
  /\ raced \in BOOLEAN /\ lost \in Seq(Obj)

\* The unlocked consumer and the producers never work on the same pool: while
\* a producer writes, whichever mutex it holds, m_message does not move, and
\* the pool it writes is not the one the consumer reads.
ConsumerAlone ==
  Writers # {} => /\ message["push"] # message["pop"]
                  /\ pc["consumer"] \notin {"swap2", "swap3", "reset2", "clear0", "clear1"}

\* No matter how many producers there are, a queue exceeds the limit by two
\* messages at most: one because the test is >, one because two producers, each
\* with its own mutex, can pass the test together.
QueueBound == QueueMax # 0 => \A i \in Inst : Len(pool[i].use) <= QueueMax + 2

\* As long as no two producers met in a pool, every element ever allocated is
\* in exactly one place: in use, free, in the hand of a producer, or one of those
\* that a swallowed exception has lost.
Elems(s) == {s[k] : k \in DOMAIN s}
InHand == {p \in Producer : pc[p] = "commit"}
Stored == pool[0].use \o pool[0].free \o pool[1].use \o pool[1].free

ElementsConserved ==
  ~raced =>
    /\ Len(Stored) + Len(lost) + Cardinality(InHand) = nobj
    /\ Elems(Stored) \cup Elems(lost) \cup {val[p] : p \in InHand} = 1 .. nobj

\* Until then the two pools are the two lanes of a MessageChannel: what is popped
\* is the oldest of its lane, what is pushed goes behind the other, and a swap
\* exchanges them whole, through the moment where both pointers are the same.
Clearing == pc["consumer"] \in {"clear0", "clear1"}

Channel == INSTANCE MessageChannel WITH
             Message <- Obj, broken <- raced,
             front <- IF Clearing THEN <<>> ELSE PopPool.use,
             back  <- IF Clearing THEN <<>> ELSE pool[1 - message["pop"]].use

ImplementsChannel == Channel!Spec

\* What was pushed is consumed: once the producers have done their pushes, the
\* consumer swaps and pops until nothing is left.
Drained == (\E i \in Inst : pool[i].use # <<>>) ~> (\A i \in Inst : pool[i].use = <<>>)

\* "push: several threads need the lock" (message_queue.h:41): the lock is
\* there to let one producer at a time write the queue.
ProducerExclusion == Cardinality(Writers) <= 1

-----------------------------------------------------------------------------
(***************************************************************************)
(* The inductive invariant behind ConsumerAlone and QueueBound.            *)
(***************************************************************************)

\* A producer past its lock holds the mutex it chose, and the consumer holds
\* the ones it has locked so far.
LocksHeld ==
  /\ \A p \in Producer : pc[p] \in {"check", "take", "link", "commit"} => owner[chosen[p]] = p
  /\ pc["consumer"] \in {"swap1", "reset1"} => owner[0] = "consumer"
  /\ pc["consumer"] \in {"swap2", "swap3", "reset2", "clear0", "clear1"} =>
       \A i \in Inst : owner[i] = "consumer"

\* The pointers differ except between the two assignments of swap_queue, and
\* perhaps between those of reset.
Pointers ==
  /\ pc["consumer"] = "swap3" => message["push"] = message["pop"]
  /\ pc["consumer"] \notin {"swap3", "clear0"} => message["push"] # message["pop"]
  /\ pc["consumer"] \in {"clear0", "clear1"} => message["pop"] = 0

\* What the consumer has found in its pool is still so: something to pop, or
\* nothing more to clear.
PopReady ==
  /\ pc["consumer"] = "pop" => PopPool.use # <<>>
  /\ pc["consumer"] = "clear1" => pool[0].use = <<>>

\* There is an element to take when there was one to see, and one to link then.
TakeReady == \A p \in Producer : /\ pc[p] = "link" => seen[p].free # <<>>
                                 /\ pc[p] = "commit" => val[p] \in Obj

\* The more producers are at work, the less there is in the queue they write:
\* each was admitted at QueueMax or below, and holds one of two mutexes.
Growth ==
  QueueMax # 0 =>
    /\ \A i \in Inst : Len(pool[i].use) <= QueueMax + 2
    /\ \A p \in Writers : Len(PushPool.use) <= QueueMax + 1
    /\ \A p, q \in Writers : p # q => Len(PushPool.use) <= QueueMax
    /\ \A p \in InHand : \/ Len(seen[p].use) <= QueueMax
                         \/ /\ Len(seen[p].use) = QueueMax + 1
                            /\ Len(PushPool.use) = QueueMax + 1

IndInv == TypeOK /\ LocksHeld /\ Pointers /\ PopReady /\ TakeReady /\ Growth

\* Until two producers meet, there is one at most, and the one that is about to
\* append has read the queue as it is.
OneQueue ==
  ~raced => /\ \A p, q \in Writers : p = q
            /\ \A p \in InHand : seen[p].use = PushPool.use

\* Then, too, a producer that is about to drop the head of the free queue has
\* read the pool as it is.
FreshRead == ~raced => \A p \in Producer : pc[p] = "link" => seen[p] = PushPool
=============================================================================
