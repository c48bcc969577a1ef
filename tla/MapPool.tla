------------------------------ MODULE MapPool -------------------------------
(***************************************************************************)
(* CMapPool (common/pool/map_pool.h): a std::map of the elements in use    *)
(* and a queue of the elements free for reuse, with an iterator that walks *)
(* the map while elements come and go.  Every method swallows what it      *)
(* throws, so running out of memory in the middle leaves a partial effect. *)
(*                                                                         *)
(* An element is the number of the `new T' that made it.  The keys are     *)
(* ordered, as std::map orders them; End is the iterator past the last.    *)
(***************************************************************************)
EXTENDS Integers, Sequences

CONSTANTS NKey,      \* keys are 1 .. NKey
          MaxMade,   \* bound: elements that `new' ever makes
          Limits     \* values that setPoolCount and setMaxFree are given

ASSUME MapPoolAssumption ==
  NKey \in Nat \ {0} /\ MaxMade \in Nat /\ Limits \subseteq Nat

VARIABLES useList,   \* m_UseList: the element of each key, Nil if none
          freeList,  \* m_FreeList
          nCount,    \* m_nCount: elements that _build makes at once
          nMaxFree,  \* m_nMaxFree
          made,      \* elements made so far
          heap,      \* elements made and not deleted
          sweep,     \* the key clear() stands on; Idle outside clear()
          pos,       \* the caller's iterator: a key, End, or Dangling
          due,       \* keys in the map since getHead(pos)
          seen,      \* keys whose elements getNext(pos) has returned
          outOfMemory \* something has thrown bad_alloc

poolVars == <<useList, freeList, nCount, nMaxFree, made, heap, sweep, pos,
              due, seen, outOfMemory>>

Key      == 1 .. NKey
Nil      == 0         \* nullptr
Dangling == 0         \* an iterator never set or whose key was erased
Idle     == 0
End      == NKey + 1

InUse == {k \in Key : useList[k] # Nil}
Free  == {freeList[i] : i \in DOMAIN freeList}

\* lower_bound: the first key in use from k on, or End.
At(k) == {j \in InUse \cup {End} : j >= k /\ \A i \in InUse : i >= k => j <= i}

MapPoolInit ==
  /\ useList = [k \in Key |-> Nil] /\ freeList = <<>>
  /\ nCount = 0 /\ nMaxFree = 0
  /\ made = 0 /\ heap = {} /\ sweep = Idle
  /\ pos = Dangling /\ due = {} /\ seen = {} /\ outOfMemory = FALSE

\* The constructor's COUNT, setPoolCount and setMaxFree, before any use.
Configure(n, m) ==
  /\ made = 0 /\ nCount' = n /\ nMaxFree' = m
  /\ UNCHANGED <<useList, freeList, made, heap, sweep, pos, due, seen,
                 outOfMemory>>

(***************************************************************************)
(* What _malloc finds in the free list: what was there or, when that is    *)
(* nothing, what _build adds: n of the nCount elements, and one more that  *)
(* is lost when push throws after new.                                     *)
(***************************************************************************)
Builds == {b \in [kept : 0 .. nCount, lost : 0 .. 1] : b.kept + b.lost <= nCount}

Refilled ==
  IF freeList # <<>> THEN {[list |-> freeList, made |-> made, short |-> 0]}
  ELSE {[list |-> [i \in 1 .. b.kept |-> made + i], made |-> made + b.kept + b.lost,
         short |-> nCount - b.kept] : b \in Builds}

\* m_UseList.insert: when it throws, the caller gets the element and the map
\* does not.
Inserted(k, p, list, m, short) ==
  /\ freeList' = list /\ made' = m /\ heap' = heap \cup (made + 1 .. m)
  /\ \/ useList' = [useList EXCEPT ![k] = p] /\ outOfMemory' = (outOfMemory \/ short > 0)
     \/ UNCHANGED useList /\ outOfMemory' = TRUE

\* allocate of a key that has an element changes nothing.  The caller gets
\* nullptr when new throws.
Allocate(k) ==
  /\ sweep = Idle /\ useList[k] = Nil
  /\ \E r \in Refilled :
       /\ r.made < MaxMade
       /\ \/ /\ r.list # <<>>
             /\ Inserted(k, Head(r.list), Tail(r.list), r.made, r.short)
          \/ /\ r.list = <<>>
             /\ Inserted(k, r.made + 1, <<>>, r.made + 1, r.short)
          \/ /\ r.list = <<>>
             /\ made' = r.made /\ heap' = heap \cup (made + 1 .. r.made)
             /\ outOfMemory' = TRUE
             /\ UNCHANGED <<useList, freeList>>
  /\ UNCHANGED <<nCount, nMaxFree, sweep, pos, due, seen>>

\* Mutant of Freed: the else is missing.
FreedBoth(p) ==
  /\ heap' = IF nMaxFree > 0 /\ Len(freeList) > nMaxFree THEN heap \ {p} ELSE heap
  /\ \/ freeList' = Append(freeList, p) /\ UNCHANGED outOfMemory
     \/ outOfMemory' = TRUE /\ UNCHANGED freeList

\* _free: deletes p when the list is longer than its limit; when push throws,
\* p is in neither list.
Freed(p) ==
  IF nMaxFree > 0 /\ Len(freeList) > nMaxFree
  THEN heap' = heap \ {p} /\ UNCHANGED <<freeList, outOfMemory>>
  ELSE /\ UNCHANGED heap
       /\ \/ freeList' = Append(freeList, p) /\ UNCHANGED outOfMemory
          \/ outOfMemory' = TRUE /\ UNCHANGED freeList

\* An iterator whose key is erased may not be used again.
Erased(keys) == pos' = IF pos \in keys THEN Dangling ELSE pos

\* release(key); of a key without an element it returns false.
Release(k) ==
  /\ sweep = Idle /\ useList[k] # Nil
  /\ useList' = [useList EXCEPT ![k] = Nil]
  /\ Freed(useList[k])
  /\ Erased({k}) /\ due' = due \ {k}
  /\ UNCHANGED <<nCount, nMaxFree, made, sweep, seen>>

(***************************************************************************)
(* clear: every element is freed while the map still holds it, and only    *)
(* then is the map emptied.  One step per turn of the loop.                *)
(***************************************************************************)
ClearBegin ==
  /\ sweep = Idle /\ sweep' \in At(1)
  /\ UNCHANGED <<useList, freeList, nCount, nMaxFree, made, heap, pos, due,
                 seen, outOfMemory>>

ClearTurn ==
  /\ sweep \in Key
  /\ Freed(useList[sweep]) /\ sweep' \in At(sweep + 1)
  /\ UNCHANGED <<useList, nCount, nMaxFree, made, pos, due, seen>>

ClearEnd ==
  /\ sweep = End /\ sweep' = Idle
  /\ useList' = [k \in Key |-> Nil]
  /\ Erased(Key) /\ due' = {}
  /\ UNCHANGED <<freeList, nCount, nMaxFree, made, heap, seen, outOfMemory>>

\* initPool, also the destructor: what both lists hold is deleted.
InitPool ==
  /\ sweep = Idle
  /\ heap' = heap \ (Free \cup {useList[k] : k \in InUse})
  /\ useList' = [k \in Key |-> Nil] /\ freeList' = <<>>
  /\ Erased(Key) /\ due' = {}
  /\ UNCHANGED <<nCount, nMaxFree, made, sweep, seen, outOfMemory>>

\* getHead(pos), then getNext(pos) until isTail(pos).
GetHead ==
  /\ sweep = Idle
  /\ pos' \in At(1) /\ due' = InUse /\ seen' = {}
  /\ UNCHANGED <<useList, freeList, nCount, nMaxFree, made, heap, sweep,
                 outOfMemory>>

GetNext ==
  /\ sweep = Idle /\ pos \in InUse
  /\ pos' \in At(pos + 1) /\ seen' = seen \cup {pos}
  /\ UNCHANGED <<useList, freeList, nCount, nMaxFree, made, heap, sweep, due,
                 outOfMemory>>

MapPoolNext ==
  \/ \E n, m \in Limits : Configure(n, m)
  \/ \E k \in Key : Allocate(k) \/ Release(k)
  \/ ClearBegin \/ ClearTurn \/ ClearEnd \/ InitPool
  \/ GetHead \/ GetNext

MapPoolSpec == MapPoolInit /\ [][MapPoolNext]_poolVars

-----------------------------------------------------------------------------
MapPoolTypeOK ==
  /\ useList \in [Key -> Nat] /\ freeList \in Seq(Nat \ {0})
  /\ nCount \in Nat /\ nMaxFree \in Nat
  /\ made \in Nat /\ heap \subseteq 1 .. made
  /\ sweep \in 0 .. End /\ pos \in 0 .. End
  /\ due \subseteq Key /\ seen \subseteq Key /\ outOfMemory \in BOOLEAN

\* Keys whose elements clear() has not freed yet.
Held == {k \in InUse : k >= sweep}

Placed == Free \cup {useList[k] : k \in Held}

\* No element is in two places: under two keys, twice in the free list, or in
\* use and free.
OnePlace ==
  /\ \A j, k \in InUse : useList[j] = useList[k] => j = k
  /\ \A i, j \in DOMAIN freeList : freeList[i] = freeList[j] => i = j
  /\ \A k \in Held : useList[k] \notin Free

\* What the lists hold exists, and what exists is held until memory runs out.
NoneLost == Placed \subseteq heap /\ (~outOfMemory => heap \subseteq Placed)

\* _free compares with > before it pushes: one more than the limit stays.
FreeBounded ==
  nMaxFree > 0 => Len(freeList) <= nMaxFree + 1 \/ Len(freeList) <= nCount

\* A walk returns each key that is in the map from its start to its end once,
\* in order, whatever is allocated and released meanwhile.
WalkComplete ==
  /\ pos \in Key => pos \in InUse
  /\ pos # Dangling => \A k \in due : k < pos <=> k \in seen
  /\ pos # Dangling => \A k \in seen : k < pos

(***************************************************************************)
(* What the pool owes its caller: allocate, release, clear and initPool    *)
(* keep each element in one place and lose none while memory lasts, the    *)
(* free list respects its limit, and a walk with getHead and getNext meets *)
(* each element once.                                                      *)
(***************************************************************************)
PoolSound == OnePlace /\ NoneLost /\ FreeBounded /\ WalkComplete
=============================================================================
