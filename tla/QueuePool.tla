----------------------------- MODULE QueuePool ------------------------------
(***************************************************************************)
(* CQueuePool (common/pool/queue_pool.h): a queue of elements in use and a *)
(* queue of elements free for reuse.  An element is a number; build adds   *)
(* new ones.  The operators describe one pool as a record; the caller      *)
(* decides what is atomic, as the class itself takes no lock.              *)
(*                                                                         *)
(* Every method swallows what std::queue and new throw.  An element that   *)
(* is not pushed where it should go is then in neither queue: it is lost,  *)
(* and the caller is not told.                                             *)
(***************************************************************************)
EXTENDS Integers, Sequences

Pool(Obj) == [use : Seq(Obj), free : Seq(Obj)]

EmptyPool == [use |-> <<>>, free |-> <<>>]

\* _build: n of the m_block_size elements are allocated and pushed, from number
\* first on; fewer than all when new or push throws.  An element that push threw
\* on has been allocated all the same: it is the one after these.
Built(pool, first, n) ==
  [pool EXCEPT !.free = @ \o [i \in 1 .. n |-> first + i - 1]]

\* Mutant of Popped: the element is not kept for reuse.
PoppedDropped(pool, kept) == [pool EXCEPT !.use = Tail(@)]

\* pop, and one turn of clear, for a queue that has a head: the head goes to the
\* free queue, and is dropped even when _free could not put it there.
Popped(pool, kept) ==
  [use  |-> Tail(pool.use),
   free |-> IF kept THEN Append(pool.free, Head(pool.use)) ELSE pool.free]

\* front: nullptr (0) for an empty queue.
Front(pool) == IF pool.use = <<>> THEN 0 ELSE Head(pool.use)
=============================================================================
