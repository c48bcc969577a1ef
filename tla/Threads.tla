------------------------------ MODULE Threads -------------------------------
(***************************************************************************)
(* CThread (common/thread/thread.cpp) over pthreads: objects that create,  *)
(* cancel and join threads.  The system hands a thread's identifier out    *)
(* again once the thread is joined or, if it is detached, has ended; an    *)
(* object knows its thread by that identifier only.                        *)
(*                                                                         *)
(* One thread of control uses the objects; the threads it starts end at    *)
(* any moment, by themselves or because they were cancelled.               *)
(***************************************************************************)
EXTENDS Integers

CONSTANTS Thr,  \* CThread objects
          Tid   \* identifiers that the system gives to threads

ASSUME ThreadsAssumption == Tid \subseteq Nat \ {0}

VARIABLES alive,   \* objects constructed and not destroyed
          init,    \* m_iInit: what pthread_attr_init returned, 0 for success
          attr,    \* m_threadAtrr
          handle,  \* m_pthreadID
          thread,  \* the system's threads by identifier
          call,    \* the call that waits in pthread_join, NoCall if none
          suspect  \* objects whose handle no successful create of a joinable
                   \* thread vouches for

threadVars == <<alive, init, attr, handle, thread, call, suspect>>

\* glibc's values of both pairs of constants.
SYSTEM   == 0   PROCESS  == 1
JOINABLE == 0   DETACHED == 1

Attribute == {"scope", "detach", "other"}
Op        == {"wait_exit", "shutdown", "create", "destroy"}
NoCall    == [op |-> "none"]

Unused == [state |-> "free"]
Live(t) == thread[t].state # "free"

\* A thread that pthread_join can wait for.
Joinable(t) == Live(t) /\ thread[t].detach = JOINABLE

Owns(o, t) == Joinable(t) /\ thread[t].owner = o

ThreadsInit ==
  /\ alive = {} /\ suspect = {} /\ call = NoCall
  /\ init = [o \in Thr |-> 0] /\ handle = [o \in Thr |-> 0]
  /\ attr = [o \in Thr |-> [a \in Attribute |-> 0]]
  /\ thread = [t \in Tid |-> Unused]

\* The constructor.
Construct(o) ==
  /\ call = NoCall /\ o \notin alive
  /\ alive' = alive \cup {o}
  /\ handle' = [handle EXCEPT ![o] = 0]
  /\ \E err \in {0, 1} : init' = [init EXCEPT ![o] = err]
  /\ attr' = [attr EXCEPT ![o] = [a \in Attribute |-> 0]]
  /\ UNCHANGED <<thread, call, suspect>>

(***************************************************************************)
(* The setters.  set_scope calls pthread_attr_setdetachstate and           *)
(* set_detach_state calls pthread_attr_setscope; the others, of guard      *)
(* size, policy, inheritance, priority and stack, call their own.  Linux   *)
(* refuses the scope PROCESS, and so set_detach_state(DETACHED).           *)
(***************************************************************************)
Target(a) == CASE a = "scope"  -> "detach"
               [] a = "detach" -> "scope"
               [] OTHER        -> "other"

Accepted(a, v) == ~(Target(a) = "scope" /\ v = PROCESS)

SetAttribute(o, a, v) ==
  /\ call = NoCall /\ o \in alive
  /\ init[o] = 0 /\ Accepted(a, v)
  /\ attr' = [attr EXCEPT ![o][Target(a)] = v]
  /\ UNCHANGED <<alive, init, handle, thread, call, suspect>>

\* pthread_cancel: a request; the thread ends when it likes.  Of an
\* identifier that is out of use it is refused.
Cancelled(o) ==
  thread' = IF handle[o] = 0 \/ ~Live(handle[o]) THEN thread
            ELSE [thread EXCEPT ![handle[o]].cancel = TRUE]

\* terminate alone.
Terminate(o) ==
  /\ call = NoCall /\ o \in alive
  /\ Cancelled(o)
  /\ UNCHANGED <<alive, init, attr, handle, call, suspect>>

\* wait_exit, shutdown, create and the destructor up to pthread_join; all but
\* wait_exit cancel first.
Begin(o, op) ==
  /\ call = NoCall /\ o \in alive
  /\ IF op = "wait_exit" THEN UNCHANGED thread ELSE Cancelled(o)
  /\ call' = [op |-> op, obj |-> o]
  /\ UNCHANGED <<alive, init, attr, handle, suspect>>

\* pthread_join returns: at once without a joinable thread of that
\* identifier, and otherwise when it has ended.
JoinReturns(o) ==
  handle[o] # 0 /\ Joinable(handle[o]) => thread[handle[o]].state = "ended"

\* The threads after the join, and the objects under suspicion: one whose
\* thread another object has joined takes its place.
JoinedThread(o) ==
  IF handle[o] # 0 /\ Joinable(handle[o])
  THEN [thread EXCEPT ![handle[o]] = Unused] ELSE thread

Bereaved(o) ==
  (suspect \ {o}) \cup
  {p \in Thr \ {o} : handle[o] # 0 /\ Joinable(handle[o])
                     /\ thread[handle[o]].owner = p}

\* Mutant of Forgotten: wait_exit keeps the handle it has joined.
ForgottenNot(o) == handle

\* m_pthreadID = 0, whatever pthread_join returned.
Forgotten(o) == [handle EXCEPT ![o] = 0]

WaitExit(o) ==
  /\ call # NoCall /\ call.obj = o /\ call.op # "create"
  /\ JoinReturns(o)
  /\ thread' = JoinedThread(o) /\ handle' = Forgotten(o)
  /\ suspect' = Bereaved(o)
  /\ alive' = IF call.op = "destroy" THEN alive \ {o} ELSE alive
  /\ call' = NoCall
  /\ UNCHANGED <<init, attr>>

\* What pthread_create makes of the attribute: garbage when it was never
\* initialised.
DetachState(o) == IF init[o] = 0 THEN {attr[o]["detach"]} ELSE {JOINABLE, DETACHED}

CreateSucceeds(o) ==
  /\ call # NoCall /\ call.obj = o /\ call.op = "create"
  /\ JoinReturns(o)
  /\ \E t \in Tid, d \in DetachState(o) :
       /\ JoinedThread(o)[t] = Unused
       /\ thread' = [JoinedThread(o) EXCEPT ![t] =
            [state |-> "running", detach |-> d, owner |-> o, cancel |-> FALSE]]
       /\ handle' = [Forgotten(o) EXCEPT ![o] = t]
       /\ suspect' = Bereaved(o) \cup {p \in {o} : d = DETACHED}
  /\ call' = NoCall
  /\ UNCHANGED <<alive, init, attr>>

\* pthread_create fails (EAGAIN, EINVAL, EPERM) and leaves *thread undefined:
\* glibc has written it, or not, with an identifier that it takes back.
CreateFails(o) ==
  /\ call # NoCall /\ call.obj = o /\ call.op = "create"
  /\ JoinReturns(o)
  /\ thread' = JoinedThread(o)
  /\ \/ handle' = Forgotten(o) /\ suspect' = Bereaved(o)
     \/ \E t \in Tid : /\ JoinedThread(o)[t] = Unused
                       /\ handle' = [Forgotten(o) EXCEPT ![o] = t]
                       /\ suspect' = Bereaved(o) \cup {o}
  /\ call' = NoCall
  /\ UNCHANGED <<alive, init, attr>>

\* A thread returns from its routine or acts on the cancellation.
ThreadEnds(t) ==
  /\ Live(t) /\ thread[t].state = "running"
  /\ thread' = [thread EXCEPT ![t] = IF Joinable(t) THEN [@ EXCEPT !.state = "ended"]
                                     ELSE Unused]
  /\ UNCHANGED <<alive, init, attr, handle, call, suspect>>

ThreadsNext ==
  \/ \E o \in Thr : \/ Construct(o) \/ Terminate(o)
                    \/ \E a \in Attribute, v \in {0, 1} : SetAttribute(o, a, v)
                    \/ \E op \in Op : Begin(o, op)
                    \/ WaitExit(o) \/ CreateSucceeds(o) \/ CreateFails(o)
  \/ \E t \in Tid : ThreadEnds(t)

ThreadsSpec == ThreadsInit /\ [][ThreadsNext]_threadVars

-----------------------------------------------------------------------------
ThreadRec == [state : {"running", "ended"}, detach : {JOINABLE, DETACHED},
              owner : Thr, cancel : BOOLEAN]

ThreadsTypeOK ==
  /\ alive \subseteq Thr /\ suspect \subseteq Thr
  /\ init \in [Thr -> {0, 1}] /\ attr \in [Thr -> [Attribute -> {0, 1}]]
  /\ handle \in [Thr -> {0} \cup Tid]
  /\ thread \in [Tid -> {Unused} \cup ThreadRec]
  /\ call \in {NoCall} \cup [op : Op, obj : alive]

\* A handle names the object's own joinable thread, ended or not.
HandleIsOwn == \A o \in Thr \ suspect : handle[o] # 0 => Owns(o, handle[o])

\* A joinable thread is never forgotten: its object can still join it.
NoThreadLost ==
  \A t \in Tid : Joinable(t) => thread[t].owner \in alive /\ handle[thread[t].owner] = t

(***************************************************************************)
(* create, terminate, wait_exit and shutdown act on the object's own       *)
(* thread and on no other, however identifiers are reused, and no joinable *)
(* thread is left behind.  Three objects are excepted (suspect): one whose *)
(* thread is detached, as its identifier is handed out again when it ends; *)
(* one whose create failed; one whose thread another of these has joined.  *)
(* It is set_scope(PROCESS), or an attribute that failed to initialise,    *)
(* that makes threads detached: against the comments of the setters        *)
(* (thread.h:71, 73), set_detach_state(DETACHED) never does.               *)
(***************************************************************************)
ThreadsSound == HandleIsOwn /\ NoThreadLost
=============================================================================
