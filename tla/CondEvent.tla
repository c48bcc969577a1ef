----------------------------- MODULE CondEvent ------------------------------
(***************************************************************************)
(* CCondEvent (common/thread/condEvent.cpp): an event that threads wait    *)
(* for, made of a flag, a mutex and a condition variable.  A manual event  *)
(* stays signalled until it is reset; an automatic one is to be reset by   *)
(* the wait that it ends.                                                  *)
(*                                                                         *)
(* set, reset and both halves of wait run under the mutex from end to end, *)
(* so each is one action.  A thread is in pthread_cond_wait between the    *)
(* halves; the mutex is not held there.  create_event has run before there *)
(* are waiters, and close_event runs after them.                           *)
(***************************************************************************)
EXTENDS Integers, FiniteSets

CONSTANTS Waiter,    \* threads that wait
          MaxSet,    \* bound on the signals given
          MaxReset   \* bound on the calls of reset_event

ASSUME CondAssumption == MaxSet \in Nat \ {0} /\ MaxReset \in Nat

VARIABLES
  manual,    \* m_manual_reset
  signaled,  \* m_signaled
  pc,        \* pc[t]: "idle", "blocked", "woken" (to return 0) or
             \* "late" (to return ETIMEDOUT) from pthread_cond_(timed)wait
  limit,     \* limit[t]: thread t waits with a time limit
  sets,      \* signals given so far, an initial one included
  resets,    \* calls of reset_event so far
  \* history
  ended,     \* waits that an automatic event has ended
  claim      \* set_event has found blocked waiters, and none has returned since

vars == <<manual, signaled, pc, limit, sets, resets, ended, claim>>

InWait  == {t \in Waiter : pc[t] # "idle"}
Blocked == {t \in Waiter : pc[t] = "blocked"}

\* create_event: both kinds, in both initial states.
Init ==
  /\ manual \in BOOLEAN /\ signaled \in BOOLEAN
  /\ pc = [t \in Waiter |-> "idle"]
  /\ limit = [t \in Waiter |-> FALSE]
  /\ resets = 0
  /\ sets = Cardinality({s \in {1} : signaled}) /\ ended = 0 /\ claim = FALSE

\* History of a wait that returns true.
Success == /\ ended' = IF manual THEN ended ELSE ended + 1
           /\ claim' = FALSE

(***************************************************************************)
(* wait_event up to the condition variable: the signal may be there, and   *)
(* without a time to wait it is a poll.                                    *)
(***************************************************************************)

\* Mutant of Taken: a manual event is reset as well.
TakenAlways == FALSE

\* The flag after a wait that found it set.
Taken == manual

WaitReady(t) ==
  /\ pc[t] = "idle" /\ signaled
  /\ signaled' = Taken
  /\ Success
  /\ UNCHANGED <<manual, pc, limit, sets, resets>>

WaitBlocks(t) ==
  /\ pc[t] = "idle" /\ ~signaled
  /\ pc' = [pc EXCEPT ![t] = "blocked"]
  /\ \E b \in BOOLEAN : limit' = [limit EXCEPT ![t] = b]
  /\ UNCHANGED <<manual, signaled, sets, resets, ended, claim>>

(***************************************************************************)
(* pthread_cond_wait: it may also wake for no reason, or at its time limit. *)
(***************************************************************************)
Wake(t) ==
  /\ pc[t] = "blocked"
  /\ \/ pc' = [pc EXCEPT ![t] = "woken"]
     \/ limit[t] /\ pc' = [pc EXCEPT ![t] = "late"]
  /\ UNCHANGED <<manual, signaled, limit, sets, resets, ended, claim>>

(***************************************************************************)
(* The rest of wait_event: do ... while (ret == 0 && !m_signaled).         *)
(***************************************************************************)

\* Woken and the event is signalled: the wait ends, and the flag stays.
WaitDone(t) ==
  /\ pc[t] = "woken" /\ signaled
  /\ pc' = [pc EXCEPT ![t] = "idle"] /\ limit' = [limit EXCEPT ![t] = FALSE]
  /\ Success
  /\ UNCHANGED <<manual, signaled, sets, resets>>

\* Mutant of WaitAgain: if for while.
WaitAgainOnce(t) ==
  /\ pc[t] = "woken" /\ ~signaled
  /\ pc' = [pc EXCEPT ![t] = "idle"]
  /\ UNCHANGED <<manual, signaled, limit, sets, resets, ended, claim>>

WaitAgain(t) ==
  /\ pc[t] = "woken" /\ ~signaled
  /\ pc' = [pc EXCEPT ![t] = "blocked"]
  /\ UNCHANGED <<manual, signaled, limit, sets, resets, ended, claim>>

\* ETIMEDOUT: false, whatever the flag says by now.
WaitLate(t) ==
  /\ pc[t] = "late"
  /\ pc' = [pc EXCEPT ![t] = "idle"] /\ limit' = [limit EXCEPT ![t] = FALSE]
  /\ UNCHANGED <<manual, signaled, sets, resets, ended, claim>>

(***************************************************************************)
(* set_event and reset_event.                                              *)
(***************************************************************************)

\* Mutants of Notified: one waiter is woken, whatever the event; or none.
NotifiedOne  == {{t} : t \in Blocked}
NotifiedLate == {{}}

\* broadcast wakes all; signal wakes one, if there is one, and then Wake others.
Notified == IF manual THEN {Blocked} ELSE {{t} : t \in Blocked}

SetEvent ==
  /\ sets < MaxSet /\ sets' = sets + 1
  /\ signaled' = TRUE
  /\ \E notified \in IF Blocked = {} THEN {{}} ELSE Notified :
       pc' = [t \in Waiter |-> IF t \in notified THEN "woken" ELSE pc[t]]
  /\ claim' = (claim \/ Blocked # {})
  /\ UNCHANGED <<manual, limit, resets, ended>>

ResetEvent ==
  /\ resets < MaxReset /\ resets' = resets + 1
  /\ signaled' = FALSE /\ claim' = FALSE
  /\ UNCHANGED <<manual, pc, limit, sets, ended>>

Resume(t) == WaitDone(t) \/ WaitAgain(t) \/ WaitLate(t)

Next == \/ \E t \in Waiter : WaitReady(t) \/ WaitBlocks(t) \/ Wake(t) \/ Resume(t)
        \/ SetEvent \/ ResetEvent

\* A thread that has woken gets the mutex and goes on.
Spec == Init /\ [][Next]_vars /\ \A t \in Waiter : WF_vars(Resume(t))

-----------------------------------------------------------------------------
(***************************************************************************)
(* Properties.                                                             *)
(***************************************************************************)

\* Types; a thread has a time limit only while it waits.
TypeOK ==
  /\ manual \in BOOLEAN /\ signaled \in BOOLEAN /\ claim \in BOOLEAN
  /\ pc \in [Waiter -> {"idle", "blocked", "woken", "late"}]
  /\ limit \in [Waiter -> BOOLEAN] /\ \A t \in Waiter : limit[t] => t \in InWait
  /\ sets \in 0 .. MaxSet /\ resets \in 0 .. MaxReset /\ ended \in Nat

\* No wake-up is lost: nobody stays asleep in a manual event that is signalled,
\* whatever the order of waits, signals, resets and wake-ups without a reason.
NoLostWakeup == manual /\ signaled => Blocked = {}

\* A signal stays until reset_event, or in an automatic event until it has ended
\* a wait: a wait that runs out of time does not use it up.
SignalKept ==
  [][signaled /\ ~signaled' => resets' > resets \/ (~manual /\ ended' > ended)]_vars

\* A signal that finds waiters ends some wait, unless the event is reset: also
\* when a thread that came later takes the signal from the one it has woken.
SetServesWaiter == claim ~> ~claim

\* "When a thread is released, the event is reset to non-signalled" (automatic
\* event, condEvent.cpp:21): no signal ends two waits.
OneWaitPerSignal == ~manual => ended <= sets
=============================================================================
