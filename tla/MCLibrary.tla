------------------------------ MODULE MCLibrary -----------------------------
(***************************************************************************)
(* The components of common/ and network/ that run by themselves, checked  *)
(* in one go: a behaviour exercises one of them, its subject.              *)
(***************************************************************************)
EXTENDS MapPool, Threads, Arithmetic, Routines, Calendar, Sockets, Dispatch

VARIABLE subject

LibraryInit ==
  /\ MapPoolInit /\ ThreadsInit /\ ArithmeticInit /\ RoutinesInit
  /\ CalendarInit /\ SocketsInit /\ DispatchInit
  /\ subject \in {"pool", "threads", "arithmetic", "routines",
                  "calendar", "sockets", "dispatch"}

\* The subject steps; the other components rest.
Exercise(who, does) ==
  /\ subject = who /\ subject' = who /\ does
  /\ who # "pool"       => UNCHANGED poolVars
  /\ who # "threads"    => UNCHANGED threadVars
  /\ who # "arithmetic" => UNCHANGED arith
  /\ who # "routines"   => UNCHANGED text
  /\ who # "calendar"   => UNCHANGED calendar
  /\ who # "sockets"    => UNCHANGED netVars
  /\ who # "dispatch"   => UNCHANGED dispatchVars

LibraryNext ==
  \/ Exercise("pool", MapPoolNext)       \/ Exercise("threads", ThreadsNext)
  \/ Exercise("arithmetic", ArithmeticNext) \/ Exercise("routines", RoutinesNext)
  \/ Exercise("calendar", CalendarNext)  \/ Exercise("sockets", SocketsNext)
  \/ Exercise("dispatch", DispatchNext)

LibrarySpec == LibraryInit /\ [][LibraryNext]_<<subject, poolVars, threadVars, arith, text,
                                                calendar, netVars, dispatchVars>>
=============================================================================
