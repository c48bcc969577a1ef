---------------------------- MODULE AeFileEvents ----------------------------
(***************************************************************************)
(* The file event half of the ae event loop (network/ae.c) over select     *)
(* (network/ae_select.c): the table of file events indexed by descriptor,  *)
(* maxfd, the descriptor sets given to select, and the batch of fired      *)
(* events that aeProcessEvents works through.                              *)
(*                                                                         *)
(* Select is the backend a Linux build gets: HAVE_EPOLL is defined by      *)
(* network/tcp_server.h alone, which the C file ae.c does not include.     *)
(*                                                                         *)
(* The module has state and one operator per function; a module that       *)
(* EXTENDS it supplies the callbacks and the readiness of descriptors.     *)
(***************************************************************************)
EXTENDS Integers, FiniteSets

CONSTANTS SetSize,  \* eventLoop->setsize: slots of the event table
          FdLimit,  \* RLIMIT_NOFILE: descriptors are 0 .. FdLimit-1
          FdSetSize \* FD_SETSIZE: the bits an fd_set has room for

ASSUME AeAssumption ==
  SetSize \in Nat \ {0} /\ FdLimit \in Nat \ {0} /\ FdSetSize \in Nat \ {0}

VARIABLES events,    \* events[fd]: mask, the two callbacks, clientData
          maxfd,     \* highest registered descriptor, -1 if none
          fdset,     \* rfds and wfds: the sets that each descriptor is in
          fired,     \* entries of the current batch not yet dispatched
          loop,      \* where aeMain is: "test", "poll", "dispatch", "exit", or
                     \* "wild": memory has been written out of bounds
          stop       \* eventLoop->stop

aeVars == <<events, maxfd, fdset, fired, loop, stop>>

Slot == 0 .. SetSize - 1
Fd   == 0 .. FdLimit - 1

READABLE == "r"
WRITABLE == "w"
Mask     == SUBSET {READABLE, WRITABLE}

NoProc == "none"   \* a callback field malloc left uninitialised
NoData == -1       \* clientData that is not a session

NoEvent == [mask |-> {}, rfileProc |-> NoProc, wfileProc |-> NoProc,
            clientData |-> NoData]

(***************************************************************************)
(* aeCreateFileEvent, for a descriptor that has a slot in the table and a  *)
(* bit in an fd_set.                                                       *)
(***************************************************************************)
CreateFileEvent(fd, mask, proc, data) ==
  /\ fd \in Slot \cap Fd /\ fd < FdSetSize
  /\ events' = [events EXCEPT ![fd] =
       [mask       |-> @.mask \cup mask,
        rfileProc  |-> IF READABLE \in mask THEN proc ELSE @.rfileProc,
        wfileProc  |-> IF WRITABLE \in mask THEN proc ELSE @.wfileProc,
        clientData |-> data]]
  /\ fdset' = [fdset EXCEPT ![fd] = @ \cup mask]
  /\ maxfd' = IF fd > maxfd THEN fd ELSE maxfd

\* The AE_ERR exit (ERANGE): a descriptor beyond the table.
CreateFileEventFails(fd) == fd >= SetSize /\ UNCHANGED <<events, maxfd, fdset>>

(***************************************************************************)
(* Neither: a descriptor below zero, which only fd >= setsize could have   *)
(* refused, or one in the table for which FD_SET finds no bit.  Memory     *)
(* before events or behind rfds is written.                                *)
(***************************************************************************)
OutOfBounds(fd) == fd < SetSize /\ (fd < 0 \/ fd >= FdSetSize)

\* Mutant of HighestBelow: maxfd is counted down by one.
HighestBelowUnscanned(tbl, fd) == {fd - 1}

\* The scan for a new maxfd below fd: the next slot in use, or -1.
HighestBelow(tbl, fd) ==
  {j \in -1 .. fd - 1 :
     /\ j = -1 \/ tbl[j].mask # {}
     /\ \A k \in j + 1 .. fd - 1 : tbl[k].mask = {}}

\* aeDeleteFileEvent: early returns out of range and for an empty slot.
DeleteFileEvent(fd, mask) ==
  IF fd \notin Slot \/ events[fd].mask = {}
  THEN UNCHANGED <<events, maxfd, fdset>>
  ELSE /\ events' = [events EXCEPT ![fd].mask = @ \ mask]
       /\ fdset' = [fdset EXCEPT ![fd] = @ \ mask]
       /\ IF fd = maxfd /\ events[fd].mask \ mask = {}
          THEN maxfd' \in HighestBelow(events, fd)
          ELSE UNCHANGED maxfd

(***************************************************************************)
(* aeApiPoll.  sees[fd] is what select leaves of the sets fd is in.  When  *)
(* it leaves anything, every registered descriptor gets an entry, in the   *)
(* order of descriptors, with whatever mask is left for it.                *)
(***************************************************************************)
Entry == [fd : Fd, mask : Mask, rfired : BOOLEAN]

Polled == {fd \in Slot \cap Fd : fd <= maxfd /\ events[fd].mask # {}}

Selected(sees) ==
  IF \A fd \in Fd : fd <= maxfd => sees[fd] = {} THEN {}
  ELSE {[fd |-> fd, mask |-> events[fd].mask \cap sees[fd], rfired |-> FALSE] :
          fd \in Polled}

\* Mutant of TestStop: the flag is not looked at.
TestStopNever ==
  /\ loop = "test" /\ loop' = "poll"
  /\ UNCHANGED <<events, maxfd, fdset, fired, stop>>

\* while (!eventLoop->stop): stop is read between two batches only.
TestStop ==
  /\ loop = "test"
  /\ loop' = IF stop THEN "exit" ELSE "poll"
  /\ UNCHANGED <<events, maxfd, fdset, fired, stop>>

\* reported: what Selected yields.  The signal that carries the stop request may
\* interrupt select (EINTR), and then the batch is empty, as at the timeout.
Poll(reported) ==
  /\ loop = "poll"
  /\ fired' = reported \/ (stop /\ fired' = {})
  /\ loop' = "dispatch"
  /\ UNCHANGED <<events, maxfd, fdset, stop>>

(***************************************************************************)
(* The body of the dispatch loop, for one entry: the read callback, then   *)
(* the write callback, each after a fresh look at the table.  An entry     *)
(* whose read callback has run and that also fired for writing stays the   *)
(* current one, marked rfired.                                             *)
(***************************************************************************)
Current(e) == /\ loop = "dispatch"
              /\ e \in fired
              /\ \A x \in fired : e.fd <= x.fd

ValidMask(e) == IF e.fd \in Slot THEN events[e.fd].mask \cap e.mask ELSE {}

CallsRead(e) == Current(e) /\ ~e.rfired /\ READABLE \in ValidMask(e)

\* Mutant of CallsWrite: a callback for both masks is called for each.
CallsWriteTwice(e) == /\ Current(e) /\ ~CallsRead(e) /\ WRITABLE \in ValidMask(e)

CallsWrite(e) == /\ Current(e) /\ ~CallsRead(e) /\ WRITABLE \in ValidMask(e)
                 /\ e.rfired => events[e.fd].wfileProc # events[e.fd].rfileProc

\* Mutant of FiredAfterRead: the batch does not move on.
FiredAfterReadAgain(e) == fired

FiredAfterRead(e) ==
  (fired \ {e}) \cup
  IF WRITABLE \in e.mask THEN {[e EXCEPT !.rfired = TRUE]} ELSE {}

\* Neither callback is due: the event was removed or never asked for.
SkipEntry ==
  /\ \E e \in fired : /\ Current(e) /\ ~CallsRead(e) /\ ~CallsWrite(e)
                       /\ fired' = fired \ {e}
  /\ UNCHANGED <<events, maxfd, fdset, loop, stop>>

BatchDone ==
  /\ loop = "dispatch"
  /\ fired = {}
  /\ loop' = "test"
  /\ UNCHANGED <<events, maxfd, fdset, fired, stop>>

\* aeStop, from the signal handler at any moment of the loop.
AeStop ==
  /\ ~stop
  /\ stop' = TRUE
  /\ UNCHANGED <<events, maxfd, fdset, fired, loop>>
=============================================================================
