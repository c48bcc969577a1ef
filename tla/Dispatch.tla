------------------------------ MODULE Dispatch ------------------------------
(***************************************************************************)
(* aeProcessEvents under arbitrary file callbacks: one that runs may open  *)
(* and close descriptors and create and delete events of any of them, so   *)
(* the table changes between the entries of a batch, and between the two   *)
(* callbacks of one entry.  The server's own callbacks are in TcpServer.   *)
(*                                                                         *)
(* The clientData of an event is the opening of its descriptor for which   *)
(* it was created: a callback that gets another one speaks for a           *)
(* descriptor that is gone.  Nobody asks the loop to stop here.            *)
(***************************************************************************)
EXTENDS AeFileEvents

CONSTANTS Proc,      \* the callbacks
          MaxOpen,   \* openings of each descriptor
          MaxOps     \* calls each callback makes

ASSUME DispatchAssumption == MaxOpen \in Nat /\ MaxOps \in Nat

VARIABLES opening,  \* opening[fd]: which one is open, 0 when fd is closed
          opened,   \* opened[fd]: how many there have been
          run,      \* the callback that runs, with the calls it has left
          ran,      \* what has run for the current entry: the read callback, and
                    \* whether it has replaced itself
          careless  \* descriptors closed with their event still in the table

dispatchVars == <<events, maxfd, fdset, fired, loop, stop,
                  opening, opened, run, ran, careless>>

NotRunning    == [left |-> -1]
Nothing == [fd |-> -1]

DispatchInit ==
  /\ events = [fd \in Slot |-> NoEvent] /\ maxfd = -1
  /\ fdset = [fd \in Fd |-> {}] /\ fired = {} /\ loop = "callback" /\ stop = FALSE
  /\ opening = [fd \in Fd |-> 0] /\ opened = [fd \in Fd |-> 0]
  /\ run = [left |-> MaxOps, entry |-> Nothing]  \* what runs before aeMain
  /\ ran = Nothing /\ careless = {}

(***************************************************************************)
(* What a callback may do.                                                 *)
(***************************************************************************)
Does1 == run.left > 0 /\ run' = [run EXCEPT !.left = @ - 1] /\ UNCHANGED <<fired, loop, stop>>

OpenFd(fd) ==
  /\ Does1 /\ opening[fd] = 0 /\ opened[fd] < MaxOpen
  /\ opened' = [opened EXCEPT ![fd] = @ + 1]
  /\ opening' = [opening EXCEPT ![fd] = opened'[fd]]
  /\ UNCHANGED <<events, maxfd, fdset, ran, careless>>

CloseFd(fd) ==
  /\ Does1 /\ opening[fd] # 0
  /\ opening' = [opening EXCEPT ![fd] = 0]
  /\ careless' = IF fd \in Slot /\ events[fd].mask # {} THEN careless \cup {fd} ELSE careless
  /\ UNCHANGED <<events, maxfd, fdset, opened, ran>>

CreateEvent(fd, mask, proc) ==
  /\ Does1 /\ opening[fd] # 0 /\ mask # {}
  /\ CreateFileEvent(fd, mask, proc, opening[fd])
  /\ ran' = IF ran.fd = fd /\ READABLE \in mask /\ proc # ran.proc
            THEN [ran EXCEPT !.replaced = TRUE] ELSE ran
  /\ UNCHANGED <<opening, opened, careless>>

DeleteEvent(fd, mask) ==
  /\ Does1 /\ mask # {}
  /\ DeleteFileEvent(fd, mask)
  /\ UNCHANGED <<opening, opened, ran, careless>>

(***************************************************************************)
(* aeProcessEvents.  select fails with EBADF when it is given a closed     *)
(* descriptor, and aeApiPoll takes that for a timeout.                     *)
(***************************************************************************)
Blind == \E fd \in Fd : fd <= maxfd /\ fdset[fd] # {} /\ opening[fd] = 0

PollFds ==
  /\ \E sees \in [Fd -> Mask] :
       /\ \A fd \in Fd : sees[fd] \subseteq fdset[fd] /\ (Blind => sees[fd] = {})
       /\ Poll(Selected(sees))
  /\ UNCHANGED <<opening, opened, run, ran, careless>>

Begins(e, proc, reads) ==
  /\ loop' = "callback"
  /\ run' = [left |-> MaxOps, entry |-> e, proc |-> proc, data |-> events[e.fd].clientData,
             reads |-> reads]
  /\ UNCHANGED <<events, maxfd, fdset, fired, stop, opening, opened, careless>>

BeginRead(e) ==
  /\ CallsRead(e)
  /\ Begins(e, events[e.fd].rfileProc, TRUE)
  /\ ran' = [fd |-> e.fd, proc |-> events[e.fd].rfileProc, replaced |-> FALSE]

BeginWrite(e) ==
  /\ CallsWrite(e)
  /\ Begins(e, events[e.fd].wfileProc, FALSE)
  /\ ran' = IF e.rfired THEN ran ELSE Nothing

EndCallback ==
  /\ loop = "callback"
  /\ run' = NotRunning
  /\ IF run.entry = Nothing THEN fired' = fired /\ loop' = "test"
     ELSE /\ loop' = "dispatch"
          /\ fired' = IF run.reads THEN FiredAfterRead(run.entry) ELSE fired \ {run.entry}
  /\ ran' = IF \E e \in fired' : e.rfired THEN ran ELSE Nothing
  /\ UNCHANGED <<events, maxfd, fdset, stop, opening, opened, careless>>

DispatchNext ==
  \/ \E fd \in Fd :
       \/ OpenFd(fd) \/ CloseFd(fd)
       \/ \E mask \in Mask : DeleteEvent(fd, mask) \/ \E proc \in Proc : CreateEvent(fd, mask, proc)
  \/ PollFds \/ EndCallback
  \/ \E e \in fired : BeginRead(e) \/ BeginWrite(e)
  \/ /\ TestStop \/ SkipEntry \/ BatchDone
     /\ UNCHANGED <<opening, opened, run, ran, careless>>

DispatchSpec == DispatchInit /\ [][DispatchNext]_dispatchVars

-----------------------------------------------------------------------------
(***************************************************************************)
(* Properties.                                                             *)
(***************************************************************************)

\* However callbacks create and delete events, select is asked for exactly what the
\* table says, up to the highest descriptor that is in use.
TableKept ==
  /\ \A fd \in Slot \cap Fd : fdset[fd] = events[fd].mask
  /\ maxfd \in {-1} \cup Slot
  /\ \A fd \in Slot : events[fd].mask # {} => fd <= maxfd
  /\ maxfd >= 0 => events[maxfd].mask # {}

Starts == loop = "callback" /\ run.left = MaxOps /\ run.entry # Nothing

\* A callback that begins belongs to an event in the table that fired, and gets the
\* opening of the descriptor that is there, unless that was closed first and its
\* event deleted only later or never.
CallbacksCurrent ==
  Starts =>
    LET fd == run.entry.fd IN
    /\ (IF run.reads THEN READABLE ELSE WRITABLE) \in events[fd].mask \cap run.entry.mask
    /\ run.data = opening[fd] \/ fd \in careless

\* One callback for both masks runs once for an entry, unless its first run put
\* another one in its place for reading.
CalledOnce ==
  Starts /\ ~run.reads /\ run.entry.rfired /\ run.proc = ran.proc => ran.replaced

\* select goes blind only by a descriptor closed with its event in the table.
BlindByCarelessness == Blind => careless # {}

\* What aeProcessEvents promises to callbacks of any kind.
DispatchFaithful == TableKept /\ CallbacksCurrent /\ CalledOnce /\ BlindByCarelessness
-----------------------------------------------------------------------------
(***************************************************************************)
(* The inductive invariant behind DispatchFaithful.                        *)
(***************************************************************************)
AnyProc == Proc \cup {NoProc}
Data    == {NoData} \cup 0 .. MaxOpen

\* The callback that runs: before aeMain, or for an entry of the batch.
Preparing == [left : 0 .. MaxOps, entry : {Nothing}]
Serving   == [left : 0 .. MaxOps, entry : Entry, proc : AnyProc, data : Data, reads : BOOLEAN]

DispatchTypeOK ==
  /\ events \in [Slot -> [mask : Mask, rfileProc : AnyProc, wfileProc : AnyProc,
                          clientData : Data]]
  /\ fdset \in [Fd -> Mask] /\ fired \subseteq Entry
  /\ opening \in [Fd -> 0 .. MaxOpen] /\ opened \in [Fd -> 0 .. MaxOpen]
  /\ IF loop = "callback" THEN run \in Preparing \cup Serving ELSE run = NotRunning
  /\ ran \in {Nothing} \cup [fd : Slot \cap Fd, proc : AnyProc, replaced : BOOLEAN]
  /\ careless \subseteq Fd

\* select is asked for no descriptor beyond the table, and an event in the table
\* was created for the opening that is there, but for those closed carelessly.
EventsOwned ==
  /\ \A fd \in Fd \ Slot : fdset[fd] = {}
  /\ \A fd \in Slot \cap Fd : events[fd].mask # {} =>
       fd \in careless \/ (opening[fd] # 0 /\ events[fd].clientData = opening[fd])

\* An entry for each descriptor at most, and one marked rfired is the lowest: no
\* other entry's read callback runs before it is done with.
BatchOrdered ==
  /\ \A x, y \in fired : x.fd = y.fd => x = y
  /\ \A x, y \in fired : x.rfired => x.fd <= y.fd

\* The callback that runs is the current entry's.
RunsCurrent ==
  loop = "callback" /\ run.entry # Nothing =>
    /\ run.entry \in fired
    /\ \A y \in fired : run.entry.fd <= y.fd
    /\ run.reads => ~run.entry.rfired /\ ran.fd = run.entry.fd

\* What ran is remembered as long as its entry is, and is still the callback for
\* reading unless it has been replaced.
RanCurrent ==
  /\ \A x \in fired : x.rfired => ran.fd = x.fd
  /\ ran # Nothing /\ ~ran.replaced => events[ran.fd].rfileProc = ran.proc

DispatchInv == /\ DispatchTypeOK /\ EventsOwned /\ BatchOrdered /\ RunsCurrent /\ RanCurrent
               /\ TableKept /\ CallbacksCurrent /\ CalledOnce
=============================================================================
