--------------------------- MODULE Network_Proofs ---------------------------
(***************************************************************************)
(* Proofs about the two modules of src/network that stand by themselves.   *)
(*                                                                         *)
(* Dispatch, for any table of events, any number of descriptors, and       *)
(* callbacks that make any number of calls: the inductive invariant        *)
(* DispatchInv, and from it what aeProcessEvents promises to callbacks of  *)
(* any kind.                                                               *)
(*                                                                         *)
(* Sockets, for any descriptors and any number of addresses: the inductive *)
(* invariant SocketsInv of a call in progress, what anetRead and anetWrite *)
(* return whatever the kernel does, and from them what the socket          *)
(* functions promise.                                                      *)
(***************************************************************************)
EXTENDS Dispatch, Sockets, FiniteSetTheorems, TLAPS

USE AeAssumption, DispatchAssumption

(***************************************************************************)
(* The operators of AeFileEvents.                                          *)
(***************************************************************************)

LEMMA Masks ==
  ASSUME NEW a \in Mask, NEW b \in Mask
  PROVE  a \cup b \in Mask /\ a \cap b \in Mask /\ a \ b \in Mask /\ {} \in Mask
  BY DEF Mask

LEMMA NotBetween ==
  ASSUME NEW a \in Int, NEW b \in Int, NEW k \in Int,
         k <= b, k # b, ~(k \in a + 1 .. b - 1)
  PROVE  k <= a
  OBVIOUS

\* The fields of an event.
LEMMA EventFields ==
  ASSUME DispatchTypeOK, NEW fd \in Slot
  PROVE  /\ events[fd].mask \in Mask /\ events[fd].clientData \in Data
         /\ events[fd].rfileProc \in AnyProc /\ events[fd].wfileProc \in AnyProc
  BY DEF DispatchTypeOK

\* The event a registration leaves, and the table around it.
LEMMA CreateEffect ==
  ASSUME DispatchTypeOK, NEW fd \in Fd, NEW mask \in Mask, NEW proc \in Proc, NEW data \in Data,
         CreateFileEvent(fd, mask, proc, data)
  PROVE  /\ fd \in Slot
         /\ events' \in [Slot -> [mask : Mask, rfileProc : AnyProc, wfileProc : AnyProc,
                                  clientData : Data]]
         /\ events'[fd].mask = events[fd].mask \cup mask /\ events'[fd].clientData = data
         /\ events'[fd].rfileProc = IF READABLE \in mask THEN proc ELSE events[fd].rfileProc
         /\ \A k \in Slot \ {fd} : events'[k] = events[k]
         /\ fdset' \in [Fd -> Mask] /\ fdset'[fd] = fdset[fd] \cup mask
         /\ \A k \in Fd \ {fd} : fdset'[k] = fdset[k]
<1>1. fd \in Slot
  BY DEF CreateFileEvent
<1>. DEFINE e == [mask       |-> events[fd].mask \cup mask,
                  rfileProc  |-> IF READABLE \in mask THEN proc ELSE events[fd].rfileProc,
                  wfileProc  |-> IF WRITABLE \in mask THEN proc ELSE events[fd].wfileProc,
                  clientData |-> data]
<1>2. events' = [events EXCEPT ![fd] = e]
  BY DEF CreateFileEvent
<1>3. e \in [mask : Mask, rfileProc : AnyProc, wfileProc : AnyProc, clientData : Data]
  BY <1>1, EventFields, Masks DEF AnyProc
<1>4. /\ e.mask = events[fd].mask \cup mask /\ e.clientData = data
      /\ e.rfileProc = IF READABLE \in mask THEN proc ELSE events[fd].rfileProc
  OBVIOUS
<1>. HIDE DEF e
<1>5. /\ events' \in [Slot -> [mask : Mask, rfileProc : AnyProc, wfileProc : AnyProc,
                               clientData : Data]]
      /\ events'[fd] = e /\ \A k \in Slot \ {fd} : events'[k] = events[k]
  BY <1>1, <1>2, <1>3 DEF DispatchTypeOK
<1>6. /\ fdset' \in [Fd -> Mask] /\ fdset'[fd] = fdset[fd] \cup mask
      /\ \A k \in Fd \ {fd} : fdset'[k] = fdset[k]
  <2>1. fdset \in [Fd -> Mask] /\ fdset[fd] \cup mask \in Mask
    BY Masks DEF DispatchTypeOK
  <2>. QED
    BY <2>1 DEF CreateFileEvent
<1>. QED
  BY <1>1, <1>4, <1>5, <1>6

\* aeDeleteFileEvent takes the mask from the event and from select's sets, or
\* does nothing at all.
LEMMA DeleteEffect ==
  ASSUME DispatchTypeOK, NEW fd \in Fd, NEW mask \in Mask, fd \in Slot,
         events' = [events EXCEPT ![fd].mask = @ \ mask],
         fdset' = [fdset EXCEPT ![fd] = @ \ mask]
  PROVE  /\ events' \in [Slot -> [mask : Mask, rfileProc : AnyProc, wfileProc : AnyProc,
                                  clientData : Data]]
         /\ events'[fd].mask = events[fd].mask \ mask
         /\ \A k \in Slot : /\ events'[k].clientData = events[k].clientData
                            /\ events'[k].rfileProc = events[k].rfileProc
         /\ \A k \in Slot \ {fd} : events'[k] = events[k]
         /\ fdset' \in [Fd -> Mask] /\ fdset'[fd] = fdset[fd] \ mask
         /\ \A k \in Fd \ {fd} : fdset'[k] = fdset[k]
<1>1. events[fd].mask \ mask \in Mask /\ fdset[fd] \ mask \in Mask
  BY Masks DEF DispatchTypeOK
<1>2. /\ events \in [Slot -> [mask : Mask, rfileProc : AnyProc, wfileProc : AnyProc,
                              clientData : Data]]
      /\ fdset \in [Fd -> Mask]
  BY DEF DispatchTypeOK
<1>3. /\ fdset' \in [Fd -> Mask] /\ fdset'[fd] = fdset[fd] \ mask
      /\ \A k \in Fd \ {fd} : fdset'[k] = fdset[k]
  BY <1>1, <1>2
<1>. QED
  BY <1>1, <1>2, <1>3

(***************************************************************************)
(* One call of a callback that runs: whatever it is, the batch and the     *)
(* entry served stay, and this is no longer the callback's beginning.      *)
(***************************************************************************)
LEMMA OpIs ==
  ASSUME DispatchTypeOK, Does1
  PROVE  /\ loop = "callback" /\ loop' = "callback" /\ fired' = fired
         /\ run' \in Preparing \cup Serving
         /\ run'.entry = run.entry /\ run'.left < MaxOps
         /\ run.entry # Nothing => run'.reads = run.reads
<1>1. loop = "callback"
  <2>1. NotRunning.left = -1
    BY DEF NotRunning
  <2>. QED
    BY <2>1 DEF DispatchTypeOK, Does1
<1>2. run \in Preparing \cup Serving
  BY <1>1 DEF DispatchTypeOK
<1>3. run' = [run EXCEPT !.left = @ - 1] /\ run.left > 0
  BY DEF Does1
<1>4. CASE run \in Preparing
  BY <1>1, <1>3, <1>4 DEF Preparing, Does1
<1>5. CASE run \in Serving
  <2>1. /\ run.left \in 0 .. MaxOps /\ run.left - 1 \in 0 .. MaxOps /\ run.left - 1 < MaxOps
    BY <1>3, <1>5 DEF Serving
  <2>. QED
    BY <1>1, <1>3, <1>5, <2>1 DEF Serving, Does1
<1>. QED
  BY <1>2, <1>4, <1>5

\* So only the table, the descriptors and what ran need to be looked at.
LEMMA OpInv ==
  ASSUME DispatchInv, Does1, UNCHANGED <<events, maxfd, fdset>> \/ TableKept',
         EventsOwned', ran'.fd = ran.fd, RanCurrent',
         events' \in [Slot -> [mask : Mask, rfileProc : AnyProc, wfileProc : AnyProc,
                               clientData : Data]],
         fdset' \in [Fd -> Mask],
         opening' \in [Fd -> 0 .. MaxOpen], opened' \in [Fd -> 0 .. MaxOpen],
         ran' \in {Nothing} \cup [fd : Slot \cap Fd, proc : AnyProc, replaced : BOOLEAN],
         careless' \subseteq Fd
  PROVE  DispatchInv'
<1>1. /\ loop = "callback" /\ loop' = "callback" /\ fired' = fired
      /\ run' \in Preparing \cup Serving
      /\ run'.entry = run.entry /\ run'.left < MaxOps
      /\ run.entry # Nothing => run'.reads = run.reads
  BY OpIs DEF DispatchInv
<1>2. DispatchTypeOK'
  BY <1>1 DEF DispatchInv, DispatchTypeOK
<1>3. TableKept'
  BY DEF DispatchInv, TableKept
<1>4. BatchOrdered'
  BY <1>1 DEF DispatchInv, BatchOrdered
<1>5. RunsCurrent'
  BY <1>1 DEF DispatchInv, RunsCurrent
<1>6. CallbacksCurrent' /\ CalledOnce'
  <2>1. run'.left # MaxOps
    <3>1. run'.left \in 0 .. MaxOps
      BY <1>1 DEF Preparing, Serving
    <3>. QED
      BY <1>1, <3>1
  <2>. QED
    BY <2>1 DEF CallbacksCurrent, CalledOnce, Starts
<1>. QED
  BY <1>2, <1>3, <1>4, <1>5, <1>6 DEF DispatchInv

LEMMA OpenInv == ASSUME DispatchInv, NEW fd \in Fd, OpenFd(fd) PROVE DispatchInv'
<1>1. /\ Does1 /\ opening[fd] = 0 /\ opened[fd] < MaxOpen
      /\ opened' = [opened EXCEPT ![fd] = @ + 1]
      /\ opening' = [opening EXCEPT ![fd] = opened'[fd]]
      /\ UNCHANGED <<events, maxfd, fdset, ran, careless>>
  BY DEF OpenFd
<1>2. /\ opening \in [Fd -> 0 .. MaxOpen] /\ opened \in [Fd -> 0 .. MaxOpen]
      /\ ran \in {Nothing} \cup [fd : Slot \cap Fd, proc : AnyProc, replaced : BOOLEAN]
      /\ careless \subseteq Fd
  BY DEF DispatchInv, DispatchTypeOK
<1>3. opened' \in [Fd -> 0 .. MaxOpen] /\ opening' \in [Fd -> 0 .. MaxOpen]
  BY <1>1, <1>2
<1>4. EventsOwned'
  BY <1>1, <1>2 DEF DispatchInv, EventsOwned
<1>5. RanCurrent'
  BY <1>1, OpIs DEF DispatchInv, RanCurrent
<1>6. /\ events' \in [Slot -> [mask : Mask, rfileProc : AnyProc, wfileProc : AnyProc,
                               clientData : Data]]
      /\ fdset' \in [Fd -> Mask]
  BY <1>1 DEF DispatchInv, DispatchTypeOK
<1>. QED
  BY <1>1, <1>2, <1>3, <1>4, <1>5, <1>6, OpInv

\* A descriptor closed with its event in the table is careless from then on.
LEMMA CloseInv == ASSUME DispatchInv, NEW fd \in Fd, CloseFd(fd) PROVE DispatchInv'
<1>1. /\ Does1 /\ opening[fd] # 0 /\ opening' = [opening EXCEPT ![fd] = 0]
      /\ careless' = IF fd \in Slot /\ events[fd].mask # {} THEN careless \cup {fd} ELSE careless
      /\ UNCHANGED <<events, maxfd, fdset, opened, ran>>
  BY DEF CloseFd
<1>2. /\ opening \in [Fd -> 0 .. MaxOpen] /\ opened \in [Fd -> 0 .. MaxOpen]
      /\ ran \in {Nothing} \cup [fd : Slot \cap Fd, proc : AnyProc, replaced : BOOLEAN]
      /\ careless \subseteq Fd
  BY DEF DispatchInv, DispatchTypeOK
<1>3. opening' \in [Fd -> 0 .. MaxOpen] /\ careless' \subseteq Fd
  BY <1>1, <1>2
<1>4. EventsOwned'
  BY <1>1, <1>2 DEF DispatchInv, EventsOwned
<1>5. RanCurrent'
  BY <1>1, OpIs DEF DispatchInv, RanCurrent
<1>6. /\ events' \in [Slot -> [mask : Mask, rfileProc : AnyProc, wfileProc : AnyProc,
                               clientData : Data]]
      /\ fdset' \in [Fd -> Mask]
  BY <1>1 DEF DispatchInv, DispatchTypeOK
<1>. QED
  BY <1>1, <1>2, <1>3, <1>4, <1>5, <1>6, OpInv

LEMMA CreateInv ==
  ASSUME DispatchInv, NEW fd \in Fd, NEW mask \in Mask, NEW proc \in Proc,
         CreateEvent(fd, mask, proc)
  PROVE  DispatchInv'
<1>1. /\ Does1 /\ opening[fd] # 0 /\ mask # {}
      /\ CreateFileEvent(fd, mask, proc, opening[fd])
      /\ ran' = IF ran.fd = fd /\ READABLE \in mask /\ proc # ran.proc
                THEN [ran EXCEPT !.replaced = TRUE] ELSE ran
      /\ UNCHANGED <<opening, opened, careless>>
  BY DEF CreateEvent
<1>2. /\ opening \in [Fd -> 0 .. MaxOpen] /\ opened \in [Fd -> 0 .. MaxOpen]
      /\ ran \in {Nothing} \cup [fd : Slot \cap Fd, proc : AnyProc, replaced : BOOLEAN]
      /\ careless \subseteq Fd
      /\ DispatchTypeOK
  BY DEF DispatchInv, DispatchTypeOK
<1>3. opening[fd] \in Data
  BY <1>2 DEF Data
<1>4. /\ fd \in Slot
      /\ events' \in [Slot -> [mask : Mask, rfileProc : AnyProc, wfileProc : AnyProc,
                               clientData : Data]]
      /\ events'[fd].mask = events[fd].mask \cup mask /\ events'[fd].clientData = opening[fd]
      /\ events'[fd].rfileProc = IF READABLE \in mask THEN proc ELSE events[fd].rfileProc
      /\ \A k \in Slot \ {fd} : events'[k] = events[k]
      /\ fdset' \in [Fd -> Mask] /\ fdset'[fd] = fdset[fd] \cup mask
      /\ \A k \in Fd \ {fd} : fdset'[k] = fdset[k]
  <2>. DEFINE data == opening[fd]
  <2>1. data \in Data /\ CreateFileEvent(fd, mask, proc, data)
    BY <1>1, <1>3
  <2>. HIDE DEF data
  <2>2. /\ fd \in Slot
        /\ events' \in [Slot -> [mask : Mask, rfileProc : AnyProc, wfileProc : AnyProc,
                                 clientData : Data]]
        /\ events'[fd].mask = events[fd].mask \cup mask /\ events'[fd].clientData = data
        /\ events'[fd].rfileProc = IF READABLE \in mask THEN proc ELSE events[fd].rfileProc
        /\ \A k \in Slot \ {fd} : events'[k] = events[k]
        /\ fdset' \in [Fd -> Mask] /\ fdset'[fd] = fdset[fd] \cup mask
        /\ \A k \in Fd \ {fd} : fdset'[k] = fdset[k]
    BY <1>2, <2>1, CreateEffect
  <2>. QED
    BY <2>2 DEF data
<1>5. TableKept'
  <2>1. /\ \A k \in Slot \cap Fd : fdset'[k] = events'[k].mask
    BY <1>4 DEF DispatchInv, TableKept
  <2>2. maxfd' = IF fd > maxfd THEN fd ELSE maxfd
    BY <1>1 DEF CreateFileEvent
  <2>3. maxfd \in {-1} \cup Slot /\ fd <= maxfd' /\ maxfd <= maxfd' /\ maxfd' \in {fd, maxfd}
    BY <1>4, <2>2 DEF DispatchInv, TableKept, Slot
  <2>4. \A k \in Slot : events'[k].mask # {} => k <= maxfd'
    BY <1>4, <2>3 DEF DispatchInv, TableKept, Slot
  <2>5. maxfd' >= 0 => events'[maxfd'].mask # {}
    <3>1. events'[fd].mask # {}
      BY <1>1, <1>4
    <3>2. CASE maxfd' # fd
      BY <1>4, <2>3, <3>2 DEF DispatchInv, TableKept, Slot
    <3>. QED
      BY <3>1, <3>2
  <2>. QED
    BY <1>4, <2>1, <2>3, <2>4, <2>5 DEF TableKept
<1>6. EventsOwned'
  BY <1>1, <1>4 DEF DispatchInv, EventsOwned
<1>7. /\ ran' \in {Nothing} \cup [fd : Slot \cap Fd, proc : AnyProc, replaced : BOOLEAN]
      /\ ran'.fd = ran.fd /\ (ran' # Nothing <=> ran # Nothing) /\ ran'.proc = ran.proc
      /\ ran.fd = fd /\ READABLE \in mask /\ proc # ran.proc => ran'.replaced
      /\ ~ran'.replaced => ~ran.replaced \/ ran = Nothing
  <2>1. CASE ran = Nothing
    <3>1. ran.fd # fd
      BY <2>1 DEF Nothing, Fd
    <3>. QED
      BY <1>1, <2>1, <3>1
  <2>2. CASE ran \in [fd : Slot \cap Fd, proc : AnyProc, replaced : BOOLEAN]
    <3>1. ran.fd # -1
      BY <2>2 DEF Fd
    <3>. QED
      BY <1>1, <2>2, <3>1 DEF Nothing
  <2>. QED
    BY <1>2, <2>1, <2>2
<1>8. RanCurrent'
  <2>1. \A x \in fired' : x.rfired => ran'.fd = x.fd
    BY <1>1, <1>2, <1>7, OpIs DEF DispatchInv, RanCurrent
  <2>2. ASSUME ran' # Nothing, ~ran'.replaced PROVE events'[ran'.fd].rfileProc = ran'.proc
    <3>1. ran # Nothing /\ ~ran.replaced /\ ran.fd \in Slot
      BY <1>2, <1>7, <2>2
    <3>2. events[ran.fd].rfileProc = ran.proc
      BY <3>1 DEF DispatchInv, RanCurrent
    <3>. QED
      BY <1>4, <1>7, <2>2, <3>1, <3>2
  <2>. QED
    BY <2>1, <2>2 DEF RanCurrent
<1>. QED
  BY <1>1, <1>2, <1>4, <1>5, <1>6, <1>7, <1>8, OpInv

LEMMA DeleteInv ==
  ASSUME DispatchInv, NEW fd \in Fd, NEW mask \in Mask, DeleteEvent(fd, mask)
  PROVE  DispatchInv'
<1>1. /\ Does1 /\ DeleteFileEvent(fd, mask)
      /\ UNCHANGED <<opening, opened, ran, careless>>
  BY DEF DeleteEvent
<1>2. /\ opening \in [Fd -> 0 .. MaxOpen] /\ opened \in [Fd -> 0 .. MaxOpen]
      /\ ran \in {Nothing} \cup [fd : Slot \cap Fd, proc : AnyProc, replaced : BOOLEAN]
      /\ careless \subseteq Fd
      /\ DispatchTypeOK
  BY DEF DispatchInv, DispatchTypeOK
<1>3. CASE fd \notin Slot \/ events[fd].mask = {}
  <2>1. UNCHANGED <<events, maxfd, fdset>>
    BY <1>1, <1>3 DEF DeleteFileEvent
  <2>2. EventsOwned' /\ RanCurrent'
    BY <1>1, <1>2, <2>1, OpIs DEF DispatchInv, EventsOwned, RanCurrent
  <2>3. /\ events' \in [Slot -> [mask : Mask, rfileProc : AnyProc, wfileProc : AnyProc,
                                 clientData : Data]]
        /\ fdset' \in [Fd -> Mask]
    BY <1>2, <2>1 DEF DispatchTypeOK
  <2>. QED
    BY <1>1, <1>2, <2>1, <2>2, <2>3, OpInv
<1>4. CASE fd \in Slot /\ events[fd].mask # {}
  <2>1. /\ events' = [events EXCEPT ![fd].mask = @ \ mask]
        /\ fdset' = [fdset EXCEPT ![fd] = @ \ mask]
        /\ IF fd = maxfd /\ events[fd].mask \ mask = {}
           THEN maxfd' \in HighestBelow(events, fd) ELSE maxfd' = maxfd
    BY <1>1, <1>4 DEF DeleteFileEvent
  <2>2. /\ events' \in [Slot -> [mask : Mask, rfileProc : AnyProc, wfileProc : AnyProc,
                                 clientData : Data]]
        /\ events'[fd].mask = events[fd].mask \ mask
        /\ \A k \in Slot : /\ events'[k].clientData = events[k].clientData
                           /\ events'[k].rfileProc = events[k].rfileProc
        /\ \A k \in Slot \ {fd} : events'[k] = events[k]
        /\ fdset' \in [Fd -> Mask] /\ fdset'[fd] = fdset[fd] \ mask
        /\ \A k \in Fd \ {fd} : fdset'[k] = fdset[k]
    BY <1>2, <1>4, <2>1, DeleteEffect
  <2>3. TableKept'
    <3>1. \A k \in Slot \cap Fd : fdset'[k] = events'[k].mask
      BY <2>2 DEF DispatchInv, TableKept
    <3>2. CASE fd = maxfd /\ events[fd].mask \ mask = {}
      <4>1. /\ maxfd' \in -1 .. fd - 1
            /\ maxfd' = -1 \/ events[maxfd'].mask # {}
            /\ \A k \in maxfd' + 1 .. fd - 1 : events[k].mask = {}
        BY <2>1, <3>2 DEF HighestBelow
      <4>2. maxfd' \in {-1} \cup Slot /\ (maxfd' >= 0 => maxfd' \in Slot \ {fd})
        BY <1>4, <4>1 DEF Slot
      <4>3. maxfd' >= 0 => events'[maxfd'].mask # {}
        BY <2>2, <4>1, <4>2
      <4>4. ASSUME NEW k \in Slot, events'[k].mask # {} PROVE k <= maxfd'
        <5>1. k # fd /\ events[k].mask # {}
          BY <2>2, <3>2, <4>4
        <5>2. k <= fd
          BY <3>2, <5>1 DEF DispatchInv, TableKept
        <5>3. k \in Int /\ fd \in Int /\ maxfd' \in Int
          <6>1. fd \in Int
            BY <1>4 DEF Slot
          <6>. QED
            BY <4>1, <6>1 DEF Slot
        <5>4. ~(k \in maxfd' + 1 .. fd - 1)
          BY <4>1, <5>1
        <5>. QED
          BY <5>1, <5>2, <5>3, <5>4, NotBetween
      <4>. QED
        BY <3>1, <4>2, <4>3, <4>4 DEF TableKept
    <3>3. CASE ~(fd = maxfd /\ events[fd].mask \ mask = {})
      <4>1. maxfd' = maxfd
        BY <2>1, <3>3
      <4>2. maxfd >= 0 => events'[maxfd].mask # {}
        BY <2>2, <3>3 DEF DispatchInv, TableKept
      <4>3. \A k \in Slot : events'[k].mask # {} => events[k].mask # {}
        BY <2>2
      <4>. QED
        BY <3>1, <4>1, <4>2, <4>3 DEF DispatchInv, TableKept
    <3>. QED
      BY <3>2, <3>3
  <2>4. EventsOwned'
    BY <1>1, <1>4, <2>2 DEF DispatchInv, EventsOwned
  <2>5. RanCurrent'
    <3>1. \A x \in fired' : x.rfired => ran'.fd = x.fd
      BY <1>1, <1>2, OpIs DEF DispatchInv, RanCurrent
    <3>2. ran # Nothing => ran.fd \in Slot
      BY <1>2
    <3>. QED
      BY <1>1, <2>2, <3>1, <3>2 DEF DispatchInv, RanCurrent
  <2>. QED
    BY <1>1, <1>2, <2>2, <2>3, <2>4, <2>5, OpInv
<1>. QED
  BY <1>3, <1>4

(***************************************************************************)
(* The steps of the loop itself, between two callbacks.                    *)
(***************************************************************************)

\* While no callback runs, only the batch and the type of the state matter.
LEMMA LoopInv ==
  ASSUME DispatchInv, UNCHANGED <<events, maxfd, fdset, opening, opened, run, ran, careless>>,
         loop # "callback", loop' # "callback",
         fired' \subseteq Entry, BatchOrdered', \A x \in fired' : x.rfired => ran.fd = x.fd
  PROVE  DispatchInv'
<1>1. DispatchTypeOK'
  BY DEF DispatchInv, DispatchTypeOK
<1>2. TableKept' /\ EventsOwned'
  BY DEF DispatchInv, TableKept, EventsOwned
<1>3. RunsCurrent' /\ CallbacksCurrent' /\ CalledOnce'
  BY DEF RunsCurrent, CallbacksCurrent, CalledOnce, Starts
<1>4. RanCurrent'
  BY DEF DispatchInv, RanCurrent
<1>. QED
  BY <1>1, <1>2, <1>3, <1>4 DEF DispatchInv

LEMMA PollInv == ASSUME DispatchInv, PollFds PROVE DispatchInv'
<1>1. PICK sees \in [Fd -> Mask] : Poll(Selected(sees))
  BY DEF PollFds
<1>2. /\ loop = "poll" /\ loop' = "dispatch" /\ UNCHANGED <<events, maxfd, fdset>>
      /\ fired' = Selected(sees) \/ fired' = {}
      /\ UNCHANGED <<opening, opened, run, ran, careless>>
  BY <1>1 DEF Poll, PollFds
<1>. DEFINE Reported == {[fd |-> fd, mask |-> events[fd].mask \cap sees[fd], rfired |-> FALSE] :
                           fd \in Polled}
<1>3. ASSUME NEW x \in Reported
      PROVE  x \in Entry /\ ~x.rfired /\ x = [fd |-> x.fd, mask |-> events[x.fd].mask \cap sees[x.fd],
                                             rfired |-> FALSE]
  <2>1. PICK fd \in Polled : x = [fd |-> fd, mask |-> events[fd].mask \cap sees[fd],
                                  rfired |-> FALSE]
    OBVIOUS
  <2>2. fd \in Fd /\ events[fd].mask \cap sees[fd] \in Mask
    BY EventFields, Masks DEF Polled, DispatchInv
  <2>3. x.fd = fd /\ ~x.rfired
    BY <2>1
  <2>. HIDE DEF Reported
  <2>4. x \in Entry
    BY <2>1, <2>2 DEF Entry
  <2>. QED
    BY <2>1, <2>3, <2>4
<1>4. \A x, y \in Reported : x.fd = y.fd => x = y
  <2>. HIDE DEF Reported
  <2>. TAKE x, y \in Reported
  <2>. HAVE x.fd = y.fd
  <2>. DEFINE Made(fd) == [fd |-> fd, mask |-> events[fd].mask \cap sees[fd], rfired |-> FALSE]
  <2>1. x = Made(x.fd) /\ y = Made(y.fd)
    BY <1>3, Zenon
  <2>. HIDE DEF Made
  <2>. QED
    BY <2>1
<1>5. fired' \subseteq Reported
  BY <1>2 DEF Selected
<1>. HIDE DEF Reported
<1>6. fired' \subseteq Entry /\ BatchOrdered' /\ \A x \in fired' : x.rfired => ran.fd = x.fd
  BY <1>3, <1>4, <1>5 DEF BatchOrdered
<1>. QED
  BY <1>2, <1>6, LoopInv

\* An entry that no callback is due for leaves the batch.
LEMMA TurnInv ==
  ASSUME DispatchInv, TestStop \/ SkipEntry \/ BatchDone,
         UNCHANGED <<opening, opened, run, ran, careless>>
  PROVE  DispatchInv'
<1>1. /\ loop \in {"test", "dispatch"} /\ loop' # "callback"
      /\ UNCHANGED <<events, maxfd, fdset>> /\ fired' \subseteq fired
  BY DEF TestStop, SkipEntry, BatchDone, Current
<1>2. fired' \subseteq Entry /\ BatchOrdered' /\ \A x \in fired' : x.rfired => ran.fd = x.fd
  BY <1>1 DEF DispatchInv, DispatchTypeOK, BatchOrdered, RanCurrent
<1>. QED
  BY <1>1, <1>2, LoopInv

\* The current entry is the only one that can be marked rfired.
LEMMA CurrentIs ==
  ASSUME DispatchInv, NEW e \in fired, \A x \in fired : e.fd <= x.fd
  PROVE  /\ e \in Entry /\ e.fd \in Fd /\ e # Nothing
         /\ \A x \in fired : x.rfired => x = e
<1>1. fired \subseteq Entry
  BY DEF DispatchInv, DispatchTypeOK
<1>2. e \in Entry /\ e.fd \in Fd /\ e.fd # -1
  BY <1>1 DEF Entry, Fd
<1>3. ASSUME NEW x \in fired, x.rfired PROVE x = e
  <2>1. x.fd <= e.fd /\ e.fd <= x.fd /\ x.fd \in Fd
    BY <1>1, <1>3 DEF DispatchInv, BatchOrdered, Entry
  <2>2. x.fd = e.fd
    BY <1>2, <2>1 DEF Fd
  <2>. QED
    BY <2>2 DEF DispatchInv, BatchOrdered
<1>. QED
  BY <1>2, <1>3 DEF Nothing

(***************************************************************************)
(* A callback begins, for the current entry.                               *)
(***************************************************************************)

\* What holds of every beginning.
LEMMA BeginIs ==
  ASSUME DispatchInv, NEW e \in fired, Current(e), NEW proc \in AnyProc, NEW reads \in BOOLEAN,
         Begins(e, proc, reads), (IF reads THEN READABLE ELSE WRITABLE) \in ValidMask(e)
  PROVE  /\ e.fd \in Slot \cap Fd
         /\ run' \in Serving /\ run'.entry = e /\ run'.reads = reads /\ run'.proc = proc
         /\ TableKept' /\ EventsOwned' /\ BatchOrdered' /\ CallbacksCurrent'
         /\ loop' = "callback"
<1>1. /\ loop' = "callback" /\ UNCHANGED <<events, maxfd, fdset, fired, opening, careless>>
      /\ run' = [left |-> MaxOps, entry |-> e, proc |-> proc, data |-> events[e.fd].clientData,
                 reads |-> reads]
  BY DEF Begins
<1>2. e \in Entry /\ e.fd \in Fd /\ e # Nothing
  BY CurrentIs DEF Current
<1>3. e.fd \in Slot /\ (IF reads THEN READABLE ELSE WRITABLE) \in events[e.fd].mask \cap e.mask
  BY DEF ValidMask
<1>4. events[e.fd].clientData \in Data
  BY <1>3, EventFields DEF DispatchInv
<1>5. run' \in Serving
  BY <1>1, <1>2, <1>4 DEF Serving
<1>6. /\ run'.entry = e /\ run'.reads = reads /\ run'.proc = proc
      /\ run'.data = events[e.fd].clientData
  BY <1>1
<1>7. TableKept' /\ EventsOwned' /\ BatchOrdered'
  BY <1>1 DEF DispatchInv, TableKept, EventsOwned, BatchOrdered
<1>8. e.fd \in careless \/ events[e.fd].clientData = opening[e.fd]
  BY <1>2, <1>3 DEF DispatchInv, EventsOwned
<1>9. CallbacksCurrent'
  BY <1>1, <1>3, <1>6, <1>8 DEF CallbacksCurrent
<1>. QED
  BY <1>1, <1>2, <1>3, <1>5, <1>6, <1>7, <1>9

LEMMA BeginReadInv == ASSUME DispatchInv, NEW e \in fired, BeginRead(e) PROVE DispatchInv'
<1>. DEFINE proc == events[e.fd].rfileProc
<1>1. /\ Current(e) /\ ~e.rfired /\ READABLE \in ValidMask(e) /\ Begins(e, proc, TRUE)
      /\ ran' = [fd |-> e.fd, proc |-> proc, replaced |-> FALSE]
  BY DEF BeginRead, CallsRead
<1>2. e.fd \in Slot
  BY <1>1 DEF ValidMask
<1>3. proc \in AnyProc
  BY <1>2, EventFields DEF DispatchInv
<1>. HIDE DEF proc
<1>4. /\ e.fd \in Slot \cap Fd
      /\ run' \in Serving /\ run'.entry = e /\ run'.reads = TRUE /\ run'.proc = proc
      /\ TableKept' /\ EventsOwned' /\ BatchOrdered' /\ CallbacksCurrent'
      /\ loop' = "callback"
  BY <1>1, <1>3, BeginIs
<1>5. \A x \in fired : x.rfired => x = e
  BY <1>1, CurrentIs DEF Current
<1>6. UNCHANGED <<events, fdset, fired, opening, opened, careless>>
  BY <1>1 DEF Begins
<1>7. /\ ran' \in [fd : Slot \cap Fd, proc : AnyProc, replaced : BOOLEAN]
      /\ ran'.fd = e.fd /\ ran'.proc = proc
  BY <1>1, <1>3, <1>4
<1>8. DispatchTypeOK'
  BY <1>4, <1>6, <1>7 DEF DispatchInv, DispatchTypeOK
<1>9. RunsCurrent'
  BY <1>1, <1>4, <1>6, <1>7 DEF RunsCurrent, Current
<1>10. RanCurrent'
  <2>1. \A x \in fired' : x.rfired => ran'.fd = x.fd
    BY <1>1, <1>5, <1>6
  <2>2. events'[ran'.fd].rfileProc = ran'.proc
    BY <1>6, <1>7 DEF proc
  <2>. QED
    BY <2>1, <2>2 DEF RanCurrent
<1>11. CalledOnce'
  BY <1>4 DEF CalledOnce
<1>. QED
  BY <1>4, <1>8, <1>9, <1>10, <1>11 DEF DispatchInv

\* The write callback is another one than that which has run for the entry, or
\* that one has put itself out of its place.
LEMMA BeginWriteInv == ASSUME DispatchInv, NEW e \in fired, BeginWrite(e) PROVE DispatchInv'
<1>. DEFINE proc == events[e.fd].wfileProc
<1>1. /\ Current(e) /\ WRITABLE \in ValidMask(e) /\ Begins(e, proc, FALSE)
      /\ e.rfired => proc # events[e.fd].rfileProc
      /\ ran' = IF e.rfired THEN ran ELSE Nothing
  BY DEF BeginWrite, CallsWrite
<1>2. e.fd \in Slot
  BY <1>1 DEF ValidMask
<1>3. proc \in AnyProc
  BY <1>2, EventFields DEF DispatchInv
<1>. HIDE DEF proc
<1>4. /\ e.fd \in Slot \cap Fd
      /\ run' \in Serving /\ run'.entry = e /\ run'.reads = FALSE /\ run'.proc = proc
      /\ TableKept' /\ EventsOwned' /\ BatchOrdered' /\ CallbacksCurrent'
      /\ loop' = "callback"
  BY <1>1, <1>3, BeginIs
<1>5. \A x \in fired : x.rfired => x = e
  BY <1>1, CurrentIs DEF Current
<1>6. UNCHANGED <<events, fdset, fired, opening, opened, careless>>
  BY <1>1 DEF Begins
<1>7. ran' \in {Nothing} \cup [fd : Slot \cap Fd, proc : AnyProc, replaced : BOOLEAN]
  BY <1>1 DEF DispatchInv, DispatchTypeOK
<1>8. DispatchTypeOK'
  BY <1>4, <1>6, <1>7 DEF DispatchInv, DispatchTypeOK
<1>9. RunsCurrent'
  BY <1>1, <1>4, <1>6 DEF RunsCurrent, Current
<1>10. RanCurrent'
  <2>1. \A x \in fired' : x.rfired => ran'.fd = x.fd
    BY <1>1, <1>5, <1>6 DEF DispatchInv, RanCurrent
  <2>2. ran' # Nothing => ran' = ran
    BY <1>1
  <2>. QED
    BY <1>6, <2>1, <2>2 DEF DispatchInv, RanCurrent
<1>11. CalledOnce'
  <2>1. SUFFICES ASSUME e.rfired, proc = ran'.proc PROVE ran'.replaced
    BY <1>4 DEF CalledOnce
  <2>2. ran' = ran /\ ran.fd = e.fd
    BY <1>1, <2>1 DEF DispatchInv, RanCurrent
  <2>3. ran # Nothing
    BY <1>4, <2>2 DEF Nothing, Fd
  <2>4. ~ran.replaced => events[e.fd].rfileProc = ran.proc
    BY <2>2, <2>3 DEF DispatchInv, RanCurrent
  <2>. QED
    BY <1>1, <2>1, <2>2, <2>4
<1>. QED
  BY <1>4, <1>8, <1>9, <1>10, <1>11 DEF DispatchInv

(***************************************************************************)
(* A callback ends.                                                        *)
(***************************************************************************)

\* An entry whose read callback has run stays the current one, marked rfired; any
\* other leaves the batch.
LEMMA EndIs ==
  ASSUME DispatchInv, loop = "callback", NEW e \in fired, run.entry = e,
         NEW kept, kept = (fired \ {e}) \/ (run.reads /\ kept = FiredAfterRead(e))
  PROVE  /\ kept \subseteq Entry
         /\ \A x, y \in kept : x.fd = y.fd => x = y
         /\ \A x, y \in kept : x.rfired => x.fd <= y.fd
         /\ \A x \in kept : x.rfired => ran.fd = x.fd
<1>1. \A y \in fired : e.fd <= y.fd
  <2>1. fired \subseteq Entry
    BY DEF DispatchInv, DispatchTypeOK
  <2>2. e # Nothing
    BY <2>1 DEF Entry, Nothing, Fd
  <2>. QED
    BY <2>2 DEF DispatchInv, RunsCurrent
<1>2. e \in Entry /\ e # Nothing /\ \A x \in fired : x.rfired => x = e
  BY <1>1, CurrentIs
<1>3. /\ fired \subseteq Entry
      /\ \A x, y \in fired : x.fd = y.fd => x = y
      /\ \A x, y \in fired : x.rfired => x.fd <= y.fd
      /\ \A x \in fired : x.rfired => ran.fd = x.fd
  BY DEF DispatchInv, DispatchTypeOK, BatchOrdered, RanCurrent
<1>4. CASE kept = fired \ {e}
  BY <1>3, <1>4
<1>. DEFINE f == [e EXCEPT !.rfired = TRUE]
<1>5. f \in Entry /\ f.fd = e.fd
  BY <1>2 DEF Entry
<1>. HIDE DEF f
<1>6. CASE run.reads /\ kept = FiredAfterRead(e)
  <2>1. kept \subseteq (fired \ {e}) \cup {f}
    BY <1>6 DEF FiredAfterRead, f
  <2>2. ran.fd = f.fd
    BY <1>2, <1>5, <1>6 DEF DispatchInv, RunsCurrent
  <2>3. \A x \in fired \ {e} : ~x.rfired /\ x.fd # f.fd /\ f.fd <= x.fd /\ x \in Entry
    BY <1>1, <1>2, <1>3, <1>5
  <2>4. f.fd <= f.fd
    BY <1>5 DEF Entry, Fd
  <2>. QED
    BY <1>3, <1>5, <2>1, <2>2, <2>3, <2>4
<1>. QED
  BY <1>4, <1>6

LEMMA EndInv == ASSUME DispatchInv, EndCallback PROVE DispatchInv'
<1>1. /\ loop = "callback" /\ run' = NotRunning
      /\ IF run.entry = Nothing THEN fired' = fired /\ loop' = "test"
         ELSE /\ loop' = "dispatch"
              /\ fired' = IF run.reads THEN FiredAfterRead(run.entry) ELSE fired \ {run.entry}
      /\ ran' = IF \E e \in fired' : e.rfired THEN ran ELSE Nothing
      /\ UNCHANGED <<events, maxfd, fdset, stop, opening, opened, careless>>
  BY DEF EndCallback
<1>2. /\ fired' \subseteq Entry /\ BatchOrdered'
      /\ \A x \in fired' : x.rfired => ran.fd = x.fd
  <2>1. CASE run.entry = Nothing
    BY <1>1, <2>1 DEF DispatchInv, DispatchTypeOK, BatchOrdered, RanCurrent
  <2>2. CASE run.entry # Nothing
    <3>. DEFINE e == run.entry
    <3>1. e \in fired
      BY <1>1, <2>2 DEF DispatchInv, RunsCurrent
    <3>2. fired' = (fired \ {e}) \/ (run.reads /\ fired' = FiredAfterRead(e))
      BY <1>1, <2>2
    <3>3. run.entry = e
      OBVIOUS
    <3>. HIDE DEF e
    <3>4. /\ fired' \subseteq Entry
          /\ \A x, y \in fired' : x.fd = y.fd => x = y
          /\ \A x, y \in fired' : x.rfired => x.fd <= y.fd
          /\ \A x \in fired' : x.rfired => ran.fd = x.fd
      BY <1>1, <3>1, <3>2, <3>3, EndIs
    <3>. QED
      BY <3>4 DEF BatchOrdered
  <2>. QED
    BY <2>1, <2>2
<1>3. loop' # "callback"
  BY <1>1
<1>4. ran' \in {Nothing} \cup [fd : Slot \cap Fd, proc : AnyProc, replaced : BOOLEAN]
  BY <1>1 DEF DispatchInv, DispatchTypeOK
<1>5. DispatchTypeOK'
  BY <1>1, <1>2, <1>3, <1>4 DEF DispatchInv, DispatchTypeOK
<1>6. TableKept' /\ EventsOwned'
  BY <1>1 DEF DispatchInv, TableKept, EventsOwned
<1>7. RunsCurrent' /\ CallbacksCurrent' /\ CalledOnce'
  BY <1>3 DEF RunsCurrent, CallbacksCurrent, CalledOnce, Starts
<1>8. RanCurrent'
  <2>1. \A x \in fired' : x.rfired => ran'.fd = x.fd
    BY <1>1, <1>2
  <2>2. ran' # Nothing => ran' = ran
    BY <1>1
  <2>. QED
    BY <1>1, <2>1, <2>2 DEF DispatchInv, RanCurrent
<1>. QED
  BY <1>2, <1>5, <1>6, <1>7, <1>8 DEF DispatchInv

(***************************************************************************)
(* The specification.                                                      *)
(***************************************************************************)

LEMMA StartInv == DispatchInit => DispatchInv
<1>. SUFFICES ASSUME DispatchInit PROVE DispatchInv
  OBVIOUS
<1>1. /\ events = [fd \in Slot |-> NoEvent] /\ maxfd = -1
      /\ fdset = [fd \in Fd |-> {}] /\ fired = {} /\ loop = "callback"
      /\ opening = [fd \in Fd |-> 0] /\ opened = [fd \in Fd |-> 0]
      /\ run = [left |-> MaxOps, entry |-> Nothing] /\ ran = Nothing /\ careless = {}
  BY DEF DispatchInit
<1>2. /\ NoEvent \in [mask : Mask, rfileProc : AnyProc, wfileProc : AnyProc, clientData : Data]
      /\ NoEvent.mask = {}
  BY DEF NoEvent, Mask, AnyProc, Data
<1>3. run \in Preparing /\ run.entry = Nothing
  BY <1>1 DEF Preparing
<1>4. \A fd \in Slot : events[fd].mask = {}
  BY <1>1, <1>2
<1>5. DispatchTypeOK
  <2>1. events \in [Slot -> [mask : Mask, rfileProc : AnyProc, wfileProc : AnyProc,
                             clientData : Data]]
    BY <1>1, <1>2
  <2>2. /\ fdset \in [Fd -> Mask] /\ opening \in [Fd -> 0 .. MaxOpen]
        /\ opened \in [Fd -> 0 .. MaxOpen]
    BY <1>1 DEF Mask
  <2>. QED
    BY <1>1, <1>3, <2>1, <2>2 DEF DispatchTypeOK
<1>6. TableKept
  BY <1>1, <1>4 DEF TableKept
<1>7. EventsOwned /\ BatchOrdered /\ RanCurrent
  BY <1>1, <1>4 DEF EventsOwned, BatchOrdered, RanCurrent
<1>8. RunsCurrent /\ CallbacksCurrent /\ CalledOnce
  BY <1>3 DEF RunsCurrent, CallbacksCurrent, CalledOnce, Starts
<1>. QED
  BY <1>5, <1>6, <1>7, <1>8 DEF DispatchInv

LEMMA DispatchStep == DispatchInv /\ [DispatchNext]_dispatchVars => DispatchInv'
<1>. SUFFICES ASSUME DispatchInv, [DispatchNext]_dispatchVars PROVE DispatchInv'
  OBVIOUS
<1>1. ASSUME NEW fd \in Fd, OpenFd(fd) PROVE DispatchInv'
  BY <1>1, OpenInv
<1>2. ASSUME NEW fd \in Fd, CloseFd(fd) PROVE DispatchInv'
  BY <1>2, CloseInv
<1>3. ASSUME NEW fd \in Fd, NEW mask \in Mask, DeleteEvent(fd, mask) PROVE DispatchInv'
  BY <1>3, DeleteInv
<1>4. ASSUME NEW fd \in Fd, NEW mask \in Mask, NEW proc \in Proc, CreateEvent(fd, mask, proc)
      PROVE  DispatchInv'
  BY <1>4, CreateInv
<1>5. ASSUME NEW e \in fired, BeginRead(e) \/ BeginWrite(e) PROVE DispatchInv'
  BY <1>5, BeginReadInv, BeginWriteInv
<1>6. CASE PollFds
  BY <1>6, PollInv
<1>7. CASE EndCallback
  BY <1>7, EndInv
<1>8. CASE /\ TestStop \/ SkipEntry \/ BatchDone
           /\ UNCHANGED <<opening, opened, run, ran, careless>>
  BY <1>8, TurnInv
<1>9. CASE UNCHANGED dispatchVars
  BY <1>9 DEF dispatchVars, DispatchInv, DispatchTypeOK, EventsOwned, BatchOrdered, RunsCurrent,
              RanCurrent, TableKept, CallbacksCurrent, CalledOnce, Starts
<1>. QED
  BY <1>1, <1>2, <1>3, <1>4, <1>5, <1>6, <1>7, <1>8, <1>9 DEF DispatchNext

\* select goes blind by a descriptor that is closed and still asked for: its event
\* is in the table, and that was so when it was closed.
LEMMA BlindIs == DispatchInv => BlindByCarelessness
<1>. SUFFICES ASSUME DispatchInv, Blind PROVE careless # {}
  BY DEF BlindByCarelessness
<1>1. PICK fd \in Fd : fd <= maxfd /\ fdset[fd] # {} /\ opening[fd] = 0
  BY DEF Blind
<1>2. fd \in Slot
  BY <1>1 DEF DispatchInv, EventsOwned
<1>3. events[fd].mask # {}
  BY <1>1, <1>2 DEF DispatchInv, TableKept
<1>. QED
  BY <1>1, <1>2, <1>3 DEF DispatchInv, EventsOwned

\* The invariant behind all of it.
THEOREM DispatchInvCorrect == DispatchSpec => []DispatchInv
<1>. QED
  BY StartInv, DispatchStep, PTL DEF DispatchSpec

\* aeProcessEvents calls whom it should: the table and select's sets agree, a
\* callback gets the opening its event was created for, one for both masks runs
\* once for an entry, and select goes blind only by a careless close.
THEOREM DispatchCorrect == DispatchSpec => []DispatchFaithful
<1>1. DispatchInv => DispatchFaithful
  BY BlindIs DEF DispatchInv, DispatchFaithful
<1>. QED
  BY <1>1, DispatchInvCorrect, PTL


-----------------------------------------------------------------------------
(***************************************************************************)
(* Sockets: the operators on the functions that stand for the kernel's     *)
(* descriptors and the caller's.                                           *)
(***************************************************************************)

\* A descriptor goes, nothing else changes.
LEMMA ClosedIs ==
  ASSUME SocketsTypeOK, NEW s, sockets' = Without(sockets, s)
  PROVE  /\ DOMAIN sockets' = DOMAIN sockets \ {s} /\ DOMAIN sockets' \subseteq Fds
         /\ sockets' \in [DOMAIN sockets' -> SUBSET Did]
         /\ \A fd \in DOMAIN sockets \ {s} : sockets'[fd] = sockets[fd]
<1>1. DOMAIN sockets \subseteq Fds /\ sockets \in [DOMAIN sockets -> SUBSET Did]
  BY DEF SocketsTypeOK
<1>2. sockets' = [x \in DOMAIN sockets \ {s} |-> sockets[x]]
  BY DEF Without
<1>. QED
  BY <1>1, <1>2

\* The same for what is done to one.
LEMMA DoneIs ==
  ASSUME SocketsTypeOK, NEW s \in DOMAIN sockets, NEW what \in Did,
         sockets' = [sockets EXCEPT ![s] = @ \cup {what}]
  PROVE  /\ DOMAIN sockets' = DOMAIN sockets /\ DOMAIN sockets' \subseteq Fds
         /\ sockets' \in [DOMAIN sockets' -> SUBSET Did]
         /\ sockets'[s] = sockets[s] \cup {what}
         /\ \A fd \in DOMAIN sockets \ {s} : sockets'[fd] = sockets[fd]
<1>1. DOMAIN sockets \subseteq Fds /\ sockets \in [DOMAIN sockets -> SUBSET Did]
  BY DEF SocketsTypeOK
<1>2. sockets[s] \cup {what} \in SUBSET Did
  BY <1>1
<1>. QED
  BY <1>1, <1>2

(***************************************************************************)
(* A call in progress works on the socket in hand, and on that alone.      *)
(***************************************************************************)
LEMMA InHandIs ==
  ASSUME SocketsInv, step \in InHand
  PROVE  /\ sock \in DOMAIN sockets /\ sock \notin DOMAIN given /\ sock \in Fds /\ sock # ERR
         /\ addrs \in 1 .. MaxAddr
         /\ request \in ServerRequest \cup ClientRequest
<1>1. sock \in DOMAIN sockets \ DOMAIN given /\ addrs > 0
  BY DEF SocketsInv, HandDone
<1>2. step # "idle"
  BY DEF InHand
<1>3. DOMAIN sockets \subseteq Fds /\ addrs \in 0 .. MaxAddr /\ request # NoRequest
  BY <1>2 DEF SocketsInv, SocketsTypeOK
<1>4. request \in ServerRequest \cup ClientRequest
  BY <1>3 DEF SocketsInv, SocketsTypeOK
<1>5. sock # ERR
  BY <1>1, <1>3, SocketsAssumption DEF ERR
<1>. QED
  BY <1>1, <1>3, <1>4, <1>5, SocketsAssumption

\* What the caller has is not touched, so only the call in progress matters.
LEMMA CallInv ==
  ASSUME SocketsInv, given' = given,
         DOMAIN sockets' \subseteq Fds, sockets' \in [DOMAIN sockets' -> SUBSET Did],
         DOMAIN given \subseteq DOMAIN sockets',
         \A fd \in DOMAIN given : sockets'[fd] = sockets[fd],
         request' \in {NoRequest} \cup ServerRequest \cup ClientRequest,
         step' \in InHand \cup {"idle", "socket", "error", "end"},
         step' # "idle" => request' # NoRequest,
         sock' \in Fds \cup {ERR}, addrs' \in 0 .. MaxAddr,
         HandDone', HandKept', StrayOnly'
  PROVE  SocketsInv'
<1>1. SocketsTypeOK'
  BY DEF SocketsInv, SocketsTypeOK
<1>2. ServedAsAsked'
  BY DEF SocketsInv, ServedAsAsked
<1>. QED
  BY <1>1, <1>2 DEF SocketsInv

\* The next thing is done to it.
LEMMA AdvanceInv ==
  ASSUME SocketsInv, step \in InHand, NEW what \in Did,
         sockets' = [sockets EXCEPT ![sock] = @ \cup {what}],
         UNCHANGED <<given, request, sock, addrs>>,
         step' \in InHand \cup {"end"}, HandDone',
         step' = "end" => Serves(sockets[sock] \cup {what}, request)
  PROVE  SocketsInv'
<1>1. /\ sock \in DOMAIN sockets /\ sock \notin DOMAIN given /\ sock \in Fds /\ sock # ERR
      /\ addrs \in 1 .. MaxAddr
      /\ request \in ServerRequest \cup ClientRequest
  BY InHandIs
<1>2. /\ DOMAIN sockets' = DOMAIN sockets /\ DOMAIN sockets' \subseteq Fds
      /\ sockets' \in [DOMAIN sockets' -> SUBSET Did]
      /\ sockets'[sock] = sockets[sock] \cup {what}
      /\ \A fd \in DOMAIN sockets \ {sock} : sockets'[fd] = sockets[fd]
  BY <1>1, DoneIs DEF SocketsInv
<1>3. /\ DOMAIN given \subseteq DOMAIN sockets'
      /\ \A fd \in DOMAIN given : sockets'[fd] = sockets[fd]
  BY <1>1, <1>2 DEF SocketsInv, SocketsTypeOK
<1>4. /\ step' \notin {"idle", "socket", "error"}
  BY DEF InHand
<1>5. HandKept'
  <2>1. request.fn = "client" /\ request.source => request.nonblock
    BY DEF SocketsInv, HandKept
  <2>. QED
    BY <1>1, <1>2, <1>4, <2>1 DEF HandKept
<1>6. StrayOnly'
  BY <1>1, <1>2 DEF SocketsInv, StrayOnly
<1>7. request # NoRequest
  BY <1>1 DEF NoRequest, ServerRequest, ClientRequest
<1>8. addrs' \in 0 .. MaxAddr
  BY <1>1
<1>. QED
  BY <1>1, <1>2, <1>3, <1>5, <1>6, <1>7, <1>8, CallInv

\* A call on it fails, and the function leaves for its error path.
LEMMA GiveUpInv ==
  ASSUME SocketsInv, step \in InHand, sockets' = sockets,
         UNCHANGED <<given, request, sock, addrs>>, step' = "error",
         request.fn = "server" => sockets[sock] \subseteq {"server", "v6only"}
  PROVE  SocketsInv'
<1>1. /\ sock \in DOMAIN sockets /\ sock \notin DOMAIN given /\ sock \in Fds /\ sock # ERR
      /\ addrs \in 1 .. MaxAddr
      /\ request \in ServerRequest \cup ClientRequest
  BY InHandIs
<1>2. HandDone'
  BY DEF HandDone, InHand
<1>3. HandKept'
  <2>1. request.fn = "client" /\ request.source => request.nonblock
    BY DEF SocketsInv, HandKept
  <2>. QED
    BY <1>1, <2>1 DEF HandKept
<1>4. StrayOnly'
  BY DEF SocketsInv, StrayOnly
<1>5. request # NoRequest
  BY <1>1 DEF NoRequest, ServerRequest, ClientRequest
<1>6. SocketsTypeOK'
  BY <1>5 DEF SocketsInv, SocketsTypeOK
<1>7. ServedAsAsked'
  BY DEF SocketsInv, ServedAsAsked
<1>. QED
  BY <1>2, <1>3, <1>4, <1>6, <1>7 DEF SocketsInv

\* A call on a server's socket fails, and the socket is closed on the way out.
LEMMA CloseOutInv ==
  ASSUME SocketsInv, step \in InHand, sockets' = Without(sockets, sock),
         UNCHANGED <<given, request, sock, addrs>>, step' = "error", request.fn = "server"
  PROVE  SocketsInv'
<1>1. /\ sock \in DOMAIN sockets /\ sock \notin DOMAIN given /\ sock \in Fds /\ sock # ERR
      /\ addrs \in 1 .. MaxAddr
      /\ request \in ServerRequest \cup ClientRequest
  BY InHandIs
<1>2. /\ DOMAIN sockets' = DOMAIN sockets \ {sock} /\ DOMAIN sockets' \subseteq Fds
      /\ sockets' \in [DOMAIN sockets' -> SUBSET Did]
      /\ \A fd \in DOMAIN sockets \ {sock} : sockets'[fd] = sockets[fd]
  BY ClosedIs DEF SocketsInv
<1>3. HandDone'
  BY DEF HandDone, InHand
<1>4. HandKept'
  BY <1>1, <1>2 DEF HandKept
<1>5. StrayOnly'
  BY <1>2 DEF SocketsInv, StrayOnly
<1>6. request # NoRequest
  BY <1>1 DEF NoRequest, ServerRequest, ClientRequest
<1>7. /\ DOMAIN given \subseteq DOMAIN sockets'
      /\ \A fd \in DOMAIN given : sockets'[fd] = sockets[fd]
  BY <1>1, <1>2 DEF SocketsInv, SocketsTypeOK
<1>8. addrs' \in 0 .. MaxAddr
  BY <1>1
<1>. QED
  BY <1>1, <1>2, <1>3, <1>4, <1>5, <1>6, <1>7, <1>8, CallInv

\* What a server's socket, or a client's, has had up to here.
LEMMA ServerHand ==
  ASSUME SocketsInv, step \in InHand, request.fn = "server"
  PROVE  /\ request \in ServerRequest /\ request.v6 \in BOOLEAN
         /\ step \in {"v6only", "reuse", "bind", "listen"}
         /\ step = "v6only" => request.v6
         /\ sockets[sock] = ServerDid(step, request.v6)
<1>1. request \in ServerRequest
  BY InHandIs DEF ClientRequest
<1>. QED
  BY <1>1 DEF SocketsInv, HandDone, ServerRequest

LEMMA ClientHand ==
  ASSUME SocketsInv, step \in InHand, request.fn = "client"
  PROVE  /\ request \in ClientRequest
         /\ request.nonblock \in BOOLEAN /\ request.source \in BOOLEAN /\ request.best \in BOOLEAN
         /\ request.source => request.nonblock
         /\ step \in {"reuse", "nonblock", "source", "connect"}
         /\ step = "nonblock" => request.nonblock
         /\ step = "source" => request.source
         /\ sockets[sock] = ClientDid(step, request.nonblock, request.source)
<1>1. request \in ClientRequest
  BY InHandIs DEF ServerRequest
<1>. QED
  BY <1>1 DEF SocketsInv, HandDone, HandKept, ClientRequest

LEMMA EitherHand ==
  ASSUME SocketsInv, step \in InHand
  PROVE  request.fn = "server" \/ request.fn = "client"
  BY InHandIs DEF ServerRequest, ClientRequest

LEMMA ServerNext ==
  ASSUME SocketsInv, step \in InHand, request.fn = "server", NEW what \in Did,
         sockets' = [sockets EXCEPT ![sock] = @ \cup {what}],
         UNCHANGED <<given, request, sock, addrs>>,
         step' \in {"reuse", "bind", "listen"},
         ServerDid(step', request.v6) = ServerDid(step, request.v6) \cup {what}
  PROVE  SocketsInv'
<1>1. /\ sock \in DOMAIN sockets /\ sock \notin DOMAIN given /\ addrs \in 1 .. MaxAddr
  BY InHandIs
<1>2. sockets'[sock] = sockets[sock] \cup {what} /\ DOMAIN sockets' = DOMAIN sockets
  BY <1>1, DoneIs DEF SocketsInv
<1>3. HandDone'
  BY <1>1, <1>2, ServerHand DEF HandDone
<1>4. step' \in InHand \cup {"end"} /\ step' # "end"
  BY DEF InHand
<1>. QED
  BY <1>3, <1>4, AdvanceInv

LEMMA ClientNext ==
  ASSUME SocketsInv, step \in InHand, request.fn = "client", NEW what \in Did,
         sockets' = [sockets EXCEPT ![sock] = @ \cup {what}],
         UNCHANGED <<given, request, sock, addrs>>,
         step' \in {"nonblock", "source", "connect"},
         step' = "nonblock" => request.nonblock,
         step' = "source" => request.source,
         ClientDid(step', request.nonblock, request.source) =
           ClientDid(step, request.nonblock, request.source) \cup {what}
  PROVE  SocketsInv'
<1>1. /\ sock \in DOMAIN sockets /\ sock \notin DOMAIN given /\ addrs \in 1 .. MaxAddr
  BY InHandIs
<1>2. sockets'[sock] = sockets[sock] \cup {what} /\ DOMAIN sockets' = DOMAIN sockets
  BY <1>1, DoneIs DEF SocketsInv
<1>3. HandDone'
  BY <1>1, <1>2, ClientHand DEF HandDone
<1>4. step' \in InHand \cup {"end"} /\ step' # "end"
  BY DEF InHand
<1>. QED
  BY <1>3, <1>4, AdvanceInv

\* The last thing is done to it.
LEMMA ServedNext ==
  ASSUME SocketsInv, step \in InHand, NEW what \in Did,
         sockets' = [sockets EXCEPT ![sock] = @ \cup {what}],
         UNCHANGED <<given, request, sock, addrs>>,
         step' = "end", Serves(sockets[sock] \cup {what}, request)
  PROVE  SocketsInv'
<1>1. HandDone'
  BY DEF HandDone, InHand
<1>. QED
  BY <1>1, AdvanceInv

(***************************************************************************)
(* The steps on the socket in hand.                                        *)
(***************************************************************************)
LEMMA V6OnlyInv == ASSUME SocketsInv, V6Only PROVE SocketsInv'
<1>1. /\ step = "v6only" /\ UNCHANGED <<given, request, sock, addrs>>
      /\ \/ sockets' = [sockets EXCEPT ![sock] = @ \cup {"v6only"}] /\ step' = "reuse"
         \/ sockets' = Without(sockets, sock) /\ step' = "error"
  BY DEF V6Only, DoesOrCloses, Become
<1>2. step \in InHand /\ "v6only" \in Did
  BY <1>1 DEF InHand, Did
<1>3. request.fn = "server"
  BY <1>1, <1>2, EitherHand, ClientHand
<1>4. ServerDid("reuse", request.v6) = ServerDid("v6only", request.v6) \cup {"v6only"}
  BY <1>1, <1>2, <1>3, ServerHand DEF ServerDid
<1>5. CASE sockets' = [sockets EXCEPT ![sock] = @ \cup {"v6only"}] /\ step' = "reuse"
  BY <1>1, <1>2, <1>3, <1>4, <1>5, ServerNext
<1>6. CASE sockets' = Without(sockets, sock) /\ step' = "error"
  BY <1>1, <1>2, <1>3, <1>6, CloseOutInv
<1>. QED
  BY <1>1, <1>5, <1>6

\* anetSetReuseAddr failing leaves the server's socket open.
LEMMA SetReuseAddrInv == ASSUME SocketsInv, SetReuseAddr PROVE SocketsInv'
<1>1. /\ step = "reuse" /\ UNCHANGED <<given, request, sock, addrs>>
      /\ \/ sockets' = [sockets EXCEPT ![sock] = @ \cup {"reuse"}] /\ step' = AfterReuse
         \/ sockets' = sockets /\ step' = "error"
  BY DEF SetReuseAddr, Does, Become
<1>2. step \in InHand /\ "reuse" \in Did
  BY <1>1 DEF InHand, Did
<1>3. CASE sockets' = [sockets EXCEPT ![sock] = @ \cup {"reuse"}] /\ step' = AfterReuse
  <2>1. CASE request.fn = "server"
    <3>1. step' = "bind"
      BY <1>3, <2>1 DEF AfterReuse
    <3>2. ServerDid("bind", request.v6) = ServerDid("reuse", request.v6) \cup {"reuse"}
      BY DEF ServerDid
    <3>. QED
      BY <1>1, <1>2, <1>3, <2>1, <3>1, <3>2, ServerNext
  <2>2. CASE request.fn = "client"
    <3>1. step' = IF request.nonblock THEN "nonblock" ELSE "connect"
      BY <1>3, <2>2 DEF AfterReuse
    <3>2. request.source => request.nonblock
      BY <1>2, <2>2, ClientHand
    <3>3. ClientDid(step', request.nonblock, request.source) =
            ClientDid("reuse", request.nonblock, request.source) \cup {"reuse"}
      BY <3>1, <3>2 DEF ClientDid
    <3>4. /\ step' \in {"nonblock", "source", "connect"}
          /\ step' = "nonblock" => request.nonblock
          /\ step' = "source" => request.source
      BY <3>1
    <3>. QED
      BY <1>1, <1>2, <1>3, <2>2, <3>3, <3>4, ClientNext
  <2>. QED
    BY <1>2, <2>1, <2>2, EitherHand
<1>4. CASE sockets' = sockets /\ step' = "error"
  <2>1. request.fn = "server" => sockets[sock] \subseteq {"server", "v6only"}
    BY <1>1, <1>2, ServerHand DEF ServerDid
  <2>. QED
    BY <1>1, <1>2, <1>4, <2>1, GiveUpInv
<1>. QED
  BY <1>1, <1>3, <1>4

LEMMA BindInv == ASSUME SocketsInv, Bind PROVE SocketsInv'
<1>1. /\ step = "bind" /\ UNCHANGED <<given, request, sock, addrs>>
      /\ \/ sockets' = [sockets EXCEPT ![sock] = @ \cup {"bound"}] /\ step' = "listen"
         \/ sockets' = Without(sockets, sock) /\ step' = "error"
  BY DEF Bind, DoesOrCloses, Become
<1>2. step \in InHand /\ "bound" \in Did
  BY <1>1 DEF InHand, Did
<1>3. request.fn = "server"
  BY <1>1, <1>2, EitherHand, ClientHand
<1>4. ServerDid("listen", request.v6) = ServerDid("bind", request.v6) \cup {"bound"}
  BY DEF ServerDid
<1>5. CASE sockets' = [sockets EXCEPT ![sock] = @ \cup {"bound"}] /\ step' = "listen"
  BY <1>1, <1>2, <1>3, <1>4, <1>5, ServerNext
<1>6. CASE sockets' = Without(sockets, sock) /\ step' = "error"
  BY <1>1, <1>2, <1>3, <1>6, CloseOutInv
<1>. QED
  BY <1>1, <1>5, <1>6

LEMMA ListenInv == ASSUME SocketsInv, Listen PROVE SocketsInv'
<1>1. /\ step = "listen" /\ UNCHANGED <<given, request, sock, addrs>>
      /\ \/ sockets' = [sockets EXCEPT ![sock] = @ \cup {"listening"}] /\ step' = "end"
         \/ sockets' = Without(sockets, sock) /\ step' = "error"
  BY DEF Listen, DoesOrCloses, Become
<1>2. step \in InHand /\ "listening" \in Did
  BY <1>1 DEF InHand, Did
<1>3. request.fn = "server"
  BY <1>1, <1>2, EitherHand, ClientHand
<1>4. Serves(sockets[sock] \cup {"listening"}, request)
  BY <1>1, <1>2, <1>3, ServerHand DEF Serves, ServerDid
<1>5. CASE sockets' = [sockets EXCEPT ![sock] = @ \cup {"listening"}] /\ step' = "end"
  BY <1>1, <1>2, <1>4, <1>5, ServedNext
<1>6. CASE sockets' = Without(sockets, sock) /\ step' = "error"
  BY <1>1, <1>2, <1>3, <1>6, CloseOutInv
<1>. QED
  BY <1>1, <1>5, <1>6

LEMMA NonBlockInv == ASSUME SocketsInv, NonBlock PROVE SocketsInv'
<1>1. /\ step = "nonblock" /\ UNCHANGED <<given, request, sock, addrs>>
      /\ \/ /\ sockets' = [sockets EXCEPT ![sock] = @ \cup {"nonblock"}]
            /\ step' = IF request.source THEN "source" ELSE "connect"
         \/ sockets' = sockets /\ step' = "error"
  BY DEF NonBlock, Does, Become
<1>2. step \in InHand /\ "nonblock" \in Did
  BY <1>1 DEF InHand, Did
<1>3. request.fn = "client"
  BY <1>1, <1>2, EitherHand, ServerHand
<1>4. CASE /\ sockets' = [sockets EXCEPT ![sock] = @ \cup {"nonblock"}]
           /\ step' = IF request.source THEN "source" ELSE "connect"
  <2>1. request.nonblock
    BY <1>1, <1>2, <1>3, ClientHand
  <2>2. ClientDid(step', request.nonblock, request.source) =
          ClientDid("nonblock", request.nonblock, request.source) \cup {"nonblock"}
    BY <1>4, <2>1 DEF ClientDid
  <2>3. /\ step' \in {"nonblock", "source", "connect"} /\ step' # "nonblock"
        /\ step' = "source" => request.source
    BY <1>4
  <2>. QED
    BY <1>1, <1>2, <1>3, <1>4, <2>2, <2>3, ClientNext
<1>5. CASE sockets' = sockets /\ step' = "error"
  BY <1>1, <1>2, <1>3, <1>5, GiveUpInv
<1>. QED
  BY <1>1, <1>4, <1>5

LEMMA BindSourceInv == ASSUME SocketsInv, BindSource PROVE SocketsInv'
<1>1. /\ step = "source" /\ UNCHANGED <<given, request, sock, addrs>>
      /\ \/ sockets' = [sockets EXCEPT ![sock] = @ \cup {"bound"}] /\ step' = "connect"
         \/ sockets' = sockets /\ step' = "error"
  BY DEF BindSource, Does, Become
<1>2. step \in InHand /\ "bound" \in Did
  BY <1>1 DEF InHand, Did
<1>3. request.fn = "client"
  BY <1>1, <1>2, EitherHand, ServerHand
<1>4. CASE sockets' = [sockets EXCEPT ![sock] = @ \cup {"bound"}] /\ step' = "connect"
  <2>1. request.source /\ request.nonblock
    BY <1>1, <1>2, <1>3, ClientHand
  <2>2. ClientDid("connect", request.nonblock, request.source) =
          ClientDid("source", request.nonblock, request.source) \cup {"bound"}
    BY <2>1 DEF ClientDid
  <2>. QED
    BY <1>1, <1>2, <1>3, <1>4, <2>2, ClientNext
<1>5. CASE sockets' = sockets /\ step' = "error"
  BY <1>1, <1>2, <1>3, <1>5, GiveUpInv
<1>. QED
  BY <1>1, <1>4, <1>5

\* A connection that is refused is tried again with the next address.
LEMMA ConnectInv == ASSUME SocketsInv, Connect PROVE SocketsInv'
<1>1. /\ step = "connect" /\ UNCHANGED <<given, request>>
      /\ \/ /\ sockets' = [sockets EXCEPT ![sock] = @ \cup {"connected"}]
            /\ step' = "end" /\ UNCHANGED <<sock, addrs>>
         \/ /\ request.nonblock
            /\ sockets' = [sockets EXCEPT ![sock] = @ \cup {"connecting"}]
            /\ step' = "end" /\ UNCHANGED <<sock, addrs>>
         \/ /\ sockets' = Without(sockets, sock) /\ sock' = ERR /\ addrs' = addrs - 1
            /\ step' = "socket"
  BY DEF Connect, Become
<1>2. step \in InHand /\ "connected" \in Did /\ "connecting" \in Did
  BY <1>1 DEF InHand, Did
<1>3. request.fn = "client"
  BY <1>1, <1>2, EitherHand, ServerHand
<1>4. sockets[sock] = ClientDid("connect", request.nonblock, request.source)
  BY <1>1, <1>2, <1>3, ClientHand
<1>5. CASE /\ sockets' = [sockets EXCEPT ![sock] = @ \cup {"connected"}]
           /\ step' = "end" /\ UNCHANGED <<sock, addrs>>
  <2>1. Serves(sockets[sock] \cup {"connected"}, request)
    BY <1>3, <1>4 DEF Serves, ClientDid
  <2>. QED
    BY <1>1, <1>2, <1>5, <2>1, ServedNext
<1>6. CASE /\ request.nonblock
           /\ sockets' = [sockets EXCEPT ![sock] = @ \cup {"connecting"}]
           /\ step' = "end" /\ UNCHANGED <<sock, addrs>>
  <2>1. Serves(sockets[sock] \cup {"connecting"}, request)
    BY <1>3, <1>4, <1>6 DEF Serves, ClientDid
  <2>. QED
    BY <1>1, <1>2, <1>6, <2>1, ServedNext
<1>7. CASE /\ sockets' = Without(sockets, sock) /\ sock' = ERR /\ addrs' = addrs - 1
           /\ step' = "socket"
  <2>1. /\ sock \in DOMAIN sockets /\ sock \notin DOMAIN given
        /\ addrs \in 1 .. MaxAddr
        /\ request \in ServerRequest \cup ClientRequest
    BY <1>2, InHandIs
  <2>2. /\ DOMAIN sockets' = DOMAIN sockets \ {sock} /\ DOMAIN sockets' \subseteq Fds
        /\ sockets' \in [DOMAIN sockets' -> SUBSET Did]
        /\ \A fd \in DOMAIN sockets \ {sock} : sockets'[fd] = sockets[fd]
    BY <1>7, ClosedIs DEF SocketsInv
  <2>3. HandDone' /\ step' # "idle"
    BY <1>7 DEF HandDone, InHand
  <2>4. HandKept'
    BY <1>1, <1>7 DEF SocketsInv, HandKept
  <2>5. StrayOnly'
    BY <1>1, <2>2 DEF SocketsInv, StrayOnly
  <2>6. request # NoRequest
    BY <2>1 DEF NoRequest, ServerRequest, ClientRequest
  <2>7. /\ DOMAIN given \subseteq DOMAIN sockets'
        /\ \A fd \in DOMAIN given : sockets'[fd] = sockets[fd]
    BY <2>1, <2>2 DEF SocketsInv, SocketsTypeOK
  <2>8. addrs' \in 0 .. MaxAddr
    BY <1>7, <2>1, SocketsAssumption
  <2>. QED
    BY <1>1, <1>7, <2>1, <2>2, <2>3, <2>4, <2>5, <2>6, <2>7, <2>8, CallInv
<1>. QED
  BY <1>1, <1>5, <1>6, <1>7

(***************************************************************************)
(* The steps while no socket is in hand.                                   *)
(***************************************************************************)

\* Nothing happens to a descriptor, and the call goes on without a socket.
LEMMA EmptyHandInv ==
  ASSUME SocketsInv, UNCHANGED <<sockets, given>>,
         request' \in {NoRequest} \cup ServerRequest \cup ClientRequest,
         request'.fn = "client" /\ request'.source => request'.nonblock,
         step' \in {"idle", "socket", "error", "end"},
         step' # "idle" => request' # NoRequest,
         sock' = ERR, addrs' \in 0 .. MaxAddr,
         sock \in DOMAIN sockets \ DOMAIN given => sockets[sock] \subseteq {"server", "v6only"}
  PROVE  SocketsInv'
<1>1. HandDone'
  BY DEF HandDone, InHand
<1>2. HandKept'
  BY DEF HandKept
<1>3. StrayOnly'
  BY DEF SocketsInv, StrayOnly
<1>4. /\ DOMAIN sockets' \subseteq Fds /\ sockets' \in [DOMAIN sockets' -> SUBSET Did]
      /\ DOMAIN given \subseteq DOMAIN sockets'
      /\ \A fd \in DOMAIN given : sockets'[fd] = sockets[fd]
  BY DEF SocketsInv, SocketsTypeOK
<1>. QED
  BY <1>1, <1>2, <1>3, <1>4, CallInv

LEMMA CalledInv ==
  ASSUME SocketsInv, NEW c \in ServerRequest \cup ClientRequest, Called(c),
         c.fn = "client" /\ c.source => c.nonblock
  PROVE  SocketsInv'
<1>1. /\ step = "idle" /\ request' = c /\ sock' = ERR /\ UNCHANGED <<sockets, given>>
      /\ \/ step' = "idle" /\ addrs' = 0
         \/ step' = "socket" /\ addrs' \in 1 .. MaxAddr
  BY DEF Called
<1>2. sock = ERR
  BY <1>1 DEF SocketsInv, HandKept
<1>3. sock \notin DOMAIN sockets
  BY <1>2, SocketsAssumption DEF SocketsInv, SocketsTypeOK, ERR
<1>4. c # NoRequest
  BY DEF NoRequest, ServerRequest, ClientRequest
<1>5. addrs' \in 0 .. MaxAddr
  BY <1>1, SocketsAssumption
<1>. QED
  BY <1>1, <1>3, <1>4, <1>5, EmptyHandInv

LEMMA TcpCallInv == ASSUME SocketsInv, TcpServer \/ TcpConnect PROVE SocketsInv'
<1>1. CASE TcpServer
  <2>1. PICK v6 \in BOOLEAN : Called([fn |-> "server", v6 |-> v6])
    BY <1>1 DEF TcpServer
  <2>. DEFINE c == [fn |-> "server", v6 |-> v6]
  <2>2. c \in ServerRequest \cup ClientRequest /\ c.fn = "server" /\ Called(c)
    BY <2>1 DEF ServerRequest
  <2>. HIDE DEF c
  <2>. QED
    BY <2>2, CalledInv
<1>2. CASE TcpConnect
  <2>1. PICK nonblock, source, best \in BOOLEAN :
          /\ source => nonblock
          /\ Called([fn |-> "client", nonblock |-> nonblock, source |-> source, best |-> best,
                     blocked |-> FALSE])
    BY <1>2 DEF TcpConnect
  <2>. DEFINE c == [fn |-> "client", nonblock |-> nonblock, source |-> source, best |-> best,
                    blocked |-> FALSE]
  <2>2. c \in ServerRequest \cup ClientRequest /\ Called(c) /\ (c.source => c.nonblock)
    BY <2>1 DEF ClientRequest
  <2>. HIDE DEF c
  <2>. QED
    BY <2>2, CalledInv
<1>. QED
  BY <1>1, <1>2

\* The kernel's new descriptor is nobody's.
LEMMA TrySocketInv == ASSUME SocketsInv, TrySocket PROVE SocketsInv'
<1>1. step = "socket" /\ addrs > 0 /\ UNCHANGED <<given, request>>
  BY DEF TrySocket, Become
<1>2. /\ sock = ERR /\ request \in ServerRequest \cup ClientRequest /\ request # NoRequest
      /\ request.fn = "client" /\ request.source => request.nonblock
      /\ addrs \in 0 .. MaxAddr
  BY <1>1 DEF SocketsInv, SocketsTypeOK, HandKept
<1>3. request.fn = "server" \/ request.fn = "client"
  BY <1>2 DEF ServerRequest, ClientRequest
<1>4. sock \notin DOMAIN sockets
  BY <1>2, SocketsAssumption DEF SocketsInv, SocketsTypeOK, ERR
<1>5. CASE sock' = ERR /\ addrs' = addrs - 1 /\ step' = "socket" /\ sockets' = sockets
  <2>1. addrs' \in 0 .. MaxAddr
    BY <1>1, <1>2, <1>5, SocketsAssumption
  <2>. QED
    BY <1>1, <1>2, <1>4, <1>5, <2>1, EmptyHandInv
<1>6. ASSUME NEW fd \in Fds \ DOMAIN sockets,
             sock' = fd, sockets' = With(sockets, fd, {request.fn}),
             step' = AfterSocket, addrs' = addrs
      PROVE  SocketsInv'
  <2>1. {request.fn} \in SUBSET Did
    BY <1>3 DEF Did
  <2>2. /\ DOMAIN sockets' = DOMAIN sockets \cup {fd}
        /\ sockets'[fd] = {request.fn}
        /\ \A x \in DOMAIN sockets : sockets'[x] = sockets[x]
    <3>1. sockets' = [x \in DOMAIN sockets \cup {fd} |->
                       IF x = fd THEN {request.fn} ELSE sockets[x]]
      BY <1>6 DEF With
    <3>. QED
      BY <3>1
  <2>3. DOMAIN sockets' \subseteq Fds /\ sockets' \in [DOMAIN sockets' -> SUBSET Did]
    <3>1. DOMAIN sockets \subseteq Fds /\ sockets \in [DOMAIN sockets -> SUBSET Did]
      BY DEF SocketsInv, SocketsTypeOK
    <3>2. sockets' = [x \in DOMAIN sockets \cup {fd} |->
                       IF x = fd THEN {request.fn} ELSE sockets[x]]
      BY <1>6 DEF With
    <3>. QED
      BY <2>1, <3>1, <3>2
  <2>4. fd \notin DOMAIN given /\ DOMAIN given \subseteq DOMAIN sockets
    BY DEF SocketsInv, SocketsTypeOK
  <2>5. step' \in {"v6only", "reuse"} /\ (step' = "v6only" <=> request.fn = "server" /\ request.v6)
    BY <1>6 DEF AfterSocket
  <2>6. HandDone'
    <3>1. request.fn = "server" => {request.fn} = ServerDid(step', request.v6)
      BY <2>5 DEF ServerDid
    <3>2. request.fn = "client" =>
            step' = "reuse" /\ {request.fn} = ClientDid(step', request.nonblock, request.source)
      BY <2>5 DEF ClientDid
    <3>. QED
      BY <1>1, <1>3, <1>6, <2>2, <2>4, <2>5, <3>1, <3>2 DEF HandDone
  <2>7. HandKept'
    BY <1>1, <1>2, <2>5 DEF HandKept
  <2>8. StrayOnly'
    BY <1>1, <1>4, <1>6, <2>2 DEF SocketsInv, StrayOnly
  <2>9. step' \in InHand /\ step' # "idle"
    BY <2>5 DEF InHand
  <2>. QED
    BY <1>1, <1>2, <1>6, <2>2, <2>3, <2>4, <2>6, <2>7, <2>8, <2>9, CallInv
<1>. QED
  BY <1>5, <1>6 DEF TrySocket, Become

LEMMA NoAddressLeftInv == ASSUME SocketsInv, NoAddressLeft PROVE SocketsInv'
<1>1. /\ step = "socket" /\ step' = "error" /\ UNCHANGED <<given, request, sockets, sock, addrs>>
  BY DEF NoAddressLeft, Become
<1>2. /\ sock = ERR /\ request \in ServerRequest \cup ClientRequest /\ request # NoRequest
      /\ request.fn = "client" /\ request.source => request.nonblock
      /\ addrs \in 0 .. MaxAddr
  BY <1>1 DEF SocketsInv, SocketsTypeOK, HandKept
<1>3. sock \notin DOMAIN sockets
  BY <1>2, SocketsAssumption DEF SocketsInv, SocketsTypeOK, ERR
<1>. QED
  BY <1>1, <1>2, <1>3, EmptyHandInv

\* The error path: a client's socket is closed, a server's stays if it is still open,
\* and then nothing but v6only has been done to it.
LEMMA FailedInv == ASSUME SocketsInv, Failed PROVE SocketsInv'
<1>1. /\ step = "error" /\ step' = "end" /\ UNCHANGED <<given, request>>
      /\ sock' = ERR /\ addrs' = addrs
      /\ sockets' = IF request.fn = "client" /\ sock # ERR THEN Without(sockets, sock)
                    ELSE sockets
  BY DEF Failed, Become
<1>2. /\ request \in ServerRequest \cup ClientRequest /\ request # NoRequest
      /\ request.fn = "client" /\ request.source => request.nonblock
      /\ addrs \in 0 .. MaxAddr
  BY <1>1 DEF SocketsInv, SocketsTypeOK, HandKept
<1>3. request.fn = "server" \/ request.fn = "client"
  BY <1>2 DEF ServerRequest, ClientRequest
<1>4. CASE request.fn = "client" /\ sock # ERR
  <2>1. sock \in DOMAIN sockets /\ sock \notin DOMAIN given
    BY <1>1, <1>4 DEF SocketsInv, HandKept
  <2>2. /\ DOMAIN sockets' = DOMAIN sockets \ {sock} /\ DOMAIN sockets' \subseteq Fds
        /\ sockets' \in [DOMAIN sockets' -> SUBSET Did]
        /\ \A fd \in DOMAIN sockets \ {sock} : sockets'[fd] = sockets[fd]
    BY <1>1, <1>4, ClosedIs DEF SocketsInv
  <2>3. HandDone'
    BY <1>1 DEF HandDone, InHand
  <2>4. HandKept'
    BY <1>1, <1>2 DEF HandKept
  <2>5. StrayOnly'
    BY <1>1, <2>2 DEF SocketsInv, StrayOnly
  <2>6. /\ DOMAIN given \subseteq DOMAIN sockets'
        /\ \A fd \in DOMAIN given : sockets'[fd] = sockets[fd]
    BY <2>1, <2>2 DEF SocketsInv, SocketsTypeOK
  <2>7. step' \in InHand \cup {"idle", "socket", "error", "end"}
    BY <1>1
  <2>. QED
    BY <1>1, <1>2, <2>2, <2>3, <2>4, <2>5, <2>6, <2>7, CallInv
<1>5. CASE ~(request.fn = "client" /\ sock # ERR)
  <2>1. sock \in DOMAIN sockets => sockets[sock] \subseteq {"server", "v6only"}
    <3>1. ERR \notin DOMAIN sockets
      BY SocketsAssumption DEF SocketsInv, SocketsTypeOK, ERR
    <3>. QED
      BY <1>1, <1>3, <1>5, <3>1 DEF SocketsInv, HandKept
  <2>. QED
    BY <1>1, <1>2, <1>5, <2>1, EmptyHandInv
<1>. QED
  BY <1>4, <1>5

\* What is returned becomes the caller's, and is what was asked for.
LEMMA ReturnInv == ASSUME SocketsInv, Return PROVE SocketsInv'
<1>1. step = "end" /\ UNCHANGED sockets
  BY DEF Return
<1>2. /\ request \in ServerRequest \cup ClientRequest /\ request # NoRequest
      /\ request.fn = "client" /\ request.source => request.nonblock
      /\ addrs \in 0 .. MaxAddr /\ sock \in Fds \cup {ERR}
  BY <1>1 DEF SocketsInv, SocketsTypeOK, HandKept
<1>3. ERR \notin DOMAIN sockets
  BY SocketsAssumption DEF SocketsInv, SocketsTypeOK, ERR
<1>4. CASE sock = ERR /\ request.fn = "client" /\ request.source /\ request.best
  <2>1. /\ request' = [request EXCEPT !.source = FALSE] /\ UNCHANGED <<given, sock>>
        /\ \/ step' = "idle" /\ addrs' = 0
           \/ step' = "socket" /\ addrs' \in 1 .. MaxAddr
    BY <1>4 DEF Return
  <2>2. request \in ClientRequest
    BY <1>2, <1>4 DEF ServerRequest
  <2>3. request' \in ClientRequest /\ ~request'.source
    BY <2>1, <2>2 DEF ClientRequest
  <2>4. request' # NoRequest
    BY <2>3 DEF ClientRequest, NoRequest
  <2>5. addrs' \in 0 .. MaxAddr
    BY <2>1, SocketsAssumption
  <2>. QED
    BY <1>1, <1>3, <1>4, <2>1, <2>3, <2>4, <2>5, EmptyHandInv
<1>5. CASE ~(sock = ERR /\ request.fn = "client" /\ request.source /\ request.best)
  <2>1. /\ given' = IF sock = ERR THEN given ELSE With(given, sock, request)
        /\ step' = "idle" /\ request' = NoRequest /\ sock' = ERR /\ addrs' = 0
    BY <1>5 DEF Return
  <2>2. NoRequest.fn # "client" /\ 0 \in 0 .. MaxAddr
    BY SocketsAssumption DEF NoRequest
  <2>3. CASE sock = ERR
    BY <1>1, <1>3, <2>1, <2>2, <2>3, EmptyHandInv
  <2>4. CASE sock # ERR
    <3>1. sock \in DOMAIN sockets /\ sock \notin DOMAIN given /\ Serves(sockets[sock], request)
      BY <1>1, <2>4 DEF SocketsInv, HandKept
    <3>2. /\ DOMAIN given' = DOMAIN given \cup {sock} /\ given'[sock] = request
          /\ \A x \in DOMAIN given : given'[x] = given[x]
      <4>1. given' = [x \in DOMAIN given \cup {sock} |-> IF x = sock THEN request ELSE given[x]]
        BY <2>1, <2>4 DEF With
      <4>. QED
        BY <3>1, <4>1
    <3>3. given' \in [DOMAIN given' -> ServerRequest \cup ClientRequest]
      <4>1. given' = [x \in DOMAIN given \cup {sock} |-> IF x = sock THEN request ELSE given[x]]
        BY <2>1, <2>4 DEF With
      <4>2. given \in [DOMAIN given -> ServerRequest \cup ClientRequest]
        BY DEF SocketsInv, SocketsTypeOK
      <4>. QED
        BY <1>2, <4>1, <4>2
    <3>4. SocketsTypeOK'
      BY <1>1, <2>1, <2>2, <3>1, <3>2, <3>3 DEF SocketsInv, SocketsTypeOK
    <3>5. ServedAsAsked'
      BY <1>1, <3>1, <3>2 DEF SocketsInv, ServedAsAsked
    <3>6. HandDone'
      BY <2>1 DEF HandDone, InHand
    <3>7. HandKept'
      BY <2>1, <2>2 DEF HandKept
    <3>8. StrayOnly'
      BY <1>1, <3>2 DEF SocketsInv, StrayOnly
    <3>. QED
      BY <3>4, <3>5, <3>6, <3>7, <3>8 DEF SocketsInv
  <2>. QED
    BY <2>3, <2>4
<1>. QED
  BY <1>4, <1>5

(***************************************************************************)
(* Between calls.                                                          *)
(***************************************************************************)

\* Nothing of a call changes.
LEMMA RestKept ==
  ASSUME SocketsInv, step = "idle", UNCHANGED <<request, step, sock, addrs>>
  PROVE  /\ sock = ERR /\ HandDone' /\ HandKept'
         /\ request' \in {NoRequest} \cup ServerRequest \cup ClientRequest
         /\ step' \in InHand \cup {"idle", "socket", "error", "end"} /\ step' = "idle"
         /\ sock' \in Fds \cup {ERR} /\ addrs' \in 0 .. MaxAddr
<1>1. sock = ERR
  BY DEF SocketsInv, HandKept
<1>2. HandDone'
  BY DEF HandDone, InHand
<1>3. HandKept'
  BY <1>1 DEF SocketsInv, HandKept
<1>. QED
  BY <1>1, <1>2, <1>3 DEF SocketsInv, SocketsTypeOK

LEMMA SocketCloseInv == ASSUME SocketsInv, NEW fd \in Fds, Close(fd) PROVE SocketsInv'
<1>1. /\ step = "idle" /\ fd \in DOMAIN given /\ UNCHANGED <<request, step, sock, addrs>>
      /\ sockets' = Without(sockets, fd) /\ given' = Without(given, fd)
  BY DEF Close, OnOwned
<1>2. /\ sock = ERR /\ HandDone' /\ HandKept'
      /\ request' \in {NoRequest} \cup ServerRequest \cup ClientRequest
      /\ step' \in InHand \cup {"idle", "socket", "error", "end"} /\ step' = "idle"
      /\ sock' \in Fds \cup {ERR} /\ addrs' \in 0 .. MaxAddr
  BY <1>1, RestKept
<1>3. /\ DOMAIN sockets' = DOMAIN sockets \ {fd} /\ DOMAIN sockets' \subseteq Fds
      /\ sockets' \in [DOMAIN sockets' -> SUBSET Did]
      /\ \A x \in DOMAIN sockets \ {fd} : sockets'[x] = sockets[x]
  BY <1>1, ClosedIs DEF SocketsInv
<1>4. /\ DOMAIN given' = DOMAIN given \ {fd}
      /\ given' \in [DOMAIN given' -> ServerRequest \cup ClientRequest]
      /\ \A x \in DOMAIN given \ {fd} : given'[x] = given[x]
  <2>1. given' = [x \in DOMAIN given \ {fd} |-> given[x]]
    BY <1>1 DEF Without
  <2>2. given \in [DOMAIN given -> ServerRequest \cup ClientRequest]
    BY DEF SocketsInv, SocketsTypeOK
  <2>. QED
    BY <2>1, <2>2
<1>5. DOMAIN given \subseteq DOMAIN sockets
  BY DEF SocketsInv, SocketsTypeOK
<1>6. SocketsTypeOK'
  BY <1>2, <1>3, <1>4, <1>5 DEF SocketsTypeOK
<1>7. ServedAsAsked'
  BY <1>3, <1>4, <1>5 DEF SocketsInv, ServedAsAsked
<1>8. StrayOnly'
  BY <1>2, <1>3, <1>4 DEF SocketsInv, StrayOnly, HandKept
<1>. QED
  BY <1>2, <1>6, <1>7, <1>8 DEF SocketsInv

LEMMA AnswerInv ==
  ASSUME SocketsInv, UNCHANGED <<sockets, given, request, step, sock, addrs>> PROVE SocketsInv'
  BY DEF SocketsInv, SocketsTypeOK, HandDone, HandKept, StrayOnly, ServedAsAsked

LEMMA SetBlockInv ==
  ASSUME SocketsInv, NEW fd \in Fds, NEW nonblock \in BOOLEAN, SetBlock(fd, nonblock)
  PROVE  SocketsInv'
<1>0. /\ step = "idle" /\ fd \in DOMAIN given /\ UNCHANGED <<request, step, sock, addrs>>
      /\ given[fd].fn = "client"
      /\ \/ /\ sockets' = [sockets EXCEPT ![fd] = @ \cup {"nonblock"}]
            /\ given' = [given EXCEPT ![fd] = [@ EXCEPT !.nonblock = nonblock,
                                                       !.blocked = ~nonblock]]
         \/ UNCHANGED <<sockets, given>>
  BY DEF SetBlock, OnOwned
<1>1. CASE UNCHANGED <<sockets, given>>
  BY <1>0, <1>1, AnswerInv
<1>2. CASE /\ sockets' = [sockets EXCEPT ![fd] = @ \cup {"nonblock"}]
           /\ given' = [given EXCEPT ![fd] = [@ EXCEPT !.nonblock = nonblock,
                                                      !.blocked = ~nonblock]]
  <2>2. /\ sock = ERR /\ HandDone' /\ HandKept'
        /\ request' \in {NoRequest} \cup ServerRequest \cup ClientRequest
        /\ step' \in InHand \cup {"idle", "socket", "error", "end"} /\ step' = "idle"
        /\ sock' \in Fds \cup {ERR} /\ addrs' \in 0 .. MaxAddr
    BY <1>0, <1>2, RestKept
  <2>3. DOMAIN given \subseteq DOMAIN sockets /\ "nonblock" \in Did
    BY DEF SocketsInv, SocketsTypeOK, Did
  <2>4. /\ DOMAIN sockets' = DOMAIN sockets /\ DOMAIN sockets' \subseteq Fds
        /\ sockets' \in [DOMAIN sockets' -> SUBSET Did]
        /\ sockets'[fd] = sockets[fd] \cup {"nonblock"}
        /\ \A x \in DOMAIN sockets \ {fd} : sockets'[x] = sockets[x]
    BY <1>0, <1>2, <2>3, DoneIs DEF SocketsInv
  <2>5. given \in [DOMAIN given -> ServerRequest \cup ClientRequest]
    BY DEF SocketsInv, SocketsTypeOK
  <2>6. given[fd] \in ClientRequest
    BY <1>0, <1>2, <2>5 DEF ServerRequest
  <2>. DEFINE now == [given[fd] EXCEPT !.nonblock = nonblock, !.blocked = ~nonblock]
  <2>7. /\ now \in ClientRequest /\ now.fn = "client"
        /\ now.nonblock = nonblock /\ now.blocked = ~nonblock
        /\ now.source = given[fd].source
    BY <2>6 DEF ClientRequest
  <2>8. given' = [given EXCEPT ![fd] = now]
    BY <1>0, <1>2
  <2>. HIDE DEF now
  <2>9. /\ DOMAIN given' = DOMAIN given /\ given'[fd] = now
        /\ given' \in [DOMAIN given' -> ServerRequest \cup ClientRequest]
        /\ \A x \in DOMAIN given \ {fd} : given'[x] = given[x]
    BY <1>0, <1>2, <2>5, <2>7, <2>8
  <2>10. SocketsTypeOK'
    BY <2>2, <2>3, <2>4, <2>9 DEF SocketsTypeOK
  <2>11. ServedAsAsked'
    <3>1. Serves(sockets'[fd], now)
      <4>1. Serves(sockets[fd], given[fd])
        BY <1>0, <1>2 DEF SocketsInv, ServedAsAsked
      <4>. QED
        BY <1>0, <1>2, <2>4, <2>7, <4>1 DEF Serves
    <3>. QED
      BY <2>3, <2>4, <2>9, <3>1 DEF SocketsInv, ServedAsAsked
  <2>12. StrayOnly'
    BY <1>0, <1>2, <2>2, <2>4, <2>9 DEF SocketsInv, StrayOnly
  <2>. QED
    BY <2>2, <2>10, <2>11, <2>12 DEF SocketsInv
<1>. QED
  BY <1>0, <1>1, <1>2

LEMMA AnsweredInv ==
  ASSUME SocketsInv, CallMove \/ CallIntervals \/ CallNames \/ CallResolve \/ Read
  PROVE  SocketsInv'
<1>1. UNCHANGED <<sockets, given, request, step, sock, addrs>>
  BY DEF CallMove, CallIntervals, CallNames, CallResolve, Read, Answered
<1>. QED
  BY <1>1, AnswerInv

LEMMA SocketsStart == SocketsInit => SocketsInv
<1>. SUFFICES ASSUME SocketsInit PROVE SocketsInv
  OBVIOUS
<1>1. /\ sockets = <<>> /\ given = <<>> /\ request = NoRequest /\ step = "idle"
      /\ sock = ERR /\ addrs = 0
  BY DEF SocketsInit
<1>2. DOMAIN sockets = {} /\ DOMAIN given = {}
  BY <1>1
<1>3. /\ sockets \in [DOMAIN sockets -> SUBSET Did]
      /\ given \in [DOMAIN given -> ServerRequest \cup ClientRequest]
  BY <1>1, <1>2
<1>4. SocketsTypeOK
  BY <1>1, <1>2, <1>3, SocketsAssumption DEF SocketsTypeOK
<1>5. HandDone /\ HandKept
  BY <1>1 DEF HandDone, HandKept, InHand, NoRequest
<1>. QED
  BY <1>2, <1>4, <1>5 DEF SocketsInv, StrayOnly, ServedAsAsked

LEMMA SocketsStep == SocketsInv /\ [SocketsNext]_netVars => SocketsInv'
<1>. SUFFICES ASSUME SocketsInv, [SocketsNext]_netVars PROVE SocketsInv'
  OBVIOUS
<1>1. CASE TcpServer \/ TcpConnect
  BY <1>1, TcpCallInv
<1>2. CASE TrySocket \/ NoAddressLeft \/ Failed \/ Return
  BY <1>2, TrySocketInv, NoAddressLeftInv, FailedInv, ReturnInv
<1>3. CASE SetReuseAddr \/ V6Only \/ Bind \/ Listen
  BY <1>3, SetReuseAddrInv, V6OnlyInv, BindInv, ListenInv
<1>4. CASE NonBlock \/ BindSource \/ Connect
  BY <1>4, NonBlockInv, BindSourceInv, ConnectInv
<1>5. ASSUME NEW fd \in Fds, Close(fd) PROVE SocketsInv'
  BY <1>5, SocketCloseInv
<1>6. ASSUME NEW fd \in Fds, NEW nonblock \in BOOLEAN, SetBlock(fd, nonblock) PROVE SocketsInv'
  BY <1>6, SetBlockInv
<1>7. CASE CallMove \/ CallIntervals \/ CallNames \/ CallResolve \/ Read
  BY <1>7, AnsweredInv
<1>8. CASE UNCHANGED netVars
  BY <1>8, AnswerInv DEF netVars
<1>. QED
  BY <1>1, <1>2, <1>3, <1>4, <1>5, <1>6, <1>7, <1>8 DEF SocketsNext

\* The invariant of a call in progress.
THEOREM SocketsInvCorrect == SocketsSpec => []SocketsInv
<1>. QED
  BY SocketsStart, SocketsStep, PTL DEF SocketsSpec

\* Between calls nobody's sockets are a server's that could not be made reusable.
THEOREM OwnedCorrect == SocketsSpec => []DescriptorsOwned
<1>1. SocketsInv => DescriptorsOwned
  <2>. SUFFICES ASSUME SocketsInv PROVE DescriptorsOwned
    OBVIOUS
  <2>1. DOMAIN given \subseteq DOMAIN sockets /\ ERR \notin DOMAIN sockets
    BY SocketsAssumption DEF SocketsInv, SocketsTypeOK, ERR
  <2>2. step = "idle" => \A fd \in DOMAIN sockets \ DOMAIN given :
                            sockets[fd] \subseteq {"server", "v6only"}
    BY <2>1 DEF SocketsInv, HandKept, StrayOnly
  <2>3. sock \in DOMAIN sockets => sock \notin DOMAIN given
    BY <2>1 DEF SocketsInv, SocketsTypeOK, HandDone, HandKept
  <2>. QED
    BY <2>1, <2>2, <2>3 DEF DescriptorsOwned
<1>. QED
  BY <1>1, SocketsInvCorrect, PTL

\* What a caller has is what it asked for, but for a client that anetBlock was to
\* make wait (anet.c: anetSetBlock and the two generic functions).
THEOREM ServedCorrect == SocketsSpec => []ServedAsAsked
<1>1. SocketsInv => ServedAsAsked
  BY DEF SocketsInv
<1>. QED
  BY <1>1, SocketsInvCorrect, PTL

-----------------------------------------------------------------------------
(***************************************************************************)
(* Sockets: what anetRead and anetWrite return.  MapThenSumSet is a fold,  *)
(* and Move runs over at most three calls of the kernel, so both are       *)
(* unfolded call by call.                                                  *)
(***************************************************************************)

\* The least of a few numbers is one of them and below the others.
LEMMA MinIs ==
  ASSUME NEW S \in SUBSET Int, NEW m \in S, \A y \in S : m <= y
  PROVE  Min(S) = m
<1>1. \E x \in S : \A y \in S : x <= y
  OBVIOUS
<1>2. Min(S) \in S /\ \A y \in S : Min(S) <= y
  BY <1>1, Zenon DEF Min
<1>. DEFINE least == Min(S)
<1>3. least \in Int /\ m \in Int /\ least <= m /\ m <= least
  BY <1>2
<1>. HIDE DEF least
<1>4. least = m
  BY <1>3
<1>. QED
  BY <1>4 DEF least

LEMMA MinOfTwo ==
  ASSUME NEW a \in Int, NEW b \in Int
  PROVE  Min({a, b}) = IF a <= b THEN a ELSE b
<1>1. CASE a <= b
  BY <1>1, MinIs
<1>2. CASE ~(a <= b)
  BY <1>2, MinIs
<1>. QED
  BY <1>1, <1>2

\* The first reads or writes, added up.
Part(k, n, i) == IF i <= n THEN k[i] ELSE 0

LEMMA SumIs ==
  ASSUME NEW k \in [1 .. 3 -> Int], NEW n \in 0 .. 3
  PROVE  MapThenSumSet(LAMBDA i : k[i], 1 .. n) = Part(k, n, 1) + Part(k, n, 2) + Part(k, n, 3)
<1>. DEFINE S == 1 .. n
            pick(s) == CHOOSE x \in s : TRUE
            body(f) == [s \in SUBSET S |-> IF s = {} THEN 0 ELSE k[pick(s)] + f[s \ {pick(s)}]]
            iter == CHOOSE f : f = body(f)
<1>1. MapThenSumSet(LAMBDA i : k[i], S) = iter[S]
  BY DEF MapThenSumSet, MapThenFoldSet
<1>2. \A s \in SUBSET S : s # {} => pick(s) \in s
  BY Zenon
<1>3. \E f : f = body(f)
  <2>. DEFINE w(s, i) == IF i \in s THEN k[i] ELSE 0
              sum(s) == w(s, 1) + w(s, 2) + w(s, 3)
              h == [s \in SUBSET S |-> sum(s)]
  <2>. HIDE DEF pick
  <2>1. ASSUME NEW s \in SUBSET S
        PROVE  sum(s) = IF s = {} THEN 0 ELSE k[pick(s)] + h[s \ {pick(s)}]
    <3>1. CASE s = {}
      BY <3>1
    <3>2. ASSUME NEW x \in s PROVE sum(s) = k[x] + sum(s \ {x})
      <4>1. x \in 1 .. 3 /\ k[1] \in Int /\ k[2] \in Int /\ k[3] \in Int
        OBVIOUS
      <4>2. /\ w(s \ {x}, x) = 0 /\ w(s, x) = k[x]
            /\ \A i \in 1 .. 3 : i # x => w(s \ {x}, i) = w(s, i)
            /\ \A i \in 1 .. 3 : w(s, i) \in Int
        BY <4>1
      <4>. HIDE DEF w
      <4>3. x = 1 \/ x = 2 \/ x = 3
        BY <4>1
      <4>4. CASE x = 1
        BY <4>1, <4>2, <4>4
      <4>5. CASE x = 2
        BY <4>1, <4>2, <4>5
      <4>6. CASE x = 3
        BY <4>1, <4>2, <4>6
      <4>. QED
        BY <4>3, <4>4, <4>5, <4>6
    <3>3. CASE s # {}
      <4>1. pick(s) \in s /\ s \ {pick(s)} \in SUBSET S
        BY <1>2, <3>3
      <4>2. h[s \ {pick(s)}] = sum(s \ {pick(s)})
        BY <4>1
      <4>. HIDE DEF sum, h
      <4>. QED
        BY <3>2, <3>3, <4>1, <4>2
    <3>. QED
      BY <3>1, <3>3
  <2>2. h = body(h)
    <3>. HIDE DEF sum
    <3>1. h = [s \in SUBSET S |-> sum(s)]
      OBVIOUS
    <3>2. body(h) = [s \in SUBSET S |-> IF s = {} THEN 0 ELSE k[pick(s)] + h[s \ {pick(s)}]]
      OBVIOUS
    <3>. HIDE DEF h, body
    <3>. QED
      BY <2>1, <3>1, <3>2
  <2>. QED
    BY <2>2, Zenon
<1>4. iter = body(iter)
  <2>. HIDE DEF body
  <2>. QED
    BY <1>3, Zenon
<1>. HIDE DEF iter
<1>5. /\ iter[{}] = 0
      /\ \A s \in SUBSET S : s # {} => \E x \in s : iter[s] = k[x] + iter[s \ {x}]
  <2>. HIDE DEF pick
  <2>1. iter = [s \in SUBSET S |-> IF s = {} THEN 0 ELSE k[pick(s)] + iter[s \ {pick(s)}]]
    BY <1>4, Zenon
  <2>2. \A s \in SUBSET S : iter[s] = IF s = {} THEN 0 ELSE k[pick(s)] + iter[s \ {pick(s)}]
    BY <2>1, Zenon
  <2>. QED
    BY <1>2, <2>2
<1>. HIDE DEF body, pick
<1>6. \A a \in S : iter[{a}] = k[a] + 0
  <2>. TAKE a \in S
  <2>1. {a} \in SUBSET S /\ {a} # {} /\ {a} \ {a} = {}
    OBVIOUS
  <2>2. PICK x \in {a} : iter[{a}] = k[x] + iter[{a} \ {x}]
    BY <1>5, <2>1
  <2>. QED
    BY <1>5, <2>1, <2>2
<1>7. \A a, b \in S : a # b => iter[{a, b}] = k[a] + k[b]
  <2>. TAKE a, b \in S
  <2>. HAVE a # b
  <2>1. /\ {a, b} \in SUBSET S /\ {a, b} # {} /\ {a, b} \ {a} = {b} /\ {a, b} \ {b} = {a}
        /\ k[a] \in Int /\ k[b] \in Int
    OBVIOUS
  <2>2. PICK x \in {a, b} : iter[{a, b}] = k[x] + iter[{a, b} \ {x}]
    BY <1>5, <2>1
  <2>3. CASE x = a
    BY <1>6, <2>1, <2>2, <2>3
  <2>4. CASE x = b
    BY <1>6, <2>1, <2>2, <2>4
  <2>. QED
    BY <2>2, <2>3, <2>4
<1>8. /\ k[1] \in Int /\ k[2] \in Int /\ k[3] \in Int
  OBVIOUS
<1>9. iter[S] = Part(k, n, 1) + Part(k, n, 2) + Part(k, n, 3)
  <2>1. CASE n = 0
    BY <1>5, <2>1 DEF Part
  <2>2. CASE n = 1
    <3>1. S = {1} /\ 1 \in S
      BY <2>2
    <3>. HIDE DEF S
    <3>2. iter[S] = k[1] + 0
      BY <1>6, <3>1
    <3>. QED
      BY <1>8, <2>2, <3>2 DEF Part
  <2>3. CASE n = 2
    <3>1. S = {1, 2} /\ 1 \in S /\ 2 \in S
      BY <2>3
    <3>. HIDE DEF S
    <3>2. iter[S] = k[1] + k[2]
      BY <1>7, <3>1
    <3>. QED
      BY <1>8, <2>3, <3>2 DEF Part
  <2>4. CASE n = 3
    <3>1. S = {1, 2, 3} /\ S # {} /\ S \in SUBSET S /\ 1 \in S /\ 2 \in S /\ 3 \in S
      BY <2>4
    <3>2. S \ {1} = {2, 3} /\ S \ {2} = {1, 3} /\ S \ {3} = {1, 2}
      BY <3>1
    <3>. HIDE DEF S
    <3>3. /\ iter[{2, 3}] = k[2] + k[3] /\ iter[{1, 3}] = k[1] + k[3]
          /\ iter[{1, 2}] = k[1] + k[2]
      BY <1>7, <3>1
    <3>4. PICK x \in S : iter[S] = k[x] + iter[S \ {x}]
      BY <1>5, <3>1
    <3>5. x = 1 \/ x = 2 \/ x = 3
      BY <3>1
    <3>6. iter[S] = k[1] + k[2] + k[3]
      <4>1. CASE x = 1
        <5>1. iter[S] = k[1] + iter[{2, 3}]
          BY <3>2, <3>4, <4>1, Zenon
        <5>. QED
          BY <1>8, <3>3, <5>1
      <4>2. CASE x = 2
        <5>1. iter[S] = k[2] + iter[{1, 3}]
          BY <3>2, <3>4, <4>2, Zenon
        <5>. QED
          BY <1>8, <3>3, <5>1
      <4>3. CASE x = 3
        <5>1. iter[S] = k[3] + iter[{1, 2}]
          BY <3>2, <3>4, <4>3, Zenon
        <5>. QED
          BY <1>8, <3>3, <5>1
      <4>. QED
        BY <3>5, <4>1, <4>2, <4>3
    <3>. QED
      BY <1>8, <2>4, <3>6 DEF Part
  <2>. QED
    BY <2>1, <2>2, <2>3, <2>4
<1>. QED
  BY <1>1, <1>9

\* One turn of the loop of anetRead: rest is what the turns after it make of it.
Turn1(count, got, total, rest) ==
  IF total = count \/ got = 0 THEN total ELSE IF got = ERR THEN ERR ELSE rest

AtMost(count, n) == IF n <= count THEN n ELSE count

LEMMA MoveIs ==
  ASSUME NEW count \in Nat, NEW kernel \in [1 .. 3 -> Nat \cup {ERR}]
  PROVE  LET after1 == AtMost(count, 0 + kernel[1])
             after2 == AtMost(count, after1 + kernel[2])
             after3 == AtMost(count, after2 + kernel[3])
         IN  Move(count, kernel) =
               Turn1(count, kernel[1], 0, Turn1(count, kernel[2], after1,
                                                Turn1(count, kernel[3], after2, after3)))
<1>. DEFINE round(f, i) == [totlen \in 0 .. count |->
                             IF totlen = count \/ i \notin DOMAIN kernel THEN totlen
                             ELSE IF kernel[i] = 0 THEN totlen
                             ELSE IF kernel[i] = ERR THEN ERR
                             ELSE f[i + 1][Min({totlen + kernel[i], count})]]
            body(f) == [i \in 1 .. Cardinality(DOMAIN kernel) + 1 |-> round(f, i)]
            after == CHOOSE f : f = body(f)
<1>1. Move(count, kernel) = after[1][0]
  BY Zenon DEF Move
<1>2. 1 .. Cardinality(DOMAIN kernel) + 1 = 1 .. 4 /\ DOMAIN kernel = 1 .. 3
  <2>1. DOMAIN kernel = 1 .. 3
    OBVIOUS
  <2>2. Cardinality(1 .. 3) = IF 1 > 3 THEN 0 ELSE 3 - 1 + 1
    BY FS_Interval, 1 \in Int, 3 \in Int, Zenon
  <2>. QED
    BY <2>1, <2>2
<1>3. \A i \in 1 .. 3, t \in 0 .. count :
        kernel[i] # ERR => /\ Min({t + kernel[i], count}) = AtMost(count, t + kernel[i])
                           /\ AtMost(count, t + kernel[i]) \in 0 .. count
  <2>. TAKE i \in 1 .. 3, t \in 0 .. count
  <2>. HAVE kernel[i] # ERR
  <2>1. kernel[i] \in Nat /\ t + kernel[i] \in Nat
    OBVIOUS
  <2>. QED
    BY <2>1, MinOfTwo DEF AtMost
<1>. DEFINE last(t) == Turn1(count, kernel[3], t, AtMost(count, t + kernel[3]))
            mid(t)  == Turn1(count, kernel[2], t, last(AtMost(count, t + kernel[2])))
            all(t)  == Turn1(count, kernel[1], t, mid(AtMost(count, t + kernel[1])))
            h4 == [t \in 0 .. count |-> t]
            h3 == [t \in 0 .. count |-> last(t)]
            h2 == [t \in 0 .. count |-> mid(t)]
            h1 == [t \in 0 .. count |-> all(t)]
            h == [i \in 1 .. 4 |->
                    IF i = 1 THEN h1 ELSE IF i = 2 THEN h2 ELSE IF i = 3 THEN h3 ELSE h4]
\* What any f makes of a turn.
<1>4. ASSUME NEW f, NEW i \in 1 .. 3, NEW t \in 0 .. count
      PROVE  round(f, i)[t] = Turn1(count, kernel[i], t, f[i + 1][AtMost(count, t + kernel[i])])
  <2>1. round(f, i)[t] = IF t = count \/ i \notin DOMAIN kernel THEN t
                         ELSE IF kernel[i] = 0 THEN t
                         ELSE IF kernel[i] = ERR THEN ERR
                         ELSE f[i + 1][Min({t + kernel[i], count})]
    OBVIOUS
  <2>. HIDE DEF round
  <2>2. kernel[i] # ERR =>
          f[i + 1][Min({t + kernel[i], count})] = f[i + 1][AtMost(count, t + kernel[i])]
    BY <1>3
  <2>. QED
    BY <1>2, <2>1, <2>2 DEF Turn1
<1>5. ASSUME NEW f, NEW t \in 0 .. count PROVE round(f, 4)[t] = t
  BY <1>2
<1>6. \A f : \A i \in 1 .. 4 :
        round(f, i) = [t \in 0 .. count |-> round(f, i)[t]]
  OBVIOUS
<1>7. \A f : body(f) = [i \in 1 .. 4 |-> round(f, i)]
  <2>. HIDE DEF round
  <2>. QED
    BY <1>2
<1>. HIDE DEF round
\* The turns taken one after the other solve the equation.
<1>8. h = body(h)
  <2>1. h[1] = h1 /\ h[2] = h2 /\ h[3] = h3 /\ h[4] = h4
    <3>. HIDE DEF h1, h2, h3, h4
    <3>. QED
      OBVIOUS
  <2>2. /\ \A t \in 0 .. count : h1[t] = all(t) /\ h2[t] = mid(t) /\ h3[t] = last(t) /\ h4[t] = t
        /\ h1 = [t \in 0 .. count |-> h1[t]] /\ h2 = [t \in 0 .. count |-> h2[t]]
        /\ h3 = [t \in 0 .. count |-> h3[t]] /\ h4 = [t \in 0 .. count |-> h4[t]]
    <3>. HIDE DEF all, mid, last
    <3>. QED
      OBVIOUS
  <2>3. h = [i \in 1 .. 4 |-> h[i]]
    OBVIOUS
  <2>. HIDE DEF h, h1, h2, h3, h4
  <2>4. round(h, 4) = h4
    BY <1>5, <1>6, <2>2
  <2>5. round(h, 3) = h3
    <3>1. ASSUME NEW t \in 0 .. count PROVE round(h, 3)[t] = h3[t]
      <4>. DEFINE n == AtMost(count, t + kernel[3])
      <4>1. round(h, 3)[t] = Turn1(count, kernel[3], t, h[3 + 1][n])
        BY <1>4, 3 \in 1 .. 3, Zenon
      <4>2. 3 + 1 = 4
        OBVIOUS
      <4>3. kernel[3] # ERR => h[3 + 1][n] = n
        <5>1. kernel[3] # ERR => n \in 0 .. count
          BY <1>3, 3 \in 1 .. 3, Zenon
        <5>. HIDE DEF n
        <5>. QED
          BY <2>1, <2>2, <4>2, <5>1
      <4>4. h3[t] = Turn1(count, kernel[3], t, n)
        BY <2>2
      <4>. HIDE DEF n
      <4>. QED
        BY <4>1, <4>3, <4>4 DEF Turn1
    <3>. QED
      BY <1>6, <2>2, <3>1
  <2>6. round(h, 2) = h2
    <3>. HIDE DEF last
    <3>1. ASSUME NEW t \in 0 .. count PROVE round(h, 2)[t] = h2[t]
      <4>. DEFINE n == AtMost(count, t + kernel[2])
      <4>1. round(h, 2)[t] = Turn1(count, kernel[2], t, h[2 + 1][n])
        BY <1>4, 2 \in 1 .. 3, Zenon
      <4>2. 2 + 1 = 3
        OBVIOUS
      <4>3. kernel[2] # ERR => h[2 + 1][n] = last(n)
        <5>1. kernel[2] # ERR => n \in 0 .. count
          BY <1>3, 2 \in 1 .. 3, Zenon
        <5>. HIDE DEF n
        <5>. QED
          BY <2>1, <2>2, <4>2, <5>1
      <4>4. h2[t] = Turn1(count, kernel[2], t, last(n))
        BY <2>2
      <4>. HIDE DEF n
      <4>. QED
        BY <4>1, <4>3, <4>4 DEF Turn1
    <3>. QED
      BY <1>6, <2>2, <3>1
  <2>7. round(h, 1) = h1
    <3>. HIDE DEF mid
    <3>1. ASSUME NEW t \in 0 .. count PROVE round(h, 1)[t] = h1[t]
      <4>. DEFINE n == AtMost(count, t + kernel[1])
      <4>1. round(h, 1)[t] = Turn1(count, kernel[1], t, h[1 + 1][n])
        BY <1>4, 1 \in 1 .. 3, Zenon
      <4>2. 1 + 1 = 2
        OBVIOUS
      <4>3. kernel[1] # ERR => h[1 + 1][n] = mid(n)
        <5>1. kernel[1] # ERR => n \in 0 .. count
          BY <1>3, 1 \in 1 .. 3, Zenon
        <5>. HIDE DEF n
        <5>. QED
          BY <2>1, <2>2, <4>2, <5>1
      <4>4. h1[t] = Turn1(count, kernel[1], t, mid(n))
        BY <2>2
      <4>. HIDE DEF n
      <4>. QED
        BY <4>1, <4>3, <4>4 DEF Turn1
    <3>. QED
      BY <1>6, <2>2, <3>1
  <2>8. \A i \in 1 .. 4 : h[i] = round(h, i)
    BY <2>1, <2>4, <2>5, <2>6, <2>7
  <2>. QED
    BY <1>7, <2>3, <2>8
<1>. HIDE DEF h
<1>9. after = body(after)
  <2>. HIDE DEF body
  <2>1. \E f : f = body(f)
    BY <1>8, Zenon
  <2>. QED
    BY <2>1, Zenon
<1>. HIDE DEF after
<1>10. \A i \in 1 .. 4 : after[i] = round(after, i)
  <2>. DEFINE its(i) == round(after, i)
  <2>1. after = [i \in 1 .. 4 |-> its(i)]
    BY <1>7, <1>9, Zenon
  <2>. HIDE DEF its
  <2>2. \A i \in 1 .. 4 : after[i] = its(i)
    BY <2>1
  <2>. QED
    BY <2>2 DEF its
<1>. HIDE DEF body
<1>11. \A t \in 0 .. count : after[4][t] = t
  BY <1>5, <1>10
<1>12. \A i \in 1 .. 3, t \in 0 .. count :
         after[i][t] = Turn1(count, kernel[i], t, after[i + 1][AtMost(count, t + kernel[i])])
  <2>. TAKE i \in 1 .. 3, t \in 0 .. count
  <2>1. round(after, i)[t] =
          Turn1(count, kernel[i], t, after[i + 1][AtMost(count, t + kernel[i])])
    BY <1>4, Zenon
  <2>2. i \in 1 .. 4
    OBVIOUS
  <2>. QED
    BY <1>10, <2>1, <2>2, Zenon
<1>13. \A t \in 0 .. count : after[3][t] = last(t)
  <2>. TAKE t \in 0 .. count
  <2>. DEFINE n == AtMost(count, t + kernel[3])
  <2>1. after[3][t] = Turn1(count, kernel[3], t, after[3 + 1][n])
    BY <1>12, 3 \in 1 .. 3, Zenon
  <2>2. 3 + 1 = 4
    OBVIOUS
  <2>3. kernel[3] # ERR => n \in 0 .. count
    BY <1>3, 3 \in 1 .. 3, Zenon
  <2>4. kernel[3] # ERR => after[3 + 1][n] = n
    <3>. HIDE DEF n
    <3>. QED
      BY <1>11, <2>2, <2>3
  <2>5. last(t) = Turn1(count, kernel[3], t, n)
    OBVIOUS
  <2>. HIDE DEF n, last
  <2>. QED
    BY <2>1, <2>4, <2>5 DEF Turn1
<1>14. \A t \in 0 .. count : after[2][t] = mid(t)
  <2>. HIDE DEF last
  <2>. TAKE t \in 0 .. count
  <2>. DEFINE n == AtMost(count, t + kernel[2])
  <2>1. after[2][t] = Turn1(count, kernel[2], t, after[2 + 1][n])
    BY <1>12, 2 \in 1 .. 3, Zenon
  <2>2. 2 + 1 = 3
    OBVIOUS
  <2>3. kernel[2] # ERR => n \in 0 .. count
    BY <1>3, 2 \in 1 .. 3, Zenon
  <2>4. kernel[2] # ERR => after[2 + 1][n] = last(n)
    <3>. HIDE DEF n
    <3>. QED
      BY <1>13, <2>2, <2>3
  <2>5. mid(t) = Turn1(count, kernel[2], t, last(n))
    OBVIOUS
  <2>. HIDE DEF n, mid
  <2>. QED
    BY <2>1, <2>4, <2>5 DEF Turn1
<1>15. \A t \in 0 .. count : after[1][t] = all(t)
  <2>. HIDE DEF mid
  <2>. TAKE t \in 0 .. count
  <2>. DEFINE n == AtMost(count, t + kernel[1])
  <2>1. after[1][t] = Turn1(count, kernel[1], t, after[1 + 1][n])
    BY <1>12, 1 \in 1 .. 3, Zenon
  <2>2. 1 + 1 = 2
    OBVIOUS
  <2>3. kernel[1] # ERR => n \in 0 .. count
    BY <1>3, 1 \in 1 .. 3, Zenon
  <2>4. kernel[1] # ERR => after[1 + 1][n] = mid(n)
    <3>. HIDE DEF n
    <3>. QED
      BY <1>14, <2>2, <2>3
  <2>5. all(t) = Turn1(count, kernel[1], t, mid(n))
    OBVIOUS
  <2>. HIDE DEF n, all
  <2>. QED
    BY <2>1, <2>4, <2>5 DEF Turn1
<1>16. Move(count, kernel) = all(0)
  <2>. HIDE DEF all
  <2>. QED
    BY <1>1, <1>15
<1>. QED
  BY <1>16

\* A transfer of any length, whatever the kernel returns for its first three calls.
THEOREM MoveCounted ==
  \A count \in Nat, kernel \in [1 .. 3 -> Nat \cup {ERR}] :
    Counted(count, kernel, Move(count, kernel))
<1>. TAKE count \in Nat, kernel \in [1 .. 3 -> Nat \cup {ERR}]
<1>. DEFINE stops == {i \in 1 .. 3 : kernel[i] <= 0}
            upto  == IF stops = {} THEN 3 ELSE Min(stops) - 1
            moved == MapThenSumSet(LAMBDA i : kernel[i], 1 .. upto)
            out   == Move(count, kernel)
<1>. DEFINE a == kernel[1]
            b == kernel[2]
            c == kernel[3]
<1>1. /\ a = kernel[1] /\ b = kernel[2] /\ c = kernel[3]
      /\ a \in Nat \cup {ERR} /\ b \in Nat \cup {ERR} /\ c \in Nat \cup {ERR}
  OBVIOUS
<1>. HIDE DEF a, b, c
<1>2. a \in Int /\ b \in Int /\ c \in Int /\ kernel \in [1 .. 3 -> Int]
  <2>1. Nat \cup {ERR} \subseteq Int
    BY DEF ERR
  <2>. QED
    BY <1>1, <2>1
<1>. DEFINE n1 == AtMost(count, 0 + a)
            n2 == AtMost(count, n1 + b)
            n3 == AtMost(count, n2 + c)
<1>3. out = Turn1(count, a, 0, Turn1(count, b, n1, Turn1(count, c, n2, n3)))
  BY <1>1, MoveIs
<1>4. \A n \in 0 .. 3 : upto = n => moved = Part(kernel, n, 1) + Part(kernel, n, 2) + Part(kernel, n, 3)
  BY <1>2, SumIs
<1>. SUFFICES IF moved >= count THEN out = count
              ELSE out = IF stops = {} \/ kernel[upto + 1] = 0 THEN moved ELSE ERR
  BY DEF Counted
<1>. HIDE DEF out, moved
<1>5. CASE a <= 0
  <2>1. 1 \in stops /\ \A i \in stops : 1 <= i
    BY <1>1, <1>5
  <2>2. Min(stops) = 1
    <3>1. stops \in SUBSET Int
      OBVIOUS
    <3>. HIDE DEF stops
    <3>. QED
      BY <2>1, <3>1, MinIs
  <2>3. upto = 0 /\ stops # {}
    BY <2>1, <2>2
  <2>. HIDE DEF stops, upto
  <2>4. moved = 0
    BY <1>4, <2>3 DEF Part
  <2>5. kernel[upto + 1] = a
    BY <1>1, <2>3
  <2>. QED
    BY <1>1, <1>3, <1>5, <2>3, <2>4, <2>5 DEF Turn1, ERR
<1>6. CASE a > 0 /\ b <= 0
  <2>1. 2 \in stops /\ \A i \in stops : 2 <= i
    BY <1>1, <1>2, <1>6
  <2>2. Min(stops) = 2
    <3>1. stops \in SUBSET Int
      OBVIOUS
    <3>. HIDE DEF stops
    <3>. QED
      BY <2>1, <3>1, MinIs
  <2>3. upto = 1 /\ stops # {}
    BY <2>1, <2>2
  <2>. HIDE DEF stops, upto
  <2>4. moved = a
    BY <1>1, <1>2, <1>4, <2>3 DEF Part
  <2>5. kernel[upto + 1] = b
    BY <1>1, <2>3
  <2>6. out = IF count = 0 THEN 0 ELSE Turn1(count, b, n1, Turn1(count, c, n2, n3))
    BY <1>2, <1>3, <1>6 DEF Turn1, ERR
  <2>7. n1 = IF a <= count THEN a ELSE count
    BY <1>2 DEF AtMost
  <2>. HIDE DEF n1, n2, n3
  <2>. QED
    BY <1>1, <1>2, <1>6, <2>3, <2>4, <2>5, <2>6, <2>7 DEF Turn1, ERR
<1>7. CASE a > 0 /\ b > 0 /\ c <= 0
  <2>1. 3 \in stops /\ \A i \in stops : 3 <= i
    BY <1>1, <1>2, <1>7
  <2>2. Min(stops) = 3
    <3>1. stops \in SUBSET Int
      OBVIOUS
    <3>. HIDE DEF stops
    <3>. QED
      BY <2>1, <3>1, MinIs
  <2>3. upto = 2 /\ stops # {}
    BY <2>1, <2>2
  <2>. HIDE DEF stops, upto
  <2>4. moved = a + b
    BY <1>1, <1>2, <1>4, <2>3 DEF Part
  <2>5. kernel[upto + 1] = c
    BY <1>1, <2>3
  <2>6. out = IF count = 0 THEN 0 ELSE IF n1 = count THEN n1 ELSE Turn1(count, c, n2, n3)
    BY <1>2, <1>3, <1>7 DEF Turn1, ERR
  <2>7. /\ n1 = IF a <= count THEN a ELSE count
        /\ n2 = IF n1 + b <= count THEN n1 + b ELSE count
    BY <1>2 DEF AtMost
  <2>. HIDE DEF n1, n2, n3
  <2>. QED
    BY <1>1, <1>2, <1>7, <2>3, <2>4, <2>5, <2>6, <2>7 DEF Turn1, ERR
<1>8. CASE a > 0 /\ b > 0 /\ c > 0
  <2>1. stops = {}
    BY <1>1, <1>2, <1>8
  <2>3. upto = 3
    BY <2>1
  <2>. HIDE DEF stops, upto
  <2>4. moved = a + b + c
    BY <1>1, <1>2, <1>4, <2>3 DEF Part
  <2>6. out = IF count = 0 THEN 0 ELSE IF n1 = count THEN n1 ELSE IF n2 = count THEN n2 ELSE n3
    BY <1>2, <1>3, <1>8 DEF Turn1, ERR
  <2>7. /\ n1 = IF a <= count THEN a ELSE count
        /\ n2 = IF n1 + b <= count THEN n1 + b ELSE count
        /\ n3 = IF n2 + c <= count THEN n2 + c ELSE count
    BY <1>2 DEF AtMost
  <2>. HIDE DEF n1, n2, n3
  <2>. QED
    BY <1>2, <1>8, <2>1, <2>4, <2>6, <2>7
<1>. QED
  BY <1>2, <1>5, <1>6, <1>7, <1>8

-----------------------------------------------------------------------------
(***************************************************************************)
(* Sockets: what the other functions that compute return, and the whole.   *)
(***************************************************************************)

\* The greater of two numbers is above both.
LEMMA MaxOfTwo ==
  ASSUME NEW a \in Int, NEW b \in Int
  PROVE  Max({a, b}) \in Int /\ a <= Max({a, b}) /\ b <= Max({a, b})
<1>. DEFINE S == {a, b}
<1>1. \E x \in S : \A y \in S : x >= y
  BY SMT
<1>2. Max(S) \in S /\ \A y \in S : Max(S) >= y
  <2>. HIDE DEF S
  <2>. QED
    BY <1>1, Zenon DEF Max
<1>. DEFINE most == Max(S)
<1>3. most \in S /\ most >= a /\ most >= b
  BY <1>2
<1>. HIDE DEF most
<1>4. most \in Int /\ a <= most /\ b <= most
  BY <1>3
<1>. QED
  BY <1>4 DEF most

LEMMA ThousandsBack ==
  ASSUME NEW r \in Int
  PROVE  (r * 1000) \div 1000 = r
<1>. DEFINE q == (r * 1000) \div 1000
<1>1. \A m \in Int : /\ m \div 1000 \in Int
                      /\ 1000 * (m \div 1000) <= m /\ m < 1000 * (m \div 1000) + 1000
  OBVIOUS
<1>2. q \in Int /\ 1000 * q <= r * 1000 /\ r * 1000 < 1000 * q + 1000
  BY <1>1
<1>. HIDE DEF q
<1>3. q = r
  BY <1>2
<1>. QED
  BY <1>3 DEF q

\* For any time at all: the timeval is the milliseconds asked for, and the probes of
\* a keepalive that is set up whole come apart, within the interval.
LEMMA TimesKept ==
  ASSUME NEW n \in Nat, NEW done \in 0 .. 4
  PROVE  /\ 1000 * Timeval(n).sec + Timeval(n).usec \div 1000 = n
         /\ KeepAlive(n, done).ret = 0 =>
              /\ KeepAlive(n, done).set[3] > 0
              /\ KeepAlive(n, done).set[3] * KeepAlive(n, done).set[4] <= Max({n, 3})
<1>1. 1000 * Timeval(n).sec + Timeval(n).usec \div 1000 = n
  <2>1. Timeval(n).sec = n \div 1000 /\ Timeval(n).usec = (n % 1000) * 1000
    BY DEF Timeval
  <2>2. /\ n \div 1000 \in Int /\ n % 1000 \in Int
        /\ n = 1000 * (n \div 1000) + (n % 1000)
    OBVIOUS
  <2>4. ((n % 1000) * 1000) \div 1000 = n % 1000
    BY <2>2, ThousandsBack
  <2>. QED
    BY <2>1, <2>2, <2>4
<1>2. ASSUME KeepAlive(n, done).ret = 0
      PROVE  /\ KeepAlive(n, done).set[3] > 0
             /\ KeepAlive(n, done).set[3] * KeepAlive(n, done).set[4] <= Max({n, 3})
  <2>1. done = 4
    BY <1>2 DEF KeepAlive, ERR
  <2>. DEFINE third == IF n \div 3 = 0 THEN 1 ELSE n \div 3
              all   == <<1, n, third, 3>>
  <2>2. third \in Nat /\ third > 0 /\ third * 3 <= Max({n, 3})
    <3>1. Max({n, 3}) \in Int /\ n <= Max({n, 3}) /\ 3 <= Max({n, 3})
      BY MaxOfTwo
    <3>2. n \div 3 \in Nat /\ (n \div 3) * 3 <= n
      OBVIOUS
    <3>. QED
      BY <3>1, <3>2
  <2>3. KeepAlive(n, done).set = SubSeq(all, 1, 4)
    BY <2>1 DEF KeepAlive
  <2>4. SubSeq(all, 1, 4)[3] = third /\ SubSeq(all, 1, 4)[4] = 3
    <3>. HIDE DEF third
    <3>1. all \in Seq(Nat) /\ Len(all) = 4
      BY <2>2
    <3>. QED
      BY <2>2, <3>1
  <2>. HIDE DEF third, all
  <2>. QED
    BY <2>2, <2>3, <2>4
<1>. QED
  BY <1>1, <1>2

LEMMA AnsweredSound ==
  ASSUME CallMove \/ CallIntervals \/ CallNames \/ CallResolve \/ Read
  PROVE  TransfersCounted' /\ NamesWritten'
<1>1. CASE CallMove
  <2>1. PICK count \in 0 .. 3, kernel \in [1 .. 3 -> {ERR, 0, 1, 2}] :
          answer' = [fn |-> "move", count |-> count, kernel |-> kernel, out |-> Move(count, kernel)]
    BY <1>1 DEF CallMove, Answered
  <2>2. /\ answer'.fn = "move" /\ answer'.count = count /\ answer'.kernel = kernel
        /\ answer'.out = Move(count, kernel)
    BY <2>1
  <2>3. count \in Nat /\ kernel \in [1 .. 3 -> Nat \cup {ERR}]
    OBVIOUS
  <2>4. Counted(count, kernel, Move(count, kernel))
    BY <2>3, MoveCounted
  <2>5. TransfersCounted'
    BY <2>2, <2>4, Zenon DEF TransfersCounted
  <2>. QED
    BY <2>2, <2>5 DEF NamesWritten
<1>2. CASE CallIntervals
  <2>1. PICK n \in {0, 1, 2, 3, 999, 1000, 1500}, done \in 0 .. 4 :
          answer' = [fn |-> "intervals", n |-> n, alive |-> KeepAlive(n, done), tv |-> Timeval(n)]
    BY <1>2 DEF CallIntervals, Answered
  <2>2. /\ answer'.fn = "intervals" /\ answer'.n = n /\ answer'.alive = KeepAlive(n, done)
        /\ answer'.tv = Timeval(n)
    BY <2>1
  <2>3. n \in Nat
    OBVIOUS
  <2>4. /\ 1000 * Timeval(n).sec + Timeval(n).usec \div 1000 = n
        /\ KeepAlive(n, done).ret = 0 =>
             /\ KeepAlive(n, done).set[3] > 0
             /\ KeepAlive(n, done).set[3] * KeepAlive(n, done).set[4] <= Max({n, 3})
    BY <2>3, TimesKept
  <2>. QED
    BY <2>2, <2>4 DEF NamesWritten, TransfersCounted
<1>3. CASE CallNames
  <2>1. PICK family \in {"none", "v4", "v6", "unix", "other"}, len \in {0, 1, 2, 16, 46} :
          LET size == IF family = "v4" THEN 16 ELSE 46 IN
          \/ answer' = [fn |-> "peer", len |-> len, family |-> family,
                        out |-> PeerToString(family, size, len)]
          \/ len >= 2 /\ answer' = [fn |-> "sock", len |-> len, family |-> family,
                                    out |-> SockName(family, size, len)]
    BY <1>3 DEF CallNames, Answered
  <2>. DEFINE size == IF family = "v4" THEN 16 ELSE 46
  <2>2. CASE answer' = [fn |-> "peer", len |-> len, family |-> family,
                        out |-> PeerToString(family, size, len)]
    <3>1. /\ answer'.fn = "peer" /\ answer'.len = len
          /\ answer'.out = PeerToString(family, size, len)
      BY <2>2
    <3>2. len = 46 => PeerToString(family, size, len).ip # "unset"
      BY DEF PeerToString, Written
    <3>3. len > 0 /\ PeerToString(family, size, len).ret = ERR =>
            PeerToString(family, size, len).ip # "unset"
      BY DEF PeerToString, ERR
    <3>. QED
      BY <3>1, <3>2, <3>3, Zenon DEF NamesWritten, TransfersCounted
  <2>3. CASE answer' = [fn |-> "sock", len |-> len, family |-> family,
                        out |-> SockName(family, size, len)]
    <3>1. /\ answer'.fn = "sock" /\ answer'.len = len
          /\ answer'.out = SockName(family, size, len)
      BY <2>3
    <3>2. len = 46 => SockName(family, size, len).ip # "unset"
      BY DEF SockName, Written
    <3>. QED
      BY <3>1, <3>2 DEF NamesWritten, TransfersCounted
  <2>. QED
    BY <2>1, <2>2, <2>3
<1>4. CASE CallResolve
  <2>1. PICK isIp \in BOOLEAN, ipOnly \in BOOLEAN, size \in {16, 46}, len \in {16, 46} :
          answer' = [fn |-> "resolve", isIp |-> isIp, ipOnly |-> ipOnly, len |-> len,
                     size |-> size, out |-> Resolve(isIp, ipOnly, size, len)]
    <3>1. PICK isIp \in BOOLEAN, ipOnly \in BOOLEAN, size \in {16, 46}, len \in {16, 46} :
            Answered([fn |-> "resolve", isIp |-> isIp, ipOnly |-> ipOnly, len |-> len,
                      size |-> size, out |-> Resolve(isIp, ipOnly, size, len)])
      BY <1>4, Zenon DEF CallResolve
    <3>. QED
      BY <3>1, Zenon DEF Answered
  <2>2. /\ answer'.fn = "resolve" /\ answer'.len = len
        /\ answer'.out = Resolve(isIp, ipOnly, size, len)
    BY <2>1
  <2>3. len = 46 => \/ Resolve(isIp, ipOnly, size, len).ip # "unset"
                    \/ Resolve(isIp, ipOnly, size, len).ret = ERR
    BY DEF Resolve, Written
  <2>. QED
    BY <2>2, <2>3 DEF NamesWritten, TransfersCounted
<1>5. CASE Read
  <2>1. answer'.fn = "none"
    BY <1>5 DEF Read, NoRequest
  <2>. QED
    BY <2>1 DEF NamesWritten, TransfersCounted
<1>. QED
  BY <1>1, <1>2, <1>3, <1>4, <1>5

\* No other call touches the answer.
LEMMA AnswerKept ==
  ASSUME TransfersCounted, NamesWritten, [SocketsNext]_netVars
  PROVE  TransfersCounted' /\ NamesWritten'
<1>1. CASE CallMove \/ CallIntervals \/ CallNames \/ CallResolve \/ Read
  BY <1>1, AnsweredSound
<1>2. CASE UNCHANGED answer
  <2>1. answer' = answer
    BY <1>2
  <2>2. TransfersCounted' /\ NamesWritten'
    BY <2>1 DEF TransfersCounted, NamesWritten
  <2>. QED
    BY <2>2
<1>3. CASE TcpServer \/ TcpConnect
  BY <1>2, <1>3 DEF TcpServer, TcpConnect, Called
<1>4. CASE TrySocket \/ NoAddressLeft \/ SetReuseAddr \/ V6Only \/ Bind \/ Listen \/ NonBlock
           \/ BindSource \/ Connect \/ Failed \/ Return
  <2>1. UNCHANGED answer
    BY <1>4 DEF TrySocket, NoAddressLeft, SetReuseAddr, V6Only, Bind, Listen, NonBlock,
                BindSource, Connect, Failed, Return, Does, DoesOrCloses, Become
  <2>. QED
    BY <1>2, <2>1
<1>5. CASE \E fd \in Fds : Close(fd) \/ \E nonblock \in BOOLEAN : SetBlock(fd, nonblock)
  <2>1. UNCHANGED answer
    BY <1>5, Zenon DEF Close, SetBlock, OnOwned
  <2>. QED
    BY <1>2, <2>1
<1>6. CASE UNCHANGED netVars
  BY <1>2, <1>6 DEF netVars
<1>. QED
  BY <1>1, <1>3, <1>4, <1>5, <1>6 DEF SocketsNext

\* What the socket functions promise their callers, for any descriptors and any
\* number of addresses: no descriptor is lost or given twice, each is what was asked
\* for, and transfers, names and intervals are reported as they are.
THEOREM SocketsCorrect == SocketsSpec => []SocketsSound
<1>1. SocketsInit => TransfersCounted /\ NamesWritten
  BY DEF SocketsInit, TransfersCounted, NamesWritten, NoRequest
<1>2. TransfersCounted /\ NamesWritten /\ [SocketsNext]_netVars
        => TransfersCounted' /\ NamesWritten'
  BY AnswerKept
<1>3. SocketsInv /\ DescriptorsOwned /\ TransfersCounted /\ NamesWritten => SocketsSound
  BY DEF SocketsSound, SocketsInv
<1>. QED
  BY <1>1, <1>2, <1>3, SocketsInvCorrect, OwnedCorrect, PTL DEF SocketsSpec
=============================================================================
