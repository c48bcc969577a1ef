--------------------------- MODULE TcpServer_Proofs --------------------------
(***************************************************************************)
(* Proofs about TcpServer for any number of clients, descriptors, slots,   *)
(* sessions and bytes: the inductive invariant IndInv and the properties   *)
(* it implies.  The invariant is carried part by part: types; the event    *)
(* table with the kernel and maxfd; where connections are; where sessions  *)
(* are, with the counting argument that their ids do not wrap; and the     *)
(* batch of fired events.                                                  *)
(***************************************************************************)
EXTENDS TcpServer, FiniteSetTheorems, TLAPS

USE AeAssumption, TcpAssumption

\* A remainder is below its modulus.
LEMMA ModRange ==
  ASSUME NEW a \in Nat, NEW b \in Nat \ {0}
  PROVE  a % b \in 0 .. b - 1
  BY SMT

\* A number below the modulus is its own remainder.
LEMMA ModSmall ==
  ASSUME NEW a \in Nat, NEW b \in Nat, a < b
  PROVE  a % b = a
  BY SMT

\* An element of a range that is not its upper end is below it.
LEMMA Between ==
  \A lo, hi, k \in Int : lo < k /\ k <= hi /\ k # hi => k \in lo + 1 .. hi - 1
  OBVIOUS

\* The next session id is a uint16.
LEMMA NextIdType == TypeOK => NextId \in Id
<1> SUFFICES ASSUME TypeOK PROVE NextId \in Id
  OBVIOUS
<1>1. idGen + 1 \in Nat
  BY DEF TypeOK, Id
<1>. QED
  BY <1>1, ModRange DEF NextId, Id

\* The state in which StartServer calls aeMain has its types.
LEMMA TypeInit == Init => TypeOK
<1> SUFFICES ASSUME Init PROVE TypeOK
  OBVIOUS
<1>1. mid \in Seq(Id) /\ Len(mid) = PoolSize /\ idGen \in Id
  <2>1. mid = [i \in 1 .. PoolSize |-> i - 1] /\ idGen = PoolSize - 1
    BY DEF Init
  <2>2. \A i \in 1 .. PoolSize : i - 1 \in Id
    BY DEF Id
  <2>. QED
    BY <2>1, <2>2 DEF Id
<1>2. Session = 1 .. PoolSize
  BY <1>1 DEF Session
<1>3. free \in Seq(Session)
  BY <1>2 DEF Init
<1>4. DOMAIN sessions = {}
  BY DEF Init
<1>5. /\ ListenEvent \in [mask : Mask, rfileProc : {NoProc, "DoAccept", "DoRead"},
                          wfileProc : {NoProc}, clientData : Session \cup {NoData}]
      /\ NoEvent \in [mask : Mask, rfileProc : {NoProc, "DoAccept", "DoRead"},
                      wfileProc : {NoProc}, clientData : Session \cup {NoData}]
  BY DEF ListenEvent, NoEvent, Mask
<1>6. {READABLE} \in Mask /\ {} \in Mask
  BY DEF Mask
<1>7. ListenFd \in Slot
  BY DEF Slot
<1>8. /\ events \in [Slot -> [mask : Mask, rfileProc : {NoProc, "DoAccept", "DoRead"},
                              wfileProc : {NoProc}, clientData : Session \cup {NoData}]]
      /\ maxfd \in Slot \cup {-1} /\ fdset \in [Fd -> Mask]
  BY <1>5, <1>6, <1>7 DEF Init
<1>9. /\ fired \in SUBSET Entry /\ loop \in {"test", "poll", "dispatch", "exit", "wild"}
      /\ stop \in BOOLEAN /\ listening \in BOOLEAN /\ backlog \in Seq(Conn)
      /\ sock \in [ClientFd -> Conn \cup {NoConn}]
      /\ phase \in [Conn -> {"idle", "queued", "open"}]
      /\ inbox \in [Conn -> 0 .. MaxInbox] /\ ended \in [Conn -> {"no", "fin", "rst"}]
  <2>1. 0 \in 0 .. MaxInbox
    OBVIOUS
  <2>2. inbox = [c \in Conn |-> 0] /\ sock = [fd \in ClientFd |-> NoConn]
    BY DEF Init
  <2>3. backlog = <<>> /\ fired = {} /\ loop = "test" /\ stop = FALSE /\ listening = TRUE
    BY DEF Init
  <2>4. phase = [c \in Conn |-> "idle"] /\ ended = [c \in Conn |-> "no"]
    BY DEF Init
  <2>5. backlog \in Seq(Conn)
    BY <2>3
  <2>. QED
    BY <2>1, <2>2, <2>3, <2>4, <2>5
<1>. QED
  BY <1>1, <1>3, <1>4, <1>8, <1>9 DEF TypeOK

\* TakeSession keeps the types, and yields a session and an id that exist.
LEMMA TypeTakeSession ==
  ASSUME TypeOK, TakeSession
  PROVE  /\ mid' \in Seq(Id) /\ idGen' \in Id
         /\ Len(mid') >= Len(mid)
         /\ free' \in Seq(Session')
         /\ TakenSession \in Session' /\ TakenId \in Id
         /\ DOMAIN sessions' \in SUBSET Id
         /\ \A id \in DOMAIN sessions' : sessions'[id] \in Session'
<1>. DEFINE n == Len(mid)
<1>0. /\ mid \in Seq(Id) /\ free \in Seq(Session) /\ n \in Nat /\ Session = 1 .. n
      /\ DOMAIN sessions \in SUBSET Id /\ \A id \in DOMAIN sessions : sessions[id] \in Session
      /\ NextId \in Id /\ idGen \in Id
  BY NextIdType DEF TypeOK, Session
<1>1. CASE free = <<>>
  <2>1. mid' = Append(mid, NextId) /\ idGen' = NextId /\ free' = free
    BY <1>1 DEF TakeSession
  <2>2. mid' \in Seq(Id) /\ Len(mid') = n + 1
    BY <1>0, <2>1
  <2>3. Session' = 1 .. n + 1
    BY <2>2 DEF Session
  <2>4. free' \in Seq(Session')
    BY <1>1, <2>1
  <2>5. TakenSession = n + 1 /\ TakenId = NextId
    BY <1>1 DEF TakenSession, TakenId
  <2>. HIDE DEF n
  <2>. QED
    BY <1>0, <2>1, <2>2, <2>3, <2>4, <2>5 DEF TakeSession
<1>2. CASE free # <<>>
  <2>1. mid' = mid /\ idGen' = idGen /\ free' = Tail(free) /\ Session' = Session
    BY <1>2 DEF TakeSession, Session
  <2>2. Head(free) \in Session /\ Tail(free) \in Seq(Session)
    BY <1>0, <1>2
  <2>3. TakenSession = Head(free) /\ TakenId = mid[Head(free)]
    BY <1>2 DEF TakenSession, TakenId
  <2>4. TakenId \in Id
    BY <1>0, <2>2, <2>3
  <2>. HIDE DEF n
  <2>. QED
    BY <1>0, <2>1, <2>2, <2>3, <2>4 DEF TakeSession
<1>. QED
  BY <1>1, <1>2

\* The part of TypeOK about the loop and its table.
LEMMA TypeDelete ==
  ASSUME TypeOK, NEW fd \in Fd, DeleteFileEvent(fd, {READABLE})
  PROVE  /\ events' \in [Slot -> [mask : Mask, rfileProc : {NoProc, "DoAccept", "DoRead"},
                          wfileProc : {NoProc}, clientData : Session \cup {NoData}]]
         /\ maxfd' \in Slot \cup {-1}
         /\ fdset' \in [Fd -> Mask]
<1>1. CASE fd \notin Slot \/ events[fd].mask = {}
  BY <1>1 DEF DeleteFileEvent, TypeOK
<1>2. CASE ~(fd \notin Slot \/ events[fd].mask = {})
  <2>1. events[fd].mask \ {READABLE} \in Mask
    BY <1>2 DEF TypeOK, Mask
  <2>2. events' = [events EXCEPT ![fd].mask = @ \ {READABLE}]
    BY <1>2 DEF DeleteFileEvent
  <2>3. fdset' = [fdset EXCEPT ![fd] = @ \ {READABLE}] /\ fdset[fd] \ {READABLE} \in Mask
    BY <1>2 DEF DeleteFileEvent, TypeOK, Mask
  <2>4. maxfd' = maxfd \/ maxfd' \in HighestBelow(events, fd)
    BY <1>2 DEF DeleteFileEvent
  <2>5. HighestBelow(events, fd) \subseteq Slot \cup {-1}
    BY <1>2 DEF HighestBelow, Slot
  <2>. QED
    BY <2>1, <2>2, <2>3, <2>4, <2>5 DEF TypeOK
<1>. QED
  BY <1>1, <1>2

\* Consuming an entry leaves a batch.
LEMMA TypeFired ==
  ASSUME TypeOK, NEW e \in fired
  PROVE  FiredAfterRead(e) \in SUBSET Entry /\ e \in Entry
  BY DEF TypeOK, FiredAfterRead, Entry

\* DoAccept keeps the types, on its two paths.
LEMMA TypeDoAccept ==
  ASSUME TypeOK, NEW e \in fired, DoAccept(e)
  PROVE  TypeOK'
<1>. DEFINE Evs(S) == [Slot -> [mask : Mask, rfileProc : {NoProc, "DoAccept", "DoRead"},
                          wfileProc : {NoProc}, clientData : S \cup {NoData}]]
<1>1. /\ mid' \in Seq(Id) /\ idGen' \in Id
      /\ free' \in Seq(Session')
      /\ TakenSession \in Session'
      /\ DOMAIN sessions' \in SUBSET Id
      /\ \A id \in DOMAIN sessions' : sessions'[id] \in Session'
  BY TypeTakeSession DEF DoAccept
<1>2. Session \subseteq Session'
  BY TypeTakeSession DEF DoAccept, Session, TypeOK
<1>3. /\ loop' = loop /\ stop' = stop /\ fired' \in SUBSET Entry
  BY TypeFired DEF DoAccept
<1>4. backlog \in Seq(Conn) /\ backlog # <<>> /\ Head(backlog) \in Conn /\ Tail(backlog) \in Seq(Conn)
  BY DEF TypeOK, DoAccept
<1>5. events \in Evs(Session')
  BY <1>2 DEF TypeOK
<1>6. CASE AcceptRegisters(e)
  <2>1. PICK cfd \in ClientFd :
          /\ Accept(cfd)
          /\ CreateFileEvent(cfd, {READABLE}, "DoRead", TakenSession)
          /\ backlog' = Tail(backlog)
          /\ phase' = [phase EXCEPT ![Head(backlog)] = "open"]
          /\ UNCHANGED <<listening, inbox, ended>>
    BY <1>6 DEF AcceptRegisters
  <2>2. /\ cfd \in Slot \cap Fd
        /\ events' = [events EXCEPT ![cfd] =
             [mask |-> @.mask \cup {READABLE}, rfileProc |-> "DoRead",
              wfileProc |-> IF WRITABLE \in {READABLE} THEN "DoRead" ELSE @.wfileProc,
              clientData |-> TakenSession]]
        /\ fdset' = [fdset EXCEPT ![cfd] = @ \cup {READABLE}]
        /\ maxfd' = IF cfd > maxfd THEN cfd ELSE maxfd
    BY <2>1 DEF CreateFileEvent
  <2>3. events[cfd].mask \cup {READABLE} \in Mask /\ fdset[cfd] \cup {READABLE} \in Mask
    BY <2>2 DEF TypeOK, Mask
  <2>4. WRITABLE \notin {READABLE}
    BY DEF WRITABLE, READABLE
  <2>5. events' \in Evs(Session')
    BY <2>2, <2>3, <2>4, <1>1, <1>5
  <2>6. maxfd' \in Slot \cup {-1} /\ fdset' \in [Fd -> Mask]
    BY <2>2, <2>3 DEF TypeOK
  <2>7. sock' \in [ClientFd -> Conn \cup {NoConn}]
    BY <2>1, <1>4 DEF Accept, TypeOK
  <2>8. phase' \in [Conn -> {"idle", "queued", "open"}] /\ backlog' \in Seq(Conn)
    BY <2>1, <1>4 DEF TypeOK
  <2>. HIDE DEF Evs
  <2>. QED
    BY <1>1, <1>3, <2>1, <2>5, <2>6, <2>7, <2>8 DEF TypeOK, Evs
<1>7. ASSUME NEW left, CloseListener(left), UNCHANGED <<events, maxfd, fdset>>,
             sock' \in [ClientFd -> Conn \cup {NoConn}]
      PROVE  TypeOK'
  <2>1. listening' \in BOOLEAN /\ backlog' \in Seq(Conn)
        /\ phase' \in [Conn -> {"idle", "queued", "open"}]
        /\ inbox' \in [Conn -> 0 .. MaxInbox]
        /\ ended' \in [Conn -> {"no", "fin", "rst"}]
    <3>. DEFINE reset == {left[i] : i \in DOMAIN left}
    <3>1. /\ listening' = FALSE /\ backlog' = <<>>
          /\ phase' = [c \in Conn |-> IF c \in reset THEN "idle"
                              ELSE IF phase[c] = "queued" THEN "open" ELSE phase[c]]
          /\ inbox' = [c \in Conn |-> IF c \in reset THEN 0 ELSE inbox[c]]
          /\ ended' = [c \in Conn |-> IF c \in reset THEN "no" ELSE ended[c]]
      BY <1>7 DEF CloseListener
    <3>. HIDE DEF reset
    <3>2. phase' \in [Conn -> {"idle", "queued", "open"}]
      BY <3>1 DEF TypeOK
    <3>3. inbox' \in [Conn -> 0 .. MaxInbox]
      BY <3>1 DEF TypeOK
    <3>4. ended' \in [Conn -> {"no", "fin", "rst"}]
      BY <3>1 DEF TypeOK
    <3>5. backlog' \in Seq(Conn)
      BY <3>1
    <3>. QED
      BY <3>1, <3>2, <3>3, <3>4, <3>5
  <2>2. fdset' \in [Fd -> Mask]
    BY <1>7 DEF TypeOK
  <2>. HIDE DEF Evs
  <2>. QED
    BY <1>1, <1>3, <1>5, <1>7, <2>1, <2>2 DEF TypeOK, Evs
<1>8. CASE AcceptNotRegistered(e)
  BY <1>8, <1>4, <1>7 DEF AcceptNotRegistered, CreateFileEventFails, Accept, TypeOK
<1>. QED
  BY <1>6, <1>8 DEF DoAccept

\* DoRead keeps the types, on its two paths.
LEMMA TypeDoRead ==
  ASSUME TypeOK, EventShape, NEW e \in fired, DoRead(e)
  PROVE  TypeOK'
<1>. DEFINE c == sock[e.fd]  s == events[e.fd].clientData
<1>1. /\ loop' = loop /\ stop' = stop /\ fired' \in SUBSET Entry /\ e.fd \in Fd
  BY TypeFired DEF DoRead, Entry
<1>2. e.fd \in ClientFd /\ s \in Session /\ c \in Conn \cup {NoConn}
  <2>1. e.fd \in Slot /\ events[e.fd].mask # {} /\ events[e.fd].rfileProc = "DoRead"
    BY DEF DoRead, CallsProc, CallsRead, ValidMask
  <2>2. e.fd # ListenFd
    BY <2>1 DEF EventShape, ListenEvent
  <2>3. e.fd \in ClientFd /\ s \in Session
    BY <2>1, <2>2 DEF EventShape
  <2>. QED
    BY <2>3 DEF TypeOK
<1>3. CASE ReadBytes(e, c)
  <2>1. inbox' \in [Conn -> 0 .. MaxInbox]
    <3>1. inbox \in [Conn -> 0 .. MaxInbox]
      BY DEF TypeOK
    <3>2. inbox' = [inbox EXCEPT ![c] = IF @ > BufLen THEN @ - BufLen ELSE 0]
      BY <1>3 DEF ReadBytes
    <3>. HIDE DEF c
    <3>3. \A n \in 0 .. MaxInbox : (IF n > BufLen THEN n - BufLen ELSE 0) \in 0 .. MaxInbox
      OBVIOUS
    <3>. QED
      BY <3>1, <3>2, <3>3
  <2>2. Session' = Session
    BY <1>3 DEF ReadBytes, serverVars, Session
  <2>3. /\ UNCHANGED <<events, maxfd, fdset, listening, backlog, sock, phase, ended>>
        /\ UNCHANGED <<sessions, free, mid, idGen>>
    BY <1>3 DEF ReadBytes, serverVars
  <2>. HIDE DEF c, s
  <2>. QED
    BY <1>1, <2>1, <2>2, <2>3 DEF TypeOK
<1>4. CASE ReadEnd(e, c, s)
  <2>1. Session' = Session /\ UNCHANGED <<listening, backlog, inbox, mid, idGen>>
    BY <1>4 DEF ReadEnd, Session
  <2>2. free' \in Seq(Session)
    BY <1>2, <1>4 DEF ReadEnd, TypeOK
  <2>3. /\ DOMAIN sessions' \in SUBSET Id
        /\ \A id \in DOMAIN sessions' : sessions'[id] \in Session
    BY <1>4 DEF ReadEnd, TypeOK
  <2>4. /\ sock' \in [ClientFd -> Conn \cup {NoConn}]
        /\ phase' \in [Conn -> {"idle", "queued", "open"}]
        /\ ended' \in [Conn -> {"no", "fin", "rst"}]
    BY <1>4 DEF ReadEnd, TypeOK
  <2>5. DeleteFileEvent(e.fd, {READABLE})
    BY <1>4 DEF ReadEnd
  <2>6. /\ events' \in [Slot -> [mask : Mask, rfileProc : {NoProc, "DoAccept", "DoRead"},
                          wfileProc : {NoProc}, clientData : Session \cup {NoData}]]
         /\ maxfd' \in Slot \cup {-1}
         /\ fdset' \in [Fd -> Mask]
    BY <1>1, <2>5, TypeDelete
  <2>. HIDE DEF c, s
  <2>. QED
    BY <1>1, <2>1, <2>2, <2>3, <2>4, <2>6 DEF TypeOK
<1>. QED
  BY <1>3, <1>4 DEF DoRead

\* Every step keeps the types, given the shape of the event table.
LEMMA TypeStep == TypeOK /\ EventShape /\ [Next]_vars => TypeOK'
<1> SUFFICES ASSUME TypeOK, EventShape, [Next]_vars PROVE TypeOK'
  OBVIOUS
<1>. USE DEF Session
<1>1. CASE LoopTurn /\ UNCHANGED <<kernelVars, serverVars>>
  <2>1. fired' \in SUBSET Entry /\ loop' \in {"test", "poll", "dispatch", "exit", "wild"}
    <3>1. CASE TestStop
      BY <3>1 DEF TestStop, TypeOK
    <3>2. CASE Poll(Reported)
      <4>1. \A fd \in Polled : events[fd].mask \cap Sees(fd) \in Mask /\ fd \in Fd
        BY DEF Polled, TypeOK, Mask
      <4>2. ASSUME NEW r \in Reported PROVE r \in Entry
        <5>1. PICK fd \in Polled :
                r = [fd |-> fd, mask |-> events[fd].mask \cap Sees(fd), rfired |-> FALSE]
          BY <4>2 DEF Reported, Selected, Polled
        <5>. QED
          BY <4>1, <5>1 DEF Entry
      <4>3. Reported \in SUBSET Entry
        BY <4>2
      <4>. QED
        BY <3>2, <4>3 DEF Poll
    <3>3. CASE SkipEntry
      BY <3>3 DEF SkipEntry, TypeOK
    <3>4. CASE BatchDone
      BY <3>4 DEF BatchDone, TypeOK
    <3>. QED
      BY <1>1, <3>1, <3>2, <3>3, <3>4 DEF LoopTurn
  <2>2. UNCHANGED <<events, maxfd, fdset, stop>>
    BY <1>1 DEF LoopTurn, TestStop, Poll, SkipEntry, BatchDone
  <2>. QED
    BY <1>1, <2>1, <2>2 DEF TypeOK, kernelVars, serverVars
<1>2. ASSUME NEW e \in fired, DoAccept(e) PROVE TypeOK'
  BY <1>2, TypeDoAccept
<1>3. ASSUME NEW e \in fired, DoRead(e) PROVE TypeOK'
  BY <1>3, TypeDoRead
<1>9. ASSUME NEW e \in fired, AcceptOutOfBounds(e) PROVE TypeOK'
  BY <1>9 DEF AcceptOutOfBounds, TypeOK, kernelVars, serverVars
<1>4. CASE StopServer
  BY <1>4 DEF StopServer, AeStop, TypeOK, kernelVars, serverVars
<1>5. ASSUME NEW d \in Conn, Connect(d) PROVE TypeOK'
  <2>1. backlog' \in Seq(Conn) /\ phase' \in [Conn -> {"idle", "queued", "open"}]
    BY <1>5 DEF Connect, TypeOK
  <2>. QED
    BY <1>5, <2>1 DEF Connect, TypeOK, aeVars, serverVars
<1>6. ASSUME NEW d \in Conn, Send(d) PROVE TypeOK'
  <2>1. inbox' \in [Conn -> 0 .. MaxInbox]
    BY <1>6 DEF Send, TypeOK
  <2>. QED
    BY <1>6, <2>1 DEF Send, TypeOK, aeVars, serverVars
<1>7. ASSUME NEW d \in Conn, Leave(d) PROVE TypeOK'
  <2>1. ended' \in [Conn -> {"no", "fin", "rst"}]
    BY <1>7 DEF Leave, TypeOK
  <2>. QED
    BY <1>7, <2>1 DEF Leave, TypeOK, aeVars, serverVars
<1>8. CASE UNCHANGED vars
  BY <1>8 DEF vars, aeVars, kernelVars, serverVars, TypeOK
<1>. QED
  BY <1>1, <1>2, <1>3, <1>4, <1>5, <1>6, <1>7, <1>8, <1>9
     DEF Next, LoopStep, ClientStep, Returned

\* What a DoRead callback finds: a registered client descriptor, its open
\* socket, and the session in the event.
LEMMA ReadFacts ==
  ASSUME IndInv, NEW e \in fired, DoRead(e)
  PROVE  /\ e.fd \in ClientFd \cap Slot /\ e.fd # ListenFd /\ e.fd \in Fd
         /\ e.fd \in Registered
         /\ events[e.fd].mask = {READABLE}
         /\ sock[e.fd] \in Conn
         /\ Holder(e.fd) \in Session
         /\ ~e.rfired
<1>1. /\ e.fd \in Slot /\ events[e.fd].mask # {} /\ events[e.fd].rfileProc = "DoRead"
      /\ ~e.rfired
  BY DEF DoRead, CallsProc, CallsRead, ValidMask
<1>2. e.fd # ListenFd
  BY <1>1 DEF IndInv, EventShape, ListenEvent
<1>3. /\ e.fd \in ClientFd /\ events[e.fd].mask = {READABLE} /\ Holder(e.fd) \in Session
  BY <1>1, <1>2 DEF IndInv, EventShape, Holder
<1>4. e.fd \in Registered /\ e.fd \in Fd
  BY <1>1, <1>3 DEF Registered, ClientFd, Fd
<1>5. sock[e.fd] \in Conn
  BY <1>3, <1>4 DEF IndInv, ConnPlaces, TypeOK
<1>. QED
  BY <1>1, <1>2, <1>3, <1>4, <1>5

\* What a DoAccept callback finds: an open listener, and a head of the backlog.
LEMMA AcceptFacts ==
  ASSUME IndInv, NEW e \in fired, DoAccept(e)
  PROVE  /\ e.fd = ListenFd /\ ~e.rfired
         /\ listening /\ backlog # <<>>
         /\ backlog \in Seq(Conn) /\ Head(backlog) \in Conn
<1>1. /\ e.fd \in Slot /\ events[e.fd].mask # {} /\ events[e.fd].rfileProc = "DoAccept"
      /\ ~e.rfired /\ backlog # <<>>
  BY DEF DoAccept, CallsProc, CallsRead, ValidMask
<1>2. e.fd = ListenFd
  BY <1>1 DEF IndInv, EventShape
<1>3. backlog \in Seq(Conn)
  BY DEF IndInv, TypeOK
<1>4. Head(backlog) \in Conn
  BY <1>1, <1>3
<1>. QED
  BY <1>1, <1>2, <1>3, <1>4 DEF IndInv, ConnPlaces

\* What aeCreateFileEvent does to the table for a free descriptor.
LEMMA RegisterEffect ==
  ASSUME IndInv, NEW cfd \in ClientFd, NEW s, Accept(cfd),
         CreateFileEvent(cfd, {READABLE}, "DoRead", s)
  PROVE  /\ cfd \in Slot \cap Fd /\ cfd # ListenFd
         /\ events[cfd].mask = {} /\ cfd \notin Registered
         /\ events' = [events EXCEPT ![cfd] =
                         [mask |-> {READABLE}, rfileProc |-> "DoRead",
                          wfileProc |-> events[cfd].wfileProc, clientData |-> s]]
         /\ fdset' = [fdset EXCEPT ![cfd] = {READABLE}]
         /\ maxfd' = IF cfd > maxfd THEN cfd ELSE maxfd
         /\ sock[cfd] = NoConn /\ sock' = [sock EXCEPT ![cfd] = Head(backlog)]
         /\ Registered' = Registered \cup {cfd}
<1>1. cfd \in Slot \cap Fd /\ cfd # ListenFd
  BY DEF CreateFileEvent, ClientFd
<1>2. sock[cfd] = NoConn /\ sock' = [sock EXCEPT ![cfd] = Head(backlog)]
  BY DEF Accept, FreeFd
<1>3. cfd \notin Registered
  BY <1>2 DEF IndInv, ConnPlaces
<1>4. events[cfd].mask = {}
  BY <1>1, <1>3 DEF Registered
<1>5. WRITABLE \notin {READABLE} /\ READABLE \in {READABLE} /\ events[cfd].mask \cup {READABLE} = {READABLE}
  BY <1>4 DEF READABLE, WRITABLE
<1>6. events' = [events EXCEPT ![cfd] =
                         [mask |-> {READABLE}, rfileProc |-> "DoRead",
                          wfileProc |-> events[cfd].wfileProc, clientData |-> s]]
  <2>1. events' = [events EXCEPT ![cfd] =
             [mask |-> @.mask \cup {READABLE},
              rfileProc |-> IF READABLE \in {READABLE} THEN "DoRead" ELSE @.rfileProc,
              wfileProc |-> IF WRITABLE \in {READABLE} THEN "DoRead" ELSE @.wfileProc,
              clientData |-> s]]
    BY DEF CreateFileEvent
  <2>. QED
    BY <2>1, <1>5
<1>7. /\ fdset' = [fdset EXCEPT ![cfd] = {READABLE}]
      /\ maxfd' = IF cfd > maxfd THEN cfd ELSE maxfd
  <2>1. fdset[cfd] \cup {READABLE} = {READABLE}
    BY <1>1, <1>4 DEF IndInv, KernelShape
  <2>. QED
    BY <2>1 DEF CreateFileEvent
<1>8. Registered' = Registered \cup {cfd}
  <2>1. events \in [Slot -> [mask : Mask, rfileProc : {NoProc, "DoAccept", "DoRead"},
                          wfileProc : {NoProc}, clientData : Session \cup {NoData}]]
    BY DEF IndInv, TypeOK
  <2>. QED
    BY <1>1, <1>6, <2>1 DEF Registered
<1>. QED
  BY <1>1, <1>2, <1>3, <1>4, <1>6, <1>7, <1>8

\* What aeDeleteFileEvent does to the table for a registered client, with the
\* scan for the new maxfd.
LEMMA EndEffect ==
  ASSUME IndInv, NEW e \in fired, DoRead(e),
         ReadEnd(e, sock[e.fd], events[e.fd].clientData)
  PROVE  /\ events' = [events EXCEPT ![e.fd].mask = {}]
         /\ fdset' = [fdset EXCEPT ![e.fd] = {}]
         /\ e.fd = maxfd => maxfd' \in HighestBelow(events, maxfd)
         /\ e.fd # maxfd => maxfd' = maxfd
         /\ sock' = [sock EXCEPT ![e.fd] = NoConn]
         /\ Registered' = Registered \ {e.fd}
<1>1. /\ DeleteFileEvent(e.fd, {READABLE})
      /\ sock' = [sock EXCEPT ![e.fd] = NoConn]
  BY DEF ReadEnd
<1>2. e.fd \in Slot /\ events[e.fd].mask = {READABLE} /\ events[e.fd].mask \ {READABLE} = {}
  BY ReadFacts
<1>3. /\ events' = [events EXCEPT ![e.fd].mask = {}]
      /\ fdset' = [fdset EXCEPT ![e.fd] = {}]
      /\ IF e.fd = maxfd THEN maxfd' \in HighestBelow(events, e.fd) ELSE maxfd' = maxfd
  <2>1. fdset[e.fd] \ {READABLE} = {}
    BY <1>2, ReadFacts DEF IndInv, KernelShape
  <2>. QED
    BY <1>1, <1>2, <2>1 DEF DeleteFileEvent
<1>4. Registered' = Registered \ {e.fd}
  <2>1. events \in [Slot -> [mask : Mask, rfileProc : {NoProc, "DoAccept", "DoRead"},
                          wfileProc : {NoProc}, clientData : Session \cup {NoData}]]
    BY DEF IndInv, TypeOK
  <2>. QED
    BY <1>2, <1>3, <2>1 DEF Registered
<1>. QED
  BY <1>1, <1>3, <1>4

(* The table, the descriptor sets and maxfd. *)
LEMMA TableInit == Init => EventShape /\ KernelShape /\ MaxFdExact
<1> SUFFICES ASSUME Init PROVE EventShape /\ KernelShape /\ MaxFdExact
  OBVIOUS
<1>1. ListenFd \in Slot /\ ListenFd \in Fd
  BY DEF Slot, Fd
<1>2. \A fd \in Slot : events[fd] = IF fd = ListenFd THEN ListenEvent ELSE NoEvent
  BY DEF Init
<1>3. NoEvent.mask = {} /\ ListenEvent.mask = {READABLE}
  BY DEF NoEvent, ListenEvent
<1>4. /\ fdset = [fd \in Fd |-> IF fd = ListenFd THEN {READABLE} ELSE {}]
      /\ maxfd = ListenFd /\ listening = TRUE
  BY DEF Init
<1>5. EventShape
  BY <1>1, <1>2, <1>3 DEF EventShape
<1>6. KernelShape
  BY <1>1, <1>2, <1>3, <1>4 DEF KernelShape
<1>7. MaxFdExact
  BY <1>1, <1>2, <1>3, <1>4 DEF MaxFdExact, Slot
<1>. QED
  BY <1>5, <1>6, <1>7

\* maxfd is a slot, and the listener never leaves the table.
LEMMA MaxFdSlot == IndInv => maxfd \in Slot /\ ListenFd <= maxfd
<1> SUFFICES ASSUME IndInv PROVE maxfd \in Slot /\ ListenFd <= maxfd
  OBVIOUS
<1>1. ListenFd \in Slot /\ events[ListenFd].mask # {}
  BY DEF Slot, IndInv, EventShape, ListenEvent
<1>2. ListenFd <= maxfd /\ maxfd \in Slot \cup {-1}
  BY <1>1 DEF IndInv, MaxFdExact, TypeOK
<1>. QED
  BY <1>2 DEF Slot

\* DoAccept keeps table, kernel and maxfd in step.
LEMMA TableDoAccept ==
  ASSUME IndInv, NEW e \in fired, DoAccept(e)
  PROVE  EventShape' /\ KernelShape' /\ MaxFdExact'
<1>1. Session \subseteq Session' /\ TakenSession \in Session'
  BY TypeTakeSession DEF DoAccept, Session, TypeOK, IndInv
<1>2. /\ ListenFd \in Slot /\ ListenFd \in Fd
      /\ events \in [Slot -> [mask : Mask, rfileProc : {NoProc, "DoAccept", "DoRead"},
                          wfileProc : {NoProc}, clientData : Session \cup {NoData}]]
      /\ fdset \in [Fd -> Mask] /\ maxfd \in Slot \cup {-1}
  BY DEF Slot, Fd, IndInv, TypeOK
<1>3. CASE AcceptRegisters(e)
  <2>1. PICK cfd \in ClientFd :
          /\ Accept(cfd)
          /\ CreateFileEvent(cfd, {READABLE}, "DoRead", TakenSession)
          /\ UNCHANGED listening
    BY <1>3 DEF AcceptRegisters
  <2>2. /\ cfd \in Slot \cap Fd /\ cfd # ListenFd
        /\ events' = [events EXCEPT ![cfd] =
                         [mask |-> {READABLE}, rfileProc |-> "DoRead",
                          wfileProc |-> events[cfd].wfileProc, clientData |-> TakenSession]]
        /\ fdset' = [fdset EXCEPT ![cfd] = {READABLE}]
        /\ maxfd' = IF cfd > maxfd THEN cfd ELSE maxfd
    BY <2>1, RegisterEffect
  <2>3. EventShape'
    BY <1>1, <1>2, <2>1, <2>2 DEF IndInv, EventShape
  <2>4. KernelShape'
    BY <1>2, <2>1, <2>2 DEF IndInv, KernelShape
  <2>5. MaxFdExact'
    <3>1. \A fd \in Slot : /\ fd # cfd => events'[fd].mask = events[fd].mask
                           /\ fd = cfd => events'[fd].mask = {READABLE}
      BY <1>2, <2>2
    <3>2. maxfd \in Slot
      BY MaxFdSlot
    <3>. QED
      BY <2>2, <3>1, <3>2 DEF IndInv, MaxFdExact, Slot
  <2>. QED
    BY <2>3, <2>4, <2>5
<1>4. CASE AcceptNotRegistered(e)
  <2>1. events' = events /\ maxfd' = maxfd /\ fdset' = fdset
    BY <1>4 DEF AcceptNotRegistered, CreateFileEventFails
  <2>2. EventShape'
    BY <1>1, <2>1 DEF IndInv, EventShape
  <2>3. KernelShape'
    BY <1>2, <2>1 DEF IndInv, KernelShape
  <2>4. MaxFdExact'
    BY <2>1 DEF IndInv, MaxFdExact
  <2>. QED
    BY <2>2, <2>3, <2>4
<1>. QED
  BY <1>3, <1>4 DEF DoAccept

\* DoRead keeps table, kernel and maxfd in step.
LEMMA TableDoRead ==
  ASSUME IndInv, NEW e \in fired, DoRead(e)
  PROVE  EventShape' /\ KernelShape' /\ MaxFdExact'
<1>1. /\ ListenFd \in Slot /\ ListenFd \in Fd
      /\ events \in [Slot -> [mask : Mask, rfileProc : {NoProc, "DoAccept", "DoRead"},
                          wfileProc : {NoProc}, clientData : Session \cup {NoData}]]
      /\ fdset \in [Fd -> Mask] /\ maxfd \in Slot \cup {-1}
  BY DEF Slot, Fd, IndInv, TypeOK
<1>2. CASE ReadBytes(e, sock[e.fd])
  BY <1>2 DEF ReadBytes, serverVars, IndInv, EventShape, KernelShape, MaxFdExact, Session
<1>3. CASE ReadEnd(e, sock[e.fd], events[e.fd].clientData)
  <2>1. /\ events' = [events EXCEPT ![e.fd].mask = {}]
        /\ fdset' = [fdset EXCEPT ![e.fd] = {}]
        /\ e.fd = maxfd => maxfd' \in HighestBelow(events, maxfd)
        /\ e.fd # maxfd => maxfd' = maxfd
    BY <1>3, EndEffect
  <2>2. mid' = mid /\ listening' = listening
    BY <1>3 DEF ReadEnd
  <2>3. e.fd \in Slot /\ e.fd # ListenFd /\ e.fd > ListenFd /\ e.fd \in Fd
    BY ReadFacts DEF ClientFd
  <2>4. EventShape'
    BY <1>1, <2>1, <2>2, <2>3 DEF IndInv, EventShape, Session
  <2>5. KernelShape'
    <3>1. \A fd \in Fd : /\ fd # e.fd => fdset'[fd] = fdset[fd]
                         /\ fd = e.fd => fdset'[fd] = {}
      BY <1>1, <2>1, <2>3
    <3>2. \A fd \in Slot : /\ fd # e.fd => events'[fd].mask = events[fd].mask
                           /\ fd = e.fd => events'[fd].mask = {}
      BY <1>1, <2>1, <2>3
    <3>. QED
      BY <3>1, <3>2, <2>2, <2>3 DEF IndInv, KernelShape
  <2>6. MaxFdExact'
    <3>0. events[ListenFd].mask # {}
      BY DEF IndInv, EventShape, ListenEvent
    <3>1. \A fd \in Slot : /\ fd # e.fd => events'[fd].mask = events[fd].mask
                           /\ fd = e.fd => events'[fd].mask = {}
      BY <1>1, <2>1, <2>3
    <3>2. CASE e.fd # maxfd
      BY <1>1, <2>1, <3>0, <3>1, <3>2 DEF IndInv, MaxFdExact, Slot
    <3>3. CASE e.fd = maxfd
      <4>1. /\ maxfd' \in -1 .. maxfd - 1
            /\ maxfd' = -1 \/ events[maxfd'].mask # {}
            /\ \A k \in maxfd' + 1 .. maxfd - 1 : events[k].mask = {}
        BY <2>1, <3>3 DEF HighestBelow
      <4>2. maxfd' >= ListenFd
        <5>1. SUFFICES ASSUME maxfd' < ListenFd PROVE FALSE
          BY <4>1, <1>1 DEF Slot
        <5>2. ListenFd \in maxfd' + 1 .. maxfd - 1
          BY <4>1, <5>1, <3>3, <2>3 DEF Slot
        <5>. QED
          BY <4>1, <5>2, <3>0
      <4>3. maxfd' \in Slot /\ maxfd' < maxfd /\ maxfd \in Slot
        BY <4>1, <4>2, <3>3, <2>3 DEF Slot
      <4>4. \A fd \in Slot : events'[fd].mask # {} => fd <= maxfd'
        <5>1. SUFFICES ASSUME NEW fd \in Slot, events'[fd].mask # {}, fd > maxfd' PROVE FALSE
          BY <4>3 DEF Slot
        <5>2. fd # maxfd /\ events[fd].mask # {}
          BY <3>1, <3>3, <5>1
        <5>3. fd <= maxfd
          BY <5>2 DEF IndInv, MaxFdExact
        <5>4. fd \in maxfd' + 1 .. maxfd - 1
          <6>1. fd \in Int /\ maxfd \in Int /\ maxfd' \in Int
            BY <4>3 DEF Slot
          <6>2. maxfd' < fd /\ fd <= maxfd /\ fd # maxfd
            BY <5>1, <5>2, <5>3, <6>1
          <6>. QED
            BY <6>1, <6>2, Between
        <5>. QED
          BY <4>1, <5>2, <5>4
      <4>. QED
        BY <4>1, <4>2, <4>3, <4>4, <3>1, <3>3 DEF MaxFdExact, Slot
    <3>. QED
      BY <3>2, <3>3
  <2>. QED
    BY <2>4, <2>5, <2>6
<1>. QED
  BY <1>2, <1>3 DEF DoRead

\* Every step keeps table, kernel and maxfd in step.
LEMMA TableStep == IndInv /\ [Next]_vars => EventShape' /\ KernelShape' /\ MaxFdExact'
<1> SUFFICES ASSUME IndInv, [Next]_vars PROVE EventShape' /\ KernelShape' /\ MaxFdExact'
  OBVIOUS
<1>1. ASSUME NEW e \in fired, DoAccept(e) \/ DoRead(e)
      PROVE  EventShape' /\ KernelShape' /\ MaxFdExact'
  BY <1>1, TableDoAccept, TableDoRead
<1>2. CASE UNCHANGED <<events, fdset, maxfd, mid>>
  BY <1>2 DEF IndInv, EventShape, KernelShape, MaxFdExact, Session
<1>3. CASE \/ LoopTurn /\ UNCHANGED <<kernelVars, serverVars>>
           \/ StopServer \/ ClientStep \/ UNCHANGED vars
           \/ \E e \in fired : AcceptOutOfBounds(e)
  <2>1. UNCHANGED <<events, fdset, maxfd, mid>>
    BY <1>3 DEF AcceptOutOfBounds, LoopTurn, TestStop, Poll, SkipEntry, BatchDone, StopServer, AeStop,
                ClientStep, Connect, Send, Leave, vars, aeVars, kernelVars, serverVars
  <2>. QED
    BY <1>2, <2>1
<1>. QED
  BY <1>1, <1>3 DEF Next, LoopStep, Returned

(* Where connections are. *)
LEMMA ConnPlacesInit == Init => ConnPlaces
<1> SUFFICES ASSUME Init PROVE ConnPlaces
  OBVIOUS
<1>1. /\ backlog = <<>> /\ phase = [c \in Conn |-> "idle"]
      /\ sock = [fd \in ClientFd |-> NoConn]
      /\ events = [fd \in Slot |-> IF fd = ListenFd THEN ListenEvent ELSE NoEvent]
  BY DEF Init
<1>2. Registered = {}
  BY <1>1 DEF Registered, NoEvent, ClientFd
<1>. QED
  BY <1>1, <1>2 DEF ConnPlaces

\* A new connection enters the backlog, and is nowhere else.
LEMMA ConnPlacesConnect ==
  ASSUME IndInv, NEW c \in Conn, Connect(c)
  PROVE  ConnPlaces'
<1>1. /\ backlog \in Seq(Conn) /\ phase \in [Conn -> {"idle", "queued", "open"}]
      /\ sock \in [ClientFd -> Conn \cup {NoConn}]
  BY DEF IndInv, TypeOK
<1>2. /\ listening /\ listening' = listening /\ phase[c] = "idle"
      /\ phase' = [phase EXCEPT ![c] = "queued"] /\ backlog' = Append(backlog, c)
      /\ sock' = sock /\ Registered' = Registered
  BY DEF Connect, aeVars, Registered
<1>3. \A i \in DOMAIN backlog : backlog[i] # c
  BY <1>2 DEF IndInv, ConnPlaces
<1>4. /\ DOMAIN backlog' = DOMAIN backlog \cup {Len(backlog) + 1}
      /\ \A i \in DOMAIN backlog : backlog'[i] = backlog[i]
      /\ backlog'[Len(backlog) + 1] = c /\ Len(backlog) + 1 \notin DOMAIN backlog
  BY <1>1, <1>2
<1>. QED
  BY <1>1, <1>2, <1>3, <1>4 DEF IndInv, ConnPlaces

\* An accepted connection moves from the backlog to one descriptor, and the
\* failure path empties the backlog.
LEMMA ConnPlacesAccept ==
  ASSUME IndInv, NEW e \in fired, DoAccept(e)
  PROVE  ConnPlaces'
<1>. DEFINE h == Head(backlog)
<1>1. /\ backlog \in Seq(Conn) /\ phase \in [Conn -> {"idle", "queued", "open"}]
      /\ sock \in [ClientFd -> Conn \cup {NoConn}] /\ backlog # <<>> /\ h \in Conn
  BY AcceptFacts DEF IndInv, TypeOK
<1>2. /\ 1 \in DOMAIN backlog /\ backlog[1] = h
      /\ DOMAIN Tail(backlog) = 1 .. Len(backlog) - 1 /\ DOMAIN backlog = 1 .. Len(backlog)
      /\ \A i \in DOMAIN Tail(backlog) : Tail(backlog)[i] = backlog[i + 1] /\ i + 1 \in DOMAIN backlog
  BY <1>1
<1>3. phase[h] = "queued"
  BY <1>1, <1>2 DEF IndInv, ConnPlaces
<1>4. \A fd \in ClientFd : sock[fd] # h
  BY <1>1, <1>3 DEF IndInv, ConnPlaces
<1>5. \A i \in DOMAIN Tail(backlog) : Tail(backlog)[i] # h
  BY <1>1, <1>2 DEF IndInv, ConnPlaces
<1>6. \A c \in Conn : (\E i \in DOMAIN backlog : backlog[i] = c) <=>
                      c = h \/ \E i \in DOMAIN Tail(backlog) : Tail(backlog)[i] = c
  <2>1. \A i \in DOMAIN backlog : i = 1 \/ (i - 1 \in DOMAIN Tail(backlog) /\ Tail(backlog)[i - 1] = backlog[i])
    BY <1>2
  <2>. QED
    BY <1>2, <2>1
<1>7. CASE AcceptRegisters(e)
  <2>1. PICK cfd \in ClientFd :
          /\ Accept(cfd)
          /\ CreateFileEvent(cfd, {READABLE}, "DoRead", TakenSession)
          /\ backlog' = Tail(backlog)
          /\ phase' = [phase EXCEPT ![h] = "open"]
          /\ UNCHANGED <<listening, inbox, ended>>
    BY <1>7 DEF AcceptRegisters
  <2>2. /\ sock[cfd] = NoConn /\ sock' = [sock EXCEPT ![cfd] = h]
        /\ Registered' = Registered \cup {cfd}
    BY <2>1, RegisterEffect
  <2>3. \A i, j \in DOMAIN backlog' : backlog'[i] = backlog'[j] => i = j
    BY <1>1, <1>2, <2>1 DEF IndInv, ConnPlaces
  <2>4. \A c \in Conn : phase'[c] = "queued" <=> \E i \in DOMAIN backlog' : backlog'[i] = c
    BY <1>1, <1>5, <1>6, <2>1 DEF IndInv, ConnPlaces
  <2>. HIDE DEF h
  <2>5. \A fd \in ClientFd : sock'[fd] # NoConn => phase'[sock'[fd]] = "open"
    BY <1>1, <1>4, <2>1, <2>2 DEF IndInv, ConnPlaces
  <2>6. \A fd, gd \in ClientFd : sock'[fd] # NoConn /\ sock'[fd] = sock'[gd] => fd = gd
    BY <1>1, <1>4, <2>1, <2>2 DEF IndInv, ConnPlaces
  <2>7. backlog' # <<>> => listening'
    BY AcceptFacts, <2>1
  <2>8. \A fd \in Registered' : sock'[fd] # NoConn
    <3>1. \A fd \in Registered : fd \in ClientFd /\ sock[fd] # NoConn
      BY DEF IndInv, ConnPlaces, Registered
    <3>. QED
      BY <1>1, <2>2, <3>1
  <2>9. listening' => \A fd \in ClientFd : sock'[fd] # NoConn => fd \in Registered'
    BY <1>1, <2>1, <2>2 DEF IndInv, ConnPlaces
  <2>. QED
    BY <2>3, <2>4, <2>5, <2>6, <2>7, <2>8, <2>9 DEF ConnPlaces
<1>8. CASE AcceptNotRegistered(e)
  <2>. DEFINE left == Tail(backlog)  reset == {left[i] : i \in DOMAIN left}
  <2>0. CloseListener(left) /\ UNCHANGED events /\ \E cfd \in ClientFd : Accept(cfd)
    BY <1>8 DEF AcceptNotRegistered, CreateFileEventFails
  <2>1. /\ listening' = FALSE /\ backlog' = <<>>
        /\ phase' = [c \in Conn |-> IF c \in reset THEN "idle"
                              ELSE IF phase[c] = "queued" THEN "open" ELSE phase[c]]
    BY <2>0 DEF CloseListener
  <2>2. \A c \in reset : phase[c] = "queued" /\ c \in Conn
    <3>1. \A c \in reset : c \in Conn /\ \E i \in DOMAIN backlog : backlog[i] = c
      BY <1>1, <1>2
    <3>. QED
      BY <3>1 DEF IndInv, ConnPlaces
  <2>3. h \notin reset
    BY <1>5
  <2>. HIDE DEF reset, left, h
  <2>5. \A c \in Conn : phase'[c] # "queued"
    BY <2>1, <1>1
  <2>6. Registered' = Registered
    BY <2>0 DEF Registered
  <2>. QED
    <3>1. PICK cfd \in ClientFd : sock[cfd] = NoConn /\ sock' = [sock EXCEPT ![cfd] = h]
      BY <2>0 DEF Accept, FreeFd, h
    <3>2. phase'[h] = "open"
      BY <1>1, <1>3, <2>1, <2>3
    <3>3. \A fd \in ClientFd : sock[fd] # NoConn => phase'[sock[fd]] = "open"
      BY <1>1, <2>1, <2>2 DEF IndInv, ConnPlaces
    <3>4. \A fd \in ClientFd : sock'[fd] # NoConn => phase'[sock'[fd]] = "open"
      BY <1>1, <3>1, <3>2, <3>3
    <3>5. \A fd, gd \in ClientFd : sock'[fd] # NoConn /\ sock'[fd] = sock'[gd] => fd = gd
      BY <1>1, <1>4, <3>1 DEF IndInv, ConnPlaces
    <3>6. \A fd \in Registered' : sock'[fd] # NoConn
      BY <1>1, <2>6, <3>1 DEF IndInv, ConnPlaces, Registered
    <3>. QED
      BY <2>1, <2>5, <3>4, <3>5, <3>6 DEF ConnPlaces
<1>. QED
  BY <1>7, <1>8 DEF DoAccept

\* A closed connection leaves its descriptor.
LEMMA ConnPlacesRead ==
  ASSUME IndInv, NEW e \in fired, DoRead(e)
  PROVE  ConnPlaces'
<1>1. /\ backlog \in Seq(Conn) /\ phase \in [Conn -> {"idle", "queued", "open"}]
      /\ sock \in [ClientFd -> Conn \cup {NoConn}]
  BY DEF IndInv, TypeOK
<1>2. CASE ReadBytes(e, sock[e.fd])
  BY <1>2 DEF ReadBytes, IndInv, ConnPlaces, Registered
<1>3. CASE ReadEnd(e, sock[e.fd], events[e.fd].clientData)
  <2>1. /\ sock' = [sock EXCEPT ![e.fd] = NoConn] /\ Registered' = Registered \ {e.fd}
    BY <1>3, EndEffect
  <2>2. /\ phase' = [phase EXCEPT ![sock[e.fd]] = "idle"]
        /\ backlog' = backlog /\ listening' = listening
    BY <1>3 DEF ReadEnd
  <2>3. e.fd \in ClientFd /\ sock[e.fd] \in Conn /\ sock[e.fd] # NoConn
    BY ReadFacts
  <2>4. phase[sock[e.fd]] = "open"
    BY <2>3 DEF IndInv, ConnPlaces
  <2>5. \A c \in Conn : phase'[c] = "queued" <=> phase[c] = "queued"
    BY <1>1, <2>2, <2>4
  <2>6. \A fd \in ClientFd : sock'[fd] # NoConn => phase'[sock'[fd]] = "open"
    <3>1. SUFFICES ASSUME NEW fd \in ClientFd, sock'[fd] # NoConn
                   PROVE  phase'[sock'[fd]] = "open"
      OBVIOUS
    <3>2. fd # e.fd /\ sock'[fd] = sock[fd]
      BY <1>1, <2>1, <3>1
    <3>3. sock[fd] # sock[e.fd] /\ phase[sock[fd]] = "open"
      BY <2>3, <3>1, <3>2 DEF IndInv, ConnPlaces
    <3>. QED
      BY <1>1, <2>2, <3>1, <3>2, <3>3
  <2>7. \A fd, gd \in ClientFd : sock'[fd] # NoConn /\ sock'[fd] = sock'[gd] => fd = gd
    BY <1>1, <2>1 DEF IndInv, ConnPlaces
  <2>8. \A fd \in Registered' : sock'[fd] # NoConn
    BY <1>1, <2>1 DEF IndInv, ConnPlaces, Registered
  <2>9. listening' => \A fd \in ClientFd : sock'[fd] # NoConn => fd \in Registered'
    BY <1>1, <2>1, <2>2 DEF IndInv, ConnPlaces
  <2>. QED
    BY <2>2, <2>5, <2>6, <2>7, <2>8, <2>9 DEF IndInv, ConnPlaces
<1>. QED
  BY <1>2, <1>3 DEF DoRead

\* Every step keeps each connection in one place.
LEMMA ConnPlacesStep == IndInv /\ [Next]_vars => ConnPlaces'
<1> SUFFICES ASSUME IndInv, [Next]_vars PROVE ConnPlaces'
  OBVIOUS
<1>1. ASSUME NEW e \in fired, DoAccept(e) \/ DoRead(e) PROVE ConnPlaces'
  BY <1>1, ConnPlacesAccept, ConnPlacesRead
<1>2. ASSUME NEW c \in Conn, Connect(c) PROVE ConnPlaces'
  BY <1>2, ConnPlacesConnect
<1>3. CASE \/ LoopTurn /\ UNCHANGED <<kernelVars, serverVars>>
           \/ StopServer \/ (\E c \in Conn : Send(c) \/ Leave(c)) \/ UNCHANGED vars
           \/ \E e \in fired : AcceptOutOfBounds(e)
  <2>1. UNCHANGED <<events, backlog, listening, phase, sock>>
    BY <1>3 DEF AcceptOutOfBounds, LoopTurn, TestStop, Poll, SkipEntry, BatchDone, StopServer, AeStop,
                Send, Leave, vars, aeVars, kernelVars, serverVars
  <2>. QED
    BY <2>1 DEF IndInv, ConnPlaces, Registered
<1>. QED
  BY <1>1, <1>2, <1>3 DEF Next, LoopStep, Returned, ClientStep

(* Sessions and their ids. *)

\* The counting argument: with no idle session and no orphan, every session
\* sits in a slot of the event table, and no two in the same one.
LEMMA FewSessions ==
  ASSUME IndInv, listening, free = <<>>
  PROVE  Len(mid) <= SetSize
<1>. DEFINE f == [s \in Session |-> CHOOSE fd \in Registered : Holder(fd) = s]
<1>1. \A s \in Session : \E fd \in Registered : Holder(fd) = s
  BY DEF IndInv, SessionPlaces
<1>2. \A s \in Session : f[s] \in Registered /\ Holder(f[s]) = s
  BY <1>1
<1>3. Registered \subseteq 0 .. SetSize - 1
  BY DEF Registered, Slot
<1>4. f \in Injection(Session, 0 .. SetSize - 1)
  <2>1. f \in [Session -> 0 .. SetSize - 1]
    BY <1>2, <1>3
  <2>2. \A s, t \in Session : f[s] = f[t] => s = t
    BY <1>2
  <2>. QED
    BY <2>1, <2>2 DEF Injection, IsInjective
<1>5. IsFiniteSet(0 .. SetSize - 1) /\ Cardinality(0 .. SetSize - 1) = SetSize
  BY FS_Interval
<1>6. Len(mid) \in Nat
  BY DEF IndInv, TypeOK
<1>7. IsFiniteSet(Session) /\ Cardinality(Session) = Len(mid)
  <2>1. /\ IsFiniteSet(1 .. Len(mid))
        /\ Cardinality(1 .. Len(mid)) = IF 1 > Len(mid) THEN 0 ELSE Len(mid) - 1 + 1
    BY <1>6, FS_Interval
  <2>. QED
    BY <1>6, <2>1 DEF Session
<1>. QED
  BY <1>4, <1>5, <1>7, FS_Injection

\* The session DoAccept takes is held by nobody and idle no more; a new one is
\* made only when all others are held.
LEMMA TakeEffect ==
  ASSUME IndInv, listening, TakeSession
  PROVE  /\ idGen' = Len(mid') - 1
         /\ \A s \in Session' : mid'[s] = s - 1
         /\ TakenSession \in Session' /\ TakenId = TakenSession - 1
         /\ Session' \subseteq Session \cup {TakenSession}
         /\ Session \subseteq Session'
         /\ \A fd \in Registered : Holder(fd) # TakenSession
         /\ \A s \in Session : (\E i \in DOMAIN free : free[i] = s) =>
               s = TakenSession \/ \E i \in DOMAIN free' : free'[i] = s
         /\ \A i \in DOMAIN free' : free'[i] # TakenSession /\ \E j \in DOMAIN free : free[j] = free'[i]
         /\ \A i, j \in DOMAIN free' : free'[i] = free'[j] => i = j
         /\ \A s \in Session : mid'[s] = mid[s]
<1>. DEFINE n == Len(mid)
<1>0. /\ mid \in Seq(Id) /\ free \in Seq(Session) /\ n \in Nat /\ Session = 1 .. n
      /\ idGen = n - 1 /\ \A s \in Session : mid[s] = s - 1
      /\ \A fd \in Registered : Holder(fd) \in Session
      /\ \A i, j \in DOMAIN free : free[i] = free[j] => i = j
      /\ \A fd \in Registered : \A i \in DOMAIN free : free[i] # Holder(fd)
  BY DEF IndInv, TypeOK, SessionPlaces, SessionOwnership, Session
<1>1. CASE free = <<>>
  <2>1. mid' = Append(mid, NextId) /\ idGen' = NextId /\ free' = free
    BY <1>1 DEF TakeSession
  <2>2. NextId = n
    <3>1. n <= SetSize
      BY <1>1, FewSessions
    <3>2. idGen + 1 = n /\ n < IdSpace
      BY <1>0, <3>1
    <3>3. n % IdSpace = n
      BY <1>0, <3>2, ModSmall
    <3>. QED
      BY <3>2, <3>3 DEF NextId
  <2>3. Len(mid') = n + 1 /\ mid'[n + 1] = n /\ \A s \in 1 .. n : mid'[s] = mid[s]
    BY <1>0, <2>1, <2>2
  <2>4. Session' = 1 .. n + 1
    BY <2>3 DEF Session
  <2>5. TakenSession = n + 1 /\ TakenId = n
    BY <1>1, <2>2 DEF TakenSession, TakenId
  <2>6. DOMAIN free = {} /\ DOMAIN free' = {}
    BY <1>1, <2>1
  <2>. HIDE DEF n
  <2>. QED
    BY <1>0, <2>1, <2>2, <2>3, <2>4, <2>5, <2>6
<1>2. CASE free # <<>>
  <2>1. mid' = mid /\ idGen' = idGen /\ free' = Tail(free) /\ Session' = Session
    BY <1>2 DEF TakeSession, Session
  <2>2. TakenSession = Head(free) /\ TakenId = mid[Head(free)]
    BY <1>2 DEF TakenSession, TakenId
  <2>3. /\ 1 \in DOMAIN free /\ free[1] = Head(free) /\ Head(free) \in Session
        /\ DOMAIN free = 1 .. Len(free) /\ DOMAIN Tail(free) = 1 .. Len(free) - 1
        /\ \A i \in DOMAIN Tail(free) : Tail(free)[i] = free[i + 1] /\ i + 1 \in DOMAIN free
    BY <1>0, <1>2
  <2>4. \A i \in DOMAIN free : i = 1 \/ (i - 1 \in DOMAIN Tail(free) /\ Tail(free)[i - 1] = free[i])
    BY <2>3
  <2>5. \A i, j \in DOMAIN Tail(free) : Tail(free)[i] = Tail(free)[j] => i = j
    BY <1>0, <2>3
  <2>6. \A i \in DOMAIN Tail(free) : Tail(free)[i] # Head(free)
    BY <1>0, <2>3
  <2>7. idGen' = Len(mid') - 1 /\ \A s \in Session' : mid'[s] = s - 1
    BY <1>0, <2>1
  <2>8. TakenSession \in Session' /\ TakenId = TakenSession - 1
    BY <1>0, <2>1, <2>2, <2>3
  <2>9. \A fd \in Registered : Holder(fd) # TakenSession
    BY <1>0, <2>2, <2>3
  <2>10. \A s \in Session : (\E i \in DOMAIN free : free[i] = s) =>
               s = TakenSession \/ \E i \in DOMAIN free' : free'[i] = s
    BY <2>1, <2>2, <2>3, <2>4
  <2>11. \A i \in DOMAIN free' : free'[i] # TakenSession /\ \E j \in DOMAIN free : free[j] = free'[i]
    BY <2>1, <2>2, <2>3, <2>6
  <2>. HIDE DEF n
  <2>. QED
    BY <2>1, <2>5, <2>7, <2>8, <2>9, <2>10, <2>11
<1>. QED
  BY <1>1, <1>2

\* At the start all sessions are idle.
LEMMA SessionInit == Init => SessionPlaces /\ SessionOwnership
<1> SUFFICES ASSUME Init PROVE SessionPlaces /\ SessionOwnership
  OBVIOUS
<1>1. /\ mid = [i \in 1 .. PoolSize |-> i - 1] /\ free = [i \in 1 .. PoolSize |-> i]
      /\ idGen = PoolSize - 1
      /\ events = [fd \in Slot |-> IF fd = ListenFd THEN ListenEvent ELSE NoEvent]
  BY DEF Init
<1>2. Registered = {}
  BY <1>1 DEF Registered, NoEvent, ClientFd
<1>3. Len(mid) = PoolSize /\ Session = 1 .. PoolSize
  BY <1>1 DEF Session
<1>4. SessionPlaces
  BY <1>1, <1>3 DEF SessionPlaces
<1>5. SessionOwnership
  BY <1>1, <1>2 DEF SessionOwnership
<1>. QED
  BY <1>4, <1>5

\* DoAccept keeps every session idle or held, and by one client.
LEMMA SessionAccept ==
  ASSUME IndInv, NEW e \in fired, DoAccept(e)
  PROVE  SessionPlaces' /\ SessionOwnership'
<1>. DEFINE t == TakenSession
<1>0. listening /\ TakeSession
  BY AcceptFacts DEF DoAccept
<1>1. /\ idGen' = Len(mid') - 1 /\ \A s \in Session' : mid'[s] = s - 1
      /\ t \in Session' /\ TakenId = t - 1
      /\ Session' \subseteq Session \cup {t} /\ Session \subseteq Session'
      /\ \A fd \in Registered : Holder(fd) # t
      /\ \A s \in Session : (\E i \in DOMAIN free : free[i] = s) =>
               s = t \/ \E i \in DOMAIN free' : free'[i] = s
      /\ \A i \in DOMAIN free' : free'[i] # t /\ \E j \in DOMAIN free : free[j] = free'[i]
      /\ \A i, j \in DOMAIN free' : free'[i] = free'[j] => i = j
      /\ \A s \in Session : mid'[s] = mid[s]
  BY <1>0, TakeEffect
<1>2. sessions' = [id \in DOMAIN sessions \cup {TakenId} |->
                    IF id = TakenId THEN t ELSE sessions[id]]
  BY <1>0 DEF TakeSession
<1>3. \A fd \in Registered : Holder(fd) \in Session
  BY DEF IndInv, SessionOwnership
<1>4. \A s \in Session : s \in Int /\ mid[s] = s - 1
  BY DEF IndInv, SessionPlaces, Session
<1>5. t \in Int
  BY <1>1 DEF Session
<1>6. \A fd \in Registered :
        /\ Holder(fd) \in Session'
        /\ mid'[Holder(fd)] \in DOMAIN sessions'
        /\ sessions'[mid'[Holder(fd)]] = Holder(fd)
        /\ \A i \in DOMAIN free' : free'[i] # Holder(fd)
  <2>1. SUFFICES ASSUME NEW fd \in Registered
                 PROVE  /\ Holder(fd) \in Session'
                        /\ mid'[Holder(fd)] \in DOMAIN sessions'
                        /\ sessions'[mid'[Holder(fd)]] = Holder(fd)
                        /\ \A i \in DOMAIN free' : free'[i] # Holder(fd)
    OBVIOUS
  <2>2. /\ Holder(fd) \in Session /\ Holder(fd) # t /\ mid'[Holder(fd)] = mid[Holder(fd)]
        /\ mid[Holder(fd)] # TakenId
    <3>1. Holder(fd) \in Session /\ Holder(fd) # t
      BY <1>1, <1>3
    <3>2. mid[Holder(fd)] = Holder(fd) - 1 /\ Holder(fd) \in Int
      BY <1>4, <3>1
    <3>. HIDE DEF t
    <3>3. mid[Holder(fd)] # TakenId
      BY <1>1, <1>5, <3>1, <3>2
    <3>. QED
      BY <1>1, <3>1, <3>3
  <2>3. /\ mid[Holder(fd)] \in DOMAIN sessions
        /\ sessions[mid[Holder(fd)]] = Holder(fd)
        /\ \A i \in DOMAIN free : free[i] # Holder(fd)
    BY DEF IndInv, SessionOwnership
  <2>. QED
    BY <1>1, <1>2, <2>2, <2>3
<1>7. mid'[t] = TakenId /\ TakenId \in DOMAIN sessions' /\ sessions'[TakenId] = t
  BY <1>1, <1>2
<1>8. CASE AcceptRegisters(e)
  <2>1. PICK cfd \in ClientFd :
          /\ Accept(cfd)
          /\ CreateFileEvent(cfd, {READABLE}, "DoRead", TakenSession)
          /\ UNCHANGED listening
    BY <1>8 DEF AcceptRegisters
  <2>2. /\ cfd \in Slot /\ cfd \notin Registered /\ Registered' = Registered \cup {cfd}
        /\ events' = [events EXCEPT ![cfd] =
                         [mask |-> {READABLE}, rfileProc |-> "DoRead",
                          wfileProc |-> events[cfd].wfileProc, clientData |-> t]]
    BY <2>1, RegisterEffect
  <2>3. events'[cfd].clientData = t /\ \A fd \in Registered : events'[fd].clientData = Holder(fd)
    BY <2>2 DEF IndInv, TypeOK, Registered, Holder
  <2>. HIDE DEF t
  <2>4. SessionOwnership'
    BY <1>1, <1>6, <1>7, <2>2, <2>3 DEF IndInv, SessionOwnership, Holder
  <2>5. ASSUME NEW s \in Session'
        PROVE  \/ \E i \in DOMAIN free' : free'[i] = s
               \/ \E fd \in Registered' : events'[fd].clientData = s
    <3>1. CASE s = t
      BY <2>2, <2>3, <3>1
    <3>2. CASE s # t
      <4>1. s \in Session
        BY <1>1, <3>2
      <4>2. (\E i \in DOMAIN free : free[i] = s) \/ \E fd \in Registered : Holder(fd) = s
        BY <1>0, <4>1 DEF IndInv, SessionPlaces
      <4>. QED
        BY <1>1, <2>2, <2>3, <3>2, <4>1, <4>2
    <3>. QED
      BY <3>1, <3>2
  <2>6. SessionPlaces'
    BY <1>1, <2>5 DEF SessionPlaces, Holder
  <2>. QED
    BY <2>4, <2>6
<1>9. CASE AcceptNotRegistered(e)
  <2>1. events' = events /\ listening' = FALSE
    BY <1>9 DEF AcceptNotRegistered, CloseListener, CreateFileEventFails
  <2>2. Registered' = Registered /\ \A fd \in Registered : events'[fd].clientData = Holder(fd)
    BY <2>1 DEF Registered, Holder
  <2>. HIDE DEF t
  <2>3. SessionOwnership'
    BY <1>1, <1>6, <2>1, <2>2 DEF IndInv, SessionOwnership, Holder
  <2>4. SessionPlaces'
    BY <1>1, <2>1 DEF SessionPlaces
  <2>. QED
    BY <2>3, <2>4
<1>. QED
  BY <1>8, <1>9 DEF DoAccept

\* DoRead gives back the session of the client that left, and no other.
LEMMA SessionRead ==
  ASSUME IndInv, NEW e \in fired, DoRead(e)
  PROVE  SessionPlaces' /\ SessionOwnership'
<1>1. CASE ReadBytes(e, sock[e.fd])
  BY <1>1 DEF ReadBytes, serverVars, IndInv, SessionPlaces, SessionOwnership, Registered,
              Holder, Session
<1>2. CASE ReadEnd(e, sock[e.fd], events[e.fd].clientData)
  <2>. DEFINE s == Holder(e.fd)
  <2>1. /\ free' = Append(free, s)
        /\ sessions' = [id \in DOMAIN sessions \ {mid[s]} |-> sessions[id]]
        /\ UNCHANGED <<listening, mid, idGen>>
    BY <1>2 DEF ReadEnd, Holder
  <2>2. e.fd \in Registered /\ s \in Session /\ e.fd \in Slot
    BY ReadFacts
  <2>3. /\ Registered' = Registered \ {e.fd} /\ events' = [events EXCEPT ![e.fd].mask = {}]
    BY <1>2, EndEffect
  <2>4. \A fd \in Registered' : fd \in Registered /\ fd # e.fd /\ events'[fd].clientData = Holder(fd)
    BY <2>2, <2>3 DEF IndInv, TypeOK, Registered, Holder
  <2>5. Session' = Session /\ free \in Seq(Session) /\ \A x \in Session : mid[x] = x - 1 /\ x \in Int
    BY <2>1 DEF IndInv, TypeOK, SessionPlaces, Session
  <2>6. /\ DOMAIN free' = DOMAIN free \cup {Len(free) + 1} /\ Len(free) + 1 \notin DOMAIN free
        /\ \A i \in DOMAIN free : free'[i] = free[i]
        /\ free'[Len(free) + 1] = s
    BY <2>1, <2>5
  <2>7. /\ \A i \in DOMAIN free : free[i] # s
        /\ \A i, j \in DOMAIN free : free[i] = free[j] => i = j
        /\ \A fd \in Registered' : Holder(fd) # s
    BY <2>2, <2>4 DEF IndInv, SessionOwnership
  <2>. HIDE DEF s
  <2>8. ASSUME NEW fd \in Registered'
        PROVE  /\ Holder(fd) \in Session
               /\ mid[Holder(fd)] \in DOMAIN sessions'
               /\ sessions'[mid[Holder(fd)]] = Holder(fd)
               /\ \A i \in DOMAIN free' : free'[i] # Holder(fd)
    <3>1. /\ Holder(fd) \in Session
          /\ mid[Holder(fd)] \in DOMAIN sessions
          /\ sessions[mid[Holder(fd)]] = Holder(fd)
          /\ \A i \in DOMAIN free : free[i] # Holder(fd)
      BY <2>4 DEF IndInv, SessionOwnership
    <3>2. mid[Holder(fd)] # mid[s]
      BY <2>2, <2>5, <2>7, <3>1
    <3>. QED
      BY <2>1, <2>6, <2>7, <3>1, <3>2
  <2>9. SessionOwnership'
    <3>1. \A fd, gd \in Registered' : Holder(fd) = Holder(gd) => fd = gd
      BY <2>4 DEF IndInv, SessionOwnership
    <3>2. \A i, j \in DOMAIN free' : free'[i] = free'[j] => i = j
      BY <2>6, <2>7
    <3>. QED
      <4>1. \A fd \in Registered' :
              /\ events'[fd].clientData \in Session'
              /\ mid'[events'[fd].clientData] \in DOMAIN sessions'
              /\ sessions'[mid'[events'[fd].clientData]] = events'[fd].clientData
              /\ \A i \in DOMAIN free' : free'[i] # events'[fd].clientData
        <5>1. SUFFICES ASSUME NEW fd \in Registered'
                       PROVE  /\ Holder(fd) \in Session'
                              /\ mid'[Holder(fd)] \in DOMAIN sessions'
                              /\ sessions'[mid'[Holder(fd)]] = Holder(fd)
                              /\ \A i \in DOMAIN free' : free'[i] # Holder(fd)
          BY <2>4, Zenon
        <5>2. mid' = mid /\ Session' = Session
          BY <2>1, <2>5
        <5>. QED
          BY <2>8, <5>2
      <4>2. \A fd, gd \in Registered' :
              events'[fd].clientData = events'[gd].clientData => fd = gd
        BY <2>4, <3>1
      <4>. QED
        BY <3>2, <4>1, <4>2 DEF SessionOwnership, Holder
  <2>10. ASSUME listening', NEW x \in Session
         PROVE  \/ \E i \in DOMAIN free' : free'[i] = x
                \/ \E fd \in Registered' : Holder(fd) = x
    <3>1. (\E i \in DOMAIN free : free[i] = x) \/ \E fd \in Registered : Holder(fd) = x
      BY <2>1, <2>10 DEF IndInv, SessionPlaces
    <3>2. ASSUME NEW fd \in Registered, fd # e.fd PROVE fd \in Registered'
      BY <2>3, <3>2
    <3>. QED
      BY <2>6, <3>1, <3>2 DEF s
  <2>11. SessionPlaces'
    <3>1. idGen' = Len(mid') - 1 /\ \A x \in Session' : mid'[x] = x - 1
      BY <2>1, <2>5 DEF IndInv, SessionPlaces
    <3>2. \A fd \in Registered' : events'[fd].clientData = Holder(fd)
      BY <2>4
    <3>. QED
      BY <2>5, <2>10, <3>1, <3>2 DEF SessionPlaces, Holder
  <2>. QED
    BY <2>9, <2>11
<1>. QED
  BY <1>1, <1>2 DEF DoRead

\* Every step keeps the sessions in their places.
LEMMA SessionStep == IndInv /\ [Next]_vars => SessionPlaces' /\ SessionOwnership'
<1> SUFFICES ASSUME IndInv, [Next]_vars PROVE SessionPlaces' /\ SessionOwnership'
  OBVIOUS
<1>1. ASSUME NEW e \in fired, DoAccept(e) \/ DoRead(e)
      PROVE  SessionPlaces' /\ SessionOwnership'
  BY <1>1, SessionAccept, SessionRead
<1>2. CASE \/ LoopTurn /\ UNCHANGED <<kernelVars, serverVars>>
           \/ StopServer \/ ClientStep \/ UNCHANGED vars
           \/ \E e \in fired : AcceptOutOfBounds(e)
  <2>1. UNCHANGED <<events, listening, sessions, free, mid, idGen>>
    BY <1>2 DEF AcceptOutOfBounds, LoopTurn, TestStop, Poll, SkipEntry, BatchDone, StopServer, AeStop,
                ClientStep, Connect, Send, Leave, vars, aeVars, kernelVars, serverVars
  <2>. QED
    BY <2>1 DEF IndInv, SessionPlaces, SessionOwnership, Registered, Holder, Session
<1>. QED
  BY <1>1, <1>2 DEF Next, LoopStep, Returned

(* The batch of fired events. *)
LEMMA BatchInit == Init => FiredShape /\ NoBlockingCallback
  BY DEF Init, FiredShape, NoBlockingCallback

\* A new batch names registered descriptors that are ready.
LEMMA BatchPoll ==
  ASSUME IndInv, Poll(Reported), UNCHANGED <<kernelVars, serverVars>>
  PROVE  FiredShape' /\ NoBlockingCallback'
<1>1. fired' = Reported \/ fired' = {}
  BY DEF Poll
<1>2. UNCHANGED <<events, fdset, listening, backlog, sock, inbox, ended>>
  BY DEF Poll, kernelVars
<1>3. \A f \in Reported : /\ f.fd \in Polled
                          /\ f = [fd |-> f.fd, mask |-> events[f.fd].mask \cap Sees(f.fd),
                                  rfired |-> FALSE]
                          /\ f.mask = events[f.fd].mask \cap Sees(f.fd)
  BY DEF Reported, Selected, Polled
<1>4. \A f \in Reported : f.fd \in Slot /\ events[f.fd].mask # {}
  BY <1>3 DEF Polled
<1>5. FiredShape'
  <2>1. \A f, g \in Reported : f.fd = g.fd => f = g
    BY <1>3
  <2>. QED
    BY <1>1, <1>2, <1>4, <2>1 DEF FiredShape
<1>6. ASSUME NEW f \in Reported, READABLE \in f.mask
      PROVE  IF f.fd = ListenFd THEN backlog # <<>>
             ELSE inbox[sock[f.fd]] > 0 \/ ended[sock[f.fd]] # "no"
  BY <1>3, <1>6 DEF Sees
<1>7. NoBlockingCallback'
  BY <1>1, <1>2, <1>6 DEF NoBlockingCallback, ValidMask
<1>. QED
  BY <1>5, <1>7

\* Clients only make more descriptors ready.
LEMMA BatchClients ==
  ASSUME IndInv, ClientStep
  PROVE  FiredShape' /\ NoBlockingCallback'
<1>1. /\ backlog \in Seq(Conn) /\ inbox \in [Conn -> 0 .. MaxInbox]
      /\ ended \in [Conn -> {"no", "fin", "rst"}]
  BY DEF IndInv, TypeOK
<1>2. UNCHANGED <<events, fired, sock>>
  BY DEF ClientStep, Connect, Send, Leave, aeVars
<1>3. FiredShape'
  BY <1>2 DEF IndInv, FiredShape
<1>4. backlog # <<>> => backlog' # <<>>
  BY <1>1 DEF ClientStep, Connect, Send, Leave
<1>5. ASSUME NEW f \in fired, READABLE \in ValidMask(f), ~f.rfired, f.fd # ListenFd
      PROVE  sock[f.fd] \in Conn
  <2>1. f.fd \in Registered
    BY <1>5 DEF ValidMask, IndInv, EventShape, Registered
  <2>. QED
    BY <2>1 DEF IndInv, ConnPlaces, TypeOK, Registered
<1>6. \A c \in Conn : /\ inbox[c] > 0 => inbox'[c] > 0
                      /\ ended[c] # "no" => ended'[c] # "no"
  <2>1. ASSUME NEW d \in Conn, Connect(d) PROVE inbox' = inbox /\ ended' = ended
    BY <2>1 DEF Connect
  <2>2. ASSUME NEW d \in Conn, Send(d), NEW c \in Conn
        PROVE  (inbox[c] > 0 => inbox'[c] > 0) /\ ended' = ended
    BY <1>1, <2>2 DEF Send
  <2>3. ASSUME NEW d \in Conn, Leave(d), NEW c \in Conn
        PROVE  inbox' = inbox /\ (ended[c] # "no" => ended'[c] # "no")
    BY <1>1, <2>3 DEF Leave
  <2>. QED
    BY <2>1, <2>2, <2>3 DEF ClientStep
<1>7. NoBlockingCallback'
  BY <1>2, <1>4, <1>5, <1>6 DEF IndInv, NoBlockingCallback, ValidMask
<1>. QED
  BY <1>3, <1>7

\* What a callback leaves of the batch, about the entries that are still due.
LEMMA BatchAfterCallback ==
  ASSUME IndInv, NEW e \in fired, fired' = FiredAfterRead(e)
  PROVE  /\ \A f, g \in fired' : f.fd = g.fd => f = g
         /\ \A f \in fired' : ~f.rfired => f \in fired /\ f.fd # e.fd
<1>1. \A f, g \in fired : f.fd = g.fd => f = g
  BY DEF IndInv, FiredShape
<1>2. e \in Entry
  BY DEF IndInv, TypeOK
<1>3. [e EXCEPT !.rfired = TRUE].fd = e.fd /\ [e EXCEPT !.rfired = TRUE].rfired = TRUE
  BY <1>2 DEF Entry
<1>. QED
  BY <1>1, <1>3 DEF FiredAfterRead

\* DoAccept keeps the rest of the batch valid: the descriptor it registers was
\* free, so no entry names it.
LEMMA BatchAccept ==
  ASSUME IndInv, NEW e \in fired, DoAccept(e)
  PROVE  FiredShape' /\ NoBlockingCallback'
<1>1. /\ \A f, g \in fired' : f.fd = g.fd => f = g
      /\ \A f \in fired' : ~f.rfired => f \in fired /\ f.fd # ListenFd
  BY BatchAfterCallback, AcceptFacts DEF DoAccept
<1>2. /\ inbox \in [Conn -> 0 .. MaxInbox] /\ ended \in [Conn -> {"no", "fin", "rst"}]
      /\ events \in [Slot -> [mask : Mask, rfileProc : {NoProc, "DoAccept", "DoRead"},
                          wfileProc : {NoProc}, clientData : Session \cup {NoData}]]
      /\ sock \in [ClientFd -> Conn \cup {NoConn}]
  BY DEF IndInv, TypeOK
<1>3. ASSUME NEW f \in fired', ~f.rfired
      PROVE  /\ f \in fired /\ f.fd # ListenFd /\ f.fd \in Slot /\ events[f.fd].mask # {}
             /\ f.fd \in Registered /\ f.fd \in ClientFd
             /\ sock[f.fd] \in Conn /\ phase[sock[f.fd]] = "open"
  <2>1. f \in fired /\ f.fd # ListenFd /\ f.fd \in Slot /\ events[f.fd].mask # {}
    BY <1>1, <1>3 DEF IndInv, FiredShape
  <2>2. f.fd \in Registered
    BY <2>1 DEF IndInv, EventShape, Registered
  <2>. QED
    BY <1>2, <2>1, <2>2 DEF IndInv, ConnPlaces, Registered
<1>4. CASE AcceptRegisters(e)
  <2>1. PICK cfd \in ClientFd :
          /\ Accept(cfd)
          /\ CreateFileEvent(cfd, {READABLE}, "DoRead", TakenSession)
          /\ UNCHANGED <<inbox, ended>>
    BY <1>4 DEF AcceptRegisters
  <2>2. /\ cfd \in Slot /\ cfd \notin Registered
        /\ events' = [events EXCEPT ![cfd] =
                         [mask |-> {READABLE}, rfileProc |-> "DoRead",
                          wfileProc |-> events[cfd].wfileProc, clientData |-> TakenSession]]
        /\ sock' = [sock EXCEPT ![cfd] = Head(backlog)]
    BY <2>1, RegisterEffect
  <2>3. ASSUME NEW f \in fired', ~f.rfired
        PROVE  events'[f.fd] = events[f.fd] /\ sock'[f.fd] = sock[f.fd]
    <3>1. f.fd # cfd
      BY <1>3, <2>2, <2>3
    <3>. QED
      BY <1>2, <1>3, <2>2, <2>3, <3>1
  <2>4. FiredShape'
    BY <1>1, <1>3, <2>3 DEF FiredShape
  <2>5. NoBlockingCallback'
    BY <1>3, <2>1, <2>3 DEF IndInv, NoBlockingCallback, ValidMask
  <2>. QED
    BY <2>4, <2>5
<1>5. CASE AcceptNotRegistered(e)
  <2>. DEFINE left == Tail(backlog)  reset == {left[i] : i \in DOMAIN left}
  <2>0. CloseListener(left) /\ UNCHANGED events /\ \E cfd \in ClientFd : Accept(cfd)
    BY <1>5 DEF AcceptNotRegistered, CreateFileEventFails
  <2>1. FiredShape'
    BY <1>1, <1>3, <2>0 DEF FiredShape
  <2>2. \A c \in reset : phase[c] = "queued"
    <3>1. backlog \in Seq(Conn) /\ backlog # <<>>
      BY AcceptFacts
    <3>2. \A i \in DOMAIN left : \E j \in DOMAIN backlog : left[i] = backlog[j]
      BY <3>1
    <3>3. \A j \in DOMAIN backlog : backlog[j] \in Conn /\ phase[backlog[j]] = "queued"
      BY <3>1 DEF IndInv, ConnPlaces
    <3>. QED
      BY <3>2, <3>3
  <2>3. /\ inbox' = [c \in Conn |-> IF c \in reset THEN 0 ELSE inbox[c]]
        /\ ended' = [c \in Conn |-> IF c \in reset THEN "no" ELSE ended[c]]
    BY <2>0 DEF CloseListener
  <2>. HIDE DEF reset, left
  <2>4. ASSUME NEW f \in fired', ~f.rfired
        PROVE  /\ sock'[f.fd] = sock[f.fd]
               /\ inbox'[sock[f.fd]] = inbox[sock[f.fd]]
               /\ ended'[sock[f.fd]] = ended[sock[f.fd]]
    <3>1. sock'[f.fd] = sock[f.fd]
      <4>1. f.fd \in ClientFd /\ sock[f.fd] # NoConn
        BY <1>3, <2>4
      <4>. QED
        BY <1>2, <2>0, <4>1 DEF Accept, FreeFd
    <3>2. sock[f.fd] \in Conn /\ sock[f.fd] \notin reset
      BY <1>3, <2>2, <2>4
    <3>. QED
      BY <2>3, <3>1, <3>2
  <2>5. NoBlockingCallback'
    BY <1>3, <2>0, <2>4 DEF IndInv, NoBlockingCallback, ValidMask
  <2>. QED
    BY <2>1, <2>5
<1>. QED
  BY <1>4, <1>5 DEF DoAccept

\* DoRead keeps the rest of the batch valid: the entry it serves was the only
\* one for its descriptor.
LEMMA BatchRead ==
  ASSUME IndInv, NEW e \in fired, DoRead(e)
  PROVE  FiredShape' /\ NoBlockingCallback'
<1>. DEFINE c == sock[e.fd]
<1>1. /\ \A f, g \in fired' : f.fd = g.fd => f = g
      /\ \A f \in fired' : ~f.rfired => f \in fired /\ f.fd # e.fd
  BY BatchAfterCallback DEF DoRead
<1>2. /\ inbox \in [Conn -> 0 .. MaxInbox] /\ ended \in [Conn -> {"no", "fin", "rst"}]
      /\ events \in [Slot -> [mask : Mask, rfileProc : {NoProc, "DoAccept", "DoRead"},
                          wfileProc : {NoProc}, clientData : Session \cup {NoData}]]
      /\ sock \in [ClientFd -> Conn \cup {NoConn}]
  BY DEF IndInv, TypeOK
<1>3. e.fd \in Registered /\ e.fd \in ClientFd /\ e.fd \in Slot /\ c \in Conn
  BY ReadFacts
<1>4. ASSUME NEW f \in fired', ~f.rfired
      PROVE  /\ f \in fired /\ f.fd # e.fd /\ f.fd \in Slot /\ events[f.fd].mask # {}
             /\ f.fd # ListenFd => f.fd \in ClientFd /\ sock[f.fd] \in Conn /\ sock[f.fd] # c
  <2>1. f \in fired /\ f.fd # e.fd /\ f.fd \in Slot /\ events[f.fd].mask # {}
    BY <1>1, <1>4 DEF IndInv, FiredShape
  <2>2. CASE f.fd # ListenFd
    <3>1. f.fd \in Registered
      BY <2>1, <2>2 DEF IndInv, EventShape, Registered
    <3>2. f.fd \in ClientFd /\ sock[f.fd] \in Conn /\ sock[f.fd] # NoConn
      BY <1>2, <3>1 DEF IndInv, ConnPlaces, Registered
    <3>. QED
      BY <1>3, <2>1, <3>2 DEF IndInv, ConnPlaces
  <2>. QED
    BY <2>1, <2>2
<1>5. /\ backlog' = backlog
      /\ \A d \in Conn : d # c => inbox'[d] = inbox[d] /\ ended'[d] = ended[d]
      /\ \A fd \in Slot : fd # e.fd => events'[fd] = events[fd]
      /\ \A fd \in ClientFd : fd # e.fd => sock'[fd] = sock[fd]
  <2>1. CASE ReadBytes(e, c)
    BY <1>2, <1>3, <2>1 DEF ReadBytes
  <2>2. CASE ReadEnd(e, c, events[e.fd].clientData)
    BY <1>2, <1>3, <2>2, EndEffect DEF ReadEnd
  <2>. QED
    BY <2>1, <2>2 DEF DoRead
<1>. HIDE DEF c
<1>6. FiredShape'
  BY <1>1, <1>4, <1>5 DEF FiredShape
<1>7. NoBlockingCallback'
  BY <1>4, <1>5 DEF IndInv, NoBlockingCallback, ValidMask
<1>. QED
  BY <1>6, <1>7

\* Every step keeps the batch valid and its callbacks from blocking.
LEMMA BatchStep == IndInv /\ [Next]_vars => FiredShape' /\ NoBlockingCallback'
<1> SUFFICES ASSUME IndInv, [Next]_vars PROVE FiredShape' /\ NoBlockingCallback'
  OBVIOUS
<1>1. ASSUME NEW e \in fired, DoAccept(e) \/ DoRead(e)
      PROVE  FiredShape' /\ NoBlockingCallback'
  BY <1>1, BatchAccept, BatchRead
<1>2. CASE Poll(Reported) /\ UNCHANGED <<kernelVars, serverVars>>
  BY <1>2, BatchPoll
<1>3. CASE SkipEntry /\ UNCHANGED <<kernelVars, serverVars>>
  <2>1. fired' \subseteq fired /\ UNCHANGED <<events, backlog, sock, inbox, ended>>
    BY <1>3 DEF SkipEntry, kernelVars
  <2>. QED
    BY <2>1 DEF IndInv, FiredShape, NoBlockingCallback, ValidMask
<1>4. CASE \/ (TestStop \/ BatchDone) /\ UNCHANGED <<kernelVars, serverVars>>
           \/ StopServer \/ UNCHANGED vars
           \/ \E e \in fired : AcceptOutOfBounds(e)
  <2>1. UNCHANGED <<events, fired, backlog, sock, inbox, ended>>
    BY <1>4 DEF AcceptOutOfBounds, TestStop, BatchDone, StopServer, AeStop, vars, aeVars, kernelVars
  <2>. QED
    BY <2>1 DEF IndInv, FiredShape, NoBlockingCallback, ValidMask
<1>5. CASE ClientStep
  BY <1>5, BatchClients
<1>. QED
  BY <1>1, <1>2, <1>3, <1>4, <1>5 DEF Next, LoopStep, LoopTurn, Returned

-----------------------------------------------------------------------------

\* Every step keeps the invariant.
LEMMA IndInvStep == IndInv /\ [Next]_vars => IndInv'
<1> SUFFICES ASSUME IndInv, [Next]_vars PROVE IndInv'
  OBVIOUS
<1>1. TypeOK'
  BY TypeStep DEF IndInv
<1>2. EventShape' /\ KernelShape' /\ MaxFdExact'
  BY TableStep
<1>3. ConnPlaces'
  BY ConnPlacesStep
<1>4. SessionPlaces' /\ SessionOwnership'
  BY SessionStep
<1>5. FiredShape' /\ NoBlockingCallback'
  BY BatchStep
<1>. QED
  BY <1>1, <1>2, <1>3, <1>4, <1>5 DEF IndInv

\* The invariant holds initially and every step keeps it.
THEOREM IndInvCorrect == Spec => []IndInv
<1>1. Init => IndInv
  BY TypeInit, TableInit, ConnPlacesInit, SessionInit, BatchInit DEF IndInv
<1>. QED
  BY <1>1, IndInvStep, PTL DEF Spec

\* Descriptors, sessions and ids stay in range, for any number of clients.
THEOREM TypeCorrect == Spec => []TypeOK
<1>1. IndInv => TypeOK
  BY DEF IndInv
<1>. QED
  BY <1>1, IndInvCorrect, PTL

\* The event table, the descriptor sets and the kernel agree in every state.
THEOREM TableCorrect == Spec => []TableMatchesKernel
<1>1. IndInv => TableMatchesKernel
  <2> SUFFICES ASSUME IndInv PROVE TableMatchesKernel
    OBVIOUS
  <2>1. \A fd \in ClientFd \cap Slot : fdset[fd] = events[fd].mask
    BY DEF IndInv, KernelShape, ClientFd, Fd
  <2>. QED
    BY <2>1 DEF IndInv, ConnPlaces, TableMatchesKernel
<1>. QED
  BY <1>1, IndInvCorrect, PTL

\* maxfd is exact through every order of registrations and removals.
THEOREM MaxFdCorrect == Spec => []MaxFdExact
<1>1. IndInv => MaxFdExact
  BY DEF IndInv
<1>. QED
  BY <1>1, IndInvCorrect, PTL

\* No two clients share a session, and none has a session that is idle.
THEOREM OwnershipCorrect == Spec => []SessionOwnership
<1>1. IndInv => SessionOwnership
  BY DEF IndInv
<1>. QED
  BY <1>1, IndInvCorrect, PTL

\* Ids never wrap: SetSize < IdSpace is enough, whatever happens.
THEOREM IdsCorrect == Spec => []SessionIdsUnique
<1>1. IndInv => SessionIdsUnique
  BY DEF IndInv, SessionPlaces, SessionIdsUnique, Session
<1>. QED
  BY <1>1, IndInvCorrect, PTL

\* No callback the loop may run finds its descriptor without work.
THEOREM LoopNeverBlocks == Spec => []NoBlockingCallback
<1>1. IndInv => NoBlockingCallback
  BY DEF IndInv
<1>. QED
  BY <1>1, IndInvCorrect, PTL

\* A descriptor is closed only when its connection has ended and is read.
THEOREM CloseCorrect == Spec => NoEarlyClose
<1>1. IndInv /\ [Next]_vars =>
        [\A fd \in ClientFd : sock[fd] # NoConn /\ sock'[fd] = NoConn =>
           inbox[sock[fd]] = 0 /\ ended[sock[fd]] # "no"]_vars
  <2> SUFFICES ASSUME IndInv, [Next]_vars, NEW fd \in ClientFd,
                      sock[fd] # NoConn, sock'[fd] = NoConn
               PROVE  inbox[sock[fd]] = 0 /\ ended[sock[fd]] # "no"
    OBVIOUS
  <2>1. sock \in [ClientFd -> Conn \cup {NoConn}]
    BY DEF IndInv, TypeOK
  <2>2. ASSUME NEW e \in fired, DoRead(e)
        PROVE  inbox[sock[fd]] = 0 /\ ended[sock[fd]] # "no"
    <3>1. CASE ReadBytes(e, sock[e.fd])
      BY <3>1 DEF ReadBytes
    <3>2. CASE ReadEnd(e, sock[e.fd], events[e.fd].clientData)
      <4>1. sock' = [sock EXCEPT ![e.fd] = NoConn]
        BY <2>2, <3>2, EndEffect
      <4>2. fd = e.fd
        BY <2>1, <4>1
      <4>. QED
        BY <3>2, <4>2 DEF ReadEnd
    <3>. QED
      BY <2>2, <3>1, <3>2 DEF DoRead
  <2>3. ASSUME NEW e \in fired, DoAccept(e) PROVE FALSE
    <3>1. Head(backlog) \in Conn
      BY <2>3, AcceptFacts
    <3>2. sock' = sock \/ \E cfd \in ClientFd : sock' = [sock EXCEPT ![cfd] = Head(backlog)]
      BY <2>3 DEF DoAccept, AcceptRegisters, AcceptNotRegistered, Accept
    <3>. QED
      BY <2>1, <3>1, <3>2
  <2>4. CASE \/ LoopTurn /\ UNCHANGED <<kernelVars, serverVars>>
             \/ StopServer \/ ClientStep \/ UNCHANGED vars
             \/ \E e \in fired : AcceptOutOfBounds(e)
    <3>1. sock' = sock
      BY <2>4 DEF AcceptOutOfBounds, StopServer, ClientStep, Connect, Send, Leave, vars, kernelVars
    <3>. QED
      BY <3>1
  <2>. QED
    BY <2>2, <2>3, <2>4 DEF Next, LoopStep, Returned
<1>. QED
  BY <1>1, IndInvCorrect, PTL DEF Spec, NoEarlyClose

\* Initially the pool is idle and the map is empty.
LEMMA MapInit == Init => MapPlaces
<1> SUFFICES ASSUME Init PROVE MapPlaces
  OBVIOUS
<1>1. /\ mid = [i \in 1 .. PoolSize |-> i - 1] /\ free = [i \in 1 .. PoolSize |-> i]
      /\ DOMAIN sessions = {}
  BY DEF Init
<1>2. Session = 1 .. PoolSize
  BY <1>1 DEF Session
<1>3. Orphan = {}
  BY <1>1 DEF Orphan
<1>. QED
  BY <1>1, <1>2, <1>3 DEF MapPlaces

\* A step that touches neither pool, map, table nor listener keeps it.
LEMMA MapUnchanged ==
  ASSUME MapPlaces, UNCHANGED <<events, listening, sessions, free, mid>>
  PROVE  MapPlaces'
<1>1. Session' = Session /\ Registered' = Registered
  BY DEF Session, Registered
<1>2. \A fd \in Registered : Holder(fd)' = Holder(fd)
  BY DEF Holder
<1>3. Held' = Held
  BY <1>1, <1>2 DEF Held
<1>4. Orphan' = Orphan
  BY <1>3 DEF Orphan
<1>. QED
  BY <1>1, <1>4 DEF MapPlaces

\* DoAccept puts the session it takes into the map, held by the new client or,
\* when it closes the listener, by nobody.
LEMMA MapAccept ==
  ASSUME IndInv, MapPlaces, NEW e \in fired, DoAccept(e)
  PROVE  MapPlaces'
<1>. DEFINE t == TakenSession
<1>0. listening /\ TakeSession
  BY AcceptFacts DEF DoAccept
<1>1. /\ \A s \in Session' : mid'[s] = s - 1 /\ s \in Int
      /\ t \in Session' /\ TakenId = t - 1
      /\ Session' \subseteq Session \cup {t} /\ Session \subseteq Session'
      /\ \A s \in Session : (\E i \in DOMAIN free : free[i] = s) =>
               s = t \/ \E i \in DOMAIN free' : free'[i] = s
      /\ \A i \in DOMAIN free' : free'[i] # t /\ \E j \in DOMAIN free : free[j] = free'[i]
      /\ \A s \in Session : mid'[s] = mid[s]
  BY <1>0, TakeEffect DEF Session
<1>2. sessions' = [id \in DOMAIN sessions \cup {TakenId} |->
                    IF id = TakenId THEN t ELSE sessions[id]]
  BY <1>0 DEF TakeSession
<1>3. /\ \A id \in DOMAIN sessions : sessions[id] \in Session /\ id = mid[sessions[id]]
      /\ \A id \in DOMAIN sessions : sessions[id] \in Held
      /\ \A s \in Session : (\E i \in DOMAIN free : free[i] = s) <=> mid[s] \notin DOMAIN sessions
  BY <1>0 DEF IndInv, TypeOK, MapPlaces, Orphan
<1>. HIDE DEF t
<1>4. \A id \in DOMAIN sessions' : id = mid'[sessions'[id]]
  BY <1>1, <1>2, <1>3
<1>5. ASSUME NEW s \in Session'
      PROVE  (\E i \in DOMAIN free' : free'[i] = s) <=> mid'[s] \notin DOMAIN sessions'
  <2>1. CASE s = t
    BY <1>1, <1>2, <2>1
  <2>2. CASE s # t
    <3>1. s \in Session /\ mid'[s] # TakenId /\ mid'[s] = mid[s]
      BY <1>1, <2>2
    <3>2. (\E i \in DOMAIN free' : free'[i] = s) <=> (\E i \in DOMAIN free : free[i] = s)
      BY <1>1, <2>2, <3>1
    <3>. QED
      BY <1>2, <1>3, <3>1, <3>2
  <2>. QED
    BY <2>1, <2>2
<1>6. \A id \in DOMAIN sessions' : sessions'[id] = t \/ sessions'[id] \in Held
  BY <1>2, <1>3
<1>7. (listening' => Orphan' = {}) /\ \A s, u \in Orphan' : s = u
  <2>1. CASE AcceptRegisters(e)
    <3>1. PICK cfd \in ClientFd :
            Accept(cfd) /\ CreateFileEvent(cfd, {READABLE}, "DoRead", TakenSession)
      BY <2>1 DEF AcceptRegisters
    <3>2. /\ cfd \in Slot /\ cfd \notin Registered /\ Registered' = Registered \cup {cfd}
          /\ events' = [events EXCEPT ![cfd] =
                         [mask |-> {READABLE}, rfileProc |-> "DoRead",
                          wfileProc |-> events[cfd].wfileProc, clientData |-> t]]
      BY <3>1, RegisterEffect DEF t
    <3>3. events'[cfd].clientData = t /\ \A fd \in Registered : events'[fd].clientData = Holder(fd)
      BY <3>2 DEF IndInv, TypeOK, Registered, Holder
    <3>4. Held \subseteq Held' /\ t \in Held'
      BY <3>2, <3>3 DEF Held, Holder
    <3>5. Orphan' = {}
      BY <1>6, <3>4 DEF Orphan
    <3>. QED
      BY <3>5
  <2>2. CASE AcceptNotRegistered(e)
    <3>1. events' = events /\ listening' = FALSE
      BY <2>2 DEF AcceptNotRegistered, CloseListener, CreateFileEventFails
    <3>2. Held' = Held
      BY <3>1 DEF Held, Registered, Holder
    <3>. QED
      BY <1>6, <3>1, <3>2 DEF Orphan
  <2>. QED
    BY <2>1, <2>2 DEF DoAccept
<1>. QED
  BY <1>4, <1>5, <1>7 DEF MapPlaces

\* DoRead at the end of a connection moves its session from the map to the
\* idle ones, and leaves the others where they are.
LEMMA MapRead ==
  ASSUME IndInv, MapPlaces, NEW e \in fired, DoRead(e)
  PROVE  MapPlaces'
<1>1. CASE ReadBytes(e, sock[e.fd])
  BY <1>1, MapUnchanged DEF ReadBytes, serverVars
<1>2. CASE ReadEnd(e, sock[e.fd], events[e.fd].clientData)
  <2>. DEFINE s == Holder(e.fd)
  <2>1. /\ free' = Append(free, s)
        /\ sessions' = [id \in DOMAIN sessions \ {mid[s]} |-> sessions[id]]
        /\ UNCHANGED <<listening, mid>>
    BY <1>2 DEF ReadEnd, Holder
  <2>2. e.fd \in Registered /\ s \in Session /\ e.fd \in Slot
    BY ReadFacts
  <2>3. /\ Registered' = Registered \ {e.fd} /\ events' = [events EXCEPT ![e.fd].mask = {}]
    BY <1>2, EndEffect
  <2>4. \A fd \in Registered' : fd \in Registered /\ fd # e.fd /\ events'[fd].clientData = Holder(fd)
    BY <2>2, <2>3 DEF IndInv, TypeOK, Registered, Holder
  <2>5. Session' = Session /\ free \in Seq(Session) /\ \A x \in Session : mid[x] = x - 1 /\ x \in Int
    BY <2>1 DEF IndInv, TypeOK, SessionPlaces, Session
  <2>6. Held \subseteq Held' \cup {s}
    BY <2>3, <2>4 DEF Held, Holder
  <2>. HIDE DEF s
  <2>7. \A x \in Session : (\E i \in DOMAIN free' : free'[i] = x)
                             <=> x = s \/ \E i \in DOMAIN free : free[i] = x
    <3>1. /\ DOMAIN free' = DOMAIN free \cup {Len(free) + 1}
          /\ \A i \in DOMAIN free : free'[i] = free[i]
          /\ free'[Len(free) + 1] = s
      BY <2>1, <2>2, <2>5
    <3>. QED
      BY <3>1, Zenon
  <2>8. /\ \A id \in DOMAIN sessions : sessions[id] \in Session /\ id = mid[sessions[id]]
        /\ \A x \in Session : (\E i \in DOMAIN free : free[i] = x) <=> mid[x] \notin DOMAIN sessions
    BY DEF IndInv, TypeOK, MapPlaces
  <2>9. \A x \in Session : mid[x] \notin DOMAIN sessions' <=> x = s \/ mid[x] \notin DOMAIN sessions
    BY <2>1, <2>2, <2>5
  <2>10. Orphan' \subseteq Orphan
    <3>1. ASSUME NEW id \in DOMAIN sessions' 
          PROVE  id \in DOMAIN sessions /\ sessions'[id] = sessions[id] /\ sessions[id] # s
      BY <2>1, <2>8
    <3>. QED
      BY <2>6, <3>1 DEF Orphan
  <2>11. \A id \in DOMAIN sessions' : id = mid'[sessions'[id]]
    BY <2>1, <2>8
  <2>12. \A x \in Session' : (\E i \in DOMAIN free' : free'[i] = x) <=> mid'[x] \notin DOMAIN sessions'
    BY <2>1, <2>5, <2>7, <2>8, <2>9
  <2>. QED
    BY <2>1, <2>10, <2>11, <2>12 DEF MapPlaces
<1>. QED
  BY <1>1, <1>2 DEF DoRead

\* Every step keeps the map.
LEMMA MapStep == IndInv /\ MapPlaces /\ [Next]_vars => MapPlaces'
<1> SUFFICES ASSUME IndInv, MapPlaces, [Next]_vars PROVE MapPlaces'
  OBVIOUS
<1>1. ASSUME NEW e \in fired, DoAccept(e) \/ DoRead(e) PROVE MapPlaces'
  BY <1>1, MapAccept, MapRead
<1>2. CASE \/ LoopTurn /\ UNCHANGED <<kernelVars, serverVars>>
           \/ StopServer \/ ClientStep \/ UNCHANGED vars
           \/ \E e \in fired : AcceptOutOfBounds(e)
  <2>1. UNCHANGED <<events, listening, sessions, free, mid>>
    BY <1>2 DEF AcceptOutOfBounds, LoopTurn, TestStop, Poll, SkipEntry, BatchDone, StopServer, AeStop,
                ClientStep, Connect, Send, Leave, vars, aeVars, kernelVars, serverVars
  <2>. QED
    BY <2>1, MapUnchanged
<1>. QED
  BY <1>1, <1>2 DEF Next, LoopStep, Returned

\* Every session is idle or live, never both, and only the accept that closes
\* the listener ever leaves one in the map that no client holds.
THEOREM SessionsKept == Spec => []NoSessionLost
<1>1. IndInv /\ MapPlaces => NoSessionLost
  <2> SUFFICES ASSUME IndInv, MapPlaces PROVE NoSessionLost
    OBVIOUS
  <2>1. ASSUME NEW s \in Session, mid[s] \in DOMAIN sessions PROVE sessions[mid[s]] = s
    <3>1. /\ \A x \in Session : mid[x] = x - 1 /\ x \in Int
          /\ sessions[mid[s]] \in Session /\ mid[s] = mid[sessions[mid[s]]]
      BY <2>1 DEF IndInv, TypeOK, SessionPlaces, MapPlaces, Session
    <3>. QED
      BY <3>1
  <2>2. \A s \in Session : (\E i \in DOMAIN free : free[i] = s)
                           <=> ~(mid[s] \in DOMAIN sessions /\ sessions[mid[s]] = s)
    BY <2>1 DEF MapPlaces
  <2>3. Orphan = {} => Cardinality(Orphan) = 0
    BY FS_EmptySet
  <2>4. \A s \in Orphan : Cardinality(Orphan) = 1
    <3>1. ASSUME NEW s \in Orphan PROVE Cardinality(Orphan) = 1
      <4>1. Orphan = {s}
        BY DEF MapPlaces
      <4>. QED
        BY <4>1, FS_Singleton
    <3>. QED
      BY <3>1
  <2>5. Cardinality(Orphan) <= IF listening THEN 0 ELSE 1
    BY <2>3, <2>4 DEF MapPlaces
  <2>. QED
    BY <2>2, <2>5 DEF NoSessionLost
<1>. QED
  BY <1>1, MapInit, MapStep, IndInvCorrect, PTL DEF Spec

-----------------------------------------------------------------------------
(***************************************************************************)
(* TcpServer implements SessionService: the state in which aeMain starts   *)
(* is an initial state of the service, and every callback, client and      *)
(* signal is a step of the service or a stutter.                           *)
(***************************************************************************)

\* A client's badge is the id of the session behind its registered socket.
LEMMA Badges ==
  IndInv => \A c \in Conn :
              /\ \A fd \in Registered : sock[fd] = c => BadgeOf(c) = mid[Holder(fd)]
              /\ ~OnSocket(c) => BadgeOf(c) = -1
<1> SUFFICES ASSUME IndInv, NEW c \in Conn
             PROVE  /\ \A fd \in Registered : sock[fd] = c => BadgeOf(c) = mid[Holder(fd)]
                    /\ ~OnSocket(c) => BadgeOf(c) = -1
  OBVIOUS
<1>1. ASSUME NEW fd \in Registered, sock[fd] = c
      PROVE  BadgeOf(c) = mid[Holder(fd)]
  <2>1. \A gd \in Registered : sock[gd] = c => gd = fd
    BY <1>1 DEF IndInv, ConnPlaces, Registered
  <2>2. (CHOOSE gd \in Registered : sock[gd] = c) = fd
    BY <1>1, <2>1
  <2>3. OnSocket(c)
    BY <1>1 DEF OnSocket
  <2>. QED
    BY <2>2, <2>3 DEF BadgeOf
<1>2. ~OnSocket(c) => BadgeOf(c) = -1
  BY DEF BadgeOf
<1>. QED
  BY <1>1, <1>2

\* The same after a step.
LEMMA BadgesAfter ==
  ASSUME IndInv, [Next]_vars
  PROVE  \A c \in Conn :
           /\ \A fd \in Registered' : sock'[fd] = c => BadgeOf(c)' = mid'[events'[fd].clientData]
           /\ (\A fd \in Registered' : sock'[fd] # c) => BadgeOf(c)' = -1
<1>1. IndInv'
  BY IndInvStep
<1>2. (IndInv => \A c \in Conn :
              /\ \A fd \in Registered : sock[fd] = c => BadgeOf(c) = mid[Holder(fd)]
              /\ ~OnSocket(c) => BadgeOf(c) = -1)'
  BY Badges, PTL
<1>. QED
  BY <1>1, <1>2 DEF Holder, OnSocket

\* What a registered descriptor leads to.
LEMMA RegisteredFacts ==
  ASSUME IndInv, NEW fd \in Registered
  PROVE  /\ sock[fd] \in Conn /\ Holder(fd) \in Session
         /\ BadgeOf(sock[fd]) = mid[Holder(fd)] /\ BadgeOf(sock[fd]) \in Id
         /\ phase[sock[fd]] = "open"
         /\ \A gd \in Registered : sock[gd] = sock[fd] => gd = fd
<1>1. sock[fd] \in Conn /\ fd \in ClientFd /\ sock[fd] # NoConn
  BY DEF IndInv, ConnPlaces, TypeOK, Registered
<1>2. Holder(fd) \in Session
  BY DEF IndInv, SessionOwnership
<1>3. mid[Holder(fd)] \in Id
  BY <1>2 DEF IndInv, TypeOK, Session
<1>4. phase[sock[fd]] = "open" /\ \A gd \in Registered : sock[gd] = sock[fd] => gd = fd
  BY <1>1 DEF IndInv, ConnPlaces, Registered
<1>. QED
  BY <1>1, <1>2, <1>3, <1>4, Badges

\* A step that leaves the table, the sockets and the ids alone leaves the badges.
LEMMA BadgesKept ==
  ASSUME IndInv, [Next]_vars, UNCHANGED <<events, sock>>,
         \A s \in Session : mid'[s] = mid[s]
  PROVE  \A c \in Conn : BadgeOf(c)' = BadgeOf(c)
<1> SUFFICES ASSUME NEW c \in Conn PROVE BadgeOf(c)' = BadgeOf(c)
  OBVIOUS
<1>1. Registered' = Registered
  BY DEF Registered
<1>2. CASE \E fd \in Registered : sock[fd] = c
  <2>1. PICK fd \in Registered : sock[fd] = c
    BY <1>2
  <2>2. BadgeOf(c) = mid[Holder(fd)] /\ Holder(fd) \in Session
    BY <2>1, RegisteredFacts
  <2>3. BadgeOf(c)' = mid'[events'[fd].clientData]
    BY <1>1, <2>1, BadgesAfter
  <2>. QED
    BY <2>2, <2>3 DEF Holder
<1>3. CASE \A fd \in Registered : sock[fd] # c
  BY <1>1, <1>3, Badges, BadgesAfter DEF OnSocket
<1>. QED
  BY <1>2, <1>3

\* Who is in line, inside or away, in the terms of the server.
LEMMA Places ==
  ASSUME IndInv
  PROVE  /\ Service!InLine = {c \in Conn : phase[c] = "queued"}
         /\ Service!Away = {c \in Conn : phase[c] = "idle"}
<1>1. backlog \in Seq(Conn) /\ phase \in [Conn -> {"idle", "queued", "open"}]
  BY DEF IndInv, TypeOK
<1>2. \A c \in Conn : phase[c] = "queued" <=> \E i \in DOMAIN backlog : backlog[i] = c
  BY DEF IndInv, ConnPlaces
<1>3. \A i \in DOMAIN backlog : backlog[i] \in Conn
  BY <1>1
<1>4. Service!InLine = {c \in Conn : phase[c] = "queued"}
  BY <1>2, <1>3 DEF Service!InLine
<1>. QED
  BY <1>1, <1>4 DEF Service!Away

\* Connect, Send and Leave are what the service's clients do.
LEMMA ClientRefines ==
  ASSUME IndInv, [Next]_vars, NEW c \in Conn, Connect(c) \/ Send(c) \/ Leave(c)
  PROVE  Service!Arrive(c) \/ Service!Write(c) \/ Service!Depart(c)
<1>1. UNCHANGED <<events, sock, mid, listening>>
  BY DEF Connect, Send, Leave, aeVars, serverVars
<1>2. [x \in Conn |-> BadgeOf(x)]' = [x \in Conn |-> BadgeOf(x)]
  BY <1>1, BadgesKept
<1>3. phase \in [Conn -> {"idle", "queued", "open"}] /\ ended \in [Conn -> {"no", "fin", "rst"}]
  BY DEF IndInv, TypeOK
<1>4. c \in Service!Away <=> phase[c] = "idle"
  BY Places
<1>5. CASE Connect(c)
  <2>1. /\ listening /\ phase[c] = "idle"
        /\ phase' = [phase EXCEPT ![c] = "queued"] /\ backlog' = Append(backlog, c)
        /\ UNCHANGED <<listening, inbox, ended>>
    BY <1>5 DEF Connect
  <2>2. {x \in Conn : phase'[x] = "open"} = {x \in Conn : phase[x] = "open"}
    BY <1>3, <2>1
  <2>. QED
    BY <1>2, <1>4, <2>1, <2>2 DEF Service!Arrive
<1>6. CASE Send(c)
  BY <1>2, <1>4, <1>6 DEF Send, Service!Write
<1>7. CASE Leave(c)
  <2>1. /\ phase[c] # "idle" /\ ended[c] = "no"
        /\ UNCHANGED <<listening, backlog, phase, inbox>>
    BY <1>7 DEF Leave
  <2>2. PICK how \in {"fin", "rst"} : ended' = [ended EXCEPT ![c] = how]
    BY <1>7 DEF Leave
  <2>3. [x \in Conn |-> ended'[x] # "no"] = [[x \in Conn |-> ended[x] # "no"] EXCEPT ![c] = TRUE]
    BY <1>3, <2>2
  <2>. QED
    BY <1>2, <1>4, <2>1, <2>3 DEF Service!Depart
<1>. QED
  BY <1>5, <1>6, <1>7

\* An accept that is registered serves the head of the line under a free id.
LEMMA ServeRefines ==
  ASSUME IndInv, [Next]_vars, NEW e \in fired, DoAccept(e), AcceptRegisters(e),
         NEW id, id = TakenId
  PROVE  Service!Serve(id)
<1>. DEFINE t == TakenSession  h == Head(backlog)
<1>0. listening /\ backlog # <<>> /\ h \in Conn /\ TakeSession
  BY AcceptFacts DEF DoAccept
<1>1. /\ \A s \in Session' : mid'[s] = s - 1
      /\ t \in Session' /\ TakenId = t - 1
      /\ \A fd \in Registered : Holder(fd) # t
      /\ \A s \in Session : mid'[s] = mid[s]
  BY <1>0, TakeEffect
<1>2. PICK cfd \in ClientFd :
        /\ Accept(cfd) /\ CreateFileEvent(cfd, {READABLE}, "DoRead", t)
        /\ backlog' = Tail(backlog) /\ phase' = [phase EXCEPT ![h] = "open"]
        /\ UNCHANGED <<listening, inbox, ended>>
  BY DEF AcceptRegisters
<1>3. /\ cfd \in Slot /\ cfd \notin Registered /\ Registered' = Registered \cup {cfd}
      /\ events' = [events EXCEPT ![cfd] =
                         [mask |-> {READABLE}, rfileProc |-> "DoRead",
                          wfileProc |-> events[cfd].wfileProc, clientData |-> t]]
      /\ sock' = [sock EXCEPT ![cfd] = h]
  BY <1>2, RegisterEffect
<1>4. /\ events'[cfd].clientData = t /\ sock'[cfd] = h
      /\ \A fd \in Registered : events'[fd].clientData = Holder(fd) /\ sock'[fd] = sock[fd]
  BY <1>3 DEF IndInv, TypeOK, Registered, Holder
<1>5. phase \in [Conn -> {"idle", "queued", "open"}] /\ phase[h] = "queued"
  BY <1>0 DEF IndInv, TypeOK, ConnPlaces
<1>6. \A s \in Session : s \in Int /\ mid[s] = s - 1
  BY DEF IndInv, SessionPlaces, Session
<1>7. TakenId \in Id /\ TakenId # -1 /\ t \in Int
  BY <1>0, <1>1, TypeTakeSession DEF IndInv, Id, Session
<1>. HIDE DEF t, h
<1>8. \A c \in Conn : BadgeOf(c) # TakenId
  <2>1. ASSUME NEW c \in Conn, NEW fd \in Registered, sock[fd] = c
        PROVE  BadgeOf(c) # TakenId
    <3>1. BadgeOf(c) = Holder(fd) - 1 /\ Holder(fd) \in Int
      BY <1>6, <2>1, RegisteredFacts
    <3>. QED
      BY <1>1, <1>7, <3>1
  <2>2. ASSUME NEW c \in Conn, ~OnSocket(c) PROVE BadgeOf(c) # TakenId
    BY <1>7, <2>2, Badges
  <2>. QED
    BY <2>1, <2>2 DEF OnSocket
<1>9. ASSUME NEW c \in Conn, c = h PROVE BadgeOf(c)' = TakenId
  <2>1. BadgeOf(c)' = mid'[events'[cfd].clientData]
    BY <1>3, <1>4, <1>9, BadgesAfter
  <2>. QED
    BY <1>1, <1>4, <2>1
<1>10. ASSUME NEW c \in Conn, c # h PROVE BadgeOf(c)' = BadgeOf(c)
  <2>1. CASE \E fd \in Registered : sock[fd] = c
    <3>1. PICK fd \in Registered : sock[fd] = c
      BY <2>1
    <3>2. BadgeOf(c) = mid[Holder(fd)] /\ Holder(fd) \in Session
      BY <3>1, RegisteredFacts
    <3>3. BadgeOf(c)' = mid'[events'[fd].clientData]
      BY <1>3, <1>4, <3>1, BadgesAfter
    <3>. QED
      BY <1>1, <1>4, <3>2, <3>3
  <2>2. CASE \A fd \in Registered : sock[fd] # c
    <3>1. \A fd \in Registered' : sock'[fd] # c
      BY <1>3, <1>4, <1>10, <2>2
    <3>. QED
      BY <2>2, <3>1, Badges, BadgesAfter DEF OnSocket
  <2>. QED
    BY <2>1, <2>2
<1>11. [c \in Conn |-> BadgeOf(c)]' = [[c \in Conn |-> BadgeOf(c)] EXCEPT ![h] = id]
  BY <1>9, <1>10
<1>12. {c \in Conn : phase'[c] = "open"} = {c \in Conn : phase[c] = "open"} \cup {h}
  BY <1>0, <1>2, <1>5
<1>. QED
  BY <1>0, <1>2, <1>8, <1>11, <1>12 DEF Service!Serve, h

\* The accept that cannot be registered shuts the door, and its own connection
\* stays inside without a badge.
LEMMA ShutRefines ==
  ASSUME IndInv, [Next]_vars, NEW e \in fired, DoAccept(e), AcceptNotRegistered(e)
  PROVE  Service!ShutDoor
<1>. DEFINE h == Head(backlog)  reset == {Tail(backlog)[i] : i \in DOMAIN Tail(backlog)}
<1>0. listening /\ backlog # <<>> /\ h \in Conn /\ TakeSession /\ backlog \in Seq(Conn)
  BY AcceptFacts DEF DoAccept
<1>1. \A s \in Session : mid'[s] = mid[s]
  BY <1>0, TakeEffect
<1>2. PICK cfd \in ClientFd :
        Accept(cfd) /\ CreateFileEventFails(cfd) /\ CloseListener(Tail(backlog))
  BY DEF AcceptNotRegistered
<1>3. /\ cfd \notin Slot /\ events' = events
      /\ sock' = [sock EXCEPT ![cfd] = h]
  <2>1. cfd >= SetSize /\ cfd \in Int /\ events' = events
    BY <1>2 DEF CreateFileEventFails, ClientFd
  <2>2. cfd \notin Slot
    BY <2>1 DEF Slot
  <2>. QED
    BY <1>2, <2>1, <2>2 DEF Accept
<1>4. Registered' = Registered /\ \A fd \in Registered : sock'[fd] = sock[fd]
  BY <1>3 DEF Registered, IndInv, TypeOK
<1>5. /\ listening' = FALSE /\ backlog' = <<>>
      /\ phase' = [c \in Conn |-> IF c \in reset THEN "idle"
                              ELSE IF phase[c] = "queued" THEN "open" ELSE phase[c]]
      /\ inbox' = [c \in Conn |-> IF c \in reset THEN 0 ELSE inbox[c]]
      /\ ended' = [c \in Conn |-> IF c \in reset THEN "no" ELSE ended[c]]
  BY <1>2 DEF CloseListener
<1>6. ASSUME NEW c \in Conn PROVE BadgeOf(c)' = BadgeOf(c)
  <2>1. CASE \E fd \in Registered : sock[fd] = c
    <3>1. PICK fd \in Registered : sock[fd] = c
      BY <2>1
    <3>2. BadgeOf(c) = mid[Holder(fd)] /\ Holder(fd) \in Session
      BY <3>1, RegisteredFacts
    <3>3. BadgeOf(c)' = mid'[events'[fd].clientData]
      BY <1>4, <3>1, BadgesAfter
    <3>. QED
      BY <1>1, <1>3, <3>2, <3>3 DEF Holder
  <2>2. CASE \A fd \in Registered : sock[fd] # c
    BY <1>4, <2>2, Badges, BadgesAfter DEF OnSocket
  <2>. QED
    BY <2>1, <2>2
<1>7. reset = Service!InLine \ {h}
  <2>1. /\ DOMAIN Tail(backlog) = 1 .. Len(backlog) - 1 /\ DOMAIN backlog = 1 .. Len(backlog)
        /\ Len(backlog) \in Nat /\ h = backlog[1]
        /\ \A i \in 1 .. Len(backlog) - 1 : Tail(backlog)[i] = backlog[i + 1]
    BY <1>0
  <2>2. \A i, j \in DOMAIN backlog : backlog[i] = backlog[j] => i = j
    BY DEF IndInv, ConnPlaces
  <2>. HIDE DEF h
  <2>3. ASSUME NEW i \in DOMAIN Tail(backlog)
        PROVE  Tail(backlog)[i] # h /\ \E j \in DOMAIN backlog : backlog[j] = Tail(backlog)[i]
    <3>1. i + 1 \in DOMAIN backlog /\ 1 \in DOMAIN backlog /\ i + 1 # 1
      BY <2>1
    <3>. QED
      BY <2>1, <2>2, <3>1
  <2>4. ASSUME NEW j \in DOMAIN backlog, backlog[j] # h
        PROVE  \E i \in DOMAIN Tail(backlog) : Tail(backlog)[i] = backlog[j]
    <3>1. j - 1 \in DOMAIN Tail(backlog) /\ (j - 1) + 1 = j
      BY <2>1, <2>4
    <3>. QED
      BY <2>1, <3>1
  <2>. QED
    BY <2>3, <2>4 DEF Service!InLine
<1>8. /\ Service!InLine = {c \in Conn : phase[c] = "queued"} /\ phase[h] = "queued"
      /\ phase \in [Conn -> {"idle", "queued", "open"}]
  BY <1>0, Places DEF IndInv, TypeOK, ConnPlaces
<1>. HIDE DEF h, reset
<1>9. {c \in Conn : phase'[c] = "open"} = {c \in Conn : phase[c] = "open"} \cup {h}
  BY <1>0, <1>5, <1>7, <1>8
<1>10. [c \in Conn |-> ended'[c] # "no"]
          = [c \in Conn |-> c \notin Service!InLine \ {h} /\ ended[c] # "no"]
  BY <1>5, <1>7
<1>11. inbox' = [c \in Conn |-> IF c \in Service!InLine \ {h} THEN 0 ELSE inbox[c]]
  BY <1>5, <1>7
<1>12. [c \in Conn |-> BadgeOf(c)]' = [c \in Conn |-> BadgeOf(c)]
  BY <1>6
<1>13. \A c \in Conn : [x \in Conn |-> ended[x] # "no"][c] = (ended[c] # "no")
  OBVIOUS
<1>. QED
  BY <1>0, <1>5, <1>9, <1>10, <1>11, <1>12, <1>13 DEF Service!ShutDoor, h

\* A DoRead that finds bytes reads some of a client that has a badge.
LEMMA ReadRefines ==
  ASSUME IndInv, [Next]_vars, NEW e \in fired, DoRead(e), ReadBytes(e, sock[e.fd]),
         NEW c, c = sock[e.fd]
  PROVE  Service!Read(c)
<1>1. c \in Conn /\ BadgeOf(c) \in Id
  BY ReadFacts, RegisteredFacts
<1>2. BadgeOf(c) # -1
  BY <1>1 DEF Id
<1>3. /\ inbox[c] > 0 /\ inbox[c] \in Nat
      /\ inbox' = [inbox EXCEPT ![c] = IF @ > BufLen THEN @ - BufLen ELSE 0]
      /\ UNCHANGED <<events, listening, backlog, sock, phase, ended, mid>>
  BY <1>1 DEF ReadBytes, serverVars, IndInv, TypeOK
<1>4. [x \in Conn |-> BadgeOf(x)]' = [x \in Conn |-> BadgeOf(x)]
  BY <1>3, BadgesKept
<1>5. \E n \in 0 .. inbox[c] - 1 : inbox' = [inbox EXCEPT ![c] = n]
  <2>1. \A n \in Nat : n > 0 => (IF n > BufLen THEN n - BufLen ELSE 0) \in 0 .. n - 1
    OBVIOUS
  <2>. QED
    BY <1>3, <2>1
<1>. QED
  BY <1>1, <1>2, <1>3, <1>4, <1>5 DEF Service!Read

\* A DoRead that finds the end finishes a client that is gone and read.
LEMMA FinishRefines ==
  ASSUME IndInv, [Next]_vars, NEW e \in fired, DoRead(e),
         ReadEnd(e, sock[e.fd], events[e.fd].clientData),
         NEW c, c = sock[e.fd]
  PROVE  Service!Finish(c)
<1>1. c \in Conn /\ BadgeOf(c) \in Id /\ e.fd \in Registered /\ phase[c] = "open"
      /\ \A fd \in Registered : sock[fd] = c => fd = e.fd
  BY ReadFacts, RegisteredFacts
<1>2. BadgeOf(c) # -1
  BY <1>1 DEF Id
<1>3. /\ events' = [events EXCEPT ![e.fd].mask = {}] /\ sock' = [sock EXCEPT ![e.fd] = NoConn]
      /\ Registered' = Registered \ {e.fd}
  BY EndEffect
<1>4. /\ inbox[c] = 0 /\ ended[c] # "no"
      /\ phase' = [phase EXCEPT ![c] = "idle"] /\ ended' = [ended EXCEPT ![c] = "no"]
      /\ UNCHANGED <<listening, backlog, inbox, mid>>
  BY DEF ReadEnd
<1>5. \A fd \in Registered' : /\ fd \in Registered /\ sock'[fd] = sock[fd]
                              /\ events'[fd].clientData = Holder(fd)
  BY <1>3 DEF IndInv, TypeOK, Registered, Holder
<1>6. phase \in [Conn -> {"idle", "queued", "open"}] /\ ended \in [Conn -> {"no", "fin", "rst"}]
  BY DEF IndInv, TypeOK
<1>7. ASSUME NEW x \in Conn, x = c PROVE BadgeOf(x)' = -1
  <2>1. \A fd \in Registered' : sock'[fd] # x
    BY <1>1, <1>3, <1>5, <1>7
  <2>. QED
    BY <2>1, BadgesAfter
<1>8. ASSUME NEW x \in Conn, x # c PROVE BadgeOf(x)' = BadgeOf(x)
  <2>1. CASE \E fd \in Registered : sock[fd] = x
    <3>1. PICK fd \in Registered : sock[fd] = x
      BY <2>1
    <3>2. fd \in Registered'
      BY <1>3, <1>8, <3>1
    <3>3. BadgeOf(x) = mid[Holder(fd)]
      BY <3>1, RegisteredFacts
    <3>4. BadgeOf(x)' = mid'[events'[fd].clientData]
      BY <1>5, <3>1, <3>2, BadgesAfter
    <3>. QED
      BY <1>4, <1>5, <3>2, <3>3, <3>4
  <2>2. CASE \A fd \in Registered : sock[fd] # x
    <3>1. \A fd \in Registered' : sock'[fd] # x
      BY <1>5, <2>2
    <3>. QED
      BY <2>2, <3>1, Badges, BadgesAfter DEF OnSocket
  <2>. QED
    BY <2>1, <2>2
<1>9. [x \in Conn |-> BadgeOf(x)]' = [[x \in Conn |-> BadgeOf(x)] EXCEPT ![c] = -1]
  BY <1>7, <1>8
<1>10. {x \in Conn : phase'[x] = "open"} = {x \in Conn : phase[x] = "open"} \ {c}
  BY <1>1, <1>4, <1>6
<1>11. [x \in Conn |-> ended'[x] # "no"] = [[x \in Conn |-> ended[x] # "no"] EXCEPT ![c] = FALSE]
  BY <1>1, <1>4, <1>6
<1>. QED
  BY <1>1, <1>2, <1>4, <1>9, <1>10, <1>11 DEF Service!Finish

\* Every step of the server is a step of the service, or a stutter.
LEMMA StepRefines == IndInv /\ [Next]_vars => [Service!Next]_(Service!svars)
<1> SUFFICES ASSUME IndInv, [Next]_vars PROVE [Service!Next]_(Service!svars)
  OBVIOUS
<1>1. CASE ClientStep
  <2>1. PICK c \in Conn : Connect(c) \/ Send(c) \/ Leave(c)
    BY <1>1 DEF ClientStep
  <2>. QED
    BY <2>1, ClientRefines DEF Service!Next
<1>2. ASSUME NEW e \in fired, DoAccept(e) PROVE Service!Next
  <2>1. TakenId \in Id
    BY <1>2, TypeTakeSession DEF DoAccept, IndInv
  <2>2. AcceptRegisters(e) \/ AcceptNotRegistered(e)
    BY <1>2 DEF DoAccept
  <2>3. PICK id \in Id : id = TakenId
    BY <2>1
  <2>4. Service!Serve(id) \/ Service!ShutDoor
    BY <1>2, <2>2, <2>3, ServeRefines, ShutRefines
  <2>. QED
    BY <2>4 DEF Service!Next
<1>3. ASSUME NEW e \in fired, DoRead(e) PROVE Service!Next
  <2>1. sock[e.fd] \in Conn
    BY <1>3, ReadFacts
  <2>2. ReadBytes(e, sock[e.fd]) \/ ReadEnd(e, sock[e.fd], events[e.fd].clientData)
    BY <1>3 DEF DoRead
  <2>3. PICK c \in Conn : c = sock[e.fd]
    BY <2>1
  <2>4. Service!Read(c) \/ Service!Finish(c)
    BY <1>3, <2>2, <2>3, ReadRefines, FinishRefines
  <2>. QED
    BY <2>4 DEF Service!Next
<1>4. CASE \/ LoopTurn /\ UNCHANGED <<kernelVars, serverVars>>
           \/ StopServer \/ UNCHANGED vars
           \/ \E e \in fired : AcceptOutOfBounds(e)
  <2>1. UNCHANGED <<events, sock, mid, listening, backlog, phase, inbox, ended>>
    BY <1>4 DEF AcceptOutOfBounds, LoopTurn, TestStop, Poll, SkipEntry, BatchDone, StopServer, AeStop,
                vars, aeVars, kernelVars, serverVars
  <2>2. [x \in Conn |-> BadgeOf(x)]' = [x \in Conn |-> BadgeOf(x)]
    BY <2>1, BadgesKept
  <2>. QED
    BY <2>1, <2>2 DEF Service!svars
<1>. QED
  BY <1>1, <1>2, <1>3, <1>4 DEF Next, LoopStep, Returned

\* The server implements the service: served in order, under an id nobody else
\* has, every byte read, and at most one client ever dropped.
THEOREM ServiceImplemented == Spec => ImplementsSessionService
<1>1. Init => Service!Init
  <2> SUFFICES ASSUME Init PROVE Service!Init
    OBVIOUS
  <2>1. /\ listening = TRUE /\ backlog = <<>> /\ inbox = [c \in Conn |-> 0]
        /\ phase = [c \in Conn |-> "idle"] /\ ended = [c \in Conn |-> "no"]
        /\ events = [fd \in Slot |-> IF fd = ListenFd THEN ListenEvent ELSE NoEvent]
    BY DEF Init
  <2>2. \A c \in Conn : ~OnSocket(c)
    BY <2>1 DEF OnSocket, Registered, NoEvent, ClientFd
  <2>3. [c \in Conn |-> BadgeOf(c)] = [c \in Conn |-> -1]
    BY <2>2 DEF BadgeOf
  <2>. QED
    BY <2>1, <2>3 DEF Service!Init
<1>. QED
  BY <1>1, StepRefines, IndInvCorrect, PTL DEF Spec, ImplementsSessionService, Service!Spec
=============================================================================
