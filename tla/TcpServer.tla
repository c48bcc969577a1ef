----------------------------- MODULE TcpServer ------------------------------
(***************************************************************************)
(* CTcpServer (network/tcp_server.cpp) on the ae loop: the listening       *)
(* socket, the accepted sockets, the pool of sessions, the map from        *)
(* session id to session, and the two callbacks DoAccept and DoRead.       *)
(*                                                                         *)
(* The loop is one thread and a callback runs to completion, so each       *)
(* callback is one action.  Clients act through the kernel between any two *)
(* of them, and in the middle of a batch of fired events.                  *)
(***************************************************************************)
EXTENDS AeFileEvents, Sequences

CONSTANTS Conn,      \* connections of clients; one is reused once closed
          NoConn,
          ListenFd,  \* descriptors below it were open before the listener
          PoolSize,  \* sessions Initialize creates (5)
          IdSpace,   \* m_idGen is a uint16: 2^16
          Backlog,   \* anetListen's backlog (1024)
          BufLen,    \* bytes one DoRead reads at most (1024)
          MaxInbox   \* bound on a client's unread bytes

ASSUME TcpAssumption ==
  /\ NoConn \notin Conn
  /\ ListenFd \in Nat /\ ListenFd < SetSize /\ ListenFd < FdLimit
  /\ PoolSize \in Nat \ {0}
  /\ IdSpace \in Nat /\ PoolSize <= IdSpace /\ SetSize < IdSpace
  /\ Backlog \in Nat \ {0}
  /\ BufLen \in Nat \ {0}
  /\ MaxInbox \in Nat

VARIABLES
  \* the kernel
  listening,  \* the listening socket is open
  backlog,    \* connections not yet accepted
  sock,       \* sock[fd]: the connection behind an accepted descriptor
  phase,      \* phase[c]: "idle", "queued" (in the backlog) or "open"
  inbox,      \* inbox[c]: bytes received and not yet read
  ended,      \* ended[c]: "no", "fin" or "rst", as the client left
  \* the server
  sessions,   \* m_sessions: session id -> session
  free,       \* m_free: the queue of idle sessions
  mid,        \* mid[s]: m_id of session s; the sessions are 1 .. Len(mid)
  idGen       \* m_idGen

kernelVars == <<listening, backlog, sock, phase, inbox, ended>>
serverVars == <<sessions, free, mid, idGen>>
vars == <<aeVars, kernelVars, serverVars>>

Session  == 1 .. Len(mid)
Id       == 0 .. IdSpace - 1
ClientFd == ListenFd + 1 .. FdLimit - 1

(***************************************************************************)
(* Initialize, then StartServer up to its call of aeMain: the pool, the    *)
(* listening socket and its event.                                         *)
(***************************************************************************)
ListenEvent == [mask |-> {READABLE}, rfileProc |-> "DoAccept",
                wfileProc |-> NoProc, clientData |-> NoData]

Init ==
  /\ mid = [i \in 1 .. PoolSize |-> i - 1]
  /\ free = [i \in 1 .. PoolSize |-> i]
  /\ idGen = PoolSize - 1
  /\ sessions = [id \in {} |-> NoData]
  /\ events = [fd \in Slot |-> IF fd = ListenFd THEN ListenEvent ELSE NoEvent]
  /\ fdset = [fd \in Fd |-> IF fd = ListenFd THEN {READABLE} ELSE {}]
  /\ maxfd = ListenFd
  /\ fired = {} /\ loop = "test" /\ stop = FALSE
  /\ listening = TRUE
  /\ backlog = <<>>
  /\ sock = [fd \in ClientFd |-> NoConn]
  /\ phase = [c \in Conn |-> "idle"]
  /\ inbox = [c \in Conn |-> 0]
  /\ ended = [c \in Conn |-> "no"]

(***************************************************************************)
(* The clients, as the server sees them through its sockets.               *)
(***************************************************************************)
Connect(c) ==
  /\ listening /\ phase[c] = "idle" /\ Len(backlog) < Backlog
  /\ phase' = [phase EXCEPT ![c] = "queued"]
  /\ backlog' = Append(backlog, c)
  /\ UNCHANGED <<aeVars, serverVars, listening, sock, inbox, ended>>

Send(c) ==
  /\ phase[c] # "idle" /\ ended[c] = "no" /\ inbox[c] < MaxInbox
  /\ inbox' = [inbox EXCEPT ![c] = @ + 1]
  /\ UNCHANGED <<aeVars, serverVars, listening, backlog, sock, phase, ended>>

Leave(c) ==
  /\ phase[c] # "idle" /\ ended[c] = "no"
  /\ \E how \in {"fin", "rst"} : ended' = [ended EXCEPT ![c] = how]
  /\ UNCHANGED <<aeVars, serverVars, listening, backlog, sock, phase, inbox>>

(***************************************************************************)
(* What select sees.  Once the listener is closed its bit is still in      *)
(* rfds: select fails with EBADF at every call, and reports nothing more.  *)
(***************************************************************************)
Sees(fd) ==
  {m \in fdset[fd] :
     /\ m = READABLE
     /\ IF fd = ListenFd THEN backlog # <<>>
        ELSE inbox[sock[fd]] > 0 \/ ended[sock[fd]] # "no"}

\* Mutant of Reported: the scan of the descriptors ends before maxfd.
ReportedBelowMaxFd ==
  IF listening THEN {e \in Selected([fd \in Fd |-> Sees(fd)]) : e.fd < maxfd} ELSE {}

Reported == IF listening THEN Selected([fd \in Fd |-> Sees(fd)]) ELSE {}

(***************************************************************************)
(* DoAccept takes a session before it knows whether the descriptor can be  *)
(* registered: the oldest idle one, or a new one with the next id.         *)
(***************************************************************************)
TakenSession == IF free = <<>> THEN Len(mid) + 1 ELSE Head(free)

\* Mutant of NextId: m_idGen++ for ++m_idGen.
NextIdPost == idGen
NextId     == (idGen + 1) % IdSpace

TakenId      == IF free = <<>> THEN NextId ELSE mid[Head(free)]

\* Mutants of TakeSession: the session stays in m_free; a new one is not made.
TakeSessionTwice ==
  /\ IF free = <<>> THEN mid' = Append(mid, NextId) /\ idGen' = NextId
                    ELSE UNCHANGED <<mid, idGen>>
  /\ UNCHANGED free
  /\ sessions' = [id \in DOMAIN sessions \cup {TakenId} |->
                    IF id = TakenId THEN TakenSession ELSE sessions[id]]

TakeSessionUnmade ==
  /\ free' = IF free = <<>> THEN free ELSE Tail(free)
  /\ sessions' = [id \in DOMAIN sessions \cup {TakenId} |->
                    IF id = TakenId THEN TakenSession ELSE sessions[id]]
  /\ UNCHANGED <<mid, idGen>>

TakeSession ==
  /\ IF free = <<>>
     THEN mid' = Append(mid, NextId) /\ idGen' = NextId /\ UNCHANGED free
     ELSE free' = Tail(free) /\ UNCHANGED <<mid, idGen>>
  /\ sessions' = [id \in DOMAIN sessions \cup {TakenId} |->
                    IF id = TakenId THEN TakenSession ELSE sessions[id]]

FreeFd == {fd \in ClientFd : sock[fd] = NoConn}

\* accept: the connection moves to the lowest free descriptor.
Accept(cfd) ==
  /\ cfd \in FreeFd /\ \A fd \in FreeFd : cfd <= fd
  /\ sock' = [sock EXCEPT ![cfd] = Head(backlog)]

(***************************************************************************)
(* The failure path closes fd, which is the listening socket, and leaves   *)
(* its event registered.  The kernel resets the rest of the backlog.       *)
(***************************************************************************)
CloseListener(left) ==
  LET reset == {left[i] : i \in DOMAIN left} IN
  /\ listening' = FALSE
  /\ backlog' = <<>>
  /\ phase' = [c \in Conn |-> IF c \in reset THEN "idle"
                              ELSE IF phase[c] = "queued" THEN "open" ELSE phase[c]]
  /\ inbox' = [c \in Conn |-> IF c \in reset THEN 0 ELSE inbox[c]]
  /\ ended' = [c \in Conn |-> IF c \in reset THEN "no" ELSE ended[c]]

CallsProc(e, proc) == CallsRead(e) /\ events[e.fd].rfileProc = proc

AcceptRegisters(e) ==
  \E cfd \in ClientFd :
    /\ Accept(cfd)
    /\ CreateFileEvent(cfd, {READABLE}, "DoRead", TakenSession)
    /\ backlog' = Tail(backlog)
    /\ phase' = [phase EXCEPT ![Head(backlog)] = "open"]
    /\ UNCHANGED <<listening, inbox, ended>>

\* The descriptor is beyond the event table.
AcceptNotRegistered(e) ==
  \E cfd \in ClientFd :
    /\ Accept(cfd)
    /\ CreateFileEventFails(cfd)
    /\ CloseListener(Tail(backlog))

\* accept blocks while the backlog is empty.
DoAccept(e) ==
  /\ CallsProc(e, "DoAccept") /\ backlog # <<>>
  /\ TakeSession
  /\ AcceptRegisters(e) \/ AcceptNotRegistered(e)
  /\ fired' = FiredAfterRead(e)
  /\ UNCHANGED <<loop, stop>>

(***************************************************************************)
(* DoAccept when accept finds no free descriptor and returns -1, which     *)
(* goes unnoticed, or finds one that has no bit in an fd_set: the          *)
(* registration writes out of bounds.  What follows is undefined, and the  *)
(* server's state is left as the callback found it.                        *)
(***************************************************************************)
AcceptOutOfBounds(e) ==
  /\ CallsProc(e, "DoAccept") /\ backlog # <<>>
  /\ \/ FreeFd = {} /\ OutOfBounds(-1)
     \/ \E cfd \in ClientFd : /\ cfd \in FreeFd /\ \A fd \in FreeFd : cfd <= fd
                              /\ OutOfBounds(cfd)
  /\ loop' = "wild"
  /\ UNCHANGED <<events, maxfd, fdset, fired, stop, kernelVars, serverVars>>

(***************************************************************************)
(* DoRead: up to BufLen bytes, and otherwise the end of the connection.    *)
(* read blocks on a connection that has neither.                           *)
(***************************************************************************)
ReadBytes(e, c) ==
  /\ inbox[c] > 0
  /\ inbox' = [inbox EXCEPT ![c] = IF @ > BufLen THEN @ - BufLen ELSE 0]
  /\ UNCHANGED <<events, maxfd, fdset, listening, backlog, sock, phase, ended,
                 serverVars>>

\* Mutants of ReadEnd: the event stays in the table; the session is not given
\* back; unread bytes do not matter; an orderly end is taken for data.
Hangup(e, c, s) ==
  /\ sessions' = [id \in DOMAIN sessions \ {mid[s]} |-> sessions[id]]
  /\ sock' = [sock EXCEPT ![e.fd] = NoConn]
  /\ phase' = [phase EXCEPT ![c] = "idle"]
  /\ ended' = [ended EXCEPT ![c] = "no"]
  /\ UNCHANGED <<listening, backlog, mid, idGen>>

ReadEndEventStays(e, c, s) ==
  /\ inbox[c] = 0 /\ ended[c] # "no"
  /\ free' = Append(free, s)
  /\ fdset' = [fdset EXCEPT ![e.fd] = {}]
  /\ Hangup(e, c, s) /\ UNCHANGED <<events, maxfd, inbox>>

ReadEndSessionLost(e, c, s) ==
  /\ inbox[c] = 0 /\ ended[c] # "no"
  /\ DeleteFileEvent(e.fd, {READABLE})
  /\ Hangup(e, c, s) /\ UNCHANGED <<free, inbox>>

ReadEndEarly(e, c, s) ==
  /\ ended[c] # "no"
  /\ free' = Append(free, s)
  /\ inbox' = [inbox EXCEPT ![c] = 0]
  /\ DeleteFileEvent(e.fd, {READABLE})
  /\ Hangup(e, c, s)

ReadEndResetOnly(e, c, s) ==
  /\ inbox[c] = 0
  /\ \/ /\ ended[c] = "rst"
        /\ free' = Append(free, s)
        /\ DeleteFileEvent(e.fd, {READABLE})
        /\ Hangup(e, c, s) /\ UNCHANGED inbox
     \/ ended[c] = "fin" /\ UNCHANGED <<events, maxfd, fdset, kernelVars, serverVars>>

ReadEnd(e, c, s) ==
  /\ inbox[c] = 0 /\ ended[c] # "no"
  /\ free' = Append(free, s)
  /\ sessions' = [id \in DOMAIN sessions \ {mid[s]} |-> sessions[id]]
  /\ DeleteFileEvent(e.fd, {READABLE})
  /\ sock' = [sock EXCEPT ![e.fd] = NoConn]
  /\ phase' = [phase EXCEPT ![c] = "idle"]
  /\ ended' = [ended EXCEPT ![c] = "no"]
  /\ UNCHANGED <<listening, backlog, inbox, mid, idGen>>

DoRead(e) ==
  /\ CallsProc(e, "DoRead")
  /\ LET c == sock[e.fd] IN
       ReadBytes(e, c) \/ ReadEnd(e, c, events[e.fd].clientData)
  /\ fired' = FiredAfterRead(e)
  /\ UNCHANGED <<loop, stop>>

(***************************************************************************)
(* One turn of the loop thread, the signal handler, the clients.           *)
(***************************************************************************)
LoopTurn == \/ TestStop \/ Poll(Reported) \/ SkipEntry \/ BatchDone

LoopStep ==
  \/ LoopTurn /\ UNCHANGED <<kernelVars, serverVars>>
  \/ \E e \in fired : DoAccept(e) \/ AcceptOutOfBounds(e) \/ DoRead(e)

StopServer == loop \notin {"exit", "wild"} /\ AeStop /\ UNCHANGED <<kernelVars, serverVars>>

ClientStep == \E c \in Conn : Connect(c) \/ Send(c) \/ Leave(c)

\* aeMain has returned, or nothing more can be said of it.
Returned == loop \in {"exit", "wild"} /\ UNCHANGED vars

Next == LoopStep \/ StopServer \/ ClientStep \/ Returned

\* The loop thread is runnable at every step but a blocking accept or read.
Spec == Init /\ [][Next]_vars /\ WF_vars(LoopStep)

-----------------------------------------------------------------------------
(***************************************************************************)
(* Properties.                                                             *)
(***************************************************************************)
Registered == {fd \in ClientFd \cap Slot : events[fd].mask # {}}
Holder(fd) == events[fd].clientData     \* the session behind a client event

\* Every variable has its type: descriptors, sessions and ids in range.
TypeOK ==
  /\ events \in [Slot -> [mask : Mask, rfileProc : {NoProc, "DoAccept", "DoRead"},
                          wfileProc : {NoProc}, clientData : Session \cup {NoData}]]
  /\ maxfd \in Slot \cup {-1}
  /\ fdset \in [Fd -> Mask]
  /\ fired \in SUBSET Entry
  /\ loop \in {"test", "poll", "dispatch", "exit", "wild"} /\ stop \in BOOLEAN
  /\ listening \in BOOLEAN
  /\ backlog \in Seq(Conn)
  /\ sock \in [ClientFd -> Conn \cup {NoConn}]
  /\ phase \in [Conn -> {"idle", "queued", "open"}]
  /\ inbox \in [Conn -> 0 .. MaxInbox]
  /\ ended \in [Conn -> {"no", "fin", "rst"}]
  /\ mid \in Seq(Id) /\ idGen \in Id
  /\ free \in Seq(Session)
  /\ DOMAIN sessions \in SUBSET Id /\ \A id \in DOMAIN sessions : sessions[id] \in Session

\* The event table, the descriptor sets and the kernel agree: a registered
\* client descriptor is open, the sets hold what the table says, so no closed
\* client descriptor can make select fail, and an open one outside the table
\* is the one DoAccept dropped.
TableMatchesKernel ==
  /\ \A fd \in ClientFd \cap Slot : fdset[fd] = events[fd].mask
  /\ \A fd \in Registered : sock[fd] # NoConn
  /\ listening => \A fd \in ClientFd : sock[fd] # NoConn => fd \in Registered

\* maxfd is the highest slot in use, through registrations, the scan of
\* aeDeleteFileEvent and the reuse of descriptors.
MaxFdExact ==
  /\ events[maxfd].mask # {}
  /\ \A fd \in Slot : events[fd].mask # {} => fd <= maxfd

\* The session handed to a client's callback is live under its own id, no
\* two clients hold the same one, and none of them waits in m_free.
SessionOwnership ==
  /\ \A fd \in Registered :
       /\ Holder(fd) \in Session
       /\ mid[Holder(fd)] \in DOMAIN sessions
       /\ sessions[mid[Holder(fd)]] = Holder(fd)
       /\ \A i \in DOMAIN free : free[i] # Holder(fd)
  /\ \A fd, gd \in Registered : Holder(fd) = Holder(gd) => fd = gd
  /\ \A i, j \in DOMAIN free : free[i] = free[j] => i = j

\* Session ids are never reused while the session exists: uint16 m_idGen does
\* not wrap, whatever the number of connections served so far.
SessionIdsUnique == \A s, t \in Session : mid[s] = mid[t] => s = t

\* No session is lost or freed twice: each is in m_free or in m_sessions, which
\* the destructor deletes both, and not in the two; those in m_sessions are held
\* by clients, except the one that DoAccept leaves there when it fails.
Held   == {Holder(fd) : fd \in Registered}
Orphan == {sessions[id] : id \in DOMAIN sessions} \ Held

NoSessionLost ==
  /\ \A s \in Session : (\E i \in DOMAIN free : free[i] = s)
                          <=> ~(mid[s] \in DOMAIN sessions /\ sessions[mid[s]] = s)
  /\ Cardinality(Orphan) <= IF listening THEN 0 ELSE 1

\* A callback never blocks the loop: when it is entitled to run there is a
\* connection to accept, or bytes or an end to read.  A batch can be stale:
\* descriptors close and are handed out again while it is worked through.
NoBlockingCallback ==
  \A e \in fired : READABLE \in ValidMask(e) /\ ~e.rfired =>
    IF e.fd = ListenFd
    THEN backlog # <<>>
    ELSE inbox[sock[e.fd]] > 0 \/ ended[sock[e.fd]] # "no"

\* The server closes a client's descriptor only after it has read every byte
\* and has seen the end of the connection.
NoEarlyClose ==
  [][\A fd \in ClientFd : sock[fd] # NoConn /\ sock'[fd] = NoConn =>
       inbox[sock[fd]] = 0 /\ ended[sock[fd]] # "no"]_vars

\* Memory has been written out of bounds (AcceptOutOfBounds): the three properties
\* below are about a server to which that has not happened.
Overrun == loop = "wild"

\* A connection in the backlog is accepted or reset, unless the server stops or
\* has been overrun: then clients may be queued for ever.
Served == \A c \in Conn : phase[c] = "queued" ~> phase[c] # "queued" \/ stop \/ Overrun

\* The end of an accepted connection is noticed, its descriptor closed and its
\* session returned, unless the server stops, has been overrun, or has closed its
\* own listener, after which select fails for good.
OnSocket(c) == \E fd \in Registered : sock[fd] = c
Released ==
  \A c \in Conn : OnSocket(c) /\ ended[c] # "no" ~>
                 ~OnSocket(c) \/ stop \/ ~listening \/ Overrun

\* A stop request ends the loop, even in a batch of a busy server, unless the
\* server has been overrun or is overrun in the rest of the batch.
Stops == stop ~> loop = "exit" \/ Overrun

\* The server implements SessionService: ids are unique, clients are served in
\* the order of the backlog, and no byte and no client is forgotten.
BadgeOf(c) == IF OnSocket(c)
              THEN mid[Holder(CHOOSE fd \in Registered : sock[fd] = c)] ELSE -1

Service == INSTANCE SessionService WITH
             Client <- Conn, NoId <- -1, MaxUnread <- MaxInbox,
             open <- listening, line <- backlog,
             badge <- [c \in Conn |-> BadgeOf(c)],
             inside <- {c \in Conn : phase[c] = "open"},
             unread <- inbox,
             gone <- [c \in Conn |-> ended[c] # "no"]

ImplementsSessionService == Service!Spec

-----------------------------------------------------------------------------
(***************************************************************************)
(* The inductive invariant.  Type correctness and the properties above do  *)
(* not carry themselves through a step: what a callback finds depends on   *)
(* where connections and sessions can be, and on a batch that was reported *)
(* some callbacks ago.                                                     *)
(***************************************************************************)

\* The table holds the listener, for ever, and readable client events.
EventShape ==
  /\ events[ListenFd] = ListenEvent
  /\ \A fd \in Slot \ {ListenFd} : events[fd].mask # {} =>
       /\ fd \in ClientFd
       /\ events[fd].mask = {READABLE}
       /\ events[fd].rfileProc = "DoRead"
       /\ events[fd].clientData \in Session

\* The descriptor sets hold what the table says.
KernelShape ==
  \A fd \in Fd : fdset[fd] = IF fd \in Slot THEN events[fd].mask ELSE {}

\* A connection is in one place: in the backlog, or behind one descriptor.
\* While the server accepts, every accepted descriptor is registered.
ConnPlaces ==
  /\ \A i, j \in DOMAIN backlog : backlog[i] = backlog[j] => i = j
  /\ \A c \in Conn : phase[c] = "queued" <=> \E i \in DOMAIN backlog : backlog[i] = c
  /\ \A fd \in ClientFd : sock[fd] # NoConn => phase[sock[fd]] = "open"
  /\ \A fd, gd \in ClientFd : sock[fd] # NoConn /\ sock[fd] = sock[gd] => fd = gd
  /\ backlog # <<>> => listening
  /\ \A fd \in Registered : sock[fd] # NoConn
  /\ listening => \A fd \in ClientFd : sock[fd] # NoConn => fd \in Registered

\* Session s has id s-1, and as long as the server accepts, every session is
\* idle or held: so a new one is made only when there are fewer sessions than
\* slots in the event table.
SessionPlaces ==
  /\ idGen = Len(mid) - 1
  /\ \A s \in Session : mid[s] = s - 1
  /\ listening => \A s \in Session : \/ \E i \in DOMAIN free : free[i] = s
                                     \/ \E fd \in Registered : Holder(fd) = s

\* What is left of a batch still names registered descriptors, each once.
FiredShape ==
  /\ \A e, f \in fired : e.fd = f.fd => e = f
  /\ \A e \in fired : ~e.rfired => e.fd \in Slot /\ events[e.fd].mask # {}

IndInv == /\ TypeOK /\ EventShape /\ KernelShape /\ MaxFdExact /\ ConnPlaces
          /\ SessionPlaces /\ SessionOwnership /\ FiredShape /\ NoBlockingCallback

\* m_sessions keeps each session under its own id, and a session is idle exactly
\* when it is not there.  Only the accept that closes the listener leaves one
\* that no client holds.
MapPlaces ==
  /\ \A id \in DOMAIN sessions : id = mid[sessions[id]]
  /\ \A s \in Session : (\E i \in DOMAIN free : free[i] = s) <=> mid[s] \notin DOMAIN sessions
  /\ listening => Orphan = {}
  /\ \A s, t \in Orphan : s = t
=============================================================================
