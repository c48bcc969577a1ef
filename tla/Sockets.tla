------------------------------- MODULE Sockets ------------------------------
(***************************************************************************)
(* The socket functions of network/anet.c.  anetTcpServer and the four     *)
(* anetTcp...Connect functions run one system call at a time, each of      *)
(* which may fail; the functions on an open socket and those that only     *)
(* compute are single steps.  One thread calls them.                       *)
(*                                                                         *)
(* An open descriptor is the set of what has been done to it.              *)
(***************************************************************************)
EXTENDS Integers, Sequences, FiniteSetsExt

CONSTANTS Fds,      \* descriptors the kernel has
          MaxAddr   \* most addresses getaddrinfo returns

ASSUME SocketsAssumption == Fds \subseteq Nat /\ MaxAddr \in Nat

VARIABLES sockets,    \* descriptor |-> what it is: the kernel's side
          given,   \* descriptor |-> the call that returned it to the caller
          request,    \* the call that runs
          step,      \* what it does next
          sock,       \* its descriptor, ERR for none
          addrs,    \* addresses it has left to try
          answer   \* what the last function that only computes returned

netVars == <<sockets, given, request, step, sock, addrs, answer>>

ERR == -1
NoRequest == [fn |-> "none"]
With(f, k, v) == [x \in DOMAIN f \cup {k} |-> IF x = k THEN v ELSE f[x]]
Without(f, k) == [x \in DOMAIN f \ {k} |-> f[x]]

SocketsInit ==
  /\ sockets = <<>> /\ given = <<>> /\ request = NoRequest /\ step = "idle"
  /\ sock = ERR /\ addrs = 0 /\ answer = NoRequest

Become(next) == step' = next /\ UNCHANGED <<given, request, answer>>

\* setsockopt, fcntl, bind or listen on s: done, or the error path.
Does(here, what, next) ==
  /\ step = here
  /\ UNCHANGED <<sock, addrs>>
  /\ \/ sockets' = [sockets EXCEPT ![sock] = @ \cup {what}] /\ Become(next)
     \/ sockets' = sockets /\ Become("error")

\* The same where the function closes s itself when it fails.
DoesOrCloses(here, what, next) ==
  /\ step = here
  /\ UNCHANGED <<sock, addrs>>
  /\ \/ sockets' = [sockets EXCEPT ![sock] = @ \cup {what}] /\ Become(next)
     \/ sockets' = Without(sockets, sock) /\ Become("error")

(***************************************************************************)
(* Both begin with getaddrinfo and try a socket for each address.          *)
(***************************************************************************)
Called(c) ==
  /\ step = "idle" /\ answer = NoRequest
  /\ request' = c /\ sock' = ERR /\ UNCHANGED <<sockets, given, answer>>
  /\ \/ step' = "idle" /\ addrs' = 0
     \/ step' = "socket" /\ addrs' \in 1 .. MaxAddr

TcpServer == \E v6 \in BOOLEAN : Called([fn |-> "server", v6 |-> v6])

TcpConnect ==
  \E nonblock, source, best \in BOOLEAN :
    /\ source => nonblock
    /\ best => source
    /\ Called([fn |-> "client", nonblock |-> nonblock, source |-> source, best |-> best,
               blocked |-> FALSE])

AfterSocket == IF request.fn = "server" /\ request.v6 THEN "v6only" ELSE "reuse"

TrySocket ==
  /\ step = "socket" /\ addrs > 0
  /\ \/ \E fd \in Fds \ DOMAIN sockets :
          /\ \A other \in Fds \ DOMAIN sockets : fd <= other
          /\ sock' = fd /\ sockets' = With(sockets, fd, {request.fn})
          /\ Become(AfterSocket) /\ addrs' = addrs
     \/ sock' = ERR /\ addrs' = addrs - 1 /\ Become("socket") /\ sockets' = sockets

NoAddressLeft ==
  /\ step = "socket" /\ addrs = 0
  /\ Become("error") /\ UNCHANGED <<sockets, sock, addrs>>

AfterReuse == IF request.fn = "server" THEN "bind"
              ELSE IF request.nonblock THEN "nonblock" ELSE "connect"

SetReuseAddr == Does("reuse", "reuse", AfterReuse)

(***************************************************************************)
(* _anetTcpServer: its error path does not close s.                        *)
(***************************************************************************)
V6Only == DoesOrCloses("v6only", "v6only", "reuse")
Bind   == DoesOrCloses("bind", "bound", "listen")
Listen == DoesOrCloses("listen", "listening", "end")

(***************************************************************************)
(* anetTcpGenericConnect.  A source address that does not resolve, or to   *)
(* which no bind works, ends in the error path too.                        *)
(***************************************************************************)
NonBlock   == Does("nonblock", "nonblock", IF request.source THEN "source" ELSE "connect")
BindSource == Does("source", "bound", "connect")

Connect ==
  /\ step = "connect"
  /\ \/ /\ sockets' = [sockets EXCEPT ![sock] = @ \cup {"connected"}]
        /\ Become("end") /\ UNCHANGED <<sock, addrs>>
     \/ /\ request.nonblock  \* EINPROGRESS
        /\ sockets' = [sockets EXCEPT ![sock] = @ \cup {"connecting"}]
        /\ Become("end") /\ UNCHANGED <<sock, addrs>>
     \/ /\ sockets' = Without(sockets, sock) /\ sock' = ERR /\ addrs' = addrs - 1
        /\ Become("socket")

\* Mutant of Failed: the client's error path does not close s either.
FailedOpen == /\ step = "error" /\ Become("end") /\ sock' = ERR /\ addrs' = addrs /\ sockets' = sockets
Failed == /\ step = "error" /\ Become("end")
          /\ sock' = ERR /\ addrs' = addrs
          /\ sockets' = IF request.fn = "client" /\ sock # ERR THEN Without(sockets, sock) ELSE sockets

\* Best effort: once more, without the source address.
Return ==
  /\ step = "end" /\ UNCHANGED <<sockets, answer>>
  /\ IF sock = ERR /\ request.fn = "client" /\ request.source /\ request.best
     THEN /\ request' = [request EXCEPT !.source = FALSE] /\ UNCHANGED <<given, sock>>
          /\ \/ step' = "idle" /\ addrs' = 0
             \/ step' = "socket" /\ addrs' \in 1 .. MaxAddr
     ELSE /\ given' = IF sock = ERR THEN given ELSE With(given, sock, request)
          /\ step' = "idle" /\ request' = NoRequest /\ sock' = ERR /\ addrs' = 0

(***************************************************************************)
(* On a socket the caller has.                                             *)
(***************************************************************************)
OnOwned(fd) == step = "idle" /\ answer = NoRequest /\ fd \in DOMAIN given
               /\ UNCHANGED <<request, step, sock, addrs, answer>>

\* anetSetBlock: on Linux O_NONBLOCK is set whatever is asked for, and given keeps
\* what that was; either fcntl may fail.
SetBlock(fd, nonblock) ==
  /\ OnOwned(fd) /\ given[fd].fn = "client"
  /\ \/ /\ sockets' = [sockets EXCEPT ![fd] = @ \cup {"nonblock"}]
        /\ given' = [given EXCEPT ![fd] = [@ EXCEPT !.nonblock = nonblock, !.blocked = ~nonblock]]
     \/ UNCHANGED <<sockets, given>>

Close(fd) == OnOwned(fd) /\ sockets' = Without(sockets, fd) /\ given' = Without(given, fd)

(***************************************************************************)
(* anetRead and anetWrite: kernel[i] is what the i-th read or write        *)
(* returns, ERR for an error, at most what is still wanted.                *)
(***************************************************************************)
Move(count, kernel) ==
  LET after[i \in 1 .. Cardinality(DOMAIN kernel) + 1] ==
        [totlen \in 0 .. count |->
           IF totlen = count \/ i \notin DOMAIN kernel THEN totlen
           ELSE IF kernel[i] = 0 THEN totlen
           ELSE IF kernel[i] = ERR THEN ERR
           ELSE after[i + 1][Min({totlen + kernel[i], count})]]
  IN  after[1][0]

\* anetKeepAlive: the options set, and their values, when the first `done` of its
\* four setsockopt calls succeed; anetTcpKeepAlive makes only the first call.
KeepAlive(interval, done) ==
  [set |-> SubSeq(<<1, interval, IF interval \div 3 = 0 THEN 1 ELSE interval \div 3, 3>>, 1, done),
   ret |-> IF done = 4 THEN 0 ELSE ERR]

\* anetSendTimeout's timeval
Timeval(ms) == [sec |-> ms \div 1000, usec |-> (ms % 1000) * 1000]

\* The text left in a buffer of len characters: inet_ntop leaves one that is too
\* small as it was, strncpy cuts.
Written(text, size, len) == IF size <= len THEN text ELSE "unset"

\* anetPeerToString for a peer of a family, or none.
PeerToString(family, size, len) ==
  IF family \in {"none", "other"} \/ len = 0
  THEN [ip |-> IF len >= 2 THEN "?" ELSE IF len = 1 THEN "empty" ELSE "unset",
        port |-> 0, ret |-> ERR]
  ELSE IF family = "unix"
       THEN [ip |-> IF len > 11 THEN "/unixsocket" ELSE "unterminated", port |-> 0, ret |-> 0]
       ELSE [ip |-> Written("ip", size, len), port |-> 1, ret |-> 0]

\* anetSockName: whatever is not IPv4 is taken for IPv6.
SockName(family, size, len) ==
  IF family = "none" THEN [ip |-> "?", port |-> 0, ret |-> ERR]
  ELSE [ip |-> Written("ip", size, len), port |-> 1, ret |-> 0]

\* anetGenericResolve: a name, or with ANET_IP_ONLY an address alone.
Resolve(isIp, ipOnly, size, len) ==
  IF ipOnly /\ ~isIp THEN [ip |-> "unset", ret |-> ERR]
  ELSE [ip |-> Written("ip", size, len), ret |-> 0]

\* These touch no state of the machine above; a bound: they are called first.
Answered(a) == /\ step = "idle" /\ answer = NoRequest /\ sockets = <<>> /\ answer' = a
               /\ UNCHANGED <<sockets, given, request, step, sock, addrs>>

CallMove ==
  \E count \in 0 .. 3, kernel \in [1 .. 3 -> {ERR, 0, 1, 2}] :
    Answered([fn |-> "move", count |-> count, kernel |-> kernel, out |-> Move(count, kernel)])

CallIntervals ==
  \E n \in {0, 1, 2, 3, 999, 1000, 1500}, done \in 0 .. 4 :
    Answered([fn |-> "intervals", n |-> n, alive |-> KeepAlive(n, done), tv |-> Timeval(n)])

CallNames ==
  \E family \in {"none", "v4", "v6", "unix", "other"}, len \in {0, 1, 2, 16, 46} :
    LET size == IF family = "v4" THEN 16 ELSE 46 IN
    \/ Answered([fn |-> "peer", len |-> len, family |-> family,
                 out |-> PeerToString(family, size, len)])
    \/ len >= 2 /\ family # "other" /\
       Answered([fn |-> "sock", len |-> len, family |-> family,
                 out |-> SockName(family, size, len)])

CallResolve ==
  \E isIp, ipOnly \in BOOLEAN, size \in {16, 46}, len \in {16, 46} :
    Answered([fn |-> "resolve", isIp |-> isIp, ipOnly |-> ipOnly, len |-> len, size |-> size,
              out |-> Resolve(isIp, ipOnly, size, len)])

Read == answer # NoRequest /\ answer' = NoRequest /\ UNCHANGED <<sockets, given, request, step, sock, addrs>>

SocketsNext ==
  \/ TcpServer \/ TcpConnect
  \/ TrySocket \/ NoAddressLeft \/ SetReuseAddr \/ V6Only \/ Bind \/ Listen
  \/ NonBlock \/ BindSource \/ Connect \/ Failed \/ Return
  \/ \E fd \in Fds : Close(fd) \/ \E nonblock \in BOOLEAN : SetBlock(fd, nonblock)
  \/ CallMove \/ CallIntervals \/ CallNames \/ CallResolve \/ Read

SocketsSpec == SocketsInit /\ [][SocketsNext]_netVars

-----------------------------------------------------------------------------
(***************************************************************************)
(* Properties.                                                             *)
(***************************************************************************)

\* Between calls every open descriptor is the caller's, except those of servers on
\* which SO_REUSEADDR could not be set: nobody knows of these any more.
DescriptorsOwned ==
  /\ DOMAIN given \subseteq DOMAIN sockets
  /\ step = "idle" => \A fd \in DOMAIN sockets \ DOMAIN given : sockets[fd] \subseteq {"server", "v6only"}
  /\ sock \in DOMAIN sockets => sock \notin DOMAIN given

\* What a caller has is what it asked for: a server listens, reusable, on IPv6 only
\* if so asked; a client is connected, or connecting if it must not wait, does not
\* wait exactly if so asked, and is bound to its source unless the attempt with one
\* was given up.  The exception is a client that anetBlock was last asked to make
\* wait (given: blocked): it does not, against the comments of anetSetBlock's other
\* branch (anet.c:43-45).
Serves(did, asked) ==
  IF asked.fn = "server"
  THEN /\ {"server", "reuse", "bound", "listening"} \subseteq did
       /\ asked.v6 <=> "v6only" \in did
  ELSE /\ {"client", "reuse"} \subseteq did
       /\ asked.blocked \/ (asked.nonblock <=> "nonblock" \in did)
       /\ did \cap {"connected", "connecting"} # {}
       /\ "connecting" \in did => "nonblock" \in did
       /\ asked.source <=> "bound" \in did

ServedAsAsked == \A fd \in DOMAIN given : Serves(sockets[fd], given[fd])

\* A transfer that reports a length has moved just that, all of it unless the other
\* side ended; one that reports an error may have moved something before.
Counted(count, kernel, out) ==
  LET stops == {i \in 1 .. 3 : kernel[i] <= 0}
      upto  == IF stops = {} THEN 3 ELSE Min(stops) - 1
      moved == MapThenSumSet(LAMBDA i : kernel[i], 1 .. upto)
  IN  IF moved >= count THEN out = count
      ELSE out = IF stops = {} \/ kernel[upto + 1] = 0 THEN moved ELSE ERR

TransfersCounted == answer.fn = "move" => Counted(answer.count, answer.kernel, answer.out)

\* A name is a text whenever the call succeeded and its buffer holds 46 characters,
\* as anetFormatPeer's and anetFormatSock's do; the probes of a dead peer come apart,
\* within about the interval asked for, and a timeout is the milliseconds asked for.
NamesWritten ==
  /\ answer.fn \in {"peer", "sock", "resolve"} /\ answer.len = 46 =>
       \/ answer.out.ip # "unset"
       \/ answer.fn = "resolve" /\ answer.out.ret = ERR
  /\ answer.fn = "peer" /\ answer.len > 0 /\ answer.out.ret = ERR => answer.out.ip # "unset"
  /\ answer.fn = "intervals" =>
       /\ 1000 * answer.tv.sec + answer.tv.usec \div 1000 = answer.n
       /\ answer.alive.ret = 0 => /\ answer.alive.set[3] > 0
                                  /\ answer.alive.set[3] * answer.alive.set[4] <= Max({answer.n, 3})

\* What the socket functions promise their callers.
SocketsSound == DescriptorsOwned /\ ServedAsAsked /\ TransfersCounted /\ NamesWritten
-----------------------------------------------------------------------------
(***************************************************************************)
(* The inductive invariant behind DescriptorsOwned and ServedAsAsked.      *)
(***************************************************************************)
Did == {"server", "client", "v6only", "reuse", "nonblock", "bound", "listening",
        "connected", "connecting"}

ServerRequest == [fn : {"server"}, v6 : BOOLEAN]
ClientRequest == [fn : {"client"}, nonblock : BOOLEAN, source : BOOLEAN, best : BOOLEAN,
                  blocked : BOOLEAN]

\* The steps between socket and the last call made on it.
InHand == {"v6only", "reuse", "bind", "listen", "nonblock", "source", "connect"}

SocketsTypeOK ==
  /\ DOMAIN sockets \subseteq Fds /\ sockets \in [DOMAIN sockets -> SUBSET Did]
  /\ DOMAIN given \subseteq DOMAIN sockets
  /\ given \in [DOMAIN given -> ServerRequest \cup ClientRequest]
  /\ request \in {NoRequest} \cup ServerRequest \cup ClientRequest
  /\ step \in InHand \cup {"idle", "socket", "error", "end"}
  /\ step # "idle" => request # NoRequest
  /\ sock \in Fds \cup {ERR}
  /\ addrs \in 0 .. MaxAddr

\* What has been done to a server's socket, and to a client's, before a step.
ServerDid(here, v6) ==
  {"server"} \cup (IF v6 /\ here # "v6only" THEN {"v6only"} ELSE {})
             \cup (IF here \in {"bind", "listen"} THEN {"reuse"} ELSE {})
             \cup (IF here = "listen" THEN {"bound"} ELSE {})

ClientDid(here, nonblock, source) ==
  {"client"} \cup (IF here # "reuse" THEN {"reuse"} ELSE {})
             \cup (IF here = "source" \/ (here = "connect" /\ nonblock) THEN {"nonblock"} ELSE {})
             \cup (IF here = "connect" /\ source THEN {"bound"} ELSE {})

\* The socket in hand is nobody's yet, and has had just what comes before the step.
HandDone ==
  step \in InHand =>
    /\ sock \in DOMAIN sockets \ DOMAIN given
    /\ addrs > 0
    /\ request.fn = "server" =>
         /\ step \in {"v6only", "reuse", "bind", "listen"}
         /\ step = "v6only" => request.v6
         /\ sockets[sock] = ServerDid(step, request.v6)
    /\ request.fn = "client" =>
         /\ step \in {"reuse", "nonblock", "source", "connect"}
         /\ step = "nonblock" => request.nonblock
         /\ step = "source" => request.source
         /\ sockets[sock] = ClientDid(step, request.nonblock, request.source)

\* Only a request that must not wait has a source address.  On the error path a
\* client's socket is open; a server's has been closed, or nothing but v6only done
\* to it.  At the end it is what was asked for.
HandKept ==
  /\ request.fn = "client" /\ request.source => request.nonblock
  /\ step \in {"idle", "socket"} => sock = ERR
  /\ step = "error" /\ sock # ERR =>
       /\ request.fn = "client" => sock \in DOMAIN sockets
       /\ sock \in DOMAIN sockets => sock \notin DOMAIN given
       /\ request.fn = "server" /\ sock \in DOMAIN sockets =>
            sockets[sock] \subseteq {"server", "v6only"}
  /\ step = "end" /\ sock # ERR =>
       sock \in DOMAIN sockets \ DOMAIN given /\ Serves(sockets[sock], request)

\* Nobody's sockets, but for the one in hand.
StrayOnly ==
  \A fd \in DOMAIN sockets \ DOMAIN given : fd = sock \/ sockets[fd] \subseteq {"server", "v6only"}

SocketsInv == SocketsTypeOK /\ HandDone /\ HandKept /\ StrayOnly /\ ServedAsAsked
=============================================================================
