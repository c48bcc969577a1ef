--------------------------- MODULE SessionService ---------------------------
(***************************************************************************)
(* What CTcpServer promises, without descriptors, events or pools: clients *)
(* stand in line, are served in order under an id nobody else has, have    *)
(* every byte read, and are let go once they have left.  The service may   *)
(* close its door once, and then drops at most one client in line.         *)
(***************************************************************************)
EXTENDS Integers, Sequences

CONSTANTS Client, Id, NoId, MaxUnread

VARIABLES open,    \* new clients are let in
          line,    \* clients waiting, in order of arrival
          badge,   \* badge[c]: the id c is served under, NoId if none
          inside,  \* clients let in, served or dropped
          unread,  \* unread[c]: bytes sent and not read
          gone     \* gone[c]: c has left and will send no more

svars == <<open, line, badge, inside, unread, gone>>

InLine == {line[i] : i \in DOMAIN line}
Away   == Client \ (InLine \cup inside)

Init == /\ open = TRUE
        /\ line = <<>>
        /\ badge = [c \in Client |-> NoId]
        /\ inside = {}
        /\ unread = [c \in Client |-> 0]
        /\ gone = [c \in Client |-> FALSE]

Arrive(c) == /\ open /\ c \in Away
             /\ line' = Append(line, c)
             /\ UNCHANGED <<open, badge, inside, unread, gone>>

Write(c) == /\ c \notin Away /\ ~gone[c] /\ unread[c] < MaxUnread
            /\ unread' = [unread EXCEPT ![c] = @ + 1]
            /\ UNCHANGED <<open, line, badge, inside, gone>>

Depart(c) == /\ c \notin Away /\ ~gone[c]
             /\ gone' = [gone EXCEPT ![c] = TRUE]
             /\ UNCHANGED <<open, line, badge, inside, unread>>

Serve(id) == /\ open /\ line # <<>>
             /\ \A c \in Client : badge[c] # id
             /\ badge' = [badge EXCEPT ![Head(line)] = id]
             /\ inside' = inside \cup {Head(line)}
             /\ line' = Tail(line)
             /\ UNCHANGED <<open, unread, gone>>

Read(c) == /\ badge[c] # NoId /\ unread[c] > 0
           /\ \E n \in 0 .. unread[c] - 1 : unread' = [unread EXCEPT ![c] = n]
           /\ UNCHANGED <<open, line, badge, inside, gone>>

Finish(c) == /\ badge[c] # NoId /\ gone[c] /\ unread[c] = 0
             /\ badge' = [badge EXCEPT ![c] = NoId]
             /\ inside' = inside \ {c}
             /\ gone' = [gone EXCEPT ![c] = FALSE]
             /\ UNCHANGED <<open, line, unread>>

\* The line is sent away; its head may already be inside, and stays there.
ShutDoor == /\ open /\ open' = FALSE
            /\ line # <<>> /\ line' = <<>>
            /\ \E kept \in {{}, {Head(line)}} :
                 /\ inside' = inside \cup kept
                 /\ unread' = [c \in Client |->
                                 IF c \in InLine \ kept THEN 0 ELSE unread[c]]
                 /\ gone' = [c \in Client |-> c \notin InLine \ kept /\ gone[c]]
            /\ UNCHANGED badge

Next == \/ \E c \in Client : Arrive(c) \/ Write(c) \/ Depart(c) \/ Read(c) \/ Finish(c)
        \/ \E id \in Id : Serve(id)
        \/ ShutDoor

Spec == Init /\ [][Next]_svars
=============================================================================
