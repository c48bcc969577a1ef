--------------------------- MODULE MessageChannel ---------------------------
(***************************************************************************)
(* What a message queue is to its users, as long as it is not broken: two  *)
(* lanes.  A push that succeeds appends one message to the back lane, a    *)
(* pop takes the oldest of the front lane, an exchange makes each lane the *)
(* other, and a reset drops all.                                           *)
(*                                                                         *)
(* For a user that exchanges the lanes only when the front one is empty,   *)
(* front \o back is one first-in first-out queue.  Another one sees newer  *)
(* messages before older ones.                                             *)
(***************************************************************************)
EXTENDS Integers, Sequences

CONSTANT Message
VARIABLES front, back, broken

Init == front = <<>> /\ back = <<>> /\ broken = FALSE

Put == \E m \in Message : back' = Append(back, m) /\ UNCHANGED front

Get == front # <<>> /\ front' = Tail(front) /\ UNCHANGED back

Exchange == front' = back /\ back' = front

Drop == front' = <<>> /\ back' = <<>>

Next == ((Put \/ Get \/ Exchange \/ Drop) /\ UNCHANGED broken) \/ broken'

Spec == Init /\ [][Next]_<<front, back, broken>>
=============================================================================
