--------------------------- MODULE LibraryComments --------------------------
(***************************************************************************)
(* What the comments of common/ and network/ say of single functions, held *)
(* against the code: the comments are tried one after another, each by     *)
(* calls of the component it speaks of, until a call contradicts it.  A    *)
(* behaviour at whose end none is left contradicts every one of them.      *)
(***************************************************************************)
EXTENDS Threads, Routines, Calendar, Sockets

VARIABLE standing  \* the comments that no call has contradicted yet, in order

commentVars == <<standing, threadVars, text, calendar, netVars>>

\* The functions the comments speak of, and what each is said to do.
Comments == <<"wipeOffChar", "filtrationBlank", "dStristr", "divideStr",
              "diffTimeDay", "31 December", "Saturdays", "multiple of 7",
              "anetBlock", "set_scope", "set_detach_state">>

\* stringFunctions.h:92, 95: the character, and the blanks at either end, are taken
\* off; stringFunctions.cpp:191: an empty needle is not found; stringFunctions.h:122:
\* no separator is left in a piece.
RoutineComment(c) ==
  CASE c = "wipeOffChar"     -> text.fn = "wipeOff" /\ text.n > Len(text.s)
                                  => text.out = Wiped(text.s, COMMA)
    [] c = "filtrationBlank" -> text.fn = "filtrationBlank"
                                  => text.out \in Cores(text.s)
    [] c = "dStristr"        -> text.fn = "stristr" /\ text.t = <<>> => text.out = 0
    [] c = "divideStr"       -> text.fn = "split"
                                  => \A k \in DOMAIN text.divided :
                                       COMMA \notin ToSet(text.divided[k])

\* The Sundays that diffTimeWeek ends both weeks with, days apart.
WeekEndsApart ==
  DiffTimeDay(calendar.zone, MkTime(WeekEnd(LocalTime(calendar.zone, calendar.early))),
                             MkTime(WeekEnd(LocalTime(calendar.zone, calendar.late))))

\* Weeks that end on Saturdays.
SaturdayWeek(t) == (LocalDay(calendar.zone, t) + 4) \div 7

\* timeFunction.h:41: the days between; timeFunction.cpp:278: the end of a year is
\* looked for on 31 December; 317: weeks are Saturdays apart; 325: the days between
\* the ends of two weeks are always a multiple of 7.
CalendarComment(c) ==
  calendar.fn = "diff" /\ 0 < calendar.early /\ calendar.early <= calendar.late =>
    LET e == LocalTime(calendar.zone, calendar.early)
        l == LocalTime(calendar.zone, calendar.late)
    IN  CASE c = "diffTimeDay"   -> calendar.day = LocalDay(calendar.zone, calendar.late)
                                                   - LocalDay(calendar.zone, calendar.early)
          [] c = "31 December"   -> \A y \in e.year .. l.year - 1 :
                                      LET end == YearEnds(calendar.zone, e, y)[y].end
                                      IN  end.mon = 11 /\ end.mday = 31
          [] c = "Saturdays"     -> calendar.week = SaturdayWeek(calendar.late)
                                                    - SaturdayWeek(calendar.early)
          [] c = "multiple of 7" -> WeekEndsApart % 7 = 0

\* anet.c:45: without non_block, anetSetBlock clears what makes the socket not wait.
SocketComment ==
  \A fd \in DOMAIN given :
    given[fd].fn = "client" /\ given[fd].blocked => "nonblock" \notin sockets[fd]

\* thread.h:71, 73: set_scope sets the scope, set_detach_state the detach state.
SetterComment(a) ==
  \A o \in Thr, v \in {0, 1} : SetAttribute(o, a, v) => attr'[o][a] = v

\* What a comment says of the call that has returned, or of the setter that runs.
Upheld(c) ==
  CASE c \in {"wipeOffChar", "filtrationBlank", "dStristr", "divideStr"} -> RoutineComment(c)
    [] c \in {"diffTimeDay", "31 December", "Saturdays", "multiple of 7"} -> CalendarComment(c)
    [] c = "anetBlock"        -> SocketComment
    [] c = "set_scope"        -> SetterComment("scope")
    [] c = "set_detach_state" -> SetterComment("detach")

\* A step of the component that the comment speaks of.
StepOf(c) ==
  CASE c \in {"wipeOffChar", "filtrationBlank", "dStristr", "divideStr"} ->
         RoutinesNext /\ UNCHANGED <<threadVars, calendar, netVars>>
    [] c \in {"diffTimeDay", "31 December", "Saturdays", "multiple of 7"} ->
         CalendarNext /\ UNCHANGED <<threadVars, text, netVars>>
    [] c = "anetBlock" -> SocketsNext /\ UNCHANGED <<threadVars, text, calendar>>
    [] c \in {"set_scope", "set_detach_state"} ->
         ThreadsNext /\ UNCHANGED <<text, calendar, netVars>>

CommentsInit ==
  /\ ThreadsInit /\ RoutinesInit /\ CalendarInit /\ SocketsInit
  /\ standing = Comments

\* Steps for the first comment that stands, until it does not stand any more.
CommentsNext ==
  /\ standing # <<>>
  /\ StepOf(Head(standing))
  /\ standing' = IF Upheld(Head(standing)) THEN standing ELSE Tail(standing)

CommentsSpec == CommentsInit /\ [][CommentsNext]_commentVars

\* Of the eleven comments, one at least is right, whatever is called.
SomeCommentStands == standing # <<>>
=============================================================================
