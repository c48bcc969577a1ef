------------------------------ MODULE Routines ------------------------------
(***************************************************************************)
(* The text routines of common/basic/stringFunctions.cpp, createDirectory  *)
(* of platform.cpp, and the list and digit routines of basicFunctions, as  *)
(* calls on arbitrary small inputs.                                        *)
(*                                                                         *)
(* A text is a sequence of character codes without NUL; a buffer is a      *)
(* fixed number of cells, zeroed behind the text in it.                    *)
(***************************************************************************)
EXTENDS Integers, Sequences, SequencesExt, FiniteSetsExt

CONSTANTS MaxText,   \* longest text
          MaxNumber  \* largest number counted or divided

ASSUME RoutinesAssumption == MaxText \in Nat /\ MaxNumber \in Nat

VARIABLE text  \* the last call: its arguments and what came of it

NUL   == 0
BLANK == 32
COMMA == 44
OPEN  == 91    \* '['
CLOSE == 93    \* ']'
HALF  == 161   \* -95 as a char: two of them are a wide blank
Text(chars) == BoundedSeq(chars, MaxText)

Str        == Seq(Int)
Drop(s, n) == SubSeq(s, n + 1, Len(s))

\* Position of the first c in s, or just behind s.
Find(s, c) == Min({i \in DOMAIN s : s[i] = c} \cup {Len(s) + 1})

Buffer(s, n)  == [i \in 1 .. n |-> IF i <= Len(s) THEN s[i] ELSE NUL]
InBuffer(buf) == SubSeq(buf, 1, Find(buf, NUL) - 1)

(***************************************************************************)
(* Cutting and replacing.                                                  *)
(***************************************************************************)

\* getSubString and truncateString: the text before the first c, and the rest.
CutAt(s, c) == [sub |-> SubSeq(s, 1, Find(s, c) - 1),
                rest |-> SubSeq(s, Find(s, c) + 1, Len(s))]

Occurs(s, t, p) == p + Len(t) <= Len(s) + 1 /\ SubSeq(s, p, p + Len(t) - 1) = t

\* getSubString by a token: the text keeps what is before it.
CutAtToken(s, t) ==
  LET found == {p \in 1 .. Len(s) + 1 : Occurs(s, t, p)} IN
  IF s = <<>> \/ found = {} THEN [ok |-> FALSE, sub |-> <<>>, rest |-> s]
  ELSE [ok |-> TRUE, sub |-> SubSeq(s, Min(found) + Len(t), Len(s)),
        rest |-> SubSeq(s, 1, Min(found) - 1)]

\* replaceString, for a non-empty src: an empty one is found for ever.
Replace(s, src, dst) ==
  LET in[t \in Str] ==
        IF t = <<>> THEN <<>>
        ELSE IF Occurs(t, src, 1) THEN dst \o in[Drop(t, Len(src))]
        ELSE <<t[1]>> \o in[Drop(t, 1)]
  IN  in[s]

(***************************************************************************)
(* Splitting.  The last character ends a piece and belongs to it, whether  *)
(* it is a separator or not.                                               *)
(***************************************************************************)
PieceEnd(s, sep) == Min({p \in DOMAIN s : s[p] = sep \/ p = Len(s)})
Piece(s, end)    == SubSeq(s, 1, IF end = Len(s) THEN end ELSE end - 1)

\* splitStr with one separator
Split(s, sep) ==
  LET in[t \in Str] ==
        IF t = <<>> THEN <<>>
        ELSE LET end == PieceEnd(t, sep) IN <<Piece(t, end)>> \o in[Drop(t, end)]
  IN  in[s]

\* divideStr: a piece that would begin with the separator is skipped.
Divide(s, sep) ==
  LET in[t \in Str] ==
        IF t = <<>> THEN <<>>
        ELSE LET end == PieceEnd(t, sep)
             IN  IF t[1] = sep THEN in[Drop(t, end)]
                 ELSE <<Piece(t, end)>> \o in[Drop(t, end)]
  IN  in[s]

\* splitStr with two separators: what stands between an open and the next close.
Between(s, open, close) ==
  LET in[t \in Str] ==
        IF t = <<>> THEN <<>>
        ELSE LET end == Find(Drop(t, 1), close) IN
             IF t[1] # open THEN in[Drop(t, 1)]
             ELSE IF end = Len(t) THEN <<>>
             ELSE <<SubSeq(t, 2, end)>> \o in[Drop(t, end + 1)]
  IN  in[s]

(***************************************************************************)
(* In place.                                                               *)
(***************************************************************************)

\* Mutant of ShiftLeft: one cell less is moved.
ShiftLeftShort(buf, i) == [j \in DOMAIN buf |-> IF j < i \/ j + 1 >= Len(buf) THEN buf[j]
                                                ELSE buf[j + 1]]
ShiftLeft(buf, i) == [j \in DOMAIN buf |-> IF j < i \/ j = Len(buf) THEN buf[j]
                                           ELSE buf[j + 1]]

\* wipeOffChar: the first loop zeroes every c, the second closes one gap for
\* each, but never looks at a cell again that it has just filled.
Zeroed(buf, c) == [i \in DOMAIN buf |-> IF buf[i] = c THEN NUL ELSE buf[i]]

WipeOff(s, n, c) ==
  LET gaps == Cardinality({i \in DOMAIN s : s[i] = c})
      upto[i \in Nat] ==
        IF i = 0 THEN [buf |-> Zeroed(Buffer(s, n), c), moved |-> 0]
        ELSE LET st == upto[i - 1] IN
             IF st.moved < gaps /\ st.buf[i] = NUL
             THEN [buf |-> ShiftLeft(st.buf, i), moved |-> st.moved + 1] ELSE st
  IN  IF gaps = 0 THEN s
      ELSE InBuffer([upto[n].buf EXCEPT ![n - gaps + 1] = NUL])

\* filtrationBlank: blanks at both ends are zeroed, then the text is moved to the
\* front of the buffer; the cells it leaves keep what they had.
FiltrationBlank(s, n) ==
  LET buf == Buffer(s, n)
      first[i \in 1 .. n + 1] ==
        IF i <= n /\ buf[i] = BLANK THEN first[i + 1]
        ELSE IF i < n /\ buf[i] = HALF /\ buf[i + 1] = HALF THEN first[i + 2] ELSE i
      last[j \in 0 .. n] ==
        IF j <= first[1] THEN first[1]
        ELSE IF buf[j] \in {NUL, BLANK} THEN last[j - 1]
        ELSE IF buf[j] = HALF /\ buf[j - 1] = HALF THEN last[j - 2] ELSE j
      kept  == [i \in 1 .. n |-> IF i < first[1] \/ i > last[n] THEN NUL ELSE buf[i]]
      moved == [i \in 1 .. n |-> IF i + first[1] - 1 <= n THEN kept[i + first[1] - 1]
                                 ELSE kept[i]]
  IN  IF first[1] > Len(s) THEN <<>> ELSE InBuffer(moved)

\* ismbblead off Windows, and testMultibyte: of an odd run of such characters at
\* the end the last is cut off.
LeadByte(c) == (c \div 4) % 2 = 1

TestMultibyte(s) ==
  LET run == Len(s) - Max({i \in DOMAIN s : ~LeadByte(s[i])} \cup {0}) IN
  [ok |-> run % 2 = 0, out |-> IF run % 2 = 0 THEN s ELSE Front(s)]

(***************************************************************************)
(* Looking only.                                                           *)
(***************************************************************************)
Lower(c) == IF c \in 65 .. 90 THEN c + 32 ELSE c

\* dStrnicmp: the difference at the first place where the texts differ or end.
Strnicmp(s, t, n) ==
  LET c(i) == IF i <= Len(s) THEN Lower(s[i]) ELSE NUL
      d(i) == IF i <= Len(t) THEN Lower(t[i]) ELSE NUL
      stop == Min({i \in 1 .. n : c(i) = NUL \/ c(i) # d(i)} \cup {n})
  IN  IF n <= 0 THEN 0 ELSE c(stop) - d(stop)

\* dStristr: where needle begins in haystack, 0 for nullptr.
Stristr(hay, needle) ==
  LET found == {p \in DOMAIN hay :
                  Strnicmp(SubSeq(hay, p, Len(hay)), needle, Len(needle)) = 0} IN
  IF needle = <<>> THEN 1 ELSE IF found = {} THEN 0 ELSE Min(found)

(***************************************************************************)
(* createDirectory.  The path is cut at the breaks, and each name that is  *)
(* not empty is put behind those before it: a leading break is dropped.    *)
(* there[k] is what access finds under the first k names; when it finds    *)
(* nothing, another process may have made it by the time of mkdir.         *)
(***************************************************************************)
Names(path, brk) ==
  LET in[t \in Str] ==
        IF t = <<>> THEN <<>>
        ELSE LET end == Find(t, brk) IN
             IF end = 1 THEN in[Drop(t, end)]
             ELSE <<SubSeq(t, 1, end - 1)>> \o in[Drop(t, end)]
  IN  in[path]

\* mkdir fails on a name that exists, and below one that is not a directory.
CreateDirectory(there, rival) ==
  LET fails == {k \in DOMAIN there :
                  there[k] = "no" /\ (k \in rival \/ (k > 1 /\ there[k - 1] = "file"))}
      upto  == IF fails = {} THEN Len(there) ELSE Min(fails)
  IN  [ok |-> fails = {},
       there |-> [k \in DOMAIN there |->
                    IF k <= upto /\ there[k] = "no" /\ (k \notin fails \/ k \in rival)
                    THEN "dir" ELSE there[k]]]

(***************************************************************************)
(* Lists and numbers.                                                      *)
(***************************************************************************)

\* _qsort_pointer: each null is exchanged with the next pointer that is not.
Fill(list, i) ==
  LET next == {j \in i + 1 .. Len(list) : list[j] # NUL} IN
  IF list[i] # NUL \/ next = {} THEN list
  ELSE [list EXCEPT ![i] = list[Min(next)], ![Min(next)] = NUL]

QsortPointer(list) ==
  LET upto[i \in Nat] == IF i = 0 THEN list ELSE Fill(upto[i - 1], i) IN upto[Len(list)]

\* getNumberBit: decimal digits.
NumberBit(n) ==
  LET bits[k \in Nat] == IF k = 0 THEN 0 ELSE 1 + bits[k \div 10] IN bits[n]

\* dDivisionUint32: a wide number by a word, as a word of `word` values.
Division(a, b, floor, word) ==
  IF a = 0 \/ b = 0 THEN 0
  ELSE (((a \div b) % word) + (IF ~floor /\ a % b > 0 THEN 1 ELSE 0)) % word

(***************************************************************************)
(* The calls.                                                              *)
(***************************************************************************)
NoText == [fn |-> "none"]

RoutinesInit == text = NoText

CallCut ==
  \E s \in Text({97, 98, COMMA}) :
    \/ text' = [fn |-> "cut", s |-> s, out |-> CutAt(s, COMMA)]
    \/ \E t \in BoundedSeq({97, COMMA}, 2) :
         text' = [fn |-> "cutToken", s |-> s, t |-> t, out |-> CutAtToken(s, t)]

CallReplace ==
  \E s \in Text({97, 98}), src \in BoundedSeq({97, 98}, 2) \ {<<>>},
     dst \in BoundedSeq({97, COMMA}, 2) :
    text' = [fn |-> "replace", s |-> s, src |-> src, dst |-> dst,
             out |-> Replace(s, src, dst)]

CallSplit ==
  \/ \E s \in Text({97, 98, COMMA}) :
       text' = [fn |-> "split", s |-> s, out |-> Split(s, COMMA),
                divided |-> Divide(s, COMMA)]
  \/ \E s \in Text({97, OPEN, CLOSE}) :
       text' = [fn |-> "between", s |-> s, out |-> Between(s, OPEN, CLOSE)]

CallWipeOff ==
  \E s \in Text({97, 98, COMMA}) : \E n \in Len(s) .. MaxText + 1 :
    n > 0 /\ text' = [fn |-> "wipeOff", s |-> s, n |-> n, out |-> WipeOff(s, n, COMMA)]

CallFiltrationBlank ==
  \E s \in Text({97, BLANK, HALF}) : \E n \in Len(s) .. MaxText + 1 :
    n > 0 /\ text' = [fn |-> "filtrationBlank", s |-> s, n |-> n,
                      out |-> FiltrationBlank(s, n)]

CallTestMultibyte ==
  \E s \in Text({97, 100, 228}) \ {<<>>} :
    text' = [fn |-> "testMultibyte", s |-> s, ok |-> TestMultibyte(s).ok,
             out |-> TestMultibyte(s).out]

CallStristr ==
  \E s \in Text({97, 65, 98}), t \in BoundedSeq({97, 65, 66}, 2) :
    text' = [fn |-> "stristr", s |-> s, t |-> t, out |-> Stristr(s, t)]

CallCreateDirectory ==
  \E path \in Text({97, 98, 47}) \ {<<>>} :
    \E there \in [DOMAIN Names(path, 47) -> {"no", "dir", "file"}],
       rival \in SUBSET (DOMAIN Names(path, 47)) :
      /\ \A j, k \in DOMAIN there : j < k /\ there[j] # "dir" => there[k] = "no"
      /\ \A j \in DOMAIN there, k \in rival : there[k] = "no" /\ (j < k => there[j] # "file")
      /\ text' = [fn |-> "createDirectory", s |-> path, there |-> there, rival |-> rival,
                  names |-> Names(path, 47), out |-> CreateDirectory(there, rival)]

CallQsortPointer ==
  \E list \in Text({NUL, 97, 98}) :
    text' = [fn |-> "qsortPointer", s |-> list, out |-> QsortPointer(list)]

CallNumber ==
  \E a \in 0 .. MaxNumber :
    \/ text' = [fn |-> "numberBit", a |-> a, out |-> NumberBit(a)]
    \/ \E b \in 0 .. 7, floor \in BOOLEAN :
         text' = [fn |-> "division", a |-> a, b |-> b, floor |-> floor,
                  out |-> Division(a, b, floor, 8)]

AnyRoutine ==
  \/ CallCut \/ CallReplace \/ CallSplit \/ CallWipeOff \/ CallFiltrationBlank
  \/ CallTestMultibyte \/ CallStristr \/ CallCreateDirectory \/ CallQsortPointer
  \/ CallNumber

RoutinesNext == IF text = NoText THEN AnyRoutine ELSE text' = NoText

RoutinesSpec == RoutinesInit /\ [][RoutinesNext]_text

-----------------------------------------------------------------------------
(***************************************************************************)
(* Properties.                                                             *)
(***************************************************************************)
\* What a text is without one of its characters, and pieces with one between them.
Wiped(s, c) ==
  LET in[t \in Str] ==
        IF t = <<>> THEN <<>> ELSE IF t[1] = c THEN in[Drop(t, 1)] ELSE <<t[1]>> \o in[Drop(t, 1)]
  IN  in[s]
Joined(pieces, sep) ==
  LET in[ps \in Seq(Str)] ==
        IF ps = <<>> THEN <<>> ELSE IF Len(ps) = 1 THEN ps[1]
        ELSE ps[1] \o <<sep>> \o in[Drop(ps, 1)]
  IN  in[pieces]

\* Cutting loses no character but the one cut at, and finds what there is.
CutSound ==
  /\ text.fn = "cut" =>
       IF COMMA \in ToSet(text.s) THEN text.s = text.out.sub \o <<COMMA>> \o text.out.rest
       ELSE text.out.sub = text.s /\ text.out.rest = <<>>
  /\ text.fn = "cutToken" =>
       /\ text.out.ok => text.s = text.out.rest \o text.t \o text.out.sub
       /\ text.out.ok <=> text.s # <<>> /\ \E p \in 1 .. Len(text.s) + 1 : Occurs(text.s, text.t, p)

\* Splitting loses no character: the pieces, joined again, are the text.  divideStr
\* keeps every letter, and no piece but the last has a separator in it: the last may,
\* against the comment at stringFunctions.h:122-123.  Replacing by something new can
\* be undone.
PiecesSound ==
  /\ text.fn = "split" =>
       /\ Joined(text.out, COMMA) = text.s
       /\ Wiped(Joined(text.divided, COMMA), COMMA) = Wiped(text.s, COMMA)
       /\ \A k \in DOMAIN text.divided :
            text.divided[k] # <<>> /\ (COMMA \in ToSet(text.divided[k]) => k = Len(text.divided))
  /\ text.fn = "between" => \A k \in DOMAIN text.out : CLOSE \notin ToSet(text.out[k])
  /\ text.fn = "replace" /\ text.dst = <<COMMA>> => Replace(text.out, text.dst, text.src) = text.s

HasPair(s, c) == \E i \in DOMAIN s : i > 1 /\ s[i] = c /\ s[i - 1] = c

Blanks(s) == \E cut \in SUBSET (1 .. Len(s)) :
               \A i \in DOMAIN s : \/ s[i] = BLANK
                                   \/ s[i] = HALF /\ i \in cut /\ i + 1 \notin cut
                                        /\ i < Len(s) /\ s[i + 1] = HALF
                                   \/ s[i] = HALF /\ i \notin cut /\ i > 1 /\ i - 1 \in cut
                                        /\ s[i - 1] = HALF
Cores(s) == {SubSeq(s, ij[1], ij[2]) : ij \in
               {ij \in (1 .. Len(s) + 1) \X (0 .. Len(s)) :
                  /\ Blanks(SubSeq(s, 1, ij[1] - 1))
                  /\ Blanks(SubSeq(s, ij[2] + 1, Len(s)))
                  /\ ij[2] >= ij[1] - 1}}

\* In place: wiping off a character that nowhere stands twice in a row removes just
\* that, and never invents anything.  Of a pair nothing else is promised: the end of
\* the text may be lost, against the comment at stringFunctions.h:92.  The blanks at
\* both ends go when the buffer has a cell to spare; when it has none, what is left
\* may go on behind the text without its blanks, against stringFunctions.h:95.
InPlaceSound ==
  /\ text.fn = "wipeOff" =>
       LET want == Wiped(text.s, COMMA) IN
       IsPrefix(text.out, want) /\ (~HasPair(text.s, COMMA) => text.out = want)
  /\ text.fn = "filtrationBlank" =>
       IF text.n > Len(text.s)
       THEN text.out \in Cores(text.s) /\ \A c \in Cores(text.s) : Len(text.out) <= Len(c)
       ELSE \E c \in Cores(text.s) : IsPrefix(c, text.out)

\* Cutting an odd run of lead bytes leaves a text that passes.
MultibyteSound ==
  text.fn = "testMultibyte" => text.out = <<>> \/ TestMultibyte(text.out).ok

\* dStristr finds the needle where the lowered needle is in the lowered text.  Of an
\* empty needle nothing is promised: it is found, against stringFunctions.cpp:191.
LowerAll(s) == [i \in DOMAIN s |-> Lower(s[i])]
SearchSound ==
  text.fn = "stristr" =>
    IF text.out = 0 THEN ~\E p \in 1 .. Len(text.s) : Occurs(LowerAll(text.s), LowerAll(text.t), p)
    ELSE \/ text.t = <<>>
         \/ /\ Occurs(LowerAll(text.s), LowerAll(text.t), text.out)
            /\ \A p \in 1 .. text.out - 1 : ~Occurs(LowerAll(text.s), LowerAll(text.t), p)

\* createDirectory returns true only when every name on the way exists, all but
\* the last as a directory; it returns false only because of a file in the way, or
\* because another process made a directory between access and mkdir: that it then
\* refuses what is there is the code's way, not a promise.
DirectorySound ==
  text.fn = "createDirectory" =>
    LET end == text.out.there IN
    /\ text.out.ok => \A k \in DOMAIN end : end[k] = "dir" \/ (k = Len(end) /\ end[k] = "file")
    /\ ~text.out.ok => text.rival # {} \/ \E k \in DOMAIN end : end[k] = "file"
    /\ \A k \in DOMAIN end : end[k] = "dir" /\ k > 1 => end[k - 1] = "dir"

\* The pointers keep their order and the nulls come last.
ListSound ==
  text.fn = "qsortPointer" =>
    LET some == Wiped(text.s, NUL) IN
    text.out = some \o [i \in 1 .. Len(text.s) - Len(some) |-> NUL]

\* The digits fit; a division is exact, rounded as asked, if it fits the word.
TenTo[k \in Nat] == IF k = 0 THEN 1 ELSE 10 * TenTo[k - 1]
NumberSound ==
  /\ text.fn = "numberBit" => text.a < TenTo[text.out] /\ (text.a > 0 => TenTo[text.out - 1] <= text.a)
  /\ text.fn = "division" /\ text.b > 0 /\ text.a < 7 * text.b =>
       IF text.floor THEN text.out * text.b <= text.a /\ text.a < (text.out + 1) * text.b
       ELSE (text.out - 1) * text.b < text.a /\ text.a <= text.out * text.b

\* What the routines promise their callers.
RoutinesSound ==
  /\ CutSound /\ PiecesSound /\ InPlaceSound /\ MultibyteSound
  /\ SearchSound /\ DirectorySound /\ ListSound /\ NumberSound
=============================================================================
