-------------------------- MODULE Routines_Proofs ----------------------------
(***************************************************************************)
(* RoutinesSound for texts and buffers of every length.                    *)
(*                                                                         *)
(* The routines are recursive functions, and what they compute is proved   *)
(* by induction over the texts.  The induction is carried by sets: what is *)
(* claimed of an element is that it is in a set P, so that the principle   *)
(* is a statement about P and not about an operator.  It comes from the    *)
(* least element of a set of numbers (LeastOf, Induction and               *)
(* MeasureInduction).  A recursion is a next element and a step, both      *)
(* functions; it has a solution, and only well typed ones (Recursion,      *)
(* RecursionTyped), and so each routine satisfies its own equation         *)
(* (ReplaceIs, SplitIs and so on).  One section for each group of          *)
(* routines then shows its part of the property, and the last puts the     *)
(* calls together.                                                         *)
(***************************************************************************)
EXTENDS Routines, NaturalsInduction, WellFoundedInduction, SequenceTheorems, FiniteSetTheorems, TLAPS

(***************************************************************************)
(* Induction and recursion.                                                *)
(***************************************************************************)

\* A set of numbers has a least one.
LEMMA LeastOf ==
  ASSUME NEW W \in SUBSET Nat, W # {}
  PROVE  \E w \in W : \A v \in W : w <= v
<1>. DEFINE R == OpToRel(<, Nat)
<1>1. \A v, w \in Nat : v < w => <<v, w>> \in R
  BY DEF OpToRel
<1>2. IsWellFoundedOn(R, Nat)
  BY NatLessThanWellFounded, Zenon
<1>. HIDE DEF R
<1>3. PICK w \in W : \A v \in W : <<v, w>> \notin R
  BY <1>2, WFMin
<1>4. ASSUME NEW v \in W PROVE w <= v
  <2>1. ~(v < w)
    BY <1>1, <1>3, Zenon
  <2>. QED
    BY <2>1
<1>. QED
  BY <1>4

\* A set of numbers with 0 and the successors of its elements has all of them.
LEMMA Induction ==
  ASSUME NEW P, 0 \in P, \A k \in Nat : k \in P => k + 1 \in P
  PROVE  \A k \in Nat : k \in P
<1>. DEFINE W == {k \in Nat : k \notin P}
<1>. SUFFICES ASSUME W # {} PROVE FALSE
  OBVIOUS
<1>1. PICK w \in W : \A v \in W : w <= v
  <2>. HIDE DEF W
  <2>1. W \in SUBSET Nat
    BY DEF W
  <2>. QED
    BY <2>1, LeastOf
<1>2. w # 0
  OBVIOUS
<1>3. w - 1 \in Nat /\ w - 1 \notin W /\ (w - 1) + 1 = w
  BY <1>1, <1>2
<1>. QED
  BY <1>3

\* What holds of an element if it holds of those of smaller measure holds of all.
LEMMA MeasureInduction ==
  ASSUME NEW D, NEW m \in [D -> Nat], NEW P,
         \A d \in D : (\A e \in D : m[e] < m[d] => e \in P) => d \in P
  PROVE  \A d \in D : d \in P
<1>. DEFINE W == {m[d] : d \in {e \in D : e \notin P}}
<1>. SUFFICES ASSUME NEW d \in D, d \notin P PROVE FALSE
  OBVIOUS
<1>1. W \in SUBSET Nat /\ m[d] \in W
  OBVIOUS
<1>2. PICK w \in W : \A v \in W : w <= v
  <2>. HIDE DEF W
  <2>. QED
    BY <1>1, LeastOf
<1>3. PICK e \in D : e \notin P /\ m[e] = w
  OBVIOUS
<1>4. ASSUME NEW f \in D, m[f] < m[e], f \notin P PROVE FALSE
  <2>1. m[f] \in W
    BY <1>4
  <2>2. m[e] <= m[f] /\ m[e] \in Nat /\ m[f] \in Nat
    BY <1>2, <1>3, <2>1
  <2>. QED
    BY <2>2, <1>4
<1>. QED
  BY <1>3, <1>4

\* A recursion over D: each element that is not in stop calls one of smaller measure.
IsRecursion(D, m, S, stop, next, base, step) ==
  /\ m \in [D -> Nat] /\ next \in [D -> D]
  /\ base \in [D -> S] /\ step \in [D \X S -> S]
  /\ \A d \in D : d \notin stop => m[next[d]] < m[d]

\* A function that satisfies the equation of the recursion.
Solves(f, D, stop, next, base, step) ==
  \A d \in D : f[d] = IF d \in stop THEN base[d] ELSE step[<<d, f[next[d]]>>]

\* A recursion has a solution.
LEMMA Recursion ==
  ASSUME NEW D, NEW m, NEW S, NEW stop, NEW next, NEW base, NEW step,
         IsRecursion(D, m, S, stop, next, base, step)
  PROVE  \E f \in [D -> S] : Solves(f, D, stop, next, base, step)
<1>. USE DEF IsRecursion
<1>. DEFINE Is(f, d)  == f[d] = IF d \in stop THEN base[d] ELSE step[<<d, f[next[d]]>>]
            Upto(f, k) == \A d \in D : m[d] < k => Is(f, d)
            P == {k \in Nat : \E f \in [D -> S] : Upto(f, k)}
<1>1. \A k \in Nat : k \in P
  <2>1. 0 \in P
    BY base \in [D -> S]
  <2>2. ASSUME NEW k \in Nat, k \in P PROVE k + 1 \in P
    <3>1. PICK f \in [D -> S] : Upto(f, k)
      BY <2>2
    <3>. DEFINE g == [d \in D |-> IF d \in stop THEN base[d] ELSE step[<<d, f[next[d]]>>]]
    <3>2. g \in [D -> S]
      OBVIOUS
    <3>3. \A d \in D : m[d] < k => g[d] = f[d]
      BY <3>1
    <3>4. ASSUME NEW d \in D, m[d] < k + 1 PROVE Is(g, d)
      <4>1. CASE d \in stop
        BY <4>1
      <4>2. CASE d \notin stop
        <5>1. m[next[d]] < k
          BY <3>4, <4>2
        <5>2. g[next[d]] = f[next[d]]
          BY <3>3, <5>1
        <5>. QED
          BY <4>2, <5>2
      <4>. QED
        BY <4>1, <4>2
    <3>. HIDE DEF g, Is
    <3>. QED
      BY <3>2, <3>4
  <2>. HIDE DEF P
  <2>. QED
    BY <2>1, <2>2, Induction
<1>. DEFINE part == [k \in Nat |-> CHOOSE f \in [D -> S] : Upto(f, k)]
            whole == [d \in D |-> part[m[d] + 1][d]]
<1>2. ASSUME NEW k \in Nat PROVE part[k] \in [D -> S] /\ Upto(part[k], k)
  <2>1. \E f \in [D -> S] : Upto(f, k)
    BY <1>1
  <2>2. part[k] = CHOOSE f \in [D -> S] : Upto(f, k)
    OBVIOUS
  <2>. HIDE DEF part, Upto
  <2>. QED
    BY <2>1, <2>2, Zenon
<1>. HIDE DEF part
<1>3. whole \in [D -> S]
  BY <1>2
<1>4. ASSUME NEW k \in Nat, NEW f \in [D -> S], NEW g \in [D -> S], Upto(f, k), Upto(g, k)
      PROVE  \A d \in D : m[d] < k => f[d] = g[d]
  <2>. DEFINE Q == {d \in D : m[d] < k => f[d] = g[d]}
  <2>1. ASSUME NEW d \in D, \A e \in D : m[e] < m[d] => e \in Q PROVE d \in Q
    <3>1. SUFFICES ASSUME m[d] < k PROVE f[d] = g[d]
      OBVIOUS
    <3>2. Is(f, d) /\ Is(g, d)
      BY <1>4, <3>1
    <3>3. CASE d \in stop
      BY <3>2, <3>3
    <3>4. CASE d \notin stop
      <4>1. m[next[d]] < m[d] /\ next[d] \in D
        BY <3>4
      <4>2. m[next[d]] < k
        BY <3>1, <4>1
      <4>3. f[next[d]] = g[next[d]]
        BY <2>1, <4>1, <4>2
      <4>. QED
        BY <3>2, <3>4, <4>3
    <3>. QED
      BY <3>3, <3>4
  <2>. HIDE DEF Q
  <2>2. \A d \in D : d \in Q
    BY <2>1, MeasureInduction
  <2>. QED
    BY <2>2 DEF Q
<1>5. ASSUME NEW d \in D PROVE Is(whole, d)
  <2>. DEFINE k == m[d] + 1
              f == part[k]
  <2>0. k \in Nat /\ f \in [D -> S] /\ Upto(f, k) /\ m[d] < k
    BY <1>2
  <2>1. Is(f, d) /\ whole[d] = f[d]
    BY <2>0
  <2>2. CASE d \in stop
    BY <2>1, <2>2
  <2>3. CASE d \notin stop
    <3>. DEFINE e == next[d]
                j == m[e] + 1
                g == part[j]
    <3>1. e \in D /\ m[e] < m[d]
      BY <2>3
    <3>2. j \in Nat /\ g \in [D -> S] /\ Upto(g, j) /\ m[e] < j /\ j <= k
      BY <1>2, <3>1
    <3>3. Upto(f, j)
      BY <2>0, <3>2
    <3>4. f[e] = g[e]
      <4>. HIDE DEF f, g, e, j, k, Upto
      <4>. QED
        BY <1>4, <2>0, <3>1, <3>2, <3>3
    <3>5. whole[e] = g[e]
      BY <3>1
    <3>. HIDE DEF f, g, whole, k, j
    <3>. QED
      BY <2>1, <2>3, <3>4, <3>5
  <2>. QED
    BY <2>2, <2>3
<1>. HIDE DEF whole
<1>. QED
  BY <1>3, <1>5 DEF Solves

\* Every solution has the type of its steps.
LEMMA RecursionTyped ==
  ASSUME NEW D, NEW m, NEW S, NEW stop, NEW next, NEW base, NEW step,
         IsRecursion(D, m, S, stop, next, base, step),
         NEW f, Solves(f, D, stop, next, base, step)
  PROVE  \A d \in D : f[d] \in S
<1>. USE DEF IsRecursion, Solves
<1>. DEFINE P == {d \in D : f[d] \in S}
<1>1. ASSUME NEW d \in D, \A e \in D : m[e] < m[d] => e \in P PROVE d \in P
  <2>1. CASE d \in stop
    BY <2>1
  <2>2. CASE d \notin stop
    <3>1. next[d] \in D /\ f[next[d]] \in S
      BY <1>1, <2>2
    <3>2. step[<<d, f[next[d]]>>] \in S
      BY <3>1
    <3>. QED
      BY <2>2, <3>2
  <2>. QED
    BY <2>1, <2>2
<1>. HIDE DEF P
<1>2. \A d \in D : d \in P
  BY <1>1, MeasureInduction
<1>. QED
  BY <1>2 DEF P

(***************************************************************************)
(* Texts.                                                                  *)
(***************************************************************************)

\* What is left of a text behind its first characters.
LEMMA DropIs ==
  ASSUME NEW C, NEW t \in Seq(C), NEW n \in Nat
  PROVE  /\ Drop(t, n) \in Seq(C)
         /\ Len(Drop(t, n)) = IF n <= Len(t) THEN Len(t) - n ELSE 0
         /\ \A i \in 1 .. Len(t) - n : Drop(t, n)[i] = t[n + i]
         /\ n > 0 /\ t # <<>> => Len(Drop(t, n)) < Len(t)
         /\ Drop(t, 0) = t
<1>1. Len(t) \in Nat /\ \A i \in 1 .. Len(t) : t[i] \in C
  OBVIOUS
<1>2. \A i \in n + 1 .. Len(t) : t[i] \in C
  BY <1>1
<1>. DEFINE u == SubSeq(t, n + 1, Len(t))
<1>3. /\ u \in Seq(C)
      /\ Len(u) = IF n + 1 <= Len(t) THEN Len(t) - (n + 1) + 1 ELSE 0
      /\ \A i \in 1 .. Len(t) - (n + 1) + 1 : u[i] = t[n + 1 + i - 1]
  BY <1>1, <1>2, SubSeqProperties
<1>4. Drop(t, n) = u
  BY DEF Drop
<1>. HIDE DEF u
<1>5. \A i \in 1 .. Len(t) - n : u[i] = t[n + i]
  <2>. SUFFICES ASSUME NEW i \in 1 .. Len(t) - n PROVE u[i] = t[n + i]
    OBVIOUS
  <2>1. i \in 1 .. Len(t) - (n + 1) + 1 /\ n + 1 + i - 1 = n + i
    BY <1>1
  <2>. QED
    BY <1>3, <2>1
<1>6. t # <<>> => Len(t) > 0
  BY EmptySeq
<1>7. Drop(t, 0) = t
  BY SubSeqFull DEF Drop
<1>. QED
  BY <1>1, <1>3, <1>4, <1>5, <1>6, <1>7

\* What holds of a text if it holds of the shorter ones holds of all.
LEMMA TextInduction ==
  ASSUME NEW C, NEW P,
         \A t \in Seq(C) : (\A u \in Seq(C) : Len(u) < Len(t) => u \in P) => t \in P
  PROVE  \A t \in Seq(C) : t \in P
<1>. DEFINE D == Seq(C)
            m == [t \in D |-> Len(t)]
<1>1. m \in [D -> Nat]
  BY LenProperties
<1>2. \A t \in D : (\A u \in D : m[u] < m[t] => u \in P) => t \in P
  OBVIOUS
<1>. HIDE DEF D, m
<1>. QED
  <2>1. \A t \in D : t \in P
    BY <1>1, <1>2, MeasureInduction
  <2>. QED
    BY <2>1 DEF D

\* A recursion over texts: of each that is not empty it calls what is left behind
\* its first characters, as far as the calls are of its type.
IsTextRecursion(C, S, nil, cut, body) ==
  /\ cut \in [Seq(C) -> Nat \ {0}] /\ nil \in S
  /\ body \in [Seq(C) \X S -> S]

\* A function on texts that satisfies the equation.
SolvesText(f, C, S, nil, cut, body) ==
  \A t \in Seq(C) :
    IF t = <<>> THEN f[t] = nil
    ELSE f[Drop(t, cut[t])] \in S => f[t] = body[<<t, f[Drop(t, cut[t])]>>]

\* It has a solution, and all solutions are of its type.
LEMMA TextRecursion ==
  ASSUME NEW C, NEW S, NEW nil, NEW cut, NEW body, IsTextRecursion(C, S, nil, cut, body)
  PROVE  /\ \E f \in [Seq(C) -> S] : SolvesText(f, C, S, nil, cut, body)
         /\ \A f : SolvesText(f, C, S, nil, cut, body) => \A t \in Seq(C) : f[t] \in S
<1>. DEFINE D == Seq(C)
            m == [t \in D |-> Len(t)]
            next == [t \in D |-> Drop(t, cut[t])]
            base == [t \in D |-> nil]
            stop == {<<>>}
<1>1. m \in [D -> Nat]
  BY LenProperties
<1>2. next \in [D -> D]
  BY DropIs DEF IsTextRecursion
<1>3. \A t \in D : t \notin stop => m[next[t]] < m[t]
  BY DropIs DEF IsTextRecursion
<1>4. \A t \in D : next[t] = Drop(t, cut[t])
  OBVIOUS
<1>. HIDE DEF m, next
<1>5. IsRecursion(D, m, S, stop, next, base, body)
  BY <1>1, <1>2, <1>3 DEF IsTextRecursion, IsRecursion
<1>6. ASSUME NEW f \in [D -> S], Solves(f, D, stop, next, base, body)
      PROVE  SolvesText(f, C, S, nil, cut, body)
  BY <1>4, <1>6 DEF SolvesText, Solves
<1>7. ASSUME NEW f, SolvesText(f, C, S, nil, cut, body), NEW t \in D PROVE f[t] \in S
  <2>. DEFINE P == {u \in D : f[u] \in S}
  <2>1. ASSUME NEW u \in Seq(C), \A v \in Seq(C) : Len(v) < Len(u) => v \in P PROVE u \in P
    <3>1. CASE u = <<>>
      BY <1>7, <3>1 DEF SolvesText, IsTextRecursion
    <3>2. CASE u # <<>>
      <4>. DEFINE v == Drop(u, cut[u])
      <4>1. v \in Seq(C) /\ Len(v) < Len(u)
        BY <3>2, DropIs DEF IsTextRecursion
      <4>2. f[v] \in S
        BY <2>1, <4>1
      <4>3. f[u] = body[<<u, f[v]>>]
        BY <1>7, <3>2, <4>2 DEF SolvesText
      <4>. HIDE DEF v
      <4>. QED
        BY <4>2, <4>3 DEF IsTextRecursion
    <3>. QED
      BY <3>1, <3>2
  <2>. HIDE DEF P
  <2>2. \A u \in Seq(C) : u \in P
    BY <2>1, TextInduction
  <2>. QED
    BY <2>2 DEF P
<1>. HIDE DEF D, base, stop
<1>8. PICK f \in [D -> S] : Solves(f, D, stop, next, base, body)
  BY <1>5, Recursion
<1>9. \E g \in [D -> S] : SolvesText(g, C, S, nil, cut, body)
  BY <1>6, <1>8
<1>. QED
  BY <1>7, <1>9 DEF D

\* A text in front of another.
LEMMA TextConcat ==
  ASSUME NEW C, NEW s \in Seq(C), NEW t \in Seq(C), NEW c \in C
  PROVE  s \o t \in Seq(C) /\ <<c>> \in Seq(C) /\ <<c>> \o t \in Seq(C) /\ <<>> \in Seq(C)
  OBVIOUS

\* The first character of a text.
LEMMA FirstIs ==
  ASSUME NEW C, NEW t \in Seq(C), t # <<>>
  PROVE  t[1] \in C /\ Len(t) \in Nat \ {0} /\ DOMAIN t = 1 .. Len(t)
  BY EmptySeq, LenProperties

\* The least of a set of numbers.
LEMMA MinOf ==
  ASSUME NEW W \in SUBSET Nat, W # {}
  PROVE  Min(W) \in W /\ \A v \in W : Min(W) <= v
  BY LeastOf DEF Min

\* A part of a text, which may be empty.
LEMMA PartIs ==
  ASSUME NEW C, NEW t \in Seq(C), NEW i \in Nat \ {0}, NEW j \in Int, j <= Len(t)
  PROVE  /\ SubSeq(t, i, j) \in Seq(C)
         /\ Len(SubSeq(t, i, j)) = IF i <= j THEN j - i + 1 ELSE 0
         /\ \A k \in 1 .. j - i + 1 : SubSeq(t, i, j)[k] = t[i + k - 1]
<1>1. \A k \in i .. j : t[k] \in C
  BY LenProperties
<1>. QED
  BY <1>1, SubSeqProperties

\* Find is the place of the first character sought.
LEMMA FindIs ==
  ASSUME NEW t \in Str, NEW c
  PROVE  /\ Find(t, c) \in Nat /\ 1 <= Find(t, c) /\ Find(t, c) <= Len(t) + 1
         /\ \A i \in 1 .. Find(t, c) - 1 : t[i] # c
         /\ Find(t, c) <= Len(t) => t[Find(t, c)] = c
<1>. DEFINE W == {i \in DOMAIN t : t[i] = c} \cup {Len(t) + 1}
<1>1. Len(t) \in Nat /\ DOMAIN t = 1 .. Len(t)
  BY LenProperties DEF Str
<1>2. W \in SUBSET Nat /\ W # {}
  BY <1>1
<1>3. Min(W) \in W /\ \A v \in W : Min(W) <= v
  <2>. HIDE DEF W
  <2>. QED
    BY <1>2, MinOf
<1>. DEFINE m == Min(W)
<1>4. Find(t, c) = m
  BY DEF Find
<1>5. m \in W /\ \A v \in W : m <= v
  BY <1>3
<1>. HIDE DEF m
<1>. QED
  BY <1>1, <1>4, <1>5

\* A piece ends at the first separator, or with the text.
LEMMA PieceEndIs ==
  ASSUME NEW t \in Str, t # <<>>, NEW sep
  PROVE  /\ PieceEnd(t, sep) \in Nat /\ 1 <= PieceEnd(t, sep) /\ PieceEnd(t, sep) <= Len(t)
         /\ \A i \in 1 .. PieceEnd(t, sep) - 1 : t[i] # sep
         /\ PieceEnd(t, sep) < Len(t) => t[PieceEnd(t, sep)] = sep
<1>. DEFINE W == {p \in DOMAIN t : t[p] = sep \/ p = Len(t)}
<1>1. Len(t) \in Nat \ {0} /\ DOMAIN t = 1 .. Len(t)
  BY FirstIs DEF Str
<1>2. W \in SUBSET Nat /\ Len(t) \in W
  BY <1>1
<1>3. Min(W) \in W /\ \A v \in W : Min(W) <= v
  <2>. HIDE DEF W
  <2>. QED
    BY <1>2, MinOf
<1>. DEFINE m == Min(W)
<1>4. PieceEnd(t, sep) = m
  BY DEF PieceEnd
<1>5. m \in W /\ \A v \in W : m <= v
  BY <1>3
<1>. HIDE DEF m
<1>. QED
  BY <1>1, <1>4, <1>5

\* A piece is a text.
LEMMA PieceIs ==
  ASSUME NEW t \in Str, t # <<>>, NEW sep
  PROVE  Piece(t, PieceEnd(t, sep)) \in Str
<1>. DEFINE e == PieceEnd(t, sep)
<1>1. e \in Nat /\ 1 <= e /\ e <= Len(t) /\ Len(t) \in Nat
  BY PieceEndIs, LenProperties DEF Str
<1>. HIDE DEF e
<1>2. SubSeq(t, 1, IF e = Len(t) THEN e ELSE e - 1) \in Str
  BY <1>1, PartIs DEF Str
<1>. QED
  BY <1>2 DEF Piece, e

\* What stands behind the first character in front of the next c, or of the end.
LEMMA BetweenEnd ==
  ASSUME NEW t \in Str, t # <<>>, NEW c
  PROVE  LET end == Find(Drop(t, 1), c) IN
         /\ end \in Nat /\ 1 <= end /\ end <= Len(t)
         /\ SubSeq(t, 2, end) \in Str
         /\ \A i \in 2 .. end : t[i] # c
<1>. DEFINE u == Drop(t, 1)
            end == Find(u, c)
<1>1. Len(t) \in Nat \ {0}
  BY FirstIs DEF Str
<1>2. u \in Str /\ Len(u) = Len(t) - 1 /\ \A i \in 1 .. Len(t) - 1 : u[i] = t[1 + i]
  BY <1>1, DropIs DEF Str
<1>. HIDE DEF u
<1>3. /\ end \in Nat /\ 1 <= end /\ end <= Len(u) + 1
      /\ \A i \in 1 .. end - 1 : u[i] # c
  BY <1>2, FindIs
<1>. HIDE DEF end
<1>4. SubSeq(t, 2, end) \in Str
  BY <1>1, <1>2, <1>3, PartIs DEF Str
<1>5. ASSUME NEW i \in 2 .. end PROVE t[i] # c
  <2>1. i - 1 \in 1 .. end - 1 /\ i - 1 \in 1 .. Len(t) - 1 /\ 1 + (i - 1) = i
    BY <1>1, <1>2, <1>3
  <2>. QED
    BY <1>2, <1>3, <2>1
<1>. QED
  BY <1>1, <1>2, <1>3, <1>4, <1>5 DEF end, u

\* Wiped leaves out a character.
LEMMA WipedIs ==
  ASSUME NEW c
  PROVE  \A t \in Str :
           /\ Wiped(t, c) \in Str
           /\ Wiped(t, c) = IF t = <<>> THEN <<>>
                              ELSE IF t[1] = c THEN Wiped(Drop(t, 1), c) ELSE <<t[1]>> \o Wiped(Drop(t, 1), c)
<1>. DEFINE size(t) == 1
            out(t, r) == IF t[1] = c THEN r ELSE <<t[1]>> \o r
            of(in, t) == IF t = <<>> THEN <<>>
                         ELSE IF t[1] = c THEN in[Drop(t, 1)] ELSE <<t[1]>> \o in[Drop(t, 1)]
            its(in) == in = [t \in Str |-> of(in, t)]
            f == CHOOSE in : its(in)
            cut == [t \in Str |-> IF t = <<>> THEN 1 ELSE size(t)]
            body == [x \in Str \X Str |-> IF x[1] = <<>> THEN <<>> ELSE out(x[1], x[2])]
<1>1. \A t : Wiped(t, c) = f[t]
  BY DEF Wiped
<1>2. ASSUME NEW t \in Str, t # <<>> PROVE size(t) \in Nat \ {0}
  OBVIOUS
<1>3. ASSUME NEW t \in Str, t # <<>>, NEW r \in Str PROVE out(t, r) \in Str
  BY <1>3, FirstIs, TextConcat DEF Str
<1>4. \A in, t : of(in, t) = IF t = <<>> THEN <<>> ELSE out(t, in[Drop(t, size(t))])
  OBVIOUS
<1>. HIDE DEF size, out, of
<1>5. IsTextRecursion(Int, Str, <<>>, cut, body)
  <2>1. \A t \in Str, r \in Str : (IF t = <<>> THEN <<>> ELSE out(t, r)) \in Str
    BY <1>3, EmptySeq DEF Str
  <2>2. body \in [Str \X Str -> Str] /\ <<>> \in Str
    BY <2>1, EmptySeq DEF Str
  <2>3. cut \in [Str -> Nat \ {0}]
    BY <1>2
  <2>. HIDE DEF body, cut
  <2>. QED
    BY <2>2, <2>3 DEF IsTextRecursion, Str
<1>6. \A t \in Str : t # <<>> =>
        cut[t] = size(t) /\ \A r \in Str : body[<<t, r>>] = out(t, r)
  OBVIOUS
<1>. HIDE DEF cut, body, f
<1>7. ASSUME NEW g, \A t \in Str : g[t] = of(g, t)
      PROVE  SolvesText(g, Int, Str, <<>>, cut, body)
  BY <1>4, <1>6, <1>7 DEF SolvesText, Str
<1>8. ASSUME NEW g \in [Str -> Str], SolvesText(g, Int, Str, <<>>, cut, body)
      PROVE  its(g)
  <2>. SUFFICES ASSUME NEW t \in Str PROVE g[t] = of(g, t)
    BY Zenon
  <2>1. t # <<>> => Drop(t, cut[t]) \in Str
    BY <1>2, <1>6, DropIs DEF Str
  <2>2. IF t = <<>> THEN g[t] = <<>>
        ELSE g[Drop(t, cut[t])] \in Str => g[t] = body[<<t, g[Drop(t, cut[t])]>>]
    BY <1>8 DEF SolvesText, Str
  <2>. QED
    BY <1>4, <1>6, <2>1, <2>2
<1>9. its(f)
  <2>1. PICK g \in [Str -> Str] : SolvesText(g, Int, Str, <<>>, cut, body)
    BY <1>5, TextRecursion DEF Str
  <2>2. its(g)
    BY <1>8, <2>1
  <2>. HIDE DEF its
  <2>. QED
    BY <2>2, Zenon DEF f
<1>10. ASSUME NEW t \in Str PROVE f[t] = of(f, t)
  BY <1>9, Zenon
<1>. HIDE DEF its
<1>11. \A t \in Str : f[t] \in Str
  BY <1>5, <1>7, <1>10, TextRecursion DEF Str
<1>. QED
  <2>. TAKE t \in Str
  <2>1. f[t] = IF t = <<>> THEN <<>>
              ELSE IF t[1] = c THEN f[Drop(t, 1)] ELSE <<t[1]>> \o f[Drop(t, 1)]
    BY <1>10 DEF of
  <2>2. /\ Wiped(t, c) = f[t] /\ f[t] \in Str
        /\ Wiped(Drop(t, 1), c) = f[Drop(t, 1)]
    BY <1>1, <1>11
  <2>. QED
    BY <2>1, <2>2, Zenon

\* Replace steps over what it has put in.
LEMMA ReplaceIs ==
  ASSUME NEW src \in Str, src # <<>>, NEW dst \in Str
  PROVE  \A t \in Str :
           /\ Replace(t, src, dst) \in Str
           /\ Replace(t, src, dst) = IF t = <<>> THEN <<>>
                                     ELSE IF Occurs(t, src, 1) THEN
                                              dst \o Replace(Drop(t, Len(src)), src, dst)
                                     ELSE <<t[1]>> \o Replace(Drop(t, 1), src, dst)
<1>. DEFINE size(t) == IF Occurs(t, src, 1) THEN Len(src) ELSE 1
            out(t, r) == IF Occurs(t, src, 1) THEN dst \o r ELSE <<t[1]>> \o r
            of(in, t) == IF t = <<>> THEN <<>>
                         ELSE IF Occurs(t, src, 1) THEN dst \o in[Drop(t, Len(src))]
                         ELSE <<t[1]>> \o in[Drop(t, 1)]
            its(in) == in = [t \in Str |-> of(in, t)]
            f == CHOOSE in : its(in)
            cut == [t \in Str |-> IF t = <<>> THEN 1 ELSE size(t)]
            body == [x \in Str \X Str |-> IF x[1] = <<>> THEN <<>> ELSE out(x[1], x[2])]
<1>1. \A t : Replace(t, src, dst) = f[t]
  BY DEF Replace
<1>2. ASSUME NEW t \in Str, t # <<>> PROVE size(t) \in Nat \ {0}
  BY FirstIs DEF Str
<1>3. ASSUME NEW t \in Str, t # <<>>, NEW r \in Str PROVE out(t, r) \in Str
  BY <1>3, FirstIs, TextConcat DEF Str
<1>4. \A in, t : of(in, t) = IF t = <<>> THEN <<>> ELSE out(t, in[Drop(t, size(t))])
  OBVIOUS
<1>. HIDE DEF size, out, of
<1>5. IsTextRecursion(Int, Str, <<>>, cut, body)
  <2>1. \A t \in Str, r \in Str : (IF t = <<>> THEN <<>> ELSE out(t, r)) \in Str
    BY <1>3, EmptySeq DEF Str
  <2>2. body \in [Str \X Str -> Str] /\ <<>> \in Str
    BY <2>1, EmptySeq DEF Str
  <2>3. cut \in [Str -> Nat \ {0}]
    BY <1>2
  <2>. HIDE DEF body, cut
  <2>. QED
    BY <2>2, <2>3 DEF IsTextRecursion, Str
<1>6. \A t \in Str : t # <<>> =>
        cut[t] = size(t) /\ \A r \in Str : body[<<t, r>>] = out(t, r)
  OBVIOUS
<1>. HIDE DEF cut, body, f
<1>7. ASSUME NEW g, \A t \in Str : g[t] = of(g, t)
      PROVE  SolvesText(g, Int, Str, <<>>, cut, body)
  BY <1>4, <1>6, <1>7 DEF SolvesText, Str
<1>8. ASSUME NEW g \in [Str -> Str], SolvesText(g, Int, Str, <<>>, cut, body)
      PROVE  its(g)
  <2>. SUFFICES ASSUME NEW t \in Str PROVE g[t] = of(g, t)
    BY Zenon
  <2>1. t # <<>> => Drop(t, cut[t]) \in Str
    BY <1>2, <1>6, DropIs DEF Str
  <2>2. IF t = <<>> THEN g[t] = <<>>
        ELSE g[Drop(t, cut[t])] \in Str => g[t] = body[<<t, g[Drop(t, cut[t])]>>]
    BY <1>8 DEF SolvesText, Str
  <2>. QED
    BY <1>4, <1>6, <2>1, <2>2
<1>9. its(f)
  <2>1. PICK g \in [Str -> Str] : SolvesText(g, Int, Str, <<>>, cut, body)
    BY <1>5, TextRecursion DEF Str
  <2>2. its(g)
    BY <1>8, <2>1
  <2>. HIDE DEF its
  <2>. QED
    BY <2>2, Zenon DEF f
<1>10. ASSUME NEW t \in Str PROVE f[t] = of(f, t)
  BY <1>9, Zenon
<1>. HIDE DEF its
<1>11. \A t \in Str : f[t] \in Str
  BY <1>5, <1>7, <1>10, TextRecursion DEF Str
<1>. QED
  <2>. TAKE t \in Str
  <2>1. f[t] = IF t = <<>> THEN <<>>
              ELSE IF Occurs(t, src, 1) THEN dst \o f[Drop(t, Len(src))]
              ELSE <<t[1]>> \o f[Drop(t, 1)]
    BY <1>10 DEF of
  <2>2. /\ Replace(t, src, dst) = f[t] /\ f[t] \in Str
        /\ Replace(Drop(t, Len(src)), src, dst) = f[Drop(t, Len(src))]
        /\ Replace(Drop(t, 1), src, dst) = f[Drop(t, 1)]
    BY <1>1, <1>11
  <2>. QED
    BY <2>1, <2>2, Zenon

\* Split gives the first piece, and those of what is behind its end.
LEMMA SplitIs ==
  ASSUME NEW sep
  PROVE  \A t \in Str :
           /\ Split(t, sep) \in Seq(Str)
           /\ Split(t, sep) = IF t = <<>> THEN <<>>
                              ELSE <<Piece(t, PieceEnd(t, sep))>> \o Split(Drop(t, PieceEnd(t, sep)), sep)
<1>. DEFINE size(t) == PieceEnd(t, sep)
            out(t, r) == <<Piece(t, PieceEnd(t, sep))>> \o r
            of(in, t) == IF t = <<>> THEN <<>>
                         ELSE <<Piece(t, PieceEnd(t, sep))>> \o in[Drop(t, PieceEnd(t, sep))]
            its(in) == in = [t \in Str |-> of(in, t)]
            f == CHOOSE in : its(in)
            cut == [t \in Str |-> IF t = <<>> THEN 1 ELSE size(t)]
            body == [x \in Str \X Seq(Str) |-> IF x[1] = <<>> THEN <<>> ELSE out(x[1], x[2])]
<1>1. \A t : Split(t, sep) = f[t]
  BY DEF Split
<1>2. ASSUME NEW t \in Str, t # <<>> PROVE size(t) \in Nat \ {0}
  BY <1>2, PieceEndIs
<1>3. ASSUME NEW t \in Str, t # <<>>, NEW r \in Seq(Str) PROVE out(t, r) \in Seq(Str)
  BY <1>3, PieceIs, TextConcat
<1>4. \A in, t : of(in, t) = IF t = <<>> THEN <<>> ELSE out(t, in[Drop(t, size(t))])
  OBVIOUS
<1>. HIDE DEF size, out, of
<1>5. IsTextRecursion(Int, Seq(Str), <<>>, cut, body)
  <2>1. \A t \in Str, r \in Seq(Str) : (IF t = <<>> THEN <<>> ELSE out(t, r)) \in Seq(Str)
    BY <1>3, EmptySeq DEF Str
  <2>2. body \in [Str \X Seq(Str) -> Seq(Str)] /\ <<>> \in Seq(Str)
    BY <2>1, EmptySeq DEF Str
  <2>3. cut \in [Str -> Nat \ {0}]
    BY <1>2
  <2>. HIDE DEF body, cut
  <2>. QED
    BY <2>2, <2>3 DEF IsTextRecursion, Str
<1>6. \A t \in Str : t # <<>> =>
        cut[t] = size(t) /\ \A r \in Seq(Str) : body[<<t, r>>] = out(t, r)
  OBVIOUS
<1>. HIDE DEF cut, body, f
<1>7. ASSUME NEW g, \A t \in Str : g[t] = of(g, t)
      PROVE  SolvesText(g, Int, Seq(Str), <<>>, cut, body)
  BY <1>4, <1>6, <1>7 DEF SolvesText, Str
<1>8. ASSUME NEW g \in [Str -> Seq(Str)], SolvesText(g, Int, Seq(Str), <<>>, cut, body)
      PROVE  its(g)
  <2>. SUFFICES ASSUME NEW t \in Str PROVE g[t] = of(g, t)
    BY Zenon
  <2>1. t # <<>> => Drop(t, cut[t]) \in Str
    BY <1>2, <1>6, DropIs DEF Str
  <2>2. IF t = <<>> THEN g[t] = <<>>
        ELSE g[Drop(t, cut[t])] \in Seq(Str) => g[t] = body[<<t, g[Drop(t, cut[t])]>>]
    BY <1>8 DEF SolvesText, Str
  <2>. QED
    BY <1>4, <1>6, <2>1, <2>2
<1>9. its(f)
  <2>1. PICK g \in [Str -> Seq(Str)] : SolvesText(g, Int, Seq(Str), <<>>, cut, body)
    BY <1>5, TextRecursion DEF Str
  <2>2. its(g)
    BY <1>8, <2>1
  <2>. HIDE DEF its
  <2>. QED
    BY <2>2, Zenon DEF f
<1>10. ASSUME NEW t \in Str PROVE f[t] = of(f, t)
  BY <1>9, Zenon
<1>. HIDE DEF its
<1>11. \A t \in Str : f[t] \in Seq(Str)
  BY <1>5, <1>7, <1>10, TextRecursion DEF Str
<1>. QED
  <2>. TAKE t \in Str
  <2>1. f[t] = IF t = <<>> THEN <<>>
              ELSE <<Piece(t, PieceEnd(t, sep))>> \o f[Drop(t, PieceEnd(t, sep))]
    BY <1>10 DEF of
  <2>2. /\ Split(t, sep) = f[t] /\ f[t] \in Seq(Str)
        /\ Split(Drop(t, PieceEnd(t, sep)), sep) = f[Drop(t, PieceEnd(t, sep))]
    BY <1>1, <1>11
  <2>. QED
    BY <2>1, <2>2, Zenon

\* Divide does so too, but for a piece that begins with the separator.
LEMMA DivideIs ==
  ASSUME NEW sep
  PROVE  \A t \in Str :
           /\ Divide(t, sep) \in Seq(Str)
           /\ Divide(t, sep) = IF t = <<>> THEN <<>>
                               ELSE IF t[1] = sep THEN Divide(Drop(t, PieceEnd(t, sep)), sep)
                               ELSE <<Piece(t, PieceEnd(t, sep))>> \o Divide(Drop(t, PieceEnd(t, sep)), sep)
<1>. DEFINE size(t) == PieceEnd(t, sep)
            out(t, r) == IF t[1] = sep THEN r ELSE <<Piece(t, PieceEnd(t, sep))>> \o r
            of(in, t) == IF t = <<>> THEN <<>>
                         ELSE IF t[1] = sep THEN in[Drop(t, PieceEnd(t, sep))]
                         ELSE <<Piece(t, PieceEnd(t, sep))>> \o in[Drop(t, PieceEnd(t, sep))]
            its(in) == in = [t \in Str |-> of(in, t)]
            f == CHOOSE in : its(in)
            cut == [t \in Str |-> IF t = <<>> THEN 1 ELSE size(t)]
            body == [x \in Str \X Seq(Str) |-> IF x[1] = <<>> THEN <<>> ELSE out(x[1], x[2])]
<1>1. \A t : Divide(t, sep) = f[t]
  BY DEF Divide
<1>2. ASSUME NEW t \in Str, t # <<>> PROVE size(t) \in Nat \ {0}
  BY <1>2, PieceEndIs
<1>3. ASSUME NEW t \in Str, t # <<>>, NEW r \in Seq(Str) PROVE out(t, r) \in Seq(Str)
  BY <1>3, PieceIs, TextConcat
<1>4. \A in, t : of(in, t) = IF t = <<>> THEN <<>> ELSE out(t, in[Drop(t, size(t))])
  OBVIOUS
<1>. HIDE DEF size, out, of
<1>5. IsTextRecursion(Int, Seq(Str), <<>>, cut, body)
  <2>1. \A t \in Str, r \in Seq(Str) : (IF t = <<>> THEN <<>> ELSE out(t, r)) \in Seq(Str)
    BY <1>3, EmptySeq DEF Str
  <2>2. body \in [Str \X Seq(Str) -> Seq(Str)] /\ <<>> \in Seq(Str)
    BY <2>1, EmptySeq DEF Str
  <2>3. cut \in [Str -> Nat \ {0}]
    BY <1>2
  <2>. HIDE DEF body, cut
  <2>. QED
    BY <2>2, <2>3 DEF IsTextRecursion, Str
<1>6. \A t \in Str : t # <<>> =>
        cut[t] = size(t) /\ \A r \in Seq(Str) : body[<<t, r>>] = out(t, r)
  OBVIOUS
<1>. HIDE DEF cut, body, f
<1>7. ASSUME NEW g, \A t \in Str : g[t] = of(g, t)
      PROVE  SolvesText(g, Int, Seq(Str), <<>>, cut, body)
  BY <1>4, <1>6, <1>7 DEF SolvesText, Str
<1>8. ASSUME NEW g \in [Str -> Seq(Str)], SolvesText(g, Int, Seq(Str), <<>>, cut, body)
      PROVE  its(g)
  <2>. SUFFICES ASSUME NEW t \in Str PROVE g[t] = of(g, t)
    BY Zenon
  <2>1. t # <<>> => Drop(t, cut[t]) \in Str
    BY <1>2, <1>6, DropIs DEF Str
  <2>2. IF t = <<>> THEN g[t] = <<>>
        ELSE g[Drop(t, cut[t])] \in Seq(Str) => g[t] = body[<<t, g[Drop(t, cut[t])]>>]
    BY <1>8 DEF SolvesText, Str
  <2>. QED
    BY <1>4, <1>6, <2>1, <2>2
<1>9. its(f)
  <2>1. PICK g \in [Str -> Seq(Str)] : SolvesText(g, Int, Seq(Str), <<>>, cut, body)
    BY <1>5, TextRecursion DEF Str
  <2>2. its(g)
    BY <1>8, <2>1
  <2>. HIDE DEF its
  <2>. QED
    BY <2>2, Zenon DEF f
<1>10. ASSUME NEW t \in Str PROVE f[t] = of(f, t)
  BY <1>9, Zenon
<1>. HIDE DEF its
<1>11. \A t \in Str : f[t] \in Seq(Str)
  BY <1>5, <1>7, <1>10, TextRecursion DEF Str
<1>. QED
  <2>. TAKE t \in Str
  <2>1. f[t] = IF t = <<>> THEN <<>>
              ELSE IF t[1] = sep THEN f[Drop(t, PieceEnd(t, sep))]
              ELSE <<Piece(t, PieceEnd(t, sep))>> \o f[Drop(t, PieceEnd(t, sep))]
    BY <1>10 DEF of
  <2>2. /\ Divide(t, sep) = f[t] /\ f[t] \in Seq(Str)
        /\ Divide(Drop(t, PieceEnd(t, sep)), sep) = f[Drop(t, PieceEnd(t, sep))]
    BY <1>1, <1>11
  <2>. QED
    BY <2>1, <2>2, Zenon

\* Between goes on behind each close.
LEMMA BetweenIs ==
  ASSUME NEW open, NEW close
  PROVE  \A t \in Str :
           /\ Between(t, open, close) \in Seq(Str)
           /\ Between(t, open, close) = IF t = <<>> THEN <<>>
                                        ELSE IF t[1] # open THEN Between(Drop(t, 1), open, close)
                                        ELSE IF Find(Drop(t, 1), close) = Len(t) THEN <<>>
                                        ELSE <<SubSeq(t, 2, Find(Drop(t, 1), close))>>
                                              \o Between(Drop(t, Find(Drop(t, 1), close) + 1), open, close)
<1>. DEFINE size(t) == IF t[1] # open THEN 1 ELSE Find(Drop(t, 1), close) + 1
            out(t, r) == IF t[1] # open THEN r ELSE IF Find(Drop(t, 1), close) = Len(t) THEN <<>>
                         ELSE <<SubSeq(t, 2, Find(Drop(t, 1), close))>> \o r
            of(in, t) == IF t = <<>> THEN <<>> ELSE IF t[1] # open THEN in[Drop(t, 1)]
                         ELSE IF Find(Drop(t, 1), close) = Len(t) THEN <<>>
                         ELSE <<SubSeq(t, 2, Find(Drop(t, 1), close))>>
                                \o in[Drop(t, Find(Drop(t, 1), close) + 1)]
            its(in) == in = [t \in Str |-> of(in, t)]
            f == CHOOSE in : its(in)
            cut == [t \in Str |-> IF t = <<>> THEN 1 ELSE size(t)]
            body == [x \in Str \X Seq(Str) |-> IF x[1] = <<>> THEN <<>> ELSE out(x[1], x[2])]
<1>1. \A t : Between(t, open, close) = f[t]
  BY DEF Between
<1>2. ASSUME NEW t \in Str, t # <<>> PROVE size(t) \in Nat \ {0}
  BY <1>2, BetweenEnd
<1>3. ASSUME NEW t \in Str, t # <<>>, NEW r \in Seq(Str) PROVE out(t, r) \in Seq(Str)
  BY <1>3, BetweenEnd, TextConcat, EmptySeq
<1>4. \A in, t : of(in, t) = IF t = <<>> THEN <<>> ELSE out(t, in[Drop(t, size(t))])
  OBVIOUS
<1>. HIDE DEF size, out, of
<1>5. IsTextRecursion(Int, Seq(Str), <<>>, cut, body)
  <2>1. \A t \in Str, r \in Seq(Str) : (IF t = <<>> THEN <<>> ELSE out(t, r)) \in Seq(Str)
    BY <1>3, EmptySeq DEF Str
  <2>2. body \in [Str \X Seq(Str) -> Seq(Str)] /\ <<>> \in Seq(Str)
    BY <2>1, EmptySeq DEF Str
  <2>3. cut \in [Str -> Nat \ {0}]
    BY <1>2
  <2>. HIDE DEF body, cut
  <2>. QED
    BY <2>2, <2>3 DEF IsTextRecursion, Str
<1>6. \A t \in Str : t # <<>> =>
        cut[t] = size(t) /\ \A r \in Seq(Str) : body[<<t, r>>] = out(t, r)
  OBVIOUS
<1>. HIDE DEF cut, body, f
<1>7. ASSUME NEW g, \A t \in Str : g[t] = of(g, t)
      PROVE  SolvesText(g, Int, Seq(Str), <<>>, cut, body)
  BY <1>4, <1>6, <1>7 DEF SolvesText, Str
<1>8. ASSUME NEW g \in [Str -> Seq(Str)], SolvesText(g, Int, Seq(Str), <<>>, cut, body)
      PROVE  its(g)
  <2>. SUFFICES ASSUME NEW t \in Str PROVE g[t] = of(g, t)
    BY Zenon
  <2>1. t # <<>> => Drop(t, cut[t]) \in Str
    BY <1>2, <1>6, DropIs DEF Str
  <2>2. IF t = <<>> THEN g[t] = <<>>
        ELSE g[Drop(t, cut[t])] \in Seq(Str) => g[t] = body[<<t, g[Drop(t, cut[t])]>>]
    BY <1>8 DEF SolvesText, Str
  <2>. QED
    BY <1>4, <1>6, <2>1, <2>2
<1>9. its(f)
  <2>1. PICK g \in [Str -> Seq(Str)] : SolvesText(g, Int, Seq(Str), <<>>, cut, body)
    BY <1>5, TextRecursion DEF Str
  <2>2. its(g)
    BY <1>8, <2>1
  <2>. HIDE DEF its
  <2>. QED
    BY <2>2, Zenon DEF f
<1>10. ASSUME NEW t \in Str PROVE f[t] = of(f, t)
  BY <1>9, Zenon
<1>. HIDE DEF its
<1>11. \A t \in Str : f[t] \in Seq(Str)
  BY <1>5, <1>7, <1>10, TextRecursion DEF Str
<1>. QED
  <2>. TAKE t \in Str
  <2>1. f[t] = IF t = <<>> THEN <<>> ELSE IF t[1] # open THEN f[Drop(t, 1)]
              ELSE IF Find(Drop(t, 1), close) = Len(t) THEN <<>>
              ELSE <<SubSeq(t, 2, Find(Drop(t, 1), close))>> \o f[Drop(t, Find(Drop(t, 1), close) + 1)]
    BY <1>10 DEF of
  <2>2. /\ Between(t, open, close) = f[t] /\ f[t] \in Seq(Str)
        /\ Between(Drop(t, 1), open, close) = f[Drop(t, 1)]
        /\ Between(Drop(t, Find(Drop(t, 1), close) + 1), open, close)
            = f[Drop(t, Find(Drop(t, 1), close) + 1)]
    BY <1>1, <1>11
  <2>. QED
    BY <2>1, <2>2, Zenon

\* Names gives the first name, unless it is empty, and those behind the break.
LEMMA NamesIs ==
  ASSUME NEW brk
  PROVE  \A t \in Str :
           /\ Names(t, brk) \in Seq(Str)
           /\ Names(t, brk) = IF t = <<>> THEN <<>>
                              ELSE IF Find(t, brk) = 1 THEN Names(Drop(t, Find(t, brk)), brk)
                              ELSE <<SubSeq(t, 1, Find(t, brk) - 1)>> \o Names(Drop(t, Find(t, brk)), brk)
<1>. DEFINE size(t) == Find(t, brk)
            out(t, r) == IF Find(t, brk) = 1 THEN r ELSE <<SubSeq(t, 1, Find(t, brk) - 1)>> \o r
            of(in, t) == IF t = <<>> THEN <<>> ELSE IF Find(t, brk) = 1 THEN in[Drop(t, Find(t, brk))]
                         ELSE <<SubSeq(t, 1, Find(t, brk) - 1)>> \o in[Drop(t, Find(t, brk))]
            its(in) == in = [t \in Str |-> of(in, t)]
            f == CHOOSE in : its(in)
            cut == [t \in Str |-> IF t = <<>> THEN 1 ELSE size(t)]
            body == [x \in Str \X Seq(Str) |-> IF x[1] = <<>> THEN <<>> ELSE out(x[1], x[2])]
<1>1. \A t : Names(t, brk) = f[t]
  BY DEF Names
<1>2. ASSUME NEW t \in Str, t # <<>> PROVE size(t) \in Nat \ {0}
  BY FindIs
<1>3. ASSUME NEW t \in Str, t # <<>>, NEW r \in Seq(Str) PROVE out(t, r) \in Seq(Str)
  BY <1>3, FindIs, PartIs, TextConcat DEF Str
<1>4. \A in, t : of(in, t) = IF t = <<>> THEN <<>> ELSE out(t, in[Drop(t, size(t))])
  OBVIOUS
<1>. HIDE DEF size, out, of
<1>5. IsTextRecursion(Int, Seq(Str), <<>>, cut, body)
  <2>1. \A t \in Str, r \in Seq(Str) : (IF t = <<>> THEN <<>> ELSE out(t, r)) \in Seq(Str)
    BY <1>3, EmptySeq DEF Str
  <2>2. body \in [Str \X Seq(Str) -> Seq(Str)] /\ <<>> \in Seq(Str)
    BY <2>1, EmptySeq DEF Str
  <2>3. cut \in [Str -> Nat \ {0}]
    BY <1>2
  <2>. HIDE DEF body, cut
  <2>. QED
    BY <2>2, <2>3 DEF IsTextRecursion, Str
<1>6. \A t \in Str : t # <<>> =>
        cut[t] = size(t) /\ \A r \in Seq(Str) : body[<<t, r>>] = out(t, r)
  OBVIOUS
<1>. HIDE DEF cut, body, f
<1>7. ASSUME NEW g, \A t \in Str : g[t] = of(g, t)
      PROVE  SolvesText(g, Int, Seq(Str), <<>>, cut, body)
  BY <1>4, <1>6, <1>7 DEF SolvesText, Str
<1>8. ASSUME NEW g \in [Str -> Seq(Str)], SolvesText(g, Int, Seq(Str), <<>>, cut, body)
      PROVE  its(g)
  <2>. SUFFICES ASSUME NEW t \in Str PROVE g[t] = of(g, t)
    BY Zenon
  <2>1. t # <<>> => Drop(t, cut[t]) \in Str
    BY <1>2, <1>6, DropIs DEF Str
  <2>2. IF t = <<>> THEN g[t] = <<>>
        ELSE g[Drop(t, cut[t])] \in Seq(Str) => g[t] = body[<<t, g[Drop(t, cut[t])]>>]
    BY <1>8 DEF SolvesText, Str
  <2>. QED
    BY <1>4, <1>6, <2>1, <2>2
<1>9. its(f)
  <2>1. PICK g \in [Str -> Seq(Str)] : SolvesText(g, Int, Seq(Str), <<>>, cut, body)
    BY <1>5, TextRecursion DEF Str
  <2>2. its(g)
    BY <1>8, <2>1
  <2>. HIDE DEF its
  <2>. QED
    BY <2>2, Zenon DEF f
<1>10. ASSUME NEW t \in Str PROVE f[t] = of(f, t)
  BY <1>9, Zenon
<1>. HIDE DEF its
<1>11. \A t \in Str : f[t] \in Seq(Str)
  BY <1>5, <1>7, <1>10, TextRecursion DEF Str
<1>. QED
  <2>. TAKE t \in Str
  <2>1. f[t] = IF t = <<>> THEN <<>> ELSE IF Find(t, brk) = 1 THEN f[Drop(t, Find(t, brk))]
              ELSE <<SubSeq(t, 1, Find(t, brk) - 1)>> \o f[Drop(t, Find(t, brk))]
    BY <1>10 DEF of
  <2>2. /\ Names(t, brk) = f[t] /\ f[t] \in Seq(Str)
        /\ Names(Drop(t, Find(t, brk)), brk) = f[Drop(t, Find(t, brk))]
    BY <1>1, <1>11
  <2>. QED
    BY <2>1, <2>2, Zenon

\* Joined puts a separator between two pieces.
LEMMA JoinedIs ==
  ASSUME NEW sep \in Int
  PROVE  \A t \in Seq(Str) :
           /\ Joined(t, sep) \in Str
           /\ Joined(t, sep) = IF t = <<>> THEN <<>> ELSE IF Len(t) = 1 THEN t[1]
                               ELSE t[1] \o <<sep>> \o Joined(Drop(t, 1), sep)
<1>. DEFINE size(t) == 1
            out(t, r) == IF Len(t) = 1 THEN t[1] ELSE t[1] \o <<sep>> \o r
            of(in, t) == IF t = <<>> THEN <<>> ELSE IF Len(t) = 1 THEN t[1]
                         ELSE t[1] \o <<sep>> \o in[Drop(t, 1)]
            its(in) == in = [t \in Seq(Str) |-> of(in, t)]
            f == CHOOSE in : its(in)
            cut == [t \in Seq(Str) |-> IF t = <<>> THEN 1 ELSE size(t)]
            body == [x \in Seq(Str) \X Str |-> IF x[1] = <<>> THEN <<>> ELSE out(x[1], x[2])]
<1>1. \A t : Joined(t, sep) = f[t]
  BY DEF Joined
<1>2. ASSUME NEW t \in Seq(Str), t # <<>> PROVE size(t) \in Nat \ {0}
  OBVIOUS
<1>3. ASSUME NEW t \in Seq(Str), t # <<>>, NEW r \in Str PROVE out(t, r) \in Str
  BY <1>3, FirstIs, TextConcat DEF Str
<1>4. \A in, t : of(in, t) = IF t = <<>> THEN <<>> ELSE out(t, in[Drop(t, size(t))])
  OBVIOUS
<1>. HIDE DEF size, out, of
<1>5. IsTextRecursion(Str, Str, <<>>, cut, body)
  <2>1. \A t \in Seq(Str), r \in Str : (IF t = <<>> THEN <<>> ELSE out(t, r)) \in Str
    BY <1>3, EmptySeq DEF Str
  <2>2. body \in [Seq(Str) \X Str -> Str] /\ <<>> \in Str
    BY <2>1, EmptySeq DEF Str
  <2>3. cut \in [Seq(Str) -> Nat \ {0}]
    BY <1>2
  <2>. HIDE DEF body, cut
  <2>. QED
    BY <2>2, <2>3 DEF IsTextRecursion, Str
<1>6. \A t \in Seq(Str) : t # <<>> =>
        cut[t] = size(t) /\ \A r \in Str : body[<<t, r>>] = out(t, r)
  OBVIOUS
<1>. HIDE DEF cut, body, f
<1>7. ASSUME NEW g, \A t \in Seq(Str) : g[t] = of(g, t)
      PROVE  SolvesText(g, Str, Str, <<>>, cut, body)
  BY <1>4, <1>6, <1>7 DEF SolvesText, Str
<1>8. ASSUME NEW g \in [Seq(Str) -> Str], SolvesText(g, Str, Str, <<>>, cut, body)
      PROVE  its(g)
  <2>. SUFFICES ASSUME NEW t \in Seq(Str) PROVE g[t] = of(g, t)
    BY Zenon
  <2>1. t # <<>> => Drop(t, cut[t]) \in Seq(Str)
    BY <1>2, <1>6, DropIs DEF Str
  <2>2. IF t = <<>> THEN g[t] = <<>>
        ELSE g[Drop(t, cut[t])] \in Str => g[t] = body[<<t, g[Drop(t, cut[t])]>>]
    BY <1>8 DEF SolvesText, Str
  <2>. QED
    BY <1>4, <1>6, <2>1, <2>2
<1>9. its(f)
  <2>1. PICK g \in [Seq(Str) -> Str] : SolvesText(g, Str, Str, <<>>, cut, body)
    BY <1>5, TextRecursion DEF Str
  <2>2. its(g)
    BY <1>8, <2>1
  <2>. HIDE DEF its
  <2>. QED
    BY <2>2, Zenon DEF f
<1>10. ASSUME NEW t \in Seq(Str) PROVE f[t] = of(f, t)
  BY <1>9, Zenon
<1>. HIDE DEF its
<1>11. \A t \in Seq(Str) : f[t] \in Str
  BY <1>5, <1>7, <1>10, TextRecursion DEF Str
<1>. QED
  <2>. TAKE t \in Seq(Str)
  <2>1. f[t] = IF t = <<>> THEN <<>> ELSE IF Len(t) = 1 THEN t[1]
              ELSE t[1] \o <<sep>> \o f[Drop(t, 1)]
    BY <1>10 DEF of
  <2>2. /\ Joined(t, sep) = f[t] /\ f[t] \in Str
        /\ Joined(Drop(t, 1), sep) = f[Drop(t, 1)]
    BY <1>1, <1>11
  <2>. QED
    BY <2>1, <2>2, Zenon

(***************************************************************************)
(* Cutting.                                                                *)
(***************************************************************************)

\* A text is its parts in front of a place, at it, and behind it.
LEMMA Parts ==
  ASSUME NEW C, NEW t \in Seq(C), NEW i \in 0 .. Len(t)
  PROVE  /\ SubSeq(t, 1, i) \in Seq(C) /\ Drop(t, i) \in Seq(C)
         /\ t = SubSeq(t, 1, i) \o Drop(t, i)
         /\ i > 0 => /\ SubSeq(t, 1, i - 1) \in Seq(C) /\ t[i] \in C
                     /\ SubSeq(t, 1, i) = SubSeq(t, 1, i - 1) \o <<t[i]>>
                     /\ t = SubSeq(t, 1, i - 1) \o <<t[i]>> \o Drop(t, i)
<1>1. Len(t) \in Nat /\ i \in Nat /\ i <= Len(t)
  BY LenProperties
<1>2. SubSeq(t, 1, i) \in Seq(C) /\ Drop(t, i) \in Seq(C)
  BY <1>1, PartIs, DropIs
<1>3. SubSeq(t, 1, i) \o SubSeq(t, i + 1, Len(t)) = SubSeq(t, 1, Len(t))
  <2>1. 1 \in 1 .. Len(t) + 1 /\ i \in 1 - 1 .. Len(t) /\ Len(t) \in i .. Len(t)
    BY <1>1
  <2>. QED
    BY <2>1, ConcatAdjacentSubSeq
<1>4. t = SubSeq(t, 1, i) \o Drop(t, i)
  BY <1>3, SubSeqFull DEF Drop
<1>5. ASSUME i > 0
      PROVE  /\ SubSeq(t, 1, i - 1) \in Seq(C) /\ t[i] \in C
             /\ SubSeq(t, 1, i) = SubSeq(t, 1, i - 1) \o <<t[i]>>
  <2>1. 1 \in 1 .. Len(t) /\ i \in 1 .. Len(t)
    BY <1>1, <1>5
  <2>2. SubSeq(t, 1, i) = SubSeq(t, 1, i - 1) \o <<t[i]>>
    BY <2>1, SubSeqRecursiveSecond
  <2>3. SubSeq(t, 1, i - 1) \in Seq(C)
    BY <1>1, <1>5, PartIs
  <2>4. t[i] \in C
    BY <2>1, ElementOfSeq
  <2>. QED
    BY <2>2, <2>3, <2>4
<1>. QED
  BY <1>2, <1>4, <1>5

\* The texts of the calls.
LEMMA TextIs ==
  ASSUME NEW C, NEW n \in Nat, NEW t \in BoundedSeq(C, n)
  PROVE  t \in Seq(C) /\ Len(t) <= n
  BY DEF BoundedSeq, SeqOf

\* The texts of the calls are texts, over their own characters.
LEMMA StrIs ==
  ASSUME NEW C \in SUBSET Int, NEW t \in Text(C)
  PROVE  t \in Str /\ t \in Seq(C)
<1>1. t \in Seq(C)
  BY RoutinesAssumption, TextIs DEF Text
<1>. QED
  BY <1>1, SeqMonotonic DEF Str

\* A text cut at a character is what was before it, the character, and the rest.
LEMMA CutIs ==
  ASSUME NEW s \in Str, NEW c \in Int
  PROVE  IF c \in ToSet(s) THEN s = CutAt(s, c).sub \o <<c>> \o CutAt(s, c).rest
         ELSE CutAt(s, c).sub = s /\ CutAt(s, c).rest = <<>>
<1>. DEFINE f == Find(s, c)
<1>1. /\ f \in Nat /\ 1 <= f /\ f <= Len(s) + 1
      /\ \A i \in 1 .. f - 1 : s[i] # c
      /\ f <= Len(s) => s[f] = c
  BY FindIs
<1>2. Len(s) \in Nat /\ DOMAIN s = 1 .. Len(s)
  BY LenProperties DEF Str
<1>3. CutAt(s, c).sub = SubSeq(s, 1, f - 1) /\ CutAt(s, c).rest = SubSeq(s, f + 1, Len(s))
  BY DEF CutAt
<1>. HIDE DEF f
<1>4. c \in ToSet(s) <=> f <= Len(s)
  BY <1>1, <1>2 DEF ToSet
<1>5. CASE f <= Len(s)
  <2>1. f \in 0 .. Len(s) /\ f > 0
    BY <1>1, <1>2, <1>5
  <2>2. s = SubSeq(s, 1, f - 1) \o <<s[f]>> \o Drop(s, f)
    BY <2>1, Parts DEF Str
  <2>. QED
    BY <1>1, <1>3, <1>4, <1>5, <2>2 DEF Drop
<1>6. CASE ~(f <= Len(s))
  <2>0. f = Len(s) + 1 /\ f - 1 = Len(s) /\ c \notin ToSet(s)
    BY <1>1, <1>2, <1>4, <1>6
  <2>1. SubSeq(s, 1, f - 1) = s
    BY <2>0, SubSeqFull DEF Str
  <2>2. SubSeq(s, f + 1, Len(s)) = <<>>
    BY <1>1, <1>2, <2>0, SubSeqEmpty
  <2>. QED
    BY <1>3, <2>0, <2>1, <2>2, Zenon
<1>. QED
  BY <1>5, <1>6

\* A text cut at a token is what was before it, the token, and what is behind.
LEMMA CutTokenIs ==
  ASSUME NEW s \in Str, NEW t \in Str
  PROVE  LET out == CutAtToken(s, t) IN
         /\ out.ok => s = out.rest \o t \o out.sub
         /\ out.ok <=> s # <<>> /\ \E p \in 1 .. Len(s) + 1 : Occurs(s, t, p)
<1>. DEFINE found == {p \in 1 .. Len(s) + 1 : Occurs(s, t, p)}
            m == Min(found)
<1>1. Len(s) \in Nat /\ Len(t) \in Nat
  BY LenProperties DEF Str
<1>2. CASE s = <<>> \/ found = {}
  BY <1>2 DEF CutAtToken
<1>3. CASE s # <<>> /\ found # {}
  <2>1. CutAtToken(s, t) = [ok |-> TRUE, sub |-> SubSeq(s, m + Len(t), Len(s)), rest |-> SubSeq(s, 1, m - 1)]
    BY <1>3 DEF CutAtToken
  <2>2. m \in found
    <3>1. found \in SUBSET Nat
      BY <1>1
    <3>. HIDE DEF found
    <3>. QED
      BY <1>3, <3>1, MinOf
  <2>. HIDE DEF m
  <2>3. m \in Nat /\ 1 <= m /\ m + Len(t) <= Len(s) + 1 /\ SubSeq(s, m, m + Len(t) - 1) = t
    BY <1>1, <2>2 DEF Occurs
  <2>4. s = SubSeq(s, 1, m - 1) \o t \o SubSeq(s, m + Len(t), Len(s))
    <3>. DEFINE k == m + Len(t) - 1
    <3>1. /\ m \in 1 .. Len(s) + 1 /\ k \in m - 1 .. Len(s) /\ m - 1 \in 1 - 1 .. k
          /\ Len(s) \in k .. Len(s) /\ k \in m - 1 .. k /\ 1 \in 1 .. Len(s) + 1
          /\ k + 1 = m + Len(t) /\ (m - 1) + 1 = m /\ m - 1 \in 1 - 1 .. Len(s)
          /\ k \in 1 - 1 .. Len(s)
      BY <1>1, <2>3
    <3>. HIDE DEF k
    <3>2. SubSeq(s, 1, m - 1) \o SubSeq(s, (m - 1) + 1, k) = SubSeq(s, 1, k)
      BY <3>1, ConcatAdjacentSubSeq DEF Str
    <3>3. SubSeq(s, 1, k) \o SubSeq(s, k + 1, Len(s)) = SubSeq(s, 1, Len(s))
      BY <3>1, ConcatAdjacentSubSeq DEF Str
    <3>4. SubSeq(s, 1, Len(s)) = s
      BY SubSeqFull DEF Str
    <3>. QED
      BY <2>3, <3>1, <3>2, <3>3, <3>4 DEF k
  <2>5. s # <<>> /\ \E p \in 1 .. Len(s) + 1 : Occurs(s, t, p)
    BY <1>3
  <2>. HIDE DEF found
  <2>. DEFINE a == SubSeq(s, 1, m - 1)
              b == SubSeq(s, m + Len(t), Len(s))
  <2>6. CutAtToken(s, t).ok = TRUE /\ CutAtToken(s, t).rest = a /\ CutAtToken(s, t).sub = b
    <3>1. CutAtToken(s, t) = [ok |-> TRUE, sub |-> b, rest |-> a]
      BY <2>1, Zenon
    <3>. HIDE DEF a, b
    <3>. QED
      BY <3>1
  <2>. QED
    BY <2>4, <2>5, <2>6, Zenon
<1>. QED
  BY <1>2, <1>3

(***************************************************************************)
(* Lead bytes.                                                             *)
(***************************************************************************)

\* The greatest of a set of numbers that has a bound.
LEMMA MaxOf ==
  ASSUME NEW n \in Nat, NEW W \in SUBSET (0 .. n), W # {}
  PROVE  Max(W) \in W /\ \A v \in W : v <= Max(W)
<1>. DEFINE V == {n - w : w \in W}
<1>1. V \in SUBSET Nat /\ V # {}
  <2>1. ASSUME NEW w \in W PROVE n - w \in Nat
    <3>1. w \in 0 .. n
      OBVIOUS
    <3>. QED
      BY <3>1
  <2>2. \A v \in V : v \in Nat
    BY <2>1
  <2>3. PICK w \in W : TRUE
    OBVIOUS
  <2>4. n - w \in V
    OBVIOUS
  <2>. HIDE DEF V
  <2>. QED
    BY <2>2, <2>4
<1>2. PICK v \in V : \A x \in V : v <= x
  <2>. HIDE DEF V
  <2>. QED
    BY <1>1, LeastOf
<1>3. PICK w \in W : v = n - w
  OBVIOUS
<1>4. ASSUME NEW x \in W PROVE w >= x
  <2>1. n - w <= n - x
    BY <1>2, <1>3
  <2>2. w \in Int /\ x \in Int
    OBVIOUS
  <2>. QED
    BY <2>1, <2>2
<1>5. \E y \in W : \A x \in W : y >= x
  BY <1>4
<1>6. Max(W) \in W /\ \A x \in W : Max(W) >= x
  BY <1>5, Zenon DEF Max
<1>. QED
  BY <1>6

\* An odd run of lead bytes is even without its last.
LEMMA TestMultibyteIs ==
  ASSUME NEW s \in Str, s # <<>>
  PROVE  TestMultibyte(s).out = <<>> \/ TestMultibyte(TestMultibyte(s).out).ok
<1>. DEFINE W(t) == {i \in DOMAIN t : ~LeadByte(t[i])} \cup {0}
            run(t) == Len(t) - Max(W(t))
            n == Len(s)
<1>1. \A t : TestMultibyte(t) = [ok |-> run(t) % 2 = 0, out |-> IF run(t) % 2 = 0 THEN t ELSE Front(t)]
  BY DEF TestMultibyte
<1>2. \A t : /\ TestMultibyte(t).ok <=> run(t) % 2 = 0
             /\ TestMultibyte(t).out = IF run(t) % 2 = 0 THEN t ELSE Front(t)
  <2>. HIDE DEF run
  <2>. QED
    BY <1>1
<1>3. n \in Nat \ {0} /\ DOMAIN s = 1 .. n
  BY FirstIs DEF Str
<1>4. CASE run(s) % 2 = 0
  BY <1>2, <1>4
<1>5. CASE run(s) % 2 # 0
  <2>. DEFINE u == Front(s)
              m == Max(W(s))
  <2>1. u \in Str /\ Len(u) = n - 1 /\ DOMAIN u = 1 .. n - 1 /\ \A i \in 1 .. n - 1 : u[i] = s[i]
    <3>1. SubSeq(s, 1, n - 1) \in Str
      BY <1>3, PartIs DEF Str
    <3>2. /\ Len(SubSeq(s, 1, n - 1)) = IF 1 <= n - 1 THEN n - 1 - 1 + 1 ELSE 0
          /\ \A i \in 1 .. n - 1 - 1 + 1 : SubSeq(s, 1, n - 1)[i] = s[1 + i - 1]
      BY <1>3, PartIs DEF Str
    <3>3. u = SubSeq(s, 1, n - 1)
      BY DEF Front
    <3>. HIDE DEF u, n
    <3>4. Len(u) = n - 1 /\ \A i \in 1 .. n - 1 : u[i] = s[i]
      BY <1>3, <3>2, <3>3
    <3>. QED
      BY <3>1, <3>3, <3>4, LenProperties DEF Str
  <2>2. m \in W(s) /\ \A v \in W(s) : v <= m
    <3>. DEFINE V == W(s)
    <3>1. V \in SUBSET (0 .. n) /\ V # {}
      BY <1>3
    <3>. HIDE DEF V
    <3>2. Max(V) \in V /\ \A v \in V : v <= Max(V)
      BY <1>3, <3>1, MaxOf
    <3>. QED
      BY <3>2 DEF V
  <2>3. run(s) = n - m
    OBVIOUS
  <2>. HIDE DEF m, run, u
  <2>4. m \in Nat /\ m <= n
    BY <1>3, <2>2
  <2>5. m < n
    BY <1>3, <1>5, <2>3, <2>4
  <2>6. n \notin W(s)
    BY <1>3, <2>2, <2>4, <2>5
  <2>7. W(u) = W(s)
    BY <1>3, <2>1, <2>6
  <2>8. run(u) = n - 1 - m
    BY <2>1, <2>7 DEF run, m
  <2>9. run(u) % 2 = 0
    BY <1>3, <1>5, <2>3, <2>4, <2>5, <2>8
  <2>10. TestMultibyte(s).out = u /\ TestMultibyte(u).ok
    BY <1>2, <1>5, <2>9 DEF u
  <2>. QED
    BY <2>10
<1>. QED
  BY <1>4, <1>5

(***************************************************************************)
(* Searching.                                                              *)
(***************************************************************************)

\* A text occurs in another where they agree character by character.
LEMMA OccursIs ==
  ASSUME NEW s \in Str, NEW t \in Str, NEW p \in Nat \ {0}
  PROVE  Occurs(s, t, p) <=> /\ p + Len(t) <= Len(s) + 1
                             /\ \A i \in 1 .. Len(t) : s[p + i - 1] = t[i]
<1>1. Len(s) \in Nat /\ Len(t) \in Nat
  BY LenProperties DEF Str
<1>. SUFFICES ASSUME p + Len(t) <= Len(s) + 1
              PROVE  SubSeq(s, p, p + Len(t) - 1) = t
                       <=> \A i \in 1 .. Len(t) : s[p + i - 1] = t[i]
  BY DEF Occurs
<1>. DEFINE j == p + Len(t) - 1
            u == SubSeq(s, p, j)
<1>2. j \in Int /\ j <= Len(s)
  BY <1>1
<1>3. /\ u \in Str
      /\ Len(u) = IF p <= j THEN j - p + 1 ELSE 0
      /\ \A k \in 1 .. j - p + 1 : u[k] = s[p + k - 1]
  BY <1>2, PartIs DEF Str
<1>. HIDE DEF u
<1>4. Len(u) = Len(t) /\ \A k \in 1 .. Len(t) : u[k] = s[p + k - 1]
  BY <1>1, <1>3
<1>5. (\A k \in 1 .. Len(t) : u[k] = t[k]) => u = t
  BY <1>3, <1>4, SeqEqual DEF Str
<1>. QED
  BY <1>4, <1>5 DEF u

\* Only NUL is lowered to NUL.
LEMMA LowerIs ==
  ASSUME NEW c \in Int
  PROVE  Lower(c) \in Int /\ (Lower(c) = NUL <=> c = NUL)
  BY DEF Lower, NUL

\* dStrnicmp over the length of the second text finds whether the first begins with it.
LEMMA StrnicmpIs ==
  ASSUME NEW s \in Str, NEW t \in Str, t # <<>>, \A i \in DOMAIN t : t[i] # NUL
  PROVE  Strnicmp(s, t, Len(t)) = 0
           <=> Len(t) <= Len(s) /\ \A i \in 1 .. Len(t) : Lower(s[i]) = Lower(t[i])
<1>. DEFINE n == Len(t)
            c(i) == IF i <= Len(s) THEN Lower(s[i]) ELSE NUL
            d(i) == IF i <= Len(t) THEN Lower(t[i]) ELSE NUL
            W == {i \in 1 .. n : c(i) = NUL \/ c(i) # d(i)} \cup {n}
            stop == Min(W)
<1>1. Len(s) \in Nat /\ n \in Nat \ {0} /\ DOMAIN t = 1 .. n
  BY FirstIs, LenProperties DEF Str
<1>2. stop \in W /\ \A v \in W : stop <= v
  <2>1. W \in SUBSET Nat /\ W # {}
    BY <1>1
  <2>. HIDE DEF W
  <2>. QED
    BY <2>1, MinOf
<1>3. Strnicmp(s, t, n) = c(stop) - d(stop)
  BY <1>1 DEF Strnicmp
<1>4. \A i \in 1 .. n : t[i] \in Int /\ t[i] # NUL /\ d(i) = Lower(t[i]) /\ d(i) \in Int /\ d(i) # NUL
  <2>. TAKE i \in 1 .. n
  <2>1. t[i] \in Int /\ t[i] # NUL
    BY <1>1, ElementOfSeq DEF Str
  <2>2. i <= Len(t)
    BY <1>1
  <2>3. d(i) = Lower(t[i])
    BY <2>2
  <2>. QED
    BY <2>1, <2>3, LowerIs DEF NUL
<1>5. \A i \in 1 .. n : c(i) \in Int
  <2>. TAKE i \in 1 .. n
  <2>1. CASE i <= Len(s)
    <3>1. i \in 1 .. Len(s)
      BY <1>1, <2>1
    <3>2. s[i] \in Int
      BY <3>1, ElementOfSeq DEF Str
    <3>. QED
      BY <2>1, <3>2, LowerIs
  <2>2. CASE ~(i <= Len(s))
    BY <2>2 DEF NUL
  <2>. QED
    BY <2>1, <2>2
<1>6. \A i \in 1 .. n : (c(i) # NUL /\ c(i) = d(i)) <=> (i <= Len(s) /\ Lower(s[i]) = Lower(t[i]))
  BY <1>4
<1>. HIDE DEF stop, c, d
<1>7. stop \in 1 .. n
  <2>0. n \in 1 .. n
    BY <1>1
  <2>. HIDE DEF n
  <2>1. \A i \in W : i \in 1 .. n
    BY <2>0
  <2>. HIDE DEF W
  <2>. QED
    BY <1>2, <2>1
<1>8. c(stop) - d(stop) = 0 <=> c(stop) = d(stop)
  BY <1>4, <1>5, <1>7
<1>9. ASSUME c(stop) = d(stop), NEW i \in 1 .. n PROVE c(i) # NUL /\ c(i) = d(i)
  <2>1. c(stop) # NUL
    BY <1>4, <1>7, <1>9
  <2>2. stop = n
    BY <1>2, <1>9, <2>1
  <2>3. CASE i = n
    BY <1>9, <2>1, <2>2, <2>3
  <2>4. CASE i # n
    <3>1. ~(stop <= i)
      <4>1. i \in Int /\ i <= n /\ n \in Int
        BY <1>1
      <4>. QED
        BY <2>2, <2>4, <4>1
    <3>2. i \notin W
      BY <1>2, <3>1
    <3>. QED
      BY <3>2
  <2>. QED
    BY <2>3, <2>4
<1>. HIDE DEF W
<1>10. c(stop) = d(stop) <=> \A i \in 1 .. n : c(i) # NUL /\ c(i) = d(i)
  BY <1>7, <1>9
<1>11. (\A i \in 1 .. n : i <= Len(s) /\ Lower(s[i]) = Lower(t[i]))
         <=> n <= Len(s) /\ \A i \in 1 .. n : Lower(s[i]) = Lower(t[i])
  BY <1>1
<1>. QED
  BY <1>3, <1>6, <1>8, <1>10, <1>11

\* dStristr gives the first place where the lowered needle is in the lowered text.
LEMMA StristrIs ==
  ASSUME NEW s \in Str, NEW t \in Str, \A i \in DOMAIN t : t[i] # NUL
  PROVE  LET out == Stristr(s, t) IN
         IF out = 0 THEN ~\E p \in 1 .. Len(s) : Occurs(LowerAll(s), LowerAll(t), p)
         ELSE \/ t = <<>>
              \/ /\ Occurs(LowerAll(s), LowerAll(t), out)
                 /\ \A p \in 1 .. out - 1 : ~Occurs(LowerAll(s), LowerAll(t), p)
<1>. DEFINE found == {p \in DOMAIN s : Strnicmp(SubSeq(s, p, Len(s)), t, Len(t)) = 0}
            low(p) == Occurs(LowerAll(s), LowerAll(t), p)
            out == Stristr(s, t)
<1>1. CASE t = <<>>
  BY <1>1 DEF Stristr
<1>2. CASE t # <<>>
  <2>1. Len(s) \in Nat /\ Len(t) \in Nat \ {0} /\ DOMAIN s = 1 .. Len(s) /\ DOMAIN t = 1 .. Len(t)
    BY <1>2, FirstIs, LenProperties DEF Str
  <2>2. ASSUME NEW u \in Str
        PROVE  /\ LowerAll(u) \in Str /\ Len(LowerAll(u)) = Len(u)
               /\ \A i \in 1 .. Len(u) : LowerAll(u)[i] = Lower(u[i])
    <3>1. Len(u) \in Nat /\ DOMAIN u = 1 .. Len(u) /\ \A i \in 1 .. Len(u) : Lower(u[i]) \in Int
      BY LenProperties, ElementOfSeq, LowerIs DEF Str
    <3>2. LowerAll(u) \in [1 .. Len(u) -> Int] /\ \A i \in 1 .. Len(u) : LowerAll(u)[i] = Lower(u[i])
      BY <3>1 DEF LowerAll
    <3>. QED
      BY <3>1, <3>2 DEF Str
  <2>3. ASSUME NEW p \in 1 .. Len(s) PROVE p \in found <=> low(p)
    <3>. DEFINE u == Drop(s, p - 1)
    <3>1. /\ u \in Str /\ Len(u) = Len(s) - p + 1
          /\ \A i \in 1 .. Len(s) - p + 1 : u[i] = s[p + i - 1]
      <4>1. p - 1 \in Nat /\ p - 1 <= Len(s)
        BY <2>1
      <4>2. /\ u \in Str /\ Len(u) = Len(s) - (p - 1)
            /\ \A i \in 1 .. Len(s) - (p - 1) : u[i] = s[(p - 1) + i]
        BY <4>1, DropIs DEF Str
      <4>. HIDE DEF u
      <4>3. \A i \in Int : (p - 1) + i = p + i - 1
        BY <2>1
      <4>. QED
        BY <2>1, <4>2, <4>3
    <3>2. SubSeq(s, p, Len(s)) = u
      BY <2>1 DEF Drop
    <3>. HIDE DEF u
    <3>3. Strnicmp(u, t, Len(t)) = 0
            <=> Len(t) <= Len(u) /\ \A i \in 1 .. Len(t) : Lower(u[i]) = Lower(t[i])
      BY <1>2, <3>1, StrnicmpIs
    <3>4. p \in found <=> Len(t) <= Len(u) /\ \A i \in 1 .. Len(t) : Lower(u[i]) = Lower(t[i])
      BY <2>1, <3>2, <3>3
    <3>5. low(p) <=> /\ p + Len(t) <= Len(s) + 1
                     /\ \A i \in 1 .. Len(t) : LowerAll(s)[p + i - 1] = LowerAll(t)[i]
      <4>1. p \in Nat \ {0}
        BY <2>1
      <4>. DEFINE a == LowerAll(s)
                  b == LowerAll(t)
      <4>2. a \in Str /\ b \in Str /\ Len(a) = Len(s) /\ Len(b) = Len(t)
        BY <2>2
      <4>. HIDE DEF a, b
      <4>3. Occurs(a, b, p) <=> /\ p + Len(b) <= Len(a) + 1
                                /\ \A i \in 1 .. Len(b) : a[p + i - 1] = b[i]
        BY <4>1, <4>2, OccursIs
      <4>. QED
        BY <4>2, <4>3 DEF a, b
    <3>6. Len(t) <= Len(u) <=> p + Len(t) <= Len(s) + 1
      BY <2>1, <3>1
    <3>7. ASSUME p + Len(t) <= Len(s) + 1, NEW i \in 1 .. Len(t)
          PROVE  /\ LowerAll(s)[p + i - 1] = Lower(u[i])
                 /\ LowerAll(t)[i] = Lower(t[i])
      <4>1. i \in 1 .. Len(s) - p + 1 /\ p + i - 1 \in 1 .. Len(s)
        BY <2>1, <3>7
      <4>. QED
        BY <2>2, <3>1, <4>1
    <3>. HIDE DEF found, low
    <3>. QED
      BY <3>4, <3>5, <3>6, <3>7
  <2>4. CASE found = {}
    <3>1. out = 0
      BY <1>2, <2>4 DEF Stristr
    <3>. QED
      BY <2>3, <2>4, <3>1
  <2>5. CASE found # {}
    <3>1. out = Min(found)
      BY <1>2, <2>5 DEF Stristr
    <3>2. out \in found /\ \A p \in found : out <= p
      <4>1. found \in SUBSET Nat
        BY <2>1
      <4>. HIDE DEF found, out
      <4>. QED
        BY <2>5, <3>1, <4>1, MinOf
    <3>3. out \in 1 .. Len(s)
      BY <2>1, <3>2
    <3>. HIDE DEF found, out
    <3>4. low(out) /\ out # 0
      BY <2>3, <3>2, <3>3
    <3>5. ASSUME NEW p \in 1 .. out - 1 PROVE ~low(p)
      <4>1. p \in 1 .. Len(s) /\ ~(out <= p)
        BY <2>1, <3>3
      <4>. QED
        BY <2>3, <3>2, <4>1
    <3>. HIDE DEF low
    <3>6. IF out = 0 THEN ~\E p \in 1 .. Len(s) : low(p)
          ELSE t = <<>> \/ (low(out) /\ \A p \in 1 .. out - 1 : ~low(p))
      BY <3>4, <3>5
    <3>. QED
      BY <3>6 DEF low, out
  <2>. QED
    BY <2>4, <2>5
<1>. QED
  BY <1>1, <1>2

(***************************************************************************)
(* Directories.                                                            *)
(***************************************************************************)
Entry == {"no", "dir", "file"}

\* createDirectory, for any number of names, what is there of them, and what others
\* make meanwhile.
LEMMA DirectoryIs ==
  ASSUME NEW n \in Nat, NEW there \in [1 .. n -> Entry], NEW rival \in SUBSET (1 .. n),
         \A j, k \in 1 .. n : j < k /\ there[j] # "dir" => there[k] = "no",
         \A j \in 1 .. n, k \in rival : there[k] = "no" /\ (j < k => there[j] # "file")
  PROVE  LET out == CreateDirectory(there, rival)
             end == out.there IN
         /\ out.ok => \A k \in DOMAIN end : end[k] = "dir" \/ (k = Len(end) /\ end[k] = "file")
         /\ ~out.ok => rival # {} \/ \E k \in DOMAIN end : end[k] = "file"
         /\ \A k \in DOMAIN end : end[k] = "dir" /\ k > 1 => end[k - 1] = "dir"
<1>. DEFINE fails == {k \in 1 .. n : there[k] = "no" /\ (k \in rival \/ (k > 1 /\ there[k - 1] = "file"))}
            upto == IF fails = {} THEN n ELSE Min(fails)
            makes(k) == k <= upto /\ there[k] = "no" /\ (k \notin fails \/ k \in rival)
            end == [k \in 1 .. n |-> IF makes(k) THEN "dir" ELSE there[k]]
<1>1. DOMAIN there = 1 .. n /\ Len(there) = n
  BY DEF Entry
<1>2. CreateDirectory(there, rival) = [ok |-> fails = {}, there |-> end]
  BY <1>1 DEF CreateDirectory
<1>3. DOMAIN end = 1 .. n /\ Len(end) = n
  OBVIOUS
<1>4. \A k \in 1 .. n : end[k] = IF makes(k) THEN "dir" ELSE there[k]
  OBVIOUS
<1>5. fails # {} => upto \in fails /\ \A k \in fails : upto <= k
  <2>1. fails \in SUBSET Nat
    OBVIOUS
  <2>. HIDE DEF fails
  <2>. QED
    BY <2>1, MinOf
<1>6. upto \in Int /\ (fails = {} => upto = n)
  BY <1>5
<1>. HIDE DEF upto, end
<1>7. ASSUME fails = {}, NEW k \in 1 .. n PROVE end[k] = "dir" \/ (k = n /\ end[k] = "file")
  <2>1. CASE there[k] = "no"
    <3>. HIDE DEF fails
    <3>1. makes(k)
      BY <1>6, <1>7, <2>1
    <3>. QED
      BY <1>4, <3>1
  <2>2. CASE there[k] = "dir"
    BY <1>4, <2>2
  <2>3. CASE there[k] = "file"
    <3>1. k = n
      <4>. SUFFICES ASSUME k # n PROVE FALSE
        OBVIOUS
      <4>1. k + 1 \in 1 .. n /\ k < k + 1 /\ k + 1 > 1 /\ (k + 1) - 1 = k
        OBVIOUS
      <4>2. there[k + 1] = "no"
        BY <2>3, <4>1
      <4>3. k + 1 \in fails
        BY <2>3, <4>1, <4>2
      <4>. QED
        BY <1>7, <4>3
    <3>2. end[k] = "file"
      BY <1>4, <2>3
    <3>. QED
      BY <3>1, <3>2
  <2>. QED
    BY <2>1, <2>2, <2>3 DEF Entry
<1>8. ASSUME fails # {} PROVE rival # {} \/ \E k \in 1 .. n : end[k] = "file"
  <2>1. PICK k \in 1 .. n : there[k] = "no" /\ (k \in rival \/ (k > 1 /\ there[k - 1] = "file"))
    BY <1>8
  <2>2. CASE k \in rival
    BY <2>2
  <2>3. CASE k > 1 /\ there[k - 1] = "file"
    <3>1. k - 1 \in 1 .. n
      BY <2>3
    <3>2. end[k - 1] = "file"
      BY <1>4, <2>3, <3>1
    <3>. QED
      BY <3>1, <3>2
  <2>. QED
    BY <2>1, <2>2, <2>3
<1>9. ASSUME NEW k \in 1 .. n, end[k] = "dir", k > 1 PROVE end[k - 1] = "dir"
  <2>1. k - 1 \in 1 .. n /\ k - 1 < k
    BY <1>9
  <2>2. there[k - 1] \in Entry
    BY <2>1
  <2>3. CASE there[k - 1] = "dir"
    BY <1>4, <2>1, <2>3
  <2>4. CASE there[k - 1] # "dir"
    <3>1. there[k] = "no"
      BY <2>1, <2>4
    <3>2. makes(k)
      BY <1>4, <1>9, <3>1
    <3>3. there[k - 1] # "file"
      <4>1. there[k - 1] = "file" => k \in fails
        BY <1>9, <3>1
      <4>2. there[k - 1] = "file" => k \in rival
        BY <3>2, <4>1
      <4>. QED
        BY <2>1, <4>2
    <3>4. there[k - 1] = "no"
      BY <2>2, <2>4, <3>3 DEF Entry
    <3>5. k - 1 <= upto /\ k - 1 \notin fails
      BY <1>5, <1>6, <2>1, <3>2
    <3>. QED
      BY <1>4, <2>1, <3>4, <3>5
  <2>. QED
    BY <2>3, <2>4
<1>. HIDE DEF fails, makes
<1>10. (CreateDirectory(there, rival).ok <=> fails = {}) /\ CreateDirectory(there, rival).there = end
  <2>. DEFINE ok == fails = {}
  <2>1. CreateDirectory(there, rival) = [ok |-> ok, there |-> end]
    BY <1>2
  <2>. HIDE DEF ok
  <2>2. CreateDirectory(there, rival).ok = ok /\ CreateDirectory(there, rival).there = end
    BY <2>1
  <2>. QED
    BY <2>2 DEF ok
<1>. QED
  BY <1>3, <1>7, <1>8, <1>9, <1>10

(***************************************************************************)
(* Splitting and replacing.                                                *)
(***************************************************************************)

\* What is left behind the first of two texts is the second.
LEMMA DropConcat ==
  ASSUME NEW C, NEW s \in Seq(C), NEW t \in Seq(C), NEW n \in Nat, n <= Len(s)
  PROVE  Drop(s \o t, n) = Drop(s, n) \o t
<1>1. Len(s) \in Nat /\ Len(t) \in Nat
  BY LenProperties
<1>. DEFINE q == s \o t
            a == Drop(q, n)
            b == Drop(s, n) \o t
<1>2. /\ q \in Seq(C) /\ Len(q) = Len(s) + Len(t)
      /\ \A i \in 1 .. Len(s) + Len(t) : q[i] = IF i <= Len(s) THEN s[i] ELSE t[i - Len(s)]
  BY ConcatProperties
<1>. HIDE DEF q
<1>3. /\ a \in Seq(C) /\ Len(a) = Len(s) + Len(t) - n
      /\ \A i \in 1 .. Len(s) + Len(t) - n : a[i] = q[n + i]
  <2>1. /\ a \in Seq(C) /\ Len(a) = IF n <= Len(q) THEN Len(q) - n ELSE 0
        /\ \A i \in 1 .. Len(q) - n : a[i] = q[n + i]
    BY <1>2, DropIs
  <2>. QED
    BY <1>1, <1>2, <2>1
<1>4. /\ Drop(s, n) \in Seq(C) /\ Len(Drop(s, n)) = Len(s) - n
      /\ \A i \in 1 .. Len(s) - n : Drop(s, n)[i] = s[n + i]
  BY DropIs
<1>5. /\ b \in Seq(C) /\ Len(b) = Len(s) - n + Len(t)
      /\ \A i \in 1 .. Len(s) - n + Len(t) :
           b[i] = IF i <= Len(s) - n THEN s[n + i] ELSE t[i - (Len(s) - n)]
  <2>1. /\ b \in Seq(C) /\ Len(b) = Len(Drop(s, n)) + Len(t)
        /\ \A i \in 1 .. Len(Drop(s, n)) + Len(t) :
             b[i] = IF i <= Len(Drop(s, n)) THEN Drop(s, n)[i] ELSE t[i - Len(Drop(s, n))]
    BY <1>4, ConcatProperties
  <2>. HIDE DEF b
  <2>. QED
    BY <1>1, <1>4, <2>1
<1>. HIDE DEF a, b
<1>6. \A i \in 1 .. Len(a) : a[i] = b[i]
  <2>. TAKE i \in 1 .. Len(a)
  <2>1. i \in 1 .. Len(s) + Len(t) - n /\ n + i \in 1 .. Len(s) + Len(t)
        /\ i \in 1 .. Len(s) - n + Len(t)
    BY <1>1, <1>3
  <2>2. CASE i <= Len(s) - n
    <3>1. n + i <= Len(s)
      BY <1>1, <2>1, <2>2
    <3>. QED
      BY <1>2, <1>3, <1>5, <2>1, <2>2, <3>1
  <2>3. CASE ~(i <= Len(s) - n)
    <3>1. ~(n + i <= Len(s)) /\ n + i - Len(s) = i - (Len(s) - n)
      BY <1>1, <2>1, <2>3
    <3>. QED
      BY <1>2, <1>3, <1>5, <2>1, <2>3, <3>1
  <2>. QED
    BY <2>2, <2>3
<1>7. a = b
  <2>1. Len(a) = Len(b)
    BY <1>1, <1>3, <1>5
  <2>. QED
    BY <1>3, <1>5, <1>6, <2>1, SeqEqual
<1>. QED
  BY <1>7 DEF a, b, q

\* A text that begins with a character.
LEMMA ConsIs ==
  ASSUME NEW C, NEW c \in C, NEW r \in Seq(C)
  PROVE  LET q == <<c>> \o r IN
         /\ q \in Seq(C) /\ q # <<>> /\ Len(q) = 1 + Len(r) /\ Len(r) \in Nat
         /\ q[1] = c /\ \A k \in 1 .. Len(r) : q[k + 1] = r[k]
         /\ Drop(q, 1) = r
         /\ r = <<>> => q = <<c>>
<1>. DEFINE q == <<c>> \o r
<1>1. <<c>> \in Seq(C) /\ Len(<<c>>) = 1 /\ <<c>>[1] = c /\ Len(r) \in Nat
  BY LenProperties
<1>2. /\ q \in Seq(C) /\ Len(q) = 1 + Len(r)
      /\ \A i \in 1 .. 1 + Len(r) : q[i] = IF i <= 1 THEN c ELSE r[i - 1]
  BY <1>1, ConcatProperties
<1>3. Drop(q, 1) = r
  <2>. DEFINE o == <<c>>
  <2>0. o \in Seq(C) /\ 1 \in 0 .. Len(o)
    BY <1>1
  <2>2. Drop(o, 1) = <<>>
    BY <1>1, SubSeqEmpty DEF Drop
  <2>. HIDE DEF o
  <2>3. Drop(o \o r, 1) = Drop(o, 1) \o r
    BY <2>0, DropConcat
  <2>1. Drop(q, 1) = Drop(o, 1) \o r
    BY <2>3 DEF o, q
  <2>. QED
    BY <2>1, <2>2, ConcatEmptySeq
<1>4. r = <<>> => q = <<c>>
  BY <1>1, ConcatEmptySeq
<1>. HIDE DEF q
<1>5. q[1] = c /\ \A k \in 1 .. Len(r) : q[k + 1] = r[k]
  <2>1. q[1] = c
    BY <1>1, <1>2
  <2>2. ASSUME NEW k \in 1 .. Len(r) PROVE q[k + 1] = r[k]
    <3>1. k + 1 \in 1 .. 1 + Len(r) /\ ~(k + 1 <= 1) /\ (k + 1) - 1 = k
      BY <1>1
    <3>. QED
      BY <1>2, <3>1
  <2>. QED
    BY <2>1, <2>2
<1>6. q # <<>>
  BY <1>1, <1>2, EmptySeq
<1>. QED
  BY <1>1, <1>2, <1>3, <1>4, <1>5, <1>6 DEF q

\* What Wiped leaves of two texts is what it leaves of each.
LEMMA WipedConcat ==
  ASSUME NEW c, NEW s \in Str, NEW t \in Str
  PROVE  Wiped(s \o t, c) = Wiped(s, c) \o Wiped(t, c)
<1>. DEFINE P == {u \in Str : Wiped(u \o t, c) = Wiped(u, c) \o Wiped(t, c)}
<1>1. ASSUME NEW u \in Seq(Int), \A v \in Seq(Int) : Len(v) < Len(u) => v \in P PROVE u \in P
  <2>1. CASE u = <<>>
    <3>1. u \o t = t /\ Wiped(u, c) = <<>> /\ Wiped(t, c) \in Str
      BY <2>1, WipedIs, ConcatEmptySeq, EmptySeq DEF Str
    <3>2. <<>> \o Wiped(t, c) = Wiped(t, c)
      BY <3>1, ConcatEmptySeq DEF Str
    <3>. QED
      BY <3>1, <3>2 DEF Str
  <2>2. CASE u # <<>>
    <3>. DEFINE v == Drop(u, 1)
                q == u \o t
    <3>1. v \in Seq(Int) /\ Len(v) < Len(u) /\ u[1] \in Int /\ Len(u) \in Nat \ {0}
      BY <2>2, DropIs, FirstIs
    <3>2. Wiped(v \o t, c) = Wiped(v, c) \o Wiped(t, c)
      BY <1>1, <3>1
    <3>3. Drop(q, 1) = v \o t
      BY <3>1, DropConcat DEF Str
    <3>4. q \in Str /\ q # <<>> /\ q[1] = u[1]
      <4>1. Len(t) \in Nat
        BY LenProperties DEF Str
      <4>2. q \in Seq(Int) /\ Len(q) = Len(u) + Len(t) /\ 1 \in 1 .. Len(u) + Len(t)
            /\ \A i \in 1 .. Len(u) + Len(t) : q[i] = IF i <= Len(u) THEN u[i] ELSE t[i - Len(u)]
        BY <3>1, <4>1, ConcatProperties DEF Str
      <4>. HIDE DEF q
      <4>3. q[1] = u[1] /\ q # <<>>
        BY <3>1, <4>1, <4>2, EmptySeq
      <4>. QED
        BY <4>2, <4>3 DEF Str
    <3>. HIDE DEF q, v
    <3>5. /\ Wiped(v, c) \in Seq(Int) /\ Wiped(t, c) \in Seq(Int)
          /\ <<u[1]>> \in Seq(Int)
      BY <3>1, WipedIs, TextConcat DEF Str
    <3>6. Wiped(q, c) = IF u[1] = c THEN Wiped(v, c) \o Wiped(t, c)
                          ELSE <<u[1]>> \o (Wiped(v, c) \o Wiped(t, c))
      <4>1. Wiped(q, c) = IF q[1] = c THEN Wiped(Drop(q, 1), c)
                            ELSE <<q[1]>> \o Wiped(Drop(q, 1), c)
        BY <3>4, WipedIs
      <4>. QED
        BY <4>1, <3>2, <3>3, <3>4, Zenon
    <3>7. Wiped(u, c) = IF u[1] = c THEN Wiped(v, c) ELSE <<u[1]>> \o Wiped(v, c)
      <4>1. u \in Str
        BY DEF Str
      <4>2. Wiped(u, c) = IF u[1] = c THEN Wiped(Drop(u, 1), c)
                            ELSE <<u[1]>> \o Wiped(Drop(u, 1), c)
        BY <2>2, <4>1, WipedIs
      <4>. QED
        BY <4>2, Zenon DEF v
    <3>8. <<u[1]>> \o (Wiped(v, c) \o Wiped(t, c)) = (<<u[1]>> \o Wiped(v, c)) \o Wiped(t, c)
      BY <3>5, ConcatAssociative
    <3>9. Wiped(q, c) = Wiped(u, c) \o Wiped(t, c)
      <4>1. CASE u[1] = c
        BY <3>6, <3>7, <4>1, Zenon
      <4>2. CASE u[1] # c
        BY <3>6, <3>7, <3>8, <4>2, Zenon
      <4>. QED
        BY <4>1, <4>2
    <3>. QED
      BY <3>9 DEF q, Str
  <2>. QED
    BY <2>1, <2>2
<1>. HIDE DEF P
<1>2. \A u \in Seq(Int) : u \in P
  BY <1>1, TextInduction
<1>. QED
  BY <1>2 DEF P, Str

\* The pieces of a text that has one more in front.
LEMMA JoinedCons ==
  ASSUME NEW sep \in Int, NEW p \in Str, NEW ps \in Seq(Str)
  PROVE  Joined(<<p>> \o ps, sep) = IF ps = <<>> THEN p ELSE p \o <<sep>> \o Joined(ps, sep)
<1>. DEFINE q == <<p>> \o ps
<1>1. /\ q \in Seq(Str) /\ q # <<>> /\ Len(q) = 1 + Len(ps) /\ Len(ps) \in Nat
      /\ q[1] = p /\ Drop(q, 1) = ps
  BY ConsIs
<1>. HIDE DEF q
<1>2. Joined(q, sep) = IF Len(q) = 1 THEN q[1] ELSE q[1] \o <<sep>> \o Joined(Drop(q, 1), sep)
  BY <1>1, JoinedIs
<1>3. Len(q) = 1 <=> ps = <<>>
  BY <1>1, EmptySeq
<1>4. Joined(q, sep) = IF ps = <<>> THEN p ELSE p \o <<sep>> \o Joined(ps, sep)
  BY <1>1, <1>2, <1>3, Zenon
<1>. QED
  BY <1>4 DEF q

\* What is in all pieces of a text is in the first and in the others.
LEMMA PiecesCons ==
  ASSUME NEW p \in Str, NEW ps \in Seq(Str), NEW k \in DOMAIN (<<p>> \o ps)
  PROVE  LET q == <<p>> \o ps IN
         \/ k = 1 /\ q[k] = p
         \/ k - 1 \in DOMAIN ps /\ q[k] = ps[k - 1] /\ Len(q) = Len(ps) + 1
            /\ k \in Nat /\ Len(ps) \in Nat
<1>. DEFINE q == <<p>> \o ps
<1>1. /\ q \in Seq(Str) /\ Len(q) = 1 + Len(ps) /\ Len(ps) \in Nat
      /\ q[1] = p /\ \A i \in 1 .. Len(ps) : q[i + 1] = ps[i]
  BY ConsIs
<1>2. DOMAIN ps = 1 .. Len(ps) /\ k \in DOMAIN q
  BY LenProperties
<1>. HIDE DEF q
<1>3. DOMAIN q = 1 .. 1 + Len(ps)
  BY <1>1, LenProperties
<1>4. CASE k = 1
  BY <1>1, <1>4 DEF q
<1>5. CASE k # 1
  <2>1. k - 1 \in 1 .. Len(ps) /\ (k - 1) + 1 = k /\ k \in Nat
    BY <1>1, <1>2, <1>3, <1>5
  <2>2. q[(k - 1) + 1] = ps[k - 1]
    BY <1>1, <2>1
  <2>3. k - 1 \in DOMAIN ps /\ q[k] = ps[k - 1] /\ Len(q) = Len(ps) + 1
    BY <1>1, <1>2, <2>1, <2>2
  <2>. QED
    BY <1>1, <2>1, <2>3 DEF q
<1>. QED
  BY <1>4, <1>5

\* No piece between an open and a close has a close in it.
LEMMA BetweenHasNoClose ==
  ASSUME NEW open, NEW close, NEW s \in Str
  PROVE  \A k \in DOMAIN Between(s, open, close) : close \notin ToSet(Between(s, open, close)[k])
<1>. DEFINE B(t) == Between(t, open, close)
            P == {t \in Str : \A k \in DOMAIN B(t) : close \notin ToSet(B(t)[k])}
<1>1. ASSUME NEW t \in Seq(Int), \A u \in Seq(Int) : Len(u) < Len(t) => u \in P PROVE t \in P
  <2>0. t \in Str /\ \A u \in Str : Len(u) < Len(t) => u \in P
    BY <1>1 DEF Str
  <2>1. CASE t = <<>>
    <3>1. B(t) = <<>>
      BY <2>0, <2>1, BetweenIs, Zenon
    <3>. HIDE DEF B
    <3>. QED
      BY <2>0, <3>1
  <2>2. CASE t # <<>>
    <3>. DEFINE e == Find(Drop(t, 1), close)
                p == SubSeq(t, 2, e)
                v == Drop(t, 1)
                w == Drop(t, e + 1)
                ps == B(w)
    <3>1. e \in Nat /\ 1 <= e /\ e <= Len(t) /\ p \in Str /\ \A i \in 2 .. e : t[i] # close
      BY <2>0, <2>2, BetweenEnd
    <3>2. v \in Str /\ Len(v) < Len(t) /\ w \in Str /\ Len(w) < Len(t) /\ Len(t) \in Nat
      BY <2>0, <2>2, <3>1, DropIs, FirstIs DEF Str
    <3>3. close \notin ToSet(p)
      <4>1. /\ Len(p) = IF 2 <= e THEN e - 2 + 1 ELSE 0
            /\ \A k \in 1 .. e - 2 + 1 : p[k] = t[2 + k - 1]
        BY <2>0, <3>1, <3>2, PartIs DEF Str
      <4>2. DOMAIN p = 1 .. Len(p)
        BY <3>1, LenProperties DEF Str
      <4>. HIDE DEF p
      <4>3. ASSUME NEW k \in DOMAIN p PROVE p[k] # close
        <5>1. k \in 1 .. e - 2 + 1 /\ 2 + k - 1 \in 2 .. e
          <6>. HIDE DEF e
          <6>. QED
            BY <3>1, <4>1, <4>2
        <5>2. p[k] = t[2 + k - 1]
          BY <4>1, <5>1
        <5>. QED
          BY <3>1, <5>1, <5>2
      <4>. QED
        BY <4>3 DEF ToSet
    <3>4. B(t) = IF t[1] # open THEN B(v) ELSE IF e = Len(t) THEN <<>> ELSE <<p>> \o ps
      BY <2>0, <2>2, BetweenIs, Zenon
    <3>5. v \in P /\ w \in P /\ ps \in Seq(Str)
      BY <2>0, <3>2, BetweenIs
    <3>. HIDE DEF e, p, v, w
    <3>6. CASE t[1] # open
      <4>1. B(t) = B(v)
        BY <3>4, <3>6, Zenon
      <4>2. \A k \in DOMAIN B(v) : close \notin ToSet(B(v)[k])
        BY <3>5
      <4>. HIDE DEF B
      <4>3. \A k \in DOMAIN B(t) : close \notin ToSet(B(t)[k])
        BY <4>1, <4>2, Zenon
      <4>. QED
        BY <2>0, <4>3
    <3>7. CASE ~(t[1] # open) /\ e = Len(t)
      BY <2>0, <3>4, <3>7
    <3>8. CASE ~(t[1] # open) /\ e # Len(t)
      <4>1. B(t) = <<p>> \o ps
        BY <3>4, <3>8, Zenon
      <4>2. \A k \in DOMAIN ps : close \notin ToSet(ps[k])
        BY <3>5
      <4>. DEFINE q == <<p>> \o ps
      <4>. HIDE DEF B, ps
      <4>3. ASSUME NEW k \in DOMAIN q PROVE close \notin ToSet(q[k])
        <5>1. \/ q[k] = p
              \/ k - 1 \in DOMAIN ps /\ q[k] = ps[k - 1]
          BY <3>1, <3>5, <4>3, PiecesCons
        <5>. QED
          BY <3>3, <4>2, <5>1, Zenon
      <4>4. \A k \in DOMAIN B(t) : close \notin ToSet(B(t)[k])
        BY <4>1, <4>3, Zenon
      <4>. QED
        BY <2>0, <4>4
    <3>. QED
      BY <3>6, <3>7, <3>8
  <2>. QED
    BY <2>1, <2>2
<1>. HIDE DEF P
<1>2. \A t \in Seq(Int) : t \in P
  BY <1>1, TextInduction
<1>3. s \in P
  BY <1>2 DEF Str
<1>. QED
  BY <1>3 DEF P

\* A piece and what is left behind it.
LEMMA PieceParts ==
  ASSUME NEW t \in Str, t # <<>>, NEW sep
  PROVE  LET e == PieceEnd(t, sep)
             p == Piece(t, e)
             r == Drop(t, e) IN
         /\ p \in Str /\ r \in Str /\ Len(r) < Len(t)
         /\ e \in 1 .. Len(t)
         /\ e = Len(t) => p = t /\ r = <<>>
         /\ e # Len(t) => r # <<>> /\ t[e] = sep /\ t = p \o <<sep>> \o r /\ sep \notin ToSet(p)
         /\ t[1] = sep => e = 1
         /\ t[1] # sep => p # <<>>
<1>. DEFINE e == PieceEnd(t, sep)
            p == Piece(t, e)
            r == Drop(t, e)
<1>1. /\ e \in Nat /\ 1 <= e /\ e <= Len(t)
      /\ \A i \in 1 .. e - 1 : t[i] # sep
      /\ e < Len(t) => t[e] = sep
  BY PieceEndIs
<1>2. Len(t) \in Nat \ {0} /\ DOMAIN t = 1 .. Len(t)
  BY FirstIs DEF Str
<1>3. p \in Str
  BY PieceIs
<1>4. p = SubSeq(t, 1, IF e = Len(t) THEN e ELSE e - 1)
  BY DEF Piece
<1>. HIDE DEF e, p
<1>11. e \in Nat /\ 1 <= e /\ e <= Len(t) /\ Len(t) \in Nat
  BY <1>1, <1>2
<1>5. r \in Str /\ Len(r) = Len(t) - e
  BY <1>1, DropIs DEF Str
<1>6. e = Len(t) => p = t /\ r = <<>>
  <2>. HAVE e = Len(t)
  <2>1. p = SubSeq(t, 1, Len(t))
    BY <1>4
  <2>2. p = t
    BY <2>1, SubSeqFull DEF Str
  <2>3. r = <<>>
    BY <1>2, <1>5, EmptySeq DEF Str
  <2>. QED
    BY <2>2, <2>3
<1>7. e # Len(t) => r # <<>> /\ t[e] = sep /\ t = p \o <<sep>> \o r /\ sep \notin ToSet(p)
  <2>. HAVE e # Len(t)
  <2>1. e \in 0 .. Len(t) /\ e > 0 /\ e < Len(t)
    BY <1>11
  <2>2. p = SubSeq(t, 1, e - 1)
    BY <1>4
  <2>3. t[e] = sep /\ t = SubSeq(t, 1, e - 1) \o <<t[e]>> \o Drop(t, e)
    BY <1>1, <2>1, Parts DEF Str
  <2>4. r # <<>>
    <3>1. Len(r) # 0
      BY <1>5, <1>11, <2>1
    <3>. QED
      BY <3>1, EmptySeq
  <2>5. sep \notin ToSet(p)
    <3>1. /\ Len(p) = IF 1 <= e - 1 THEN e - 1 - 1 + 1 ELSE 0
          /\ \A k \in 1 .. e - 1 - 1 + 1 : p[k] = t[1 + k - 1]
      <4>. DEFINE d == e - 1
      <4>1. d \in Int /\ d <= Len(t) /\ d = e - 1
        BY <1>11
      <4>. HIDE DEF d
      <4>2. /\ Len(SubSeq(t, 1, d)) = IF 1 <= d THEN d - 1 + 1 ELSE 0
            /\ \A k \in 1 .. d - 1 + 1 : SubSeq(t, 1, d)[k] = t[1 + k - 1]
        BY <4>1, PartIs DEF Str
      <4>. QED
        BY <2>2, <4>2 DEF d
    <3>2. DOMAIN p = 1 .. Len(p)
      BY <1>3, LenProperties DEF Str
    <3>3. ASSUME NEW k \in DOMAIN p PROVE p[k] # sep
      <4>1. k \in 1 .. e - 1 /\ k \in 1 .. e - 1 - 1 + 1 /\ 1 + k - 1 = k
        BY <1>1, <3>1, <3>2
      <4>. QED
        BY <1>1, <3>1, <4>1
    <3>. QED
      BY <3>3 DEF ToSet
  <2>. QED
    BY <2>2, <2>3, <2>4, <2>5, Zenon DEF r
<1>8. t[1] = sep => e = 1
  <2>. HAVE t[1] = sep
  <2>1. ~(1 \in 1 .. e - 1)
    BY <1>1
  <2>. QED
    BY <1>1, <2>1
<1>9. t[1] # sep => p # <<>>
  <2>. HAVE t[1] # sep
  <2>1. CASE e = Len(t)
    BY <1>6, <2>1
  <2>2. CASE e # Len(t)
    <3>0. e < Len(t)
      <4>. DEFINE n == Len(t)
      <4>1. e \in Nat /\ e <= n /\ n \in Nat /\ e # n
        BY <1>11, <2>2
      <4>. HIDE DEF n
      <4>2. e < n
        BY <4>1
      <4>. QED
        BY <4>2 DEF n
    <3>1. e # 1
      BY <1>1, <3>0
    <3>2. e - 1 \in Nat /\ 1 <= e - 1 /\ e - 1 <= Len(t)
      BY <1>11, <3>1
    <3>3. p = SubSeq(t, 1, e - 1)
      BY <1>4, <2>2
    <3>4. Len(SubSeq(t, 1, e - 1)) # 0
      <4>. DEFINE d == e - 1
      <4>1. d \in Int /\ d <= Len(t) /\ 1 <= d
        BY <3>2
      <4>. HIDE DEF d
      <4>2. Len(SubSeq(t, 1, d)) = IF 1 <= d THEN d - 1 + 1 ELSE 0
        BY <4>1, PartIs DEF Str
      <4>3. Len(SubSeq(t, 1, d)) # 0
        BY <4>1, <4>2
      <4>. QED
        BY <4>3 DEF d
    <3>. QED
      BY <3>3, <3>4, EmptySeq
  <2>. QED
    BY <2>1, <2>2
<1>10. e \in 1 .. Len(t) /\ Len(r) < Len(t)
  BY <1>1, <1>2, <1>5
<1>. HIDE DEF r
<1>. QED
  BY <1>3, <1>5, <1>6, <1>7, <1>8, <1>9, <1>10, Zenon DEF e, p, r

\* The pieces of a text, joined again, are the text.
LEMMA SplitJoined ==
  ASSUME NEW sep \in Int, NEW s \in Str
  PROVE  Joined(Split(s, sep), sep) = s
<1>. DEFINE P == {t \in Str : Joined(Split(t, sep), sep) = t}
<1>1. ASSUME NEW t \in Seq(Int), \A u \in Seq(Int) : Len(u) < Len(t) => u \in P PROVE t \in P
  <2>0. t \in Str /\ \A u \in Str : Len(u) < Len(t) => Joined(Split(u, sep), sep) = u
    BY <1>1 DEF Str
  <2>1. CASE t = <<>>
    <3>1. Split(t, sep) = <<>> /\ <<>> \in Seq(Str)
      BY <2>0, <2>1, SplitIs, Zenon
    <3>2. Joined(<<>>, sep) = <<>>
      BY <3>1, JoinedIs, Zenon
    <3>. QED
      BY <2>0, <2>1, <3>1, <3>2
  <2>2. CASE t # <<>>
    <3>. DEFINE e == PieceEnd(t, sep)
                p == Piece(t, e)
                r == Drop(t, e)
    <3>1. /\ p \in Str /\ r \in Str /\ Len(r) < Len(t)
          /\ e = Len(t) => p = t /\ r = <<>>
          /\ e # Len(t) => r # <<>> /\ t = p \o <<sep>> \o r
      BY <2>0, <2>2, PieceParts
    <3>2. Split(t, sep) = <<p>> \o Split(r, sep)
      BY <2>0, <2>2, SplitIs, Zenon
    <3>. HIDE DEF e, p, r
    <3>3. Split(r, sep) \in Seq(Str) /\ Joined(Split(r, sep), sep) = r
      BY <2>0, <3>1, SplitIs
    <3>4. Split(r, sep) = <<>> <=> r = <<>>
      <4>1. r = <<>> => Split(r, sep) = <<>>
        BY <3>1, SplitIs, Zenon
      <4>2. Joined(<<>>, sep) = <<>>
        BY <3>3, JoinedIs, EmptySeq
      <4>. QED
        BY <3>3, <4>1, <4>2, Zenon
    <3>5. Joined(<<p>> \o Split(r, sep), sep) =
            IF Split(r, sep) = <<>> THEN p ELSE p \o <<sep>> \o Joined(Split(r, sep), sep)
      BY <3>1, <3>3, JoinedCons
    <3>6. Joined(Split(t, sep), sep) = IF r = <<>> THEN p ELSE p \o <<sep>> \o r
      BY <3>2, <3>3, <3>4, <3>5, Zenon
    <3>7. Joined(Split(t, sep), sep) = t
      <4>1. CASE e = Len(t)
        BY <3>1, <3>6, <4>1, Zenon
      <4>2. CASE e # Len(t)
        BY <3>1, <3>6, <4>2, Zenon
      <4>. QED
        BY <4>1, <4>2
    <3>. QED
      BY <2>0, <3>7
  <2>. QED
    BY <2>1, <2>2
<1>. HIDE DEF P
<1>2. \A t \in Seq(Int) : t \in P
  BY <1>1, TextInduction
<1>3. s \in P
  BY <1>2 DEF Str
<1>. QED
  BY <1>3 DEF P

\* A separator between two texts is left out.
LEMMA WipedSeparator ==
  ASSUME NEW c \in Int, NEW p \in Str, NEW r \in Str
  PROVE  Wiped(p \o <<c>> \o r, c) = Wiped(p, c) \o Wiped(r, c)
<1>. DEFINE o == <<c>>
<1>1. o \in Str /\ o # <<>> /\ o[1] = c
  BY DEF Str
<1>2. Drop(o, 1) = <<>>
  <2>1. Len(o) = 1
    OBVIOUS
  <2>. QED
    BY <2>1, SubSeqEmpty DEF Drop
<1>3. <<>> \in Str
  BY DEF Str
<1>. HIDE DEF o
<1>4. Wiped(o, c) = Wiped(<<>>, c)
  BY <1>1, <1>2, WipedIs
<1>5. Wiped(<<>>, c) = <<>>
  BY <1>3, WipedIs
<1>6. p \o o \in Str
  BY <1>1, TextConcat DEF Str
<1>7. Wiped((p \o o) \o r, c) = Wiped(p \o o, c) \o Wiped(r, c)
  BY <1>6, WipedConcat
<1>8. Wiped(p \o o, c) = Wiped(p, c) \o Wiped(o, c)
  BY <1>1, WipedConcat
<1>9. Wiped(p, c) \o <<>> = Wiped(p, c)
  BY WipedIs, ConcatEmptySeq DEF Str
<1>10. Wiped((p \o o) \o r, c) = Wiped(p, c) \o Wiped(r, c)
  BY <1>4, <1>5, <1>7, <1>8, <1>9, Zenon
<1>. QED
  BY <1>10 DEF o

\* divideStr keeps every letter, skips what is empty, and only the last piece may
\* have a separator in it.
LEMMA DivideSound ==
  ASSUME NEW sep \in Int, NEW s \in Str
  PROVE  LET ps == Divide(s, sep) IN
         /\ Wiped(Joined(ps, sep), sep) = Wiped(s, sep)
         /\ \A k \in DOMAIN ps : ps[k] # <<>> /\ (sep \in ToSet(ps[k]) => k = Len(ps))
<1>. DEFINE W(t) == Wiped(t, sep)
            J(ps) == Joined(ps, sep)
            D(t) == Divide(t, sep)
            Fine(ps) == \A k \in DOMAIN ps : ps[k] # <<>> /\ (sep \in ToSet(ps[k]) => k = Len(ps))
            P == {t \in Str : W(J(D(t))) = W(t) /\ Fine(D(t))}
<1>0. J(<<>>) = <<>> /\ W(<<>>) = <<>> /\ <<>> \in Seq(Str) /\ <<>> \in Str
  <2>1. <<>> \in Seq(Str) /\ <<>> \in Str
    BY DEF Str
  <2>. QED
    BY <2>1, JoinedIs, WipedIs
<1>1. ASSUME NEW t \in Seq(Int), \A u \in Seq(Int) : Len(u) < Len(t) => u \in P PROVE t \in P
  <2>0. t \in Str /\ \A u \in Str : Len(u) < Len(t) => W(J(D(u))) = W(u) /\ Fine(D(u))
    BY <1>1 DEF Str
  <2>1. CASE t = <<>>
    <3>1. D(t) = <<>>
      BY <2>0, <2>1, DivideIs, Zenon
    <3>2. Fine(<<>>)
      OBVIOUS
    <3>. HIDE DEF D, J, W, Fine
    <3>. QED
      BY <1>0, <2>0, <2>1, <3>1, <3>2
  <2>2. CASE t # <<>>
    <3>. DEFINE e == PieceEnd(t, sep)
                p == Piece(t, e)
                r == Drop(t, e)
    <3>1. /\ p \in Str /\ r \in Str /\ Len(r) < Len(t)
          /\ e = Len(t) => p = t /\ r = <<>>
          /\ e # Len(t) => r # <<>> /\ t = p \o <<sep>> \o r /\ sep \notin ToSet(p)
          /\ t[1] = sep => e = 1
          /\ t[1] # sep => p # <<>>
      BY <2>0, <2>2, PieceParts
    <3>2. D(t) = IF t[1] = sep THEN D(r) ELSE <<p>> \o D(r)
      BY <2>0, <2>2, DivideIs, Zenon
    <3>3. W(t) = IF t[1] = sep THEN W(Drop(t, 1)) ELSE <<t[1]>> \o W(Drop(t, 1))
      BY <2>0, <2>2, WipedIs, Zenon
    <3>4. t[1] = sep => r = Drop(t, 1)
      BY <3>1
    <3>. HIDE DEF e, p, r
    <3>5. W(J(D(r))) = W(r) /\ Fine(D(r)) /\ D(r) \in Seq(Str)
      BY <2>0, <3>1, DivideIs
    <3>6. CASE t[1] = sep
      <4>1. D(t) = D(r) /\ W(t) = W(r)
        BY <3>2, <3>3, <3>4, <3>6, Zenon
      <4>. HIDE DEF W, J, D, Fine
      <4>2. W(J(D(t))) = W(t) /\ Fine(D(t))
        BY <3>5, <4>1, Zenon
      <4>. QED
        BY <2>0, <4>2
    <3>7. CASE t[1] # sep
      <4>. DEFINE ps == D(r)
                  q == <<p>> \o ps
      <4>1. D(t) = q /\ p # <<>>
        BY <3>1, <3>2, <3>7, Zenon
      <4>2. J(q) = IF ps = <<>> THEN p ELSE p \o <<sep>> \o J(ps)
        BY <3>1, <3>5, JoinedCons
      <4>3. J(ps) \in Str
        BY <3>5, JoinedIs
      <4>4. W(J(q)) = W(t)
        <5>1. CASE e = Len(t)
          <6>1. p = t /\ ps = <<>>
            BY <3>1, <5>1, DivideIs
          <6>. QED
            BY <4>2, <6>1, Zenon
        <5>2. CASE e # Len(t)
          <6>0. t = p \o <<sep>> \o r
            BY <3>1, <5>2, Zenon
          <6>1. W(t) = W(p) \o W(r)
            BY <3>1, <6>0, WipedSeparator
          <6>2. W(p \o <<sep>> \o J(ps)) = W(p) \o W(J(ps))
            BY <3>1, <4>3, WipedSeparator
          <6>3. W(p) \o <<>> = W(p)
            BY <3>1, WipedIs, ConcatEmptySeq DEF Str
          <6>. HIDE DEF W, J, q, ps
          <6>4. W(J(ps)) = W(r)
            BY <3>5 DEF ps
          <6>5. CASE ps = <<>>
            BY <1>0, <4>2, <6>1, <6>3, <6>4, <6>5, Zenon
          <6>6. CASE ps # <<>>
            BY <4>2, <6>1, <6>2, <6>4, <6>6, Zenon
          <6>. QED
            BY <6>5, <6>6
        <5>. QED
          BY <5>1, <5>2
      <4>5. Fine(q)
        <5>0. e = Len(t) => ps = <<>>
          BY <3>1, DivideIs
        <5>1. \A k \in DOMAIN ps : ps[k] # <<>> /\ (sep \in ToSet(ps[k]) => k = Len(ps))
          BY <3>5
        <5>2. ps \in Seq(Str) /\ Len(<<>>) = 0
          BY <3>5
        <5>. HIDE DEF ps
        <5>3. Len(q) = 1 + Len(ps) /\ Len(ps) \in Nat
          BY <3>1, <5>2, ConsIs
        <5>4. ASSUME NEW k \in DOMAIN q
              PROVE  q[k] # <<>> /\ (sep \in ToSet(q[k]) => k = Len(q))
          <6>1. \/ k = 1 /\ q[k] = p
                \/ k - 1 \in DOMAIN ps /\ q[k] = ps[k - 1] /\ k \in Nat
            BY <3>1, <5>2, <5>4, PiecesCons
          <6>. HIDE DEF q
          <6>2. CASE k = 1 /\ q[k] = p
            <7>1. sep \in ToSet(p) => ps = <<>>
              BY <3>1, <5>0
            <7>2. ps = <<>> => Len(q) = 1
              BY <5>2, <5>3
            <7>. QED
              BY <4>1, <6>2, <7>1, <7>2
          <6>3. CASE k - 1 \in DOMAIN ps /\ q[k] = ps[k - 1] /\ k \in Nat
            <7>1. ps[k - 1] # <<>> /\ (sep \in ToSet(ps[k - 1]) => k - 1 = Len(ps))
              BY <5>1, <6>3
            <7>2. k - 1 = Len(ps) => k = Len(q)
              BY <5>3, <6>3
            <7>. QED
              BY <6>3, <7>1, <7>2, Zenon
          <6>. QED
            BY <6>1, <6>2, <6>3
        <5>. QED
          BY <5>4
      <4>. HIDE DEF W, J, D, Fine, q, ps
      <4>6. W(J(D(t))) = W(t) /\ Fine(D(t))
        BY <4>1, <4>4, <4>5, Zenon
      <4>. QED
        BY <2>0, <4>6
    <3>. QED
      BY <3>6, <3>7
  <2>. QED
    BY <2>1, <2>2
<1>. HIDE DEF P
<1>2. \A t \in Seq(Int) : t \in P
  BY <1>1, TextInduction
<1>3. s \in P
  BY <1>2 DEF Str
<1>. QED
  BY <1>3 DEF P

\* A text is its first character and what is behind it.
LEMMA HeadAndRest ==
  ASSUME NEW C, NEW t \in Seq(C), t # <<>>
  PROVE  SubSeq(t, 1, 1) = <<t[1]>> /\ t = <<t[1]>> \o Drop(t, 1)
<1>1. Len(t) \in Nat \ {0} /\ t[1] \in C
  BY FirstIs
<1>. DEFINE u == SubSeq(t, 1, 1)
            o == <<t[1]>>
<1>2. u \in Seq(C) /\ Len(u) = 1 /\ u[1] = t[1]
  <2>1. 1 \in Nat \ {0} /\ 1 \in Int /\ 1 <= Len(t) /\ 1 \in 1 .. 1 - 1 + 1
    BY <1>1
  <2>2. /\ u \in Seq(C) /\ Len(u) = IF 1 <= 1 THEN 1 - 1 + 1 ELSE 0
        /\ \A k \in 1 .. 1 - 1 + 1 : u[k] = t[1 + k - 1]
    BY <2>1, PartIs
  <2>3. u[1] = t[1 + 1 - 1]
    BY <2>1, <2>2
  <2>. QED
    BY <2>2, <2>3
<1>3. o \in Seq(C) /\ Len(o) = 1 /\ o[1] = t[1]
  BY <1>1
<1>. HIDE DEF u, o
<1>4. u = o
  <2>1. \A i \in 1 .. Len(u) : u[i] = o[i]
    BY <1>2, <1>3
  <2>. QED
    BY <1>2, <1>3, <2>1, SeqEqual
<1>5. t = SubSeq(t, 1, 1) \o Drop(t, 1)
  <2>1. 1 \in 0 .. Len(t)
    BY <1>1
  <2>. QED
    BY <2>1, Parts
<1>. QED
  BY <1>4, <1>5 DEF u, o

\* What Replace makes of a text that begins with a character, where one character
\* is replaced.
LEMMA ReplaceOne ==
  ASSUME NEW c \in Int, NEW src \in Str, NEW a \in Int, NEW r \in Str
  PROVE  Replace(<<a>> \o r, <<c>>, src) =
           IF a = c THEN src \o Replace(r, <<c>>, src) ELSE <<a>> \o Replace(r, <<c>>, src)
<1>. DEFINE t == <<a>> \o r
            o == <<c>>
<1>1. t \in Str /\ t # <<>> /\ t[1] = a /\ Drop(t, 1) = r /\ Len(t) = 1 + Len(r) /\ Len(r) \in Nat
  <2>1. r \in Seq(Int)
    BY DEF Str
  <2>2. t \in Seq(Int) /\ t # <<>> /\ t[1] = a /\ Drop(t, 1) = r /\ Len(t) = 1 + Len(r) /\ Len(r) \in Nat
    BY <2>1, ConsIs
  <2>. HIDE DEF t
  <2>. QED
    BY <2>2 DEF Str
<1>. HIDE DEF t
<1>2. o \in Str /\ o # <<>> /\ Len(o) = 1 /\ o[1] = c
  BY DEF Str
<1>3. SubSeq(t, 1, 1) = <<a>>
  <2>1. SubSeq(t, 1, 1) = <<t[1]>>
    BY <1>1, HeadAndRest DEF Str
  <2>. QED
    BY <1>1, <2>1
<1>4. <<a>> = o <=> a = c
  OBVIOUS
<1>. HIDE DEF o
<1>5. Occurs(t, o, 1) <=> a = c
  <2>1. Occurs(t, o, 1) <=> 1 + Len(o) <= Len(t) + 1 /\ SubSeq(t, 1, 1 + Len(o) - 1) = o
    BY DEF Occurs
  <2>2. 1 + Len(o) <= Len(t) + 1 /\ 1 + Len(o) - 1 = 1
    BY <1>1, <1>2
  <2>. QED
    BY <1>3, <1>4, <2>1, <2>2
<1>6. Replace(t, o, src) = IF Occurs(t, o, 1) THEN src \o Replace(Drop(t, Len(o)), o, src)
                           ELSE <<t[1]>> \o Replace(Drop(t, 1), o, src)
  BY <1>1, <1>2, ReplaceIs, Zenon
<1>7. Replace(t, o, src) = IF a = c THEN src \o Replace(r, o, src) ELSE <<a>> \o Replace(r, o, src)
  BY <1>1, <1>2, <1>5, <1>6, Zenon
<1>. QED
  BY <1>7 DEF t, o

\* Replacing by a character that the text does not have can be undone.
LEMMA ReplaceUndone ==
  ASSUME NEW C \in SUBSET Int, NEW c \in Int, c \notin C,
         NEW src \in Seq(C), src # <<>>, NEW s \in Seq(C)
  PROVE  Replace(Replace(s, src, <<c>>), <<c>>, src) = s
<1>. DEFINE o == <<c>>
            R(t) == Replace(t, src, o)
            U(t) == Replace(t, o, src)
            P == {t \in Seq(C) : U(R(t)) = t}
<1>0. /\ src \in Str /\ o \in Str /\ o # <<>> /\ <<>> \in Str /\ Len(src) \in Nat \ {0}
      /\ \A t \in Seq(C) : t \in Str
  <2>1. Seq(C) \subseteq Seq(Int)
    BY SeqMonotonic
  <2>. QED
    BY <2>1, FirstIs DEF Str
<1>1. ASSUME NEW t \in Seq(C), \A u \in Seq(C) : Len(u) < Len(t) => u \in P PROVE t \in P
  <2>0. t \in Str /\ \A u \in Seq(C) : Len(u) < Len(t) => U(R(u)) = u
    BY <1>0, <1>1
  <2>1. CASE t = <<>>
    <3>1. R(<<>>) = <<>>
      BY <1>0, ReplaceIs, Zenon
    <3>2. U(<<>>) = <<>>
      BY <1>0, ReplaceIs, Zenon
    <3>. HIDE DEF R, U
    <3>. QED
      BY <1>1, <2>1, <3>1, <3>2
  <2>2. CASE t # <<>>
    <3>. DEFINE v == Drop(t, 1)
                w == Drop(t, Len(src))
                a == t[1]
    <3>1. v \in Seq(C) /\ Len(v) < Len(t) /\ w \in Seq(C) /\ Len(w) < Len(t) /\ a \in C
      BY <1>0, <2>2, DropIs, FirstIs
    <3>2. R(t) = IF Occurs(t, src, 1) THEN o \o R(w) ELSE <<a>> \o R(v)
      BY <1>0, <2>0, <2>2, ReplaceIs, Zenon
    <3>3. U(R(v)) = v /\ U(R(w)) = w /\ R(v) \in Str /\ R(w) \in Str
      BY <1>0, <2>0, <3>1, ReplaceIs
    <3>4. t = <<a>> \o v
      BY <2>2, HeadAndRest
    <3>5. Occurs(t, src, 1) => t = src \o w
      <4>. HAVE Occurs(t, src, 1)
      <4>1. 1 + Len(src) <= Len(t) + 1 /\ SubSeq(t, 1, 1 + Len(src) - 1) = src
        BY DEF Occurs
      <4>2. Len(src) \in 0 .. Len(t) /\ 1 + Len(src) - 1 = Len(src)
        <5>1. Len(t) \in Nat
          BY LenProperties
        <5>. QED
          BY <1>0, <4>1, <5>1
      <4>3. t = SubSeq(t, 1, Len(src)) \o Drop(t, Len(src))
        BY <4>2, Parts
      <4>. QED
        BY <4>1, <4>2, <4>3
    <3>6. U(o \o R(w)) = src \o U(R(w))
      <4>. HIDE DEF R, w
      <4>. QED
        BY <1>0, <3>3, ReplaceOne
    <3>7. U(<<a>> \o R(v)) = <<a>> \o U(R(v))
      <4>. HIDE DEF R, v, a
      <4>1. a \in Int /\ a # c
        BY <3>1
      <4>. QED
        BY <1>0, <3>3, <4>1, ReplaceOne
    <3>. HIDE DEF R, U, o, v, w, a
    <3>8. U(R(t)) = t
      <4>1. CASE Occurs(t, src, 1)
        BY <3>2, <3>3, <3>5, <3>6, <4>1, Zenon
      <4>2. CASE ~Occurs(t, src, 1)
        BY <3>2, <3>3, <3>4, <3>7, <4>2, Zenon
      <4>. QED
        BY <4>1, <4>2
    <3>. QED
      BY <1>1, <3>8
  <2>. QED
    BY <2>1, <2>2
<1>. HIDE DEF P
<1>2. \A t \in Seq(C) : t \in P
  BY <1>1, TextInduction
<1>3. s \in P
  BY <1>2
<1>. QED
  BY <1>3 DEF P

(***************************************************************************)
(* Numbers.                                                                *)
(***************************************************************************)

\* A recursion over numbers: each but 0 calls a smaller one, as far as the calls
\* are of its type.
IsNatRecursion(S, nil, next, body) ==
  /\ next \in [Nat -> Nat] /\ nil \in S
  /\ body \in [Nat \X S -> S]
  /\ \A k \in Nat : k # 0 => next[k] < k

\* A function on numbers that satisfies the equation.
SolvesNat(f, S, nil, next, body) ==
  \A k \in Nat : IF k = 0 THEN f[k] = nil
                 ELSE f[next[k]] \in S => f[k] = body[<<k, f[next[k]]>>]

\* What holds of a number if it holds of the smaller ones holds of all.
LEMMA StrongInduction ==
  ASSUME NEW P, \A k \in Nat : (\A j \in Nat : j < k => j \in P) => k \in P
  PROVE  \A k \in Nat : k \in P
<1>. DEFINE m == [k \in Nat |-> k]
<1>1. m \in [Nat -> Nat]
  OBVIOUS
<1>2. \A k \in Nat : (\A j \in Nat : m[j] < m[k] => j \in P) => k \in P
  OBVIOUS
<1>. HIDE DEF m
<1>. QED
  BY <1>1, <1>2, MeasureInduction

\* It has a solution, and all solutions are of its type.
LEMMA NatRecursion ==
  ASSUME NEW S, NEW nil, NEW next, NEW body, IsNatRecursion(S, nil, next, body)
  PROVE  /\ \E f \in [Nat -> S] : SolvesNat(f, S, nil, next, body)
         /\ \A f : SolvesNat(f, S, nil, next, body) => \A k \in Nat : f[k] \in S
<1>. DEFINE m == [k \in Nat |-> k]
            base == [k \in Nat |-> nil]
            stop == {0}
<1>1. m \in [Nat -> Nat] /\ base \in [Nat -> S]
  BY DEF IsNatRecursion
<1>2. \A k \in Nat : k \notin stop => m[next[k]] < m[k]
  BY DEF IsNatRecursion
<1>3. \A k \in Nat : base[k] = nil
  OBVIOUS
<1>. HIDE DEF m, base
<1>4. IsRecursion(Nat, m, S, stop, next, base, body)
  BY <1>1, <1>2 DEF IsNatRecursion, IsRecursion
<1>5. ASSUME NEW f \in [Nat -> S], Solves(f, Nat, stop, next, base, body)
      PROVE  SolvesNat(f, S, nil, next, body)
  BY <1>3, <1>5 DEF SolvesNat, Solves
<1>6. ASSUME NEW f, SolvesNat(f, S, nil, next, body), NEW k \in Nat PROVE f[k] \in S
  <2>. DEFINE P == {j \in Nat : f[j] \in S}
  <2>1. ASSUME NEW j \in Nat, \A i \in Nat : i < j => i \in P PROVE j \in P
    <3>1. CASE j = 0
      BY <1>6, <3>1 DEF SolvesNat, IsNatRecursion
    <3>2. CASE j # 0
      <4>. DEFINE i == next[j]
      <4>1. i \in Nat /\ i < j
        BY <3>2 DEF IsNatRecursion
      <4>2. f[i] \in S
        BY <2>1, <4>1
      <4>3. f[j] = body[<<j, f[i]>>]
        BY <1>6, <3>2, <4>2 DEF SolvesNat
      <4>. HIDE DEF i
      <4>. QED
        BY <4>2, <4>3 DEF IsNatRecursion
    <3>. QED
      BY <3>1, <3>2
  <2>. HIDE DEF P
  <2>2. \A j \in Nat : j \in P
    BY <2>1, StrongInduction
  <2>. QED
    BY <2>2 DEF P
<1>. HIDE DEF stop
<1>7. PICK f \in [Nat -> S] : Solves(f, Nat, stop, next, base, body)
  BY <1>4, Recursion
<1>8. \E g \in [Nat -> S] : SolvesNat(g, S, nil, next, body)
  BY <1>5, <1>7
<1>. QED
  BY <1>6, <1>8


\* The powers of ten.
LEMMA TenToIs ==
  \A k \in Nat : /\ TenTo[k] \in Nat /\ TenTo[k] > 0
                  /\ TenTo[k] = IF k = 0 THEN 1 ELSE 10 * TenTo[k - 1]
<1>. DEFINE S == Nat \ {0}
            out(k, r) == 10 * r
            of(in, k) == IF k = 0 THEN 1 ELSE 10 * in[k - 1]
            its(in) == in = [k \in Nat |-> of(in, k)]
            f == CHOOSE in : its(in)
            next == [k \in Nat |-> IF k = 0 THEN 0 ELSE k - 1]
            body == [x \in Nat \X S |-> IF x[1] = 0 THEN 1 ELSE out(x[1], x[2])]
<1>1. TenTo = f
  BY DEF TenTo
<1>2. \A k \in Nat : k # 0 => k - 1 \in Nat /\ k - 1 < k
  OBVIOUS
<1>0. 1 \in S
  OBVIOUS
<1>3. ASSUME NEW k \in Nat, k # 0, NEW r \in S PROVE out(k, r) \in S
  BY <1>3
<1>4. \A in, k : of(in, k) = IF k = 0 THEN 1 ELSE out(k, in[k - 1])
  OBVIOUS
<1>. HIDE DEF out, of, S
<1>5. IsNatRecursion(S, 1, next, body)
  <2>1. body \in [Nat \X S -> S]
    BY <1>0, <1>3
  <2>2. next \in [Nat -> Nat] /\ \A k \in Nat : k # 0 => next[k] < k
    BY <1>2
  <2>. HIDE DEF body, next
  <2>. QED
    BY <1>0, <2>1, <2>2 DEF IsNatRecursion
<1>6. \A k \in Nat : k # 0 =>
        next[k] = k - 1 /\ \A r \in S : body[<<k, r>>] = out(k, r)
  OBVIOUS
<1>. HIDE DEF next, body, f
<1>7. ASSUME NEW g, \A k \in Nat : g[k] = of(g, k)
      PROVE  SolvesNat(g, S, 1, next, body)
  BY <1>4, <1>6, <1>7 DEF SolvesNat
<1>8. ASSUME NEW g \in [Nat -> S], SolvesNat(g, S, 1, next, body)
      PROVE  its(g)
  <2>. SUFFICES ASSUME NEW k \in Nat PROVE g[k] = of(g, k)
    BY Zenon
  <2>1. k # 0 => next[k] \in Nat
    BY <1>2, <1>6
  <2>2. IF k = 0 THEN g[k] = 1
        ELSE g[next[k]] \in S => g[k] = body[<<k, g[next[k]]>>]
    BY <1>8 DEF SolvesNat
  <2>. QED
    BY <1>4, <1>6, <2>1, <2>2
<1>9. its(f)
  <2>1. PICK g \in [Nat -> S] : SolvesNat(g, S, 1, next, body)
    BY <1>5, NatRecursion
  <2>2. its(g)
    BY <1>8, <2>1
  <2>. HIDE DEF its
  <2>. QED
    BY <2>2, Zenon DEF f
<1>10. ASSUME NEW k \in Nat PROVE f[k] = of(f, k)
  BY <1>9, Zenon
<1>. HIDE DEF its
<1>11. \A k \in Nat : f[k] \in S
  BY <1>5, <1>7, <1>10, NatRecursion
<1>. QED
  <2>. TAKE k \in Nat
  <2>1. f[k] = IF k = 0 THEN 1 ELSE 10 * f[k - 1]
    BY <1>10 DEF of
  <2>2. f[k] \in Nat /\ f[k] > 0
    BY <1>11 DEF S
  <2>. QED
    BY <1>1, <2>1, <2>2, Zenon

\* getNumberBit divides by ten until nothing is left.
LEMMA NumberBitIs ==
  \A k \in Nat : /\ NumberBit(k) \in Nat
                  /\ NumberBit(k) = IF k = 0 THEN 0 ELSE 1 + NumberBit(k \div 10)
<1>. DEFINE S == Nat
            out(k, r) == 1 + r
            of(in, k) == IF k = 0 THEN 0 ELSE 1 + in[k \div 10]
            its(in) == in = [k \in Nat |-> of(in, k)]
            f == CHOOSE in : its(in)
            next == [k \in Nat |-> IF k = 0 THEN 0 ELSE k \div 10]
            body == [x \in Nat \X S |-> IF x[1] = 0 THEN 0 ELSE out(x[1], x[2])]
<1>1. \A k : NumberBit(k) = f[k]
  BY DEF NumberBit
<1>2. \A k \in Nat : k # 0 => k \div 10 \in Nat /\ k \div 10 < k
  OBVIOUS
<1>0. 0 \in S
  OBVIOUS
<1>3. ASSUME NEW k \in Nat, k # 0, NEW r \in S PROVE out(k, r) \in S
  BY <1>3
<1>4. \A in, k : of(in, k) = IF k = 0 THEN 0 ELSE out(k, in[k \div 10])
  OBVIOUS
<1>. HIDE DEF out, of, S
<1>5. IsNatRecursion(S, 0, next, body)
  <2>1. body \in [Nat \X S -> S]
    BY <1>0, <1>3
  <2>2. next \in [Nat -> Nat] /\ \A k \in Nat : k # 0 => next[k] < k
    BY <1>2
  <2>. HIDE DEF body, next
  <2>. QED
    BY <1>0, <2>1, <2>2 DEF IsNatRecursion
<1>6. \A k \in Nat : k # 0 =>
        next[k] = k \div 10 /\ \A r \in S : body[<<k, r>>] = out(k, r)
  OBVIOUS
<1>. HIDE DEF next, body, f
<1>7. ASSUME NEW g, \A k \in Nat : g[k] = of(g, k)
      PROVE  SolvesNat(g, S, 0, next, body)
  BY <1>4, <1>6, <1>7 DEF SolvesNat
<1>8. ASSUME NEW g \in [Nat -> S], SolvesNat(g, S, 0, next, body)
      PROVE  its(g)
  <2>. SUFFICES ASSUME NEW k \in Nat PROVE g[k] = of(g, k)
    BY Zenon
  <2>1. k # 0 => next[k] \in Nat
    BY <1>2, <1>6
  <2>2. IF k = 0 THEN g[k] = 0
        ELSE g[next[k]] \in S => g[k] = body[<<k, g[next[k]]>>]
    BY <1>8 DEF SolvesNat
  <2>. QED
    BY <1>4, <1>6, <2>1, <2>2
<1>9. its(f)
  <2>1. PICK g \in [Nat -> S] : SolvesNat(g, S, 0, next, body)
    BY <1>5, NatRecursion
  <2>2. its(g)
    BY <1>8, <2>1
  <2>. HIDE DEF its
  <2>. QED
    BY <2>2, Zenon DEF f
<1>10. ASSUME NEW k \in Nat PROVE f[k] = of(f, k)
  BY <1>9, Zenon
<1>. HIDE DEF its
<1>11. \A k \in Nat : f[k] \in S
  BY <1>5, <1>7, <1>10, NatRecursion
<1>. QED
  <2>. TAKE k \in Nat
  <2>1. f[k] = IF k = 0 THEN 0 ELSE 1 + f[k \div 10]
    BY <1>10 DEF of
  <2>2. f[k] \in Nat
    BY <1>11 DEF S
  <2>3. NumberBit(k) = f[k] /\ NumberBit(k \div 10) = f[k \div 10]
    BY <1>1
  <2>. QED
    BY <2>1, <2>2, <2>3, Zenon
\* A number has as many decimal digits as getNumberBit says.
LEMMA DigitsFit ==
  \A n \in Nat : n < TenTo[NumberBit(n)] /\ (n > 0 => TenTo[NumberBit(n) - 1] <= n)
<1>. DEFINE Fits(n) == n < TenTo[NumberBit(n)] /\ (n > 0 => TenTo[NumberBit(n) - 1] <= n)
            P == {n \in Nat : Fits(n)}
<1>1. ASSUME NEW n \in Nat, \A j \in Nat : j < n => j \in P PROVE n \in P
  <2>1. CASE n = 0
    <3>1. NumberBit(n) = 0
      BY <2>1, NumberBitIs
    <3>2. TenTo[0] = 1
      BY TenToIs
    <3>. QED
      BY <2>1, <3>1, <3>2
  <2>2. CASE n # 0
    <3>. DEFINE k == n \div 10
                b == NumberBit(k)
    <3>1. k \in Nat /\ k < n /\ 10 * k <= n /\ n < 10 * k + 10
      BY <2>2
    <3>. HIDE DEF k
    <3>2. b \in Nat /\ (k = 0 => b = 0)
      BY <3>1, NumberBitIs
    <3>3. NumberBit(n) = 1 + b
      BY <2>2, NumberBitIs DEF k
    <3>4. k < TenTo[b] /\ (k > 0 => TenTo[b - 1] <= k)
      BY <1>1, <3>1
    <3>5. k > 0 => b > 0
      BY <3>1, NumberBitIs
    <3>. HIDE DEF b
    <3>6. /\ TenTo[b] \in Nat /\ TenTo[1 + b] = 10 * TenTo[b]
          /\ b > 0 => TenTo[b - 1] \in Nat /\ TenTo[b] = 10 * TenTo[b - 1]
          /\ b = 0 => TenTo[b] = 1
      <4>1. TenTo[1 + b] = 10 * TenTo[(1 + b) - 1] /\ (1 + b) - 1 = b
        BY <3>2, TenToIs
      <4>2. b > 0 => b - 1 \in Nat
        BY <3>2
      <4>. QED
        BY <3>2, <4>1, <4>2, TenToIs
    <3>7. n < TenTo[1 + b]
      BY <3>1, <3>4, <3>6
    <3>8. TenTo[b] <= n
      <4>1. CASE k = 0
        BY <2>2, <3>2, <3>6, <4>1
      <4>2. CASE k # 0
        BY <3>1, <3>4, <3>5, <3>6, <4>2
      <4>. QED
        BY <4>1, <4>2
    <3>9. NumberBit(n) - 1 = b
      BY <3>2, <3>3
    <3>. QED
      BY <3>3, <3>7, <3>8, <3>9, Zenon DEF P
  <2>. QED
    BY <2>1, <2>2
<1>. HIDE DEF P
<1>2. \A n \in Nat : n \in P
  BY <1>1, StrongInduction
<1>. QED
  BY <1>2 DEF P

\* A quotient that fits the word is exact, rounded as asked.
LEMMA DivisionIs ==
  ASSUME NEW a \in Nat, NEW b \in 1 .. 7, a < 7 * b, NEW floor \in BOOLEAN
  PROVE  LET out == Division(a, b, floor, 8) IN
         IF floor THEN out * b <= a /\ a < (out + 1) * b
         ELSE (out - 1) * b < a /\ a <= out * b
<1>. DEFINE d == a \div b
            r == a % b
            up == IF ~floor /\ r > 0 THEN 1 ELSE 0
<1>1. d \in 0 .. 6 /\ r \in 0 .. b - 1 /\ a = d * b + r
  <2>1. CASE b = 1
    BY <2>1
  <2>2. CASE b = 2
    BY <2>2
  <2>3. CASE b = 3
    BY <2>3
  <2>4. CASE b = 4
    BY <2>4
  <2>5. CASE b = 5
    BY <2>5
  <2>6. CASE b = 6
    BY <2>6
  <2>7. CASE b = 7
    BY <2>7
  <2>. QED
    BY <2>1, <2>2, <2>3, <2>4, <2>5, <2>6, <2>7
<1>2. Division(a, b, floor, 8) = IF a = 0 THEN 0 ELSE ((d % 8) + up) % 8
  BY DEF Division
<1>. HIDE DEF d, r
<1>3. ((d % 8) + up) % 8 = d + up
  BY <1>1
<1>4. a = 0 => d + up = 0
  BY <1>1
<1>5. Division(a, b, floor, 8) = d + up
  BY <1>2, <1>3, <1>4
<1>. QED
  BY <1>1, <1>5

(***************************************************************************)
(* Lists.                                                                  *)
(***************************************************************************)

\* A null is exchanged with the next pointer that is not, if there is one.
LEMMA FillIs ==
  ASSUME NEW L \in Str, NEW i \in 1 .. Len(L)
  PROVE  \/ /\ Fill(L, i) = L
            /\ L[i] # NUL \/ \A j \in i + 1 .. Len(L) : L[j] = NUL
         \/ \E m \in i + 1 .. Len(L) :
              /\ L[i] = NUL /\ L[m] # NUL /\ \A j \in i + 1 .. m - 1 : L[j] = NUL
              /\ Fill(L, i) = [L EXCEPT ![i] = L[m], ![m] = NUL]
<1>. DEFINE next == {j \in i + 1 .. Len(L) : L[j] # NUL}
            m == Min(next)
<1>1. Len(L) \in Nat
  BY LenProperties DEF Str
<1>2. Fill(L, i) = IF L[i] # NUL \/ next = {} THEN L ELSE [L EXCEPT ![i] = L[m], ![m] = NUL]
  BY DEF Fill
<1>3. CASE L[i] # NUL \/ next = {}
  BY <1>2, <1>3
<1>4. CASE ~(L[i] # NUL \/ next = {})
  <2>1. next \in SUBSET Nat /\ next # {}
    BY <1>1, <1>4
  <2>2. m \in next /\ \A j \in next : m <= j
    <3>. HIDE DEF next
    <3>. QED
      BY <2>1, MinOf
  <2>3. Fill(L, i) = [L EXCEPT ![i] = L[m], ![m] = NUL]
    BY <1>2, <1>4, Zenon
  <2>. HIDE DEF m
  <2>4. m \in i + 1 .. Len(L) /\ L[m] # NUL
    BY <2>2
  <2>5. ASSUME NEW j \in i + 1 .. m - 1 PROVE L[j] = NUL
    <3>1. j \in i + 1 .. Len(L) /\ ~(m <= j)
      BY <1>1, <2>4
    <3>. QED
      BY <2>2, <3>1
  <2>6. L[i] = NUL
    BY <1>4
  <2>. QED
    BY <2>3, <2>4, <2>5, <2>6
<1>. QED
  BY <1>3, <1>4

\* Filling a place leaves a list of the same length.
LEMMA FillTyped ==
  ASSUME NEW L \in Str, NEW i \in Nat \ {0}
  PROVE  Fill(L, i) \in Str /\ Len(Fill(L, i)) = Len(L)
<1>1. Len(L) \in Nat
  BY LenProperties DEF Str
<1>2. CASE i <= Len(L)
  <2>1. i \in 1 .. Len(L)
    BY <1>1, <1>2
  <2>2. CASE Fill(L, i) = L
    BY <2>2
  <2>3. CASE \E m \in i + 1 .. Len(L) : Fill(L, i) = [L EXCEPT ![i] = L[m], ![m] = NUL]
    <3>1. PICK m \in i + 1 .. Len(L) : Fill(L, i) = [L EXCEPT ![i] = L[m], ![m] = NUL]
      BY <2>3
    <3>2. m \in 1 .. Len(L) /\ NUL \in Int
      BY <1>1, <2>1 DEF NUL
    <3>3. L[m] \in Int
      BY <3>2, ElementOfSeq DEF Str
    <3>. DEFINE K == [L EXCEPT ![i] = L[m]]
    <3>4. K \in Seq(Int) /\ Len(K) = Len(L)
      BY <2>1, <3>3, ExceptSeq DEF Str
    <3>5. [L EXCEPT ![i] = L[m], ![m] = NUL] = [K EXCEPT ![m] = NUL]
      OBVIOUS
    <3>. HIDE DEF K
    <3>6. [K EXCEPT ![m] = NUL] \in Seq(Int) /\ Len([K EXCEPT ![m] = NUL]) = Len(K)
      BY <3>2, <3>4, ExceptSeq
    <3>. QED
      BY <3>1, <3>4, <3>5, <3>6 DEF Str
  <2>. QED
    BY <2>1, <2>2, <2>3, FillIs
<1>3. CASE ~(i <= Len(L))
  <2>1. {j \in i + 1 .. Len(L) : L[j] # NUL} = {}
    BY <1>1, <1>3
  <2>2. Fill(L, i) = L
    BY <2>1 DEF Fill
  <2>. QED
    BY <2>2
<1>. QED
  BY <1>2, <1>3

\* _qsort_pointer fills one place after the other.
LEMMA QsortPointerIs ==
  ASSUME NEW list \in Str
  PROVE  \E f : /\ f[0] = list /\ \A k \in Nat \ {0} : f[k] = Fill(f[k - 1], k)
               /\ \A k \in Nat : f[k] \in Str /\ Len(f[k]) = Len(list)
               /\ QsortPointer(list) = f[Len(list)]
<1>. DEFINE S == {l \in Str : Len(l) = Len(list)}
            out(k, r) == Fill(r, k)
            of(in, k) == IF k = 0 THEN list ELSE Fill(in[k - 1], k)
            its(in) == in = [k \in Nat |-> of(in, k)]
            f == CHOOSE in : its(in)
            next == [k \in Nat |-> IF k = 0 THEN 0 ELSE k - 1]
            body == [x \in Nat \X S |-> IF x[1] = 0 THEN list ELSE out(x[1], x[2])]
<1>1. QsortPointer(list) = f[Len(list)]
  BY DEF QsortPointer
<1>2. \A k \in Nat : k # 0 => k - 1 \in Nat /\ k - 1 < k
  OBVIOUS
<1>0. list \in S
  OBVIOUS
<1>3. ASSUME NEW k \in Nat, k # 0, NEW r \in S PROVE out(k, r) \in S
  BY <1>3, FillTyped
<1>4. \A in, k : of(in, k) = IF k = 0 THEN list ELSE out(k, in[k - 1])
  OBVIOUS
<1>. HIDE DEF out, of, S
<1>5. IsNatRecursion(S, list, next, body)
  <2>1. body \in [Nat \X S -> S]
    BY <1>0, <1>3
  <2>2. next \in [Nat -> Nat] /\ \A k \in Nat : k # 0 => next[k] < k
    BY <1>2
  <2>. HIDE DEF body, next
  <2>. QED
    BY <1>0, <2>1, <2>2 DEF IsNatRecursion
<1>6. \A k \in Nat : k # 0 =>
        next[k] = k - 1 /\ \A r \in S : body[<<k, r>>] = out(k, r)
  OBVIOUS
<1>. HIDE DEF next, body, f
<1>7. ASSUME NEW g, \A k \in Nat : g[k] = of(g, k)
      PROVE  SolvesNat(g, S, list, next, body)
  BY <1>4, <1>6, <1>7 DEF SolvesNat
<1>8. ASSUME NEW g \in [Nat -> S], SolvesNat(g, S, list, next, body)
      PROVE  its(g)
  <2>. SUFFICES ASSUME NEW k \in Nat PROVE g[k] = of(g, k)
    BY Zenon
  <2>1. k # 0 => next[k] \in Nat
    BY <1>2, <1>6
  <2>2. IF k = 0 THEN g[k] = list
        ELSE g[next[k]] \in S => g[k] = body[<<k, g[next[k]]>>]
    BY <1>8 DEF SolvesNat
  <2>. QED
    BY <1>4, <1>6, <2>1, <2>2
<1>9. its(f)
  <2>1. PICK g \in [Nat -> S] : SolvesNat(g, S, list, next, body)
    BY <1>5, NatRecursion
  <2>2. its(g)
    BY <1>8, <2>1
  <2>. HIDE DEF its
  <2>. QED
    BY <2>2, Zenon DEF f
<1>10. ASSUME NEW k \in Nat PROVE f[k] = of(f, k)
  BY <1>9, Zenon
<1>. HIDE DEF its
<1>11. \A k \in Nat : f[k] \in S
  BY <1>5, <1>7, <1>10, NatRecursion
<1>12. f[0] = list
  BY <1>10 DEF of
<1>13. \A k \in Nat \ {0} : f[k] = Fill(f[k - 1], k)
  BY <1>10 DEF of
<1>14. \A k \in Nat : f[k] \in Str /\ Len(f[k]) = Len(list)
  BY <1>11 DEF S
<1>. QED
  BY <1>1, <1>12, <1>13, <1>14

\* Texts that agree on a stretch have the same part there.
LEMMA SamePart ==
  ASSUME NEW C, NEW s \in Seq(C), NEW t \in Seq(C), NEW i \in Nat \ {0}, NEW j \in Int,
         j <= Len(s), j <= Len(t), \A k \in i .. j : s[k] = t[k]
  PROVE  SubSeq(s, i, j) = SubSeq(t, i, j)
<1>. DEFINE u == SubSeq(s, i, j)
            v == SubSeq(t, i, j)
            n == IF i <= j THEN j - i + 1 ELSE 0
<1>1. u \in Seq(C) /\ Len(u) = n /\ \A k \in 1 .. j - i + 1 : u[k] = s[i + k - 1]
  BY PartIs
<1>2. v \in Seq(C) /\ Len(v) = n /\ \A k \in 1 .. j - i + 1 : v[k] = t[i + k - 1]
  BY PartIs
<1>. HIDE DEF u, v
<1>3. ASSUME NEW k \in 1 .. Len(u) PROVE u[k] = v[k]
  <2>1. k \in 1 .. j - i + 1 /\ i + k - 1 \in i .. j
    BY <1>1
  <2>. QED
    BY <1>1, <1>2, <2>1
<1>4. u = v
  BY <1>1, <1>2, <1>3, SeqEqual
<1>. QED
  BY <1>4 DEF u, v

\* What Wiped leaves, seen from one place.
LEMMA WipedAt ==
  ASSUME NEW c \in Int, NEW t \in Str, NEW i \in 1 .. Len(t)
  PROVE  /\ Wiped(t, c) = Wiped(SubSeq(t, 1, i - 1), c)
                              \o (IF t[i] = c THEN <<>> ELSE <<t[i]>>) \o Wiped(Drop(t, i), c)
         /\ SubSeq(t, 1, i - 1) \in Str /\ Drop(t, i) \in Str /\ t[i] \in Int
<1>. DEFINE a == SubSeq(t, 1, i - 1)
            x == t[i]
            o == <<x>>
            d == Drop(t, i)
<1>1. i \in 0 .. Len(t) /\ i > 0
  BY LenProperties DEF Str
<1>2. a \in Str /\ x \in Int /\ d \in Str /\ t = a \o o \o d
  BY <1>1, Parts DEF Str
<1>. HIDE DEF a, d, x
<1>3. o \in Str /\ o # <<>> /\ o[1] = x /\ Len(o) = 1
  BY <1>2 DEF Str
<1>4. Drop(o, 1) = <<>>
  BY <1>3, SubSeqEmpty DEF Drop
<1>5. <<>> \in Str
  BY DEF Str
<1>. HIDE DEF o
<1>6. Wiped(<<>>, c) = <<>>
  BY <1>5, WipedIs
<1>7. Wiped(o, c) = IF x = c THEN <<>> ELSE <<x>> \o <<>>
  BY <1>3, <1>4, <1>5, <1>6, WipedIs, Zenon
<1>8. <<x>> \o <<>> = <<x>>
  BY <1>2, ConcatEmptySeq
<1>9. a \o o \in Str
  BY <1>2, <1>3, TextConcat DEF Str
<1>10. Wiped(t, c) = Wiped(a \o o, c) \o Wiped(d, c)
  BY <1>2, <1>9, WipedConcat, Zenon
<1>11. Wiped(a \o o, c) = Wiped(a, c) \o Wiped(o, c)
  BY <1>2, <1>3, WipedConcat
<1>12. Wiped(t, c) = Wiped(a, c) \o (IF x = c THEN <<>> ELSE <<x>>) \o Wiped(d, c)
  BY <1>7, <1>8, <1>10, <1>11, Zenon
<1>. QED
  BY <1>2, <1>12 DEF a, d, x

\* A text of nothing but c leaves nothing.
LEMMA WipedAll ==
  ASSUME NEW c, NEW s \in Str, \A i \in 1 .. Len(s) : s[i] = c
  PROVE  Wiped(s, c) = <<>>
<1>. DEFINE P == {t \in Str : (\A i \in 1 .. Len(t) : t[i] = c) => Wiped(t, c) = <<>>}
<1>1. ASSUME NEW t \in Seq(Int), \A u \in Seq(Int) : Len(u) < Len(t) => u \in P PROVE t \in P
  <2>0. t \in Str
    BY DEF Str
  <2>1. CASE t = <<>>
    BY <2>0, <2>1, WipedIs
  <2>2. CASE t # <<>>
    <3>. SUFFICES ASSUME \A i \in 1 .. Len(t) : t[i] = c PROVE Wiped(t, c) = <<>>
      BY <2>0
    <3>. DEFINE v == Drop(t, 1)
    <3>1. Len(t) \in Nat \ {0}
      BY <2>2, FirstIs
    <3>2. /\ v \in Seq(Int) /\ Len(v) = Len(t) - 1 /\ Len(v) < Len(t)
          /\ \A i \in 1 .. Len(t) - 1 : v[i] = t[1 + i]
      BY <2>2, <3>1, DropIs
    <3>3. Wiped(t, c) = IF t[1] = c THEN Wiped(v, c) ELSE <<t[1]>> \o Wiped(v, c)
      BY <2>0, <2>2, WipedIs, Zenon
    <3>. HIDE DEF v
    <3>4. t[1] = c
      BY <3>1
    <3>5. \A i \in 1 .. Len(v) : v[i] = c
      BY <3>1, <3>2
    <3>6. Wiped(v, c) = <<>>
      BY <1>1, <3>2, <3>5
    <3>. QED
      BY <3>3, <3>4, <3>6, Zenon
  <2>. QED
    BY <2>1, <2>2
<1>. HIDE DEF P
<1>2. \A t \in Seq(Int) : t \in P
  BY <1>1, TextInduction
<1>3. s \in P
  BY <1>2 DEF Str
<1>. QED
  BY <1>3 DEF P

\* Exchanging a null with a later pointer, over nothing but nulls, keeps the order.
Exchanged(L, K, i, m) ==
  /\ L[i] = NUL /\ L[m] # NUL /\ \A j \in i + 1 .. m - 1 : L[j] = NUL
  /\ Len(K) = Len(L) /\ K[i] = L[m] /\ K[m] = NUL
  /\ \A j \in 1 .. Len(L) : j # i /\ j # m => K[j] = L[j]

\* Such an exchange leaves the pointers in their order.
LEMMA ExchangeKeeps ==
  ASSUME NEW L \in Str, NEW i \in 1 .. Len(L), NEW m \in i + 1 .. Len(L),
         NEW K \in Str, Exchanged(L, K, i, m)
  PROVE  Wiped(K, NUL) = Wiped(L, NUL)
<1>. USE DEF Exchanged
<1>. DEFINE W(t) == Wiped(t, NUL)
            x == L[m]
            u == SubSeq(L, 1, m - 1)
            v == SubSeq(K, 1, m - 1)
            a == SubSeq(L, 1, i - 1)
            d == Drop(L, m)
            z == Drop(u, i)
<1>0. Len(L) \in Nat /\ NUL \in Int
  BY LenProperties DEF Str, NUL
<1>1. m \in 1 .. Len(L) /\ i \in Nat /\ m \in Nat /\ i < m /\ 1 <= i /\ m <= Len(L)
  BY <1>0
<1>2. /\ u \in Str /\ Len(u) = m - 1 /\ \A k \in 1 .. m - 1 : u[k] = L[k]
      /\ v \in Str /\ Len(v) = m - 1 /\ \A k \in 1 .. m - 1 : v[k] = K[k]
  <2>. DEFINE n == m - 1
  <2>1. n \in Nat /\ 1 <= n /\ n <= Len(L) /\ n - 1 + 1 = n
    BY <1>1
  <2>. HIDE DEF n
  <2>2. /\ SubSeq(L, 1, n) \in Seq(Int) /\ Len(SubSeq(L, 1, n)) = n - 1 + 1
        /\ \A k \in 1 .. n - 1 + 1 : SubSeq(L, 1, n)[k] = L[1 + k - 1]
    BY <2>1, PartIs DEF Str
  <2>3. /\ SubSeq(K, 1, n) \in Seq(Int) /\ Len(SubSeq(K, 1, n)) = n - 1 + 1
        /\ \A k \in 1 .. n - 1 + 1 : SubSeq(K, 1, n)[k] = K[1 + k - 1]
    BY <2>1, PartIs DEF Str
  <2>4. /\ \A k \in 1 .. n : SubSeq(L, 1, n)[k] = L[k]
        /\ \A k \in 1 .. n : SubSeq(K, 1, n)[k] = K[k]
    BY <2>1, <2>2, <2>3
  <2>. QED
    BY <2>1, <2>2, <2>3, <2>4 DEF n, Str
<1>. HIDE DEF u, v
<1>3. i \in 1 .. Len(u) /\ i \in 1 .. Len(v) /\ i \in 1 .. m - 1
  BY <1>1, <1>2
<1>4. u[i] = NUL /\ v[i] = x
  BY <1>2, <1>3
<1>5. SubSeq(u, 1, i - 1) = SubSeq(v, 1, i - 1)
  <2>. DEFINE n == i - 1
  <2>1. n \in Int /\ n <= Len(u) /\ n <= Len(v) /\ 1 \in Nat \ {0}
    BY <1>1, <1>2
  <2>2. ASSUME NEW k \in 1 .. n PROVE u[k] = v[k]
    <3>1. k \in 1 .. m - 1 /\ k \in 1 .. Len(L) /\ k # i /\ k # m
      BY <1>1
    <3>. QED
      BY <1>2, <3>1
  <2>3. u \in Seq(Int) /\ v \in Seq(Int)
    BY <1>2 DEF Str
  <2>. HIDE DEF n
  <2>4. SubSeq(u, 1, n) = SubSeq(v, 1, n)
    BY <2>1, <2>2, <2>3, SamePart
  <2>. QED
    BY <2>4 DEF n
<1>6. Drop(v, i) = z
  <2>1. Len(u) \in Int /\ Len(u) = Len(v) /\ i + 1 \in Nat \ {0}
    BY <1>1, <1>2
  <2>2. ASSUME NEW k \in i + 1 .. Len(u) PROVE u[k] = v[k]
    <3>1. k \in 1 .. m - 1 /\ k \in 1 .. Len(L) /\ k # i /\ k # m
      BY <1>1, <1>2
    <3>. QED
      BY <1>2, <3>1
  <2>3. SubSeq(u, i + 1, Len(u)) = SubSeq(v, i + 1, Len(u))
    <3>. DEFINE h == i + 1
                n == Len(u)
    <3>1. h \in Nat \ {0} /\ n \in Int /\ n <= Len(u) /\ n <= Len(v)
          /\ u \in Seq(Int) /\ v \in Seq(Int)
      BY <1>2, <2>1 DEF Str
    <3>2. \A k \in h .. n : u[k] = v[k]
      BY <2>2
    <3>. HIDE DEF h, n
    <3>3. SubSeq(u, h, n) = SubSeq(v, h, n)
      BY <3>1, <3>2, SamePart
    <3>. QED
      BY <3>3 DEF h, n
  <2>. QED
    BY <2>1, <2>3 DEF Drop
<1>7. W(z) = <<>>
  <2>1. z \in Seq(Int) /\ Len(z) = m - 1 - i /\ \A k \in 1 .. m - 1 - i : z[k] = u[i + k]
    <3>1. u \in Seq(Int) /\ Len(u) = m - 1 /\ i \in Nat /\ i <= Len(u)
      BY <1>1, <1>2 DEF Str
    <3>2. /\ z \in Seq(Int) /\ Len(z) = IF i <= Len(u) THEN Len(u) - i ELSE 0
          /\ \A k \in 1 .. Len(u) - i : z[k] = u[i + k]
      BY <3>1, DropIs
    <3>. HIDE DEF z
    <3>. QED
      BY <3>1, <3>2
  <2>. HIDE DEF z
  <2>2. ASSUME NEW k \in 1 .. Len(z) PROVE z[k] = NUL
    <3>1. k \in 1 .. m - 1 - i /\ i + k \in 1 .. m - 1 /\ i + k \in i + 1 .. m - 1
      BY <1>1, <2>1
    <3>2. z[k] = u[i + k] /\ u[i + k] = L[i + k] /\ L[i + k] = NUL
      BY <1>2, <2>1, <3>1
    <3>. QED
      BY <3>2
  <2>. QED
    BY <2>1, <2>2, WipedAll DEF Str
<1>8. Drop(K, m) = d
  <2>1. m + 1 \in Nat \ {0} /\ Len(L) \in Int
    BY <1>0, <1>1
  <2>2. ASSUME NEW k \in m + 1 .. Len(L) PROVE K[k] = L[k]
    <3>1. k \in 1 .. Len(L) /\ k # i /\ k # m
      BY <1>0, <1>1
    <3>. QED
      BY <3>1
  <2>3. SubSeq(K, m + 1, Len(L)) = SubSeq(L, m + 1, Len(L))
    <3>. DEFINE h == m + 1
                n == Len(L)
    <3>1. h \in Nat \ {0} /\ n \in Int /\ n <= Len(K) /\ n <= Len(L)
          /\ K \in Seq(Int) /\ L \in Seq(Int)
      BY <2>1 DEF Str
    <3>2. \A k \in h .. n : K[k] = L[k]
      BY <2>2
    <3>. HIDE DEF h, n
    <3>3. SubSeq(K, h, n) = SubSeq(L, h, n)
      BY <3>1, <3>2, SamePart
    <3>. QED
      BY <3>3 DEF h, n
  <2>. QED
    BY <2>3 DEF Drop
<1>. DEFINE b == SubSeq(u, 1, i - 1)
<1>9. x \in Int /\ x # NUL /\ <<>> \in Str /\ b \in Str
  <2>1. b \in Str
    BY <1>0, <1>2, <1>3, WipedAt
  <2>. QED
    BY <1>0, <1>1, <2>1, ElementOfSeq DEF Str
<1>10. W(b) \in Seq(Int) /\ W(b) \o <<>> = W(b) /\ <<x>> \in Seq(Int)
       /\ (W(b) \o <<x>>) \o <<>> = W(b) \o <<x>>
  <2>. HIDE DEF b, x
  <2>0. W(b) \in Str
    BY <1>9, WipedIs, Zenon
  <2>1. W(b) \in Seq(Int) /\ <<x>> \in Seq(Int)
    BY <1>9, <2>0 DEF Str
  <2>2. W(b) \o <<x>> \in Seq(Int)
    BY <2>1, ConcatProperties
  <2>. QED
    BY <2>1, <2>2, ConcatEmptySeq
<1>11. W(u) = W(SubSeq(u, 1, i - 1)) \o (IF u[i] = NUL THEN <<>> ELSE <<u[i]>>) \o W(Drop(u, i))
  <2>. HIDE DEF b
  <2>1. u \in Str /\ i \in 1 .. Len(u) /\ NUL \in Int
    BY <1>0, <1>2, <1>3
  <2>. QED
    BY <2>1, WipedAt
<1>12. W(v) = W(SubSeq(v, 1, i - 1)) \o (IF v[i] = NUL THEN <<>> ELSE <<v[i]>>) \o W(Drop(v, i))
  <2>. HIDE DEF b
  <2>1. v \in Str /\ i \in 1 .. Len(v) /\ NUL \in Int
    BY <1>0, <1>2, <1>3
  <2>. QED
    BY <2>1, WipedAt
<1>13. W(L) = W(u) \o (IF L[m] = NUL THEN <<>> ELSE <<L[m]>>) \o W(d)
  BY <1>0, <1>1, WipedAt DEF u
<1>14. W(K) = W(v) \o (IF K[m] = NUL THEN <<>> ELSE <<K[m]>>) \o W(Drop(K, m))
  BY <1>0, <1>1, WipedAt DEF v
<1>. HIDE DEF W, d, z, b, x
<1>15. W(u) = W(b)
  BY <1>4, <1>7, <1>10, <1>11, Zenon DEF b, z
<1>16. W(v) = W(b) \o <<x>>
  BY <1>4, <1>5, <1>6, <1>7, <1>9, <1>10, <1>12, Zenon DEF b
<1>17. W(L) = (W(b) \o <<x>>) \o W(d)
  BY <1>9, <1>13, <1>15, Zenon DEF x
<1>18. W(K) = (W(b) \o <<x>>) \o W(d)
  BY <1>8, <1>10, <1>14, <1>16, Zenon
<1>. QED
  BY <1>17, <1>18 DEF W

\* Joining texts, in whatever order.
LEMMA TextAssociative ==
  ASSUME NEW s \in Seq(Int), NEW t \in Seq(Int), NEW u \in Seq(Int)
  PROVE  (s \o t) \o u = s \o (t \o u)
  BY ConcatAssociative

\* The length of joined texts.
LEMMA TextLen ==
  ASSUME NEW s \in Seq(Int), NEW t \in Seq(Int)
  PROVE  Len(s \o t) = Len(s) + Len(t)
  BY ConcatProperties

\* Wiped leaves no more than there was.
LEMMA WipedShorter ==
  ASSUME NEW c, NEW s \in Str
  PROVE  Wiped(s, c) \in Seq(Int) /\ Len(Wiped(s, c)) \in Nat /\ Len(Wiped(s, c)) <= Len(s)
<1>. DEFINE W(t) == Wiped(t, c)
            Q == {u \in Str : Len(W(u)) <= Len(u)}
<1>1. ASSUME NEW u \in Seq(Int), \A y \in Seq(Int) : Len(y) < Len(u) => y \in Q PROVE u \in Q
  <2>0. u \in Str
    BY DEF Str
  <2>1. CASE u = <<>>
    <3>1. W(u) = u
      BY <2>0, <2>1, WipedIs, Zenon
    <3>2. Len(u) \in Nat
      BY LenProperties
    <3>. HIDE DEF W
    <3>. QED
      BY <2>0, <3>1, <3>2
  <2>2. CASE u # <<>>
    <3>. DEFINE y == Drop(u, 1)
    <3>1. Len(u) \in Nat \ {0} /\ u[1] \in Int
      BY <2>2, FirstIs
    <3>2. y \in Seq(Int) /\ Len(y) = Len(u) - 1 /\ Len(y) < Len(u)
      BY <2>2, <3>1, DropIs
    <3>3. W(u) = IF u[1] = c THEN W(y) ELSE <<u[1]>> \o W(y)
      BY <2>0, <2>2, WipedIs, Zenon
    <3>. HIDE DEF y
    <3>4. W(y) \in Seq(Int) /\ Len(W(y)) <= Len(y)
      BY <1>1, <3>2, WipedIs DEF Str
    <3>5. Len(<<u[1]>> \o W(y)) = 1 + Len(W(y)) /\ Len(W(y)) \in Nat
      BY <3>1, <3>4, ConsIs
    <3>. HIDE DEF W
    <3>6. Len(W(u)) <= Len(u)
      <4>1. CASE u[1] = c
        <5>1. W(u) = W(y)
          BY <3>3, <4>1, Zenon
        <5>. QED
          BY <3>1, <3>2, <3>4, <3>5, <5>1
      <4>2. CASE u[1] # c
        <5>1. W(u) = <<u[1]>> \o W(y)
          BY <3>3, <4>2, Zenon
        <5>. QED
          BY <3>1, <3>2, <3>4, <3>5, <5>1
      <4>. QED
        BY <4>1, <4>2
    <3>. QED
      BY <2>0, <3>6
  <2>. QED
    BY <2>1, <2>2
<1>. HIDE DEF Q
<1>2. \A u \in Seq(Int) : u \in Q
  BY <1>1, TextInduction
<1>3. Len(W(s)) <= Len(s)
  BY <1>2 DEF Q, Str
<1>4. W(s) \in Seq(Int)
  BY WipedIs DEF Str
<1>. HIDE DEF W
<1>5. Len(W(s)) \in Nat
  BY <1>4, LenProperties
<1>. QED
  BY <1>3, <1>4, <1>5 DEF W

\* No pointer stands behind a null.
NullsLast(L) == \A j, k \in 1 .. Len(L) : j < k /\ L[j] = NUL => L[k] = NUL

\* A list whose nulls come last is what it is without them, and the nulls.
LEMMA NullsLastIs ==
  ASSUME NEW list \in Str, NullsLast(list)
  PROVE  list = Wiped(list, NUL) \o [i \in 1 .. Len(list) - Len(Wiped(list, NUL)) |-> NUL]
<1>. DEFINE W(t) == Wiped(t, NUL)
            nulls(n) == [i \in 1 .. n |-> NUL]
            P == {t \in Str : NullsLast(t) => t = W(t) \o nulls(Len(t) - Len(W(t)))}
<1>0. \A n \in Nat : nulls(n) \in Seq(Int) /\ Len(nulls(n)) = n
  BY DEF NUL
<1>00. ASSUME NEW t \in Str PROVE Len(t) - Len(W(t)) \in Nat /\ W(t) \in Seq(Int) /\ Len(W(t)) \in Nat
  <2>1. W(t) \in Seq(Int) /\ Len(W(t)) \in Nat /\ Len(W(t)) <= Len(t)
    BY WipedShorter
  <2>2. Len(t) \in Nat
    BY LenProperties DEF Str
  <2>. HIDE DEF W
  <2>. QED
    BY <2>1, <2>2
<1>. HIDE DEF nulls
<1>1. ASSUME NEW t \in Seq(Int), \A u \in Seq(Int) : Len(u) < Len(t) => u \in P PROVE t \in P
  <2>. SUFFICES ASSUME NullsLast(t) PROVE t = W(t) \o nulls(Len(t) - Len(W(t)))
    BY DEF Str
  <2>0. t \in Str /\ Len(t) \in Nat
    BY LenProperties DEF Str
  <2>. DEFINE y == Drop(t, 1)
  <2>1. CASE \A i \in 1 .. Len(t) : t[i] = NUL
    <3>1. W(t) = <<>>
      BY <2>0, <2>1, WipedAll
    <3>2. Len(t) - Len(W(t)) = Len(t)
      BY <2>0, <3>1
    <3>3. t = nulls(Len(t))
      <4>1. nulls(Len(t)) \in Seq(Int) /\ Len(nulls(Len(t))) = Len(t)
        BY <1>0, <2>0
      <4>2. \A i \in 1 .. Len(t) : t[i] = nulls(Len(t))[i]
        BY <2>1 DEF nulls
      <4>. QED
        BY <4>1, <4>2, SeqEqual
    <3>4. <<>> \o nulls(Len(t)) = nulls(Len(t))
      BY <1>0, <2>0, ConcatEmptySeq
    <3>. HIDE DEF W
    <3>. QED
      BY <3>1, <3>2, <3>3, <3>4, Zenon
  <2>2. CASE ~(\A i \in 1 .. Len(t) : t[i] = NUL)
    <3>1. PICK q \in 1 .. Len(t) : t[q] # NUL
      BY <2>2
    <3>2. t # <<>> /\ Len(t) \in Nat \ {0} /\ 1 \in 1 .. Len(t)
      BY <2>0, <3>1
    <3>3. t[1] # NUL
      BY <2>0, <3>1, <3>2 DEF NullsLast
    <3>4. /\ y \in Seq(Int) /\ Len(y) = Len(t) - 1 /\ Len(y) < Len(t)
          /\ \A i \in 1 .. Len(t) - 1 : y[i] = t[1 + i]
      BY <3>2, DropIs
    <3>5. W(t) = <<t[1]>> \o W(y)
      BY <2>0, <3>2, <3>3, WipedIs, Zenon
    <3>6. t = <<t[1]>> \o y /\ t[1] \in Int
      BY <3>2, HeadAndRest, FirstIs
    <3>. HIDE DEF y
    <3>7. NullsLast(y)
      <4>. SUFFICES ASSUME NEW j \in 1 .. Len(y), NEW k \in 1 .. Len(y), j < k, y[j] = NUL
                    PROVE  y[k] = NUL
        BY DEF NullsLast
      <4>1. 1 + j \in 1 .. Len(t) /\ 1 + k \in 1 .. Len(t) /\ 1 + j < 1 + k
            /\ j \in 1 .. Len(t) - 1 /\ k \in 1 .. Len(t) - 1
        BY <3>2, <3>4
      <4>2. t[1 + j] = y[j] /\ t[1 + k] = y[k]
        BY <3>4, <4>1
      <4>. QED
        BY <4>1, <4>2 DEF NullsLast
    <3>8. y = W(y) \o nulls(Len(y) - Len(W(y)))
      BY <1>1, <3>4, <3>7
    <3>9. Len(y) - Len(W(y)) \in Nat /\ W(y) \in Seq(Int) /\ Len(W(y)) \in Nat
      BY <1>00, <3>4 DEF Str
    <3>10. Len(<<t[1]>> \o W(y)) = 1 + Len(W(y))
      BY <3>6, <3>9, ConsIs
    <3>11. Len(t) - Len(W(t)) = Len(y) - Len(W(y))
      <4>. HIDE DEF W
      <4>1. Len(W(t)) = 1 + Len(W(y))
        BY <3>5, <3>10, Zenon
      <4>. QED
        BY <3>2, <3>4, <3>9, <4>1
    <3>. DEFINE z == nulls(Len(y) - Len(W(y)))
    <3>12. z \in Seq(Int) /\ <<t[1]>> \in Seq(Int)
      BY <1>0, <3>6, <3>9
    <3>. HIDE DEF z
    <3>13. (<<t[1]>> \o W(y)) \o z = <<t[1]>> \o (W(y) \o z)
      <4>. DEFINE w == W(y)
                  o == <<t[1]>>
      <4>1. w \in Seq(Int) /\ o \in Seq(Int) /\ z \in Seq(Int)
        BY <3>9, <3>12
      <4>. HIDE DEF w, o
      <4>2. (o \o w) \o z = o \o (w \o z)
        BY <4>1, TextAssociative
      <4>. QED
        BY <4>2 DEF o, w
    <3>14. W(t) \o nulls(Len(t) - Len(W(t))) = (<<t[1]>> \o W(y)) \o z
      <4>. HIDE DEF W
      <4>. QED
        BY <3>5, <3>11, Zenon DEF z
    <3>15. y = W(y) \o z
      BY <3>8 DEF z
    <3>. HIDE DEF W
    <3>. QED
      BY <3>6, <3>13, <3>14, <3>15, Zenon
  <2>. QED
    BY <2>1, <2>2
<1>. HIDE DEF P
<1>2. \A t \in Seq(Int) : t \in P
  BY <1>1, TextInduction
<1>3. list \in P
  BY <1>2 DEF Str
<1>. QED
  BY <1>3 DEF P, nulls

\* Filling a place keeps the order of the pointers, and leaves no null in front of a
\* pointer among the places filled.
LEMMA FillKeeps ==
  ASSUME NEW L \in Str, NEW i \in 1 .. Len(L),
         \A j \in 1 .. i - 1, k \in 1 .. Len(L) : j < k /\ L[j] = NUL => L[k] = NUL
  PROVE  LET K == Fill(L, i) IN
         /\ Wiped(K, NUL) = Wiped(L, NUL)
         /\ \A j \in 1 .. i, k \in 1 .. Len(L) : j < k /\ K[j] = NUL => K[k] = NUL
<1>. DEFINE K == Fill(L, i)
<1>0. Len(L) \in Nat /\ i \in Nat
  BY LenProperties DEF Str
<1>1. K \in Str /\ Len(K) = Len(L)
  <2>1. i \in Nat \ {0}
    BY <1>0
  <2>. QED
    BY <2>1, FillTyped
<1>2. \/ /\ K = L
         /\ L[i] # NUL \/ \A j \in i + 1 .. Len(L) : L[j] = NUL
      \/ \E m \in i + 1 .. Len(L) :
           /\ L[i] = NUL /\ L[m] # NUL /\ \A j \in i + 1 .. m - 1 : L[j] = NUL
           /\ K = [L EXCEPT ![i] = L[m], ![m] = NUL]
  BY FillIs
<1>. HIDE DEF K
<1>3. CASE K = L /\ (L[i] # NUL \/ \A j \in i + 1 .. Len(L) : L[j] = NUL)
  <2>1. ASSUME NEW j \in 1 .. i, NEW k \in 1 .. Len(L), j < k, L[j] = NUL PROVE L[k] = NUL
    <3>1. CASE j = i
      <4>1. k \in i + 1 .. Len(L)
        BY <1>0, <2>1, <3>1
      <4>. QED
        BY <1>3, <2>1, <3>1, <4>1
    <3>2. CASE j # i
      <4>1. j \in 1 .. i - 1
        BY <1>0, <3>2
      <4>. QED
        BY <2>1, <4>1
    <3>. QED
      BY <3>1, <3>2
  <2>. QED
    BY <1>3, <2>1 DEF K
<1>4. ASSUME NEW m \in i + 1 .. Len(L), L[i] = NUL, L[m] # NUL,
             \A j \in i + 1 .. m - 1 : L[j] = NUL,
             K = [L EXCEPT ![i] = L[m], ![m] = NUL]
      PROVE  /\ Wiped(K, NUL) = Wiped(L, NUL)
             /\ \A j \in 1 .. i, k \in 1 .. Len(L) : j < k /\ K[j] = NUL => K[k] = NUL
  <2>1. DOMAIN L = 1 .. Len(L) /\ m \in 1 .. Len(L) /\ i < m /\ m # i
    BY <1>0, LenProperties DEF Str
  <2>2. /\ K[i] = L[m] /\ K[m] = NUL
        /\ \A j \in 1 .. Len(L) : j # i /\ j # m => K[j] = L[j]
    BY <1>4, <2>1
  <2>3. Wiped(K, NUL) = Wiped(L, NUL)
    <3>1. Exchanged(L, K, i, m)
      BY <1>1, <1>4, <2>2 DEF Exchanged
    <3>. QED
      BY <1>1, <3>1, ExchangeKeeps
  <2>4. ASSUME NEW j \in 1 .. i PROVE K[j] # NUL
    <3>1. CASE j = i
      BY <1>4, <2>2, <3>1
    <3>2. CASE j # i
      <4>1. j \in 1 .. i - 1 /\ j \in 1 .. Len(L) /\ j < m /\ j # m
        BY <1>0, <2>1, <3>2
      <4>2. L[j] # NUL
        BY <1>4, <2>1, <4>1
      <4>. QED
        BY <2>2, <3>2, <4>1, <4>2
    <3>. QED
      BY <3>1, <3>2
  <2>. QED
    BY <2>3, <2>4
<1>. QED
  BY <1>2, <1>3, <1>4 DEF K

\* The pointers keep their order and the nulls come last.
LEMMA ListIs ==
  ASSUME NEW list \in Str
  PROVE  LET some == Wiped(list, NUL) IN
         QsortPointer(list) = some \o [i \in 1 .. Len(list) - Len(some) |-> NUL]
<1>1. Len(list) \in Nat
  BY LenProperties DEF Str
<1>2. PICK f : /\ f[0] = list /\ \A k \in Nat \ {0} : f[k] = Fill(f[k - 1], k)
               /\ \A k \in Nat : f[k] \in Str /\ Len(f[k]) = Len(list)
               /\ QsortPointer(list) = f[Len(list)]
  BY QsortPointerIs
<1>. DEFINE Sorted(k) == \A i \in 1 .. k, j \in 1 .. Len(list) : i < j /\ f[k][i] = NUL => f[k][j] = NUL
            P == {k \in Nat : k <= Len(list) => Wiped(f[k], NUL) = Wiped(list, NUL) /\ Sorted(k)}
<1>3. 0 \in P
  BY <1>2
<1>4. ASSUME NEW k \in Nat, k \in P PROVE k + 1 \in P
  <2>. SUFFICES ASSUME k + 1 <= Len(list)
                PROVE  Wiped(f[k + 1], NUL) = Wiped(list, NUL) /\ Sorted(k + 1)
    OBVIOUS
  <2>. DEFINE L == f[k]
              i == k + 1
  <2>1. L \in Str /\ Len(L) = Len(list) /\ i \in 1 .. Len(L) /\ i - 1 = k /\ i \in Nat \ {0}
    BY <1>1, <1>2
  <2>2. Wiped(L, NUL) = Wiped(list, NUL) /\ Sorted(k)
    BY <1>1, <1>4
  <2>3. f[i] = Fill(L, i)
    <3>. HIDE DEF i
    <3>1. f[i] = Fill(f[i - 1], i)
      BY <1>2, <2>1
    <3>. QED
      BY <2>1, <3>1
  <2>4. \A j \in 1 .. i - 1, m \in 1 .. Len(L) : j < m /\ L[j] = NUL => L[m] = NUL
    BY <2>1, <2>2
  <2>. HIDE DEF L, i
  <2>5. /\ Wiped(Fill(L, i), NUL) = Wiped(L, NUL)
        /\ \A j \in 1 .. i, m \in 1 .. Len(L) : j < m /\ Fill(L, i)[j] = NUL => Fill(L, i)[m] = NUL
    BY <2>1, <2>4, FillKeeps
  <2>6. Wiped(f[i], NUL) = Wiped(list, NUL) /\ Sorted(i)
    BY <2>1, <2>2, <2>3, <2>5
  <2>. QED
    BY <2>6 DEF i
<1>. HIDE DEF P
<1>5. Len(list) \in P
  <2>1. \A k \in Nat : k \in P
    BY <1>3, <1>4, Induction
  <2>. QED
    BY <1>1, <2>1
<1>. DEFINE n == Len(list)
            out == f[n]
<1>6. Wiped(out, NUL) = Wiped(list, NUL) /\ Sorted(n) /\ out \in Str /\ Len(out) = n
  BY <1>1, <1>2, <1>5 DEF P
<1>7. NullsLast(out)
  BY <1>1, <1>6 DEF NullsLast
<1>. HIDE DEF out
<1>8. out = Wiped(out, NUL) \o [i \in 1 .. Len(out) - Len(Wiped(out, NUL)) |-> NUL]
  BY <1>6, <1>7, NullsLastIs
<1>9. QsortPointer(list) = out
  BY <1>2 DEF out
<1>. QED
  BY <1>6, <1>8, <1>9, Zenon

(***************************************************************************)
(* In place: wipeOffChar.                                                  *)
(***************************************************************************)

\* The places of c, and a step of the second loop.
Gaps(s, c) == Cardinality({i \in DOMAIN s : s[i] = c})
CloseGap(st, k, gaps) ==
  IF st.moved < gaps /\ st.buf[k] = NUL
  THEN [buf |-> ShiftLeft(st.buf, k), moved |-> st.moved + 1] ELSE st

\* Closing a gap moves what is behind it, and leaves the last cell twice.
LEMMA ShiftLeftIs ==
  ASSUME NEW n \in Nat, NEW buf \in [1 .. n -> Int], NEW i \in Nat \ {0}
  PROVE  /\ ShiftLeft(buf, i) \in [1 .. n -> Int]
         /\ \A j \in 1 .. n : ShiftLeft(buf, i)[j] = IF j < i \/ j = n THEN buf[j] ELSE buf[j + 1]
<1>1. Len(buf) = n /\ DOMAIN buf = 1 .. n
  OBVIOUS
<1>2. ShiftLeft(buf, i) = [j \in 1 .. n |-> IF j < i \/ j = n THEN buf[j] ELSE buf[j + 1]]
  BY <1>1 DEF ShiftLeft
<1>3. \A j \in 1 .. n : (IF j < i \/ j = n THEN buf[j] ELSE buf[j + 1]) \in Int
  OBVIOUS
<1>. QED
  BY <1>2, <1>3

\* The buffer keeps its size.
LEMMA CloseGapTyped ==
  ASSUME NEW n \in Nat, NEW st \in [buf : [1 .. n -> Int], moved : Nat],
         NEW k \in Nat \ {0}, NEW gaps
  PROVE  CloseGap(st, k, gaps) \in [buf : [1 .. n -> Int], moved : Nat]
  BY ShiftLeftIs DEF CloseGap

\* The first loop of wipeOffChar leaves the text with a NUL for each c.
LEMMA ZeroedIs ==
  ASSUME NEW s \in Str, NEW n \in Nat, NEW c
  PROVE  /\ Zeroed(Buffer(s, n), c) \in [1 .. n -> Int]
         /\ \A j \in 1 .. n : Zeroed(Buffer(s, n), c)[j] =
                                IF j <= Len(s) THEN IF s[j] = c THEN NUL ELSE s[j] ELSE NUL
<1>1. Len(s) \in Nat /\ \A j \in 1 .. Len(s) : s[j] \in Int
  BY LenProperties DEF Str
<1>2. DOMAIN Buffer(s, n) = 1 .. n
  BY DEF Buffer
<1>3. Zeroed(Buffer(s, n), c) = [j \in 1 .. n |-> IF Buffer(s, n)[j] = c THEN NUL ELSE Buffer(s, n)[j]]
  BY <1>2 DEF Zeroed
<1>4. \A j \in 1 .. n : Buffer(s, n)[j] = IF j <= Len(s) THEN s[j] ELSE NUL
  BY DEF Buffer
<1>5. \A j \in 1 .. n : j <= Len(s) => s[j] \in Int
  BY <1>1
<1>. QED
  BY <1>3, <1>4, <1>5 DEF NUL

\* The second loop, cell after cell.
WipeRun(f, s, n, c) ==
  /\ f[0] = [buf |-> Zeroed(Buffer(s, n), c), moved |-> 0]
  /\ \A k \in Nat \ {0} : f[k] = CloseGap(f[k - 1], k, Gaps(s, c))
  /\ \A k \in Nat : f[k] \in [buf : [1 .. n -> Int], moved : Nat]
  /\ WipeOff(s, n, c) = IF Gaps(s, c) = 0 THEN s
                         ELSE InBuffer([f[n].buf EXCEPT ![n - Gaps(s, c) + 1] = NUL])

\* The second loop is such a run, and the call returns what it leaves.
LEMMA WipeOffIs ==
  ASSUME NEW s \in Str, NEW n \in Nat, NEW c
  PROVE  \E f : WipeRun(f, s, n, c)
<1>. DEFINE S == [buf : [1 .. n -> Int], moved : Nat]
            out(k, r) == CloseGap(r, k, Gaps(s, c))
            of(in, k) == IF k = 0 THEN [buf |-> Zeroed(Buffer(s, n), c), moved |-> 0]
                         ELSE CloseGap(in[k - 1], k, Gaps(s, c))
            its(in) == in = [k \in Nat |-> of(in, k)]
            f == CHOOSE in : its(in)
            next == [k \in Nat |-> IF k = 0 THEN 0 ELSE k - 1]
            body == [x \in Nat \X S |-> IF x[1] = 0 THEN [buf |-> Zeroed(Buffer(s, n), c), moved |-> 0]
                                        ELSE out(x[1], x[2])]
<1>1. WipeOff(s, n, c) = IF Gaps(s, c) = 0 THEN s ELSE InBuffer([f[n].buf EXCEPT ![n - Gaps(s, c) + 1] = NUL])
  BY DEF WipeOff, CloseGap, Gaps
<1>2. \A k \in Nat : k # 0 => k - 1 \in Nat /\ k - 1 < k
  OBVIOUS
<1>0. [buf |-> Zeroed(Buffer(s, n), c), moved |-> 0] \in S
  BY ZeroedIs
<1>3. ASSUME NEW k \in Nat, k # 0, NEW r \in S PROVE out(k, r) \in S
  BY <1>3, CloseGapTyped
<1>4. \A in, k : of(in, k) = IF k = 0 THEN [buf |-> Zeroed(Buffer(s, n), c), moved |-> 0]
                                   ELSE out(k, in[k - 1])
  OBVIOUS
<1>. HIDE DEF out, of, S
<1>5. IsNatRecursion(S, [buf |-> Zeroed(Buffer(s, n), c), moved |-> 0], next, body)
  <2>1. body \in [Nat \X S -> S]
    BY <1>0, <1>3
  <2>2. next \in [Nat -> Nat] /\ \A k \in Nat : k # 0 => next[k] < k
    BY <1>2
  <2>. HIDE DEF body, next
  <2>. QED
    BY <1>0, <2>1, <2>2 DEF IsNatRecursion
<1>6. \A k \in Nat : k # 0 =>
        next[k] = k - 1 /\ \A r \in S : body[<<k, r>>] = out(k, r)
  OBVIOUS
<1>. HIDE DEF next, body, f
<1>7. ASSUME NEW g, \A k \in Nat : g[k] = of(g, k)
      PROVE  SolvesNat(g, S, [buf |-> Zeroed(Buffer(s, n), c), moved |-> 0], next, body)
  BY <1>4, <1>6, <1>7 DEF SolvesNat
<1>8. ASSUME NEW g \in [Nat -> S], SolvesNat(g, S, [buf |-> Zeroed(Buffer(s, n), c), moved |-> 0], next, body)
      PROVE  its(g)
  <2>. SUFFICES ASSUME NEW k \in Nat PROVE g[k] = of(g, k)
    BY Zenon
  <2>1. k # 0 => next[k] \in Nat
    BY <1>2, <1>6
  <2>2. IF k = 0 THEN g[k] = [buf |-> Zeroed(Buffer(s, n), c), moved |-> 0]
        ELSE g[next[k]] \in S => g[k] = body[<<k, g[next[k]]>>]
    BY <1>8 DEF SolvesNat
  <2>. QED
    BY <1>4, <1>6, <2>1, <2>2
<1>9. its(f)
  <2>1. PICK g \in [Nat -> S] : SolvesNat(g, S, [buf |-> Zeroed(Buffer(s, n), c), moved |-> 0], next, body)
    BY <1>5, NatRecursion
  <2>2. its(g)
    BY <1>8, <2>1
  <2>. HIDE DEF its
  <2>. QED
    BY <2>2, Zenon DEF f
<1>10. ASSUME NEW k \in Nat PROVE f[k] = of(f, k)
  BY <1>9, Zenon
<1>. HIDE DEF its
<1>11. \A k \in Nat : f[k] \in S
  BY <1>5, <1>7, <1>10, NatRecursion
<1>12. f[0] = [buf |-> Zeroed(Buffer(s, n), c), moved |-> 0]
  BY <1>10 DEF of
<1>13. \A k \in Nat \ {0} : f[k] = CloseGap(f[k - 1], k, Gaps(s, c))
  BY <1>10 DEF of
<1>14. \A k \in Nat : f[k] \in [buf : [1 .. n -> Int], moved : Nat]
  BY <1>11 DEF S
<1>. QED
  BY <1>1, <1>12, <1>13, <1>14 DEF WipeRun

\* What Wiped leaves of the first characters, one after the other.
LEMMA WipedStep ==
  ASSUME NEW c \in Int, NEW s \in Str, NEW k \in 1 .. Len(s)
  PROVE  Wiped(SubSeq(s, 1, k), c) =
           IF s[k] = c THEN Wiped(SubSeq(s, 1, k - 1), c)
           ELSE Wiped(SubSeq(s, 1, k - 1), c) \o <<s[k]>>
<1>. DEFINE a == SubSeq(s, 1, k - 1)
            x == s[k]
            o == <<x>>
<1>1. k \in 0 .. Len(s) /\ k > 0
  BY LenProperties DEF Str
<1>2. a \in Str /\ x \in Int /\ SubSeq(s, 1, k) = a \o o
  BY <1>1, Parts DEF Str
<1>. HIDE DEF a, x
<1>3. o \in Str /\ o # <<>> /\ o[1] = x /\ Len(o) = 1
  BY <1>2 DEF Str
<1>4. Drop(o, 1) = <<>>
  BY <1>3, SubSeqEmpty DEF Drop
<1>5. <<>> \in Str
  BY DEF Str
<1>. HIDE DEF o
<1>6. Wiped(<<>>, c) = <<>>
  BY <1>5, WipedIs
<1>7. Wiped(o, c) = IF x = c THEN <<>> ELSE <<x>> \o <<>>
  BY <1>3, <1>4, <1>5, <1>6, WipedIs, Zenon
<1>8. <<x>> \o <<>> = <<x>>
  BY <1>2, ConcatEmptySeq
<1>9. Wiped(a \o o, c) = Wiped(a, c) \o Wiped(o, c)
  BY <1>2, <1>3, WipedConcat
<1>10. Wiped(a, c) \o <<>> = Wiped(a, c)
  BY <1>2, WipedIs, ConcatEmptySeq DEF Str
<1>11. Wiped(SubSeq(s, 1, k), c) = IF x = c THEN Wiped(a, c) ELSE Wiped(a, c) \o <<x>>
  BY <1>2, <1>7, <1>8, <1>9, <1>10, Zenon
<1>. QED
  BY <1>11 DEF a, x

\* A text in which c does not stand is what it is without c.
LEMMA WipedNone ==
  ASSUME NEW c, NEW s \in Str, \A i \in 1 .. Len(s) : s[i] # c
  PROVE  Wiped(s, c) = s
<1>. DEFINE P == {t \in Str : (\A i \in 1 .. Len(t) : t[i] # c) => Wiped(t, c) = t}
<1>1. ASSUME NEW t \in Seq(Int), \A u \in Seq(Int) : Len(u) < Len(t) => u \in P PROVE t \in P
  <2>0. t \in Str
    BY DEF Str
  <2>1. CASE t = <<>>
    BY <2>0, <2>1, WipedIs
  <2>2. CASE t # <<>>
    <3>. SUFFICES ASSUME \A i \in 1 .. Len(t) : t[i] # c PROVE Wiped(t, c) = t
      BY <2>0
    <3>. DEFINE v == Drop(t, 1)
    <3>1. Len(t) \in Nat \ {0}
      BY <2>2, FirstIs
    <3>2. /\ v \in Seq(Int) /\ Len(v) = Len(t) - 1 /\ Len(v) < Len(t)
          /\ \A i \in 1 .. Len(t) - 1 : v[i] = t[1 + i]
      BY <2>2, <3>1, DropIs
    <3>3. Wiped(t, c) = IF t[1] = c THEN Wiped(v, c) ELSE <<t[1]>> \o Wiped(v, c)
      BY <2>0, <2>2, WipedIs, Zenon
    <3>7. t = <<t[1]>> \o v
      BY <2>2, HeadAndRest
    <3>. HIDE DEF v
    <3>4. t[1] # c
      BY <3>1
    <3>5. \A i \in 1 .. Len(v) : v[i] # c
      BY <3>1, <3>2
    <3>6. Wiped(v, c) = v
      BY <1>1, <3>2, <3>5
    <3>. QED
      BY <3>3, <3>4, <3>6, <3>7, Zenon
  <2>. QED
    BY <2>1, <2>2
<1>. HIDE DEF P
<1>2. \A t \in Seq(Int) : t \in P
  BY <1>1, TextInduction
<1>3. s \in P
  BY <1>2 DEF Str
<1>. QED
  BY <1>3 DEF P

\* A text without its c is shorter by as many characters as it has c.
LEMMA GapsIs ==
  ASSUME NEW c \in Int, NEW s \in Str
  PROVE  /\ Gaps(s, c) \in Nat /\ Gaps(s, c) <= Len(s)
         /\ Len(Wiped(s, c)) = Len(s) - Gaps(s, c)
         /\ Gaps(s, c) = 0 => Wiped(s, c) = s
<1>. DEFINE G(k) == {i \in 1 .. k : s[i] = c}
            w(k) == Wiped(SubSeq(s, 1, k), c)
            P == {k \in Nat : k <= Len(s) => IsFiniteSet(G(k)) /\ Cardinality(G(k)) = k - Len(w(k))}
<1>0. Len(s) \in Nat /\ DOMAIN s = 1 .. Len(s)
  BY LenProperties DEF Str
<1>1. 0 \in P
  <2>1. G(0) = {} /\ IsFiniteSet({}) /\ Cardinality({}) = 0
    BY FS_EmptySet
  <2>2. SubSeq(s, 1, 0) = <<>> /\ <<>> \in Str
    BY SubSeqEmpty DEF Str
  <2>3. w(0) = <<>> /\ Len(<<>>) = 0
    BY <2>2, WipedIs
  <2>. HIDE DEF G, w
  <2>4. IsFiniteSet(G(0)) /\ Cardinality(G(0)) = 0 - Len(w(0))
    <3>1. IsFiniteSet(G(0)) /\ Cardinality(G(0)) = 0 /\ Len(w(0)) = 0
      BY <2>1, <2>3, Zenon
    <3>. QED
      BY <3>1
  <2>. QED
    BY <2>4
<1>2. ASSUME NEW k \in Nat, k \in P PROVE k + 1 \in P
  <2>. SUFFICES ASSUME k + 1 <= Len(s)
                PROVE  IsFiniteSet(G(k + 1)) /\ Cardinality(G(k + 1)) = k + 1 - Len(w(k + 1))
    OBVIOUS
  <2>1. IsFiniteSet(G(k)) /\ Cardinality(G(k)) = k - Len(w(k))
    BY <1>0, <1>2
  <2>2. k + 1 \in 1 .. Len(s) /\ (k + 1) - 1 = k
    BY <1>0
  <2>3. w(k + 1) = IF s[k + 1] = c THEN w(k) ELSE w(k) \o <<s[k + 1]>>
    <3>. DEFINE i == k + 1
    <3>1. i \in 1 .. Len(s) /\ i - 1 = k
      BY <2>2
    <3>. HIDE DEF i
    <3>2. w(i) = IF s[i] = c THEN w(i - 1) ELSE w(i - 1) \o <<s[i]>>
      BY <3>1, WipedStep
    <3>. HIDE DEF w
    <3>3. w(i) = IF s[i] = c THEN w(k) ELSE w(k) \o <<s[i]>>
      BY <3>1, <3>2
    <3>. QED
      BY <3>3 DEF i
  <2>4. w(k) \in Seq(Int) /\ Len(w(k)) \in Nat /\ s[k + 1] \in Int
    <3>1. k \in 0 .. Len(s)
      BY <1>0, <2>2
    <3>2. SubSeq(s, 1, k) \in Str
      BY <3>1, Parts DEF Str
    <3>3. s[k + 1] \in Int
      BY <2>2, ElementOfSeq DEF Str
    <3>. HIDE DEF w
    <3>. QED
      BY <3>2, <3>3, WipedShorter DEF w
  <2>. HIDE DEF w
  <2>5. CASE s[k + 1] = c
    <3>1. G(k + 1) = G(k) \cup {k + 1} /\ k + 1 \notin G(k)
      BY <2>2, <2>5
    <3>. HIDE DEF G
    <3>2. IsFiniteSet(G(k) \cup {k + 1}) /\ Cardinality(G(k) \cup {k + 1}) = Cardinality(G(k)) + 1
      BY <2>1, <3>1, FS_AddElement
    <3>3. w(k + 1) = w(k)
      BY <2>3, <2>5, Zenon
    <3>4. IsFiniteSet(G(k + 1)) /\ Cardinality(G(k + 1)) = Cardinality(G(k)) + 1
          /\ Len(w(k + 1)) = Len(w(k))
      BY <3>1, <3>2, <3>3, Zenon
    <3>. QED
      BY <2>1, <2>4, <3>4
  <2>6. CASE s[k + 1] # c
    <3>1. G(k + 1) = G(k)
      BY <2>2, <2>6
    <3>. HIDE DEF G
    <3>2. w(k + 1) = w(k) \o <<s[k + 1]>>
      BY <2>3, <2>6, Zenon
    <3>3. Len(w(k) \o <<s[k + 1]>>) = Len(w(k)) + 1
      <4>. DEFINE o == <<s[k + 1]>>
      <4>1. o \in Seq(Int) /\ Len(o) = 1
        BY <2>4
      <4>. HIDE DEF o
      <4>2. Len(w(k) \o o) = Len(w(k)) + Len(o)
        <5>. DEFINE d == w(k)
        <5>1. d \in Seq(Int)
          BY <2>4
        <5>. HIDE DEF d
        <5>2. Len(d \o o) = Len(d) + Len(o)
          BY <4>1, <5>1, TextLen
        <5>. QED
          BY <5>2 DEF d
      <4>. QED
        BY <4>1, <4>2 DEF o
    <3>4. IsFiniteSet(G(k + 1)) /\ Cardinality(G(k + 1)) = Cardinality(G(k))
          /\ Len(w(k + 1)) = Len(w(k)) + 1
      BY <2>1, <3>1, <3>2, <3>3, Zenon
    <3>. QED
      BY <2>1, <2>4, <3>4
  <2>. QED
    BY <2>5, <2>6
<1>. HIDE DEF P
<1>3. Len(s) \in P
  <2>1. \A k \in Nat : k \in P
    BY <1>1, <1>2, Induction
  <2>. QED
    BY <1>0, <2>1
<1>4. SubSeq(s, 1, Len(s)) = s
  BY SubSeqFull DEF Str
<1>5. IsFiniteSet(G(Len(s))) /\ Gaps(s, c) = Cardinality(G(Len(s)))
      /\ Gaps(s, c) = Len(s) - Len(Wiped(s, c))
  <2>1. IsFiniteSet(G(Len(s))) /\ Cardinality(G(Len(s))) = Len(s) - Len(w(Len(s)))
    <3>. HIDE DEF G, w
    <3>. QED
      BY <1>0, <1>3 DEF P
  <2>2. w(Len(s)) = Wiped(s, c)
    BY <1>4, Zenon
  <2>3. Gaps(s, c) = Cardinality(G(Len(s)))
    BY <1>0 DEF Gaps
  <2>. HIDE DEF G, w
  <2>. QED
    BY <2>1, <2>2, <2>3, Zenon
<1>6. Len(Wiped(s, c)) \in Nat /\ Len(Wiped(s, c)) <= Len(s)
  BY WipedShorter
<1>7. Gaps(s, c) = 0 => Wiped(s, c) = s
  <2>. HAVE Gaps(s, c) = 0
  <2>1. G(Len(s)) = {}
    <3>. HIDE DEF G
    <3>. QED
      BY <1>5, FS_EmptySet
  <2>. QED
    BY <2>1, WipedNone
<1>. QED
  BY <1>0, <1>5, <1>6, <1>7

\* After the cells up to i are looked at, the others are the buffer moved on by the
\* gaps closed; and those up to i, if no gap is left in them, are the text so far
\* without c.
Moved(s, n, c, j) == Zeroed(Buffer(s, n), c)[IF j <= n THEN j ELSE n]
WipeTail(s, n, c, i, st) == \A j \in i + 1 .. n : st.buf[j] = Moved(s, n, c, j + st.moved)
WipeHead(s, n, c, i, st) ==
  i <= n - Gaps(s, c) /\ (\A j \in 1 .. i : st.buf[j] # NUL) =>
    /\ i + st.moved <= Len(s)
    /\ SubSeq(st.buf, 1, i) = Wiped(SubSeq(s, 1, i + st.moved), c)
WipeInv(s, n, c, i, st) ==
  /\ st.moved \in Nat /\ st.moved <= Gaps(s, c)
  /\ WipeTail(s, n, c, i, st) /\ WipeHead(s, n, c, i, st)

\* A cell of the zeroed buffer.
LEMMA MovedIs ==
  ASSUME NEW s \in Str, NEW n \in Nat, Len(s) <= n, NEW c, \A j \in 1 .. Len(s) : s[j] # NUL,
         NEW j \in 1 .. n
  PROVE  /\ Moved(s, n, c, j) = NUL => j > Len(s) \/ s[j] = c
         /\ Moved(s, n, c, j) # NUL => j <= Len(s) /\ s[j] # c /\ Moved(s, n, c, j) = s[j]
<1>1. Len(s) \in Nat /\ j <= n
  BY LenProperties DEF Str
<1>2. Moved(s, n, c, j) = Zeroed(Buffer(s, n), c)[j]
  BY <1>1 DEF Moved
<1>3. Moved(s, n, c, j) = IF j <= Len(s) THEN IF s[j] = c THEN NUL ELSE s[j] ELSE NUL
  BY <1>2, ZeroedIs
<1>. HIDE DEF Moved
<1>. QED
  BY <1>1, <1>3

\* One turn of the second loop keeps the cells behind it as they were, shifted.
LEMMA WipeTailStep ==
  ASSUME NEW s \in Str, NEW n \in Nat, NEW c,
         NEW i \in 1 .. n, NEW st \in [buf : [1 .. n -> Int], moved : Nat],
         WipeTail(s, n, c, i - 1, st)
  PROVE  WipeTail(s, n, c, i, CloseGap(st, i, Gaps(s, c)))
<1>. DEFINE b == st.buf
            g == Gaps(s, c)
            r == CloseGap(st, i, g)
            M(j) == Moved(s, n, c, j)
<1>1. b \in [1 .. n -> Int] /\ st.moved \in Nat /\ i \in Nat \ {0}
  OBVIOUS
<1>2. \A j \in i .. n : b[j] = M(j + st.moved)
  BY DEF WipeTail
<1>3. CASE ~(st.moved < g /\ b[i] = NUL)
  <2>1. r = st
    BY <1>3 DEF CloseGap
  <2>. HIDE DEF r, M
  <2>2. \A j \in i + 1 .. n : r.buf[j] = M(j + r.moved)
    BY <1>2, <2>1
  <2>. QED
    BY <2>2 DEF WipeTail, r, M
<1>4. CASE st.moved < g /\ b[i] = NUL
  <2>1. r.buf = ShiftLeft(b, i) /\ r.moved = st.moved + 1
    BY <1>4 DEF CloseGap
  <2>2. \A j \in 1 .. n : ShiftLeft(b, i)[j] = IF j < i \/ j = n THEN b[j] ELSE b[j + 1]
    <3>. HIDE DEF b
    <3>. QED
      BY <1>1, ShiftLeftIs
  <2>3. \A j \in Nat : j >= n => M(j) = M(n)
    BY DEF Moved
  <2>. HIDE DEF r, M, b
  <2>4. ASSUME NEW j \in i + 1 .. n PROVE r.buf[j] = M(j + r.moved)
    <3>1. CASE j = n
      <4>1. r.buf[j] = b[n]
        BY <1>1, <2>1, <2>2, <3>1
      <4>2. b[n] = M(n + st.moved) /\ n + st.moved \in Nat /\ n + st.moved >= n
        BY <1>1, <1>2
      <4>3. n + r.moved \in Nat /\ n + r.moved >= n
        BY <1>1, <2>1
      <4>4. M(n + st.moved) = M(n) /\ M(n + r.moved) = M(n)
        BY <2>3, <4>2, <4>3
      <4>. QED
        BY <3>1, <4>1, <4>2, <4>4
    <3>2. CASE j # n
      <4>1. j \in 1 .. n /\ ~(j < i \/ j = n) /\ j + 1 \in i .. n
        BY <1>1, <3>2
      <4>2. r.buf[j] = b[j + 1]
        BY <2>1, <2>2, <4>1
      <4>3. b[j + 1] = M((j + 1) + st.moved)
        BY <1>2, <4>1
      <4>4. (j + 1) + st.moved = j + r.moved
        BY <1>1, <2>1
      <4>. QED
        BY <4>2, <4>3, <4>4
    <3>. QED
      BY <3>1, <3>2
  <2>. QED
    BY <2>4 DEF WipeTail, r, M
<1>. QED
  BY <1>3, <1>4

\* One turn of the second loop keeps the cells in front of it as wanted.
LEMMA WipeHeadStep ==
  ASSUME NEW s \in Str, \A j \in 1 .. Len(s) : s[j] # NUL,
         NEW n \in Nat, Len(s) <= n, NEW c \in Int,
         NEW i \in 1 .. n, NEW st \in [buf : [1 .. n -> Int], moved : Nat],
         WipeInv(s, n, c, i - 1, st)
  PROVE  LET r == CloseGap(st, i, Gaps(s, c)) IN
         /\ WipeInv(s, n, c, i, r)
         /\ \A j \in 1 .. i - 1 : r.buf[j] = st.buf[j]
<1>. DEFINE b == st.buf
            m == st.moved
            g == Gaps(s, c)
            r == CloseGap(st, i, g)
            x == r.buf
            p == i - 1
            M(j) == Moved(s, n, c, j)
            W(k) == Wiped(SubSeq(s, 1, k), c)
<1>0. Len(s) \in Nat /\ g \in Nat /\ g <= Len(s)
  BY LenProperties, GapsIs DEF Str
<1>1. /\ b \in [1 .. n -> Int] /\ m \in Nat /\ m <= g /\ i \in Nat \ {0} /\ i <= n
      /\ p \in Nat /\ i = p + 1
  BY DEF WipeInv
<1>2. WipeTail(s, n, c, i, r)
  BY WipeTailStep DEF WipeInv
<1>3. \A j \in i .. n : b[j] = M(j + m)
  BY DEF WipeInv, WipeTail
<1>4. r \in [buf : [1 .. n -> Int], moved : Nat]
  <2>1. i \in Nat \ {0}
    BY <1>1
  <2>. QED
    BY <2>1, CloseGapTyped
<1>5. b \in Seq(Int) /\ Len(b) = n /\ x \in Seq(Int) /\ Len(x) = n
  <2>1. x \in [1 .. n -> Int]
    BY <1>4
  <2>. HIDE DEF x, b
  <2>. QED
    BY <1>1, <2>1
<1>6. \/ ~(m < g /\ b[i] = NUL) /\ r = st
      \/ m < g /\ b[i] = NUL /\ r.moved = m + 1 /\ x = ShiftLeft(b, i)
  BY DEF CloseGap
<1>7. \A j \in 1 .. n : ShiftLeft(b, i)[j] = IF j < i \/ j = n THEN b[j] ELSE b[j + 1]
  <2>. HIDE DEF b
  <2>. QED
    BY <1>1, ShiftLeftIs
<1>8. \A j \in 1 .. p : x[j] = b[j]
  <2>1. CASE r = st
    BY <2>1
  <2>2. CASE x = ShiftLeft(b, i)
    <3>. HIDE DEF x, b, r
    <3>. QED
      BY <1>1, <1>7, <2>2
  <2>. QED
    BY <1>6, <2>1, <2>2
<1>9. r.moved \in Nat /\ r.moved <= g
  <2>. HIDE DEF g
  <2>1. CASE r = st
    BY <1>1, <2>1
  <2>2. CASE m < g /\ r.moved = m + 1
    <3>. HIDE DEF r
    <3>. QED
      BY <1>0, <1>1, <2>2
  <2>. QED
    BY <1>6, <2>1, <2>2
<1>10. WipeHead(s, n, c, i, r)
  <2>. SUFFICES ASSUME i <= n - g, \A j \in 1 .. i : x[j] # NUL
                PROVE  i + r.moved <= Len(s) /\ SubSeq(x, 1, i) = W(i + r.moved)
    BY DEF WipeHead
  <2>1. p + m <= Len(s) /\ SubSeq(b, 1, p) = W(p + m)
    <3>1. p <= n - g /\ \A j \in 1 .. p : b[j] # NUL
      <4>1. p <= n - g
        <5>. HIDE DEF g
        <5>. QED
          BY <1>0, <1>1
      <4>2. ASSUME NEW j \in 1 .. p PROVE b[j] # NUL
        <5>1. j \in 1 .. i
          BY <1>1
        <5>. HIDE DEF x, b
        <5>. QED
          BY <1>8, <5>1
      <4>. QED
        BY <4>1, <4>2
    <3>. QED
      BY <3>1 DEF WipeInv, WipeHead
  <2>. HIDE DEF r, x, b, m, g, p, M, W
  <2>2. SubSeq(x, 1, i) = W(p + m) \o <<x[i]>>
    <3>1. i \in 0 .. Len(x) /\ i > 0
      BY <1>1, <1>5
    <3>2. SubSeq(x, 1, i) = SubSeq(x, 1, i - 1) \o <<x[i]>>
      BY <1>5, <3>1, Parts
    <3>3. p \in Int /\ p <= Len(x) /\ p <= Len(b) /\ 1 \in Nat \ {0}
      BY <1>1, <1>5
    <3>4. SubSeq(x, 1, p) = SubSeq(b, 1, p)
      BY <1>5, <1>8, <3>3, SamePart
    <3>. QED
      BY <2>1, <3>2, <3>4, Zenon DEF p
  <2>3. ASSUME NEW k \in 1 .. n
        PROVE  /\ M(k) = NUL => k > Len(s) \/ s[k] = c
               /\ M(k) # NUL => k <= Len(s) /\ s[k] # c /\ M(k) = s[k]
    BY MovedIs DEF M
  <2>4. ASSUME NEW k \in 1 .. Len(s) PROVE W(k) = IF s[k] = c THEN W(k - 1) ELSE W(k - 1) \o <<s[k]>>
    BY WipedStep DEF W
  <2>5. x[i] # NUL /\ i + m \in 1 .. n /\ i \in i .. n
    BY <1>0, <1>1
  <2>6. b[i] = M(i + m)
    BY <1>3, <2>5
  <2>7. CASE ~(m < g /\ b[i] = NUL) /\ r = st
    <3>1. x = b /\ r.moved = m
      BY <2>7 DEF x, b, m
    <3>2. i + m <= Len(s) /\ s[i + m] # c /\ b[i] = s[i + m]
      BY <2>3, <2>5, <2>6, <3>1
    <3>3. i + m \in 1 .. Len(s) /\ (i + m) - 1 = p + m
      BY <1>0, <1>1, <3>2
    <3>4. W(i + m) = W(p + m) \o <<s[i + m]>>
      <4>. DEFINE k == i + m
      <4>1. k \in 1 .. Len(s) /\ k - 1 = p + m /\ s[k] # c
        BY <3>2, <3>3
      <4>. HIDE DEF k
      <4>2. W(k) = IF s[k] = c THEN W(k - 1) ELSE W(k - 1) \o <<s[k]>>
        BY <2>4, <4>1
      <4>3. W(k) = W(p + m) \o <<s[k]>>
        BY <4>1, <4>2, Zenon
      <4>. QED
        BY <4>3 DEF k
    <3>. QED
      BY <2>2, <3>1, <3>2, <3>4
  <2>8. CASE m < g /\ b[i] = NUL /\ r.moved = m + 1 /\ x = ShiftLeft(b, i)
    <3>. DEFINE k == i + m
                h == k + 1
    <3>1. i < n /\ h \in 1 .. n /\ k \in 1 .. n /\ i + 1 \in i .. n /\ i \in 1 .. n
      BY <1>0, <1>1, <2>8
    <3>2. x[i] = b[i + 1]
      BY <1>7, <2>8, <3>1
    <3>3. b[i + 1] = M(h)
      <4>1. b[i + 1] = M((i + 1) + m) /\ (i + 1) + m = h
        BY <1>1, <1>3, <3>1
      <4>. QED
        BY <4>1
    <3>4. h - 1 = k /\ k - 1 = p + m /\ i + r.moved = h /\ k < h
      BY <1>1, <2>8
    <3>5. M(k) = NUL
      BY <2>6, <2>8
    <3>. HIDE DEF h, k
    <3>6. h <= Len(s) /\ s[h] # c /\ x[i] = s[h]
      BY <2>3, <2>5, <3>1, <3>2, <3>3
    <3>7. k <= Len(s) /\ s[k] = c
      BY <1>0, <2>3, <3>1, <3>4, <3>5, <3>6
    <3>8. k \in 1 .. Len(s) /\ h \in 1 .. Len(s)
      BY <1>0, <3>1, <3>6, <3>7
    <3>9. W(k) = IF s[k] = c THEN W(k - 1) ELSE W(k - 1) \o <<s[k]>>
      BY <2>4, <3>8
    <3>10. W(h) = IF s[h] = c THEN W(h - 1) ELSE W(h - 1) \o <<s[h]>>
      BY <2>4, <3>8
    <3>11. W(h) = W(p + m) \o <<s[h]>>
      BY <3>4, <3>6, <3>7, <3>9, <3>10, Zenon
    <3>12. SubSeq(x, 1, i) = W(i + r.moved)
      BY <2>2, <3>4, <3>6, <3>11, Zenon
    <3>. QED
      BY <3>4, <3>6, <3>12
  <2>. QED
    BY <1>6, <2>7, <2>8
<1>. QED
  BY <1>2, <1>8, <1>9, <1>10 DEF WipeInv

\* A text that begins another.
LEMMA PrefixOf ==
  ASSUME NEW s \in Seq(Int), NEW t \in Seq(Int)
  PROVE  IsPrefix(s, s \o t)
<1>. DEFINE q == s \o t
<1>1. /\ q \in Seq(Int) /\ Len(q) = Len(s) + Len(t) /\ Len(s) \in Nat /\ Len(t) \in Nat
      /\ \A i \in 1 .. Len(s) + Len(t) : q[i] = IF i <= Len(s) THEN s[i] ELSE t[i - Len(s)]
  BY ConcatProperties, LenProperties
<1>. HIDE DEF q
<1>2. SubSeq(s, 1, Len(s)) = SubSeq(q, 1, Len(s))
  <2>. DEFINE n == Len(s)
  <2>1. n \in Int /\ n <= Len(s) /\ n <= Len(q) /\ 1 \in Nat \ {0}
    BY <1>1
  <2>2. \A k \in 1 .. n : s[k] = q[k]
    BY <1>1
  <2>. HIDE DEF n
  <2>3. SubSeq(s, 1, n) = SubSeq(q, 1, n)
    BY <1>1, <2>1, <2>2, SamePart
  <2>. QED
    BY <2>3 DEF n
<1>3. IsPrefix(s, q)
  BY <1>1, <1>2 DEF IsPrefix
<1>. QED
  BY <1>3 DEF q

\* What stands in a buffer in front of the first NUL.
LEMMA InBufferIs ==
  ASSUME NEW buf \in Str
  PROVE  LET f == Find(buf, NUL) IN
         /\ f \in Nat /\ 1 <= f /\ f <= Len(buf) + 1
         /\ \A i \in 1 .. f - 1 : buf[i] # NUL
         /\ f <= Len(buf) => buf[f] = NUL
         /\ InBuffer(buf) = SubSeq(buf, 1, f - 1)
<1>1. Find(buf, NUL) \in Nat
  BY FindIs
<1>. QED
  BY <1>1, FindIs DEF InBuffer

\* wipeOffChar invents nothing, and removes just c where no two of them are neighbours.
LEMMA WipeOffSound ==
  ASSUME NEW s \in Str, \A j \in 1 .. Len(s) : s[j] # NUL,
         NEW n \in Nat, Len(s) <= n, NEW c \in Int
  PROVE  LET want == Wiped(s, c) IN
         /\ IsPrefix(WipeOff(s, n, c), want)
         /\ ~HasPair(s, c) => WipeOff(s, n, c) = want
<1>. DEFINE g == Gaps(s, c)
            want == Wiped(s, c)
            W(k) == Wiped(SubSeq(s, 1, k), c)
            R(k) == Wiped(Drop(s, k), c)
            out == WipeOff(s, n, c)
            M(j) == Moved(s, n, c, j)
<1>0. /\ Len(s) \in Nat /\ g \in Nat /\ g <= Len(s) /\ Len(want) = Len(s) - g
      /\ (g = 0 => want = s) /\ want \in Seq(Int)
  BY LenProperties, GapsIs, WipedShorter DEF Str
<1>3. \E f : WipeRun(f, s, n, c)
  BY WipeOffIs
<1>1. CASE g = 0
  <2>1. out = s
    BY <1>1, <1>3 DEF WipeRun
  <2>2. s \o <<>> = s
    BY ConcatEmptySeq DEF Str
  <2>3. IsPrefix(s, s \o <<>>)
    <3>1. s \in Seq(Int) /\ <<>> \in Seq(Int)
      BY DEF Str
    <3>. QED
      BY <3>1, PrefixOf, Zenon
  <2>. HIDE DEF out, want, g
  <2>4. IsPrefix(out, want) /\ out = want
    BY <1>0, <1>1, <2>1, <2>2, <2>3, Zenon
  <2>. QED
    BY <2>4 DEF out, want
<1>2. CASE g # 0
  <2>1. PICK f : /\ f[0] = [buf |-> Zeroed(Buffer(s, n), c), moved |-> 0]
                 /\ \A k \in Nat \ {0} : f[k] = CloseGap(f[k - 1], k, g)
                 /\ \A k \in Nat : f[k] \in [buf : [1 .. n -> Int], moved : Nat]
                 /\ out = IF g = 0 THEN s ELSE InBuffer([f[n].buf EXCEPT ![n - g + 1] = NUL])
    BY <1>3 DEF WipeRun
  <2>2. WipeInv(s, n, c, 0, f[0])
    <3>1. f[0].moved = 0 /\ f[0].buf = Zeroed(Buffer(s, n), c)
      BY <2>1
    <3>2. WipeTail(s, n, c, 0, f[0])
      <4>1. \A j \in 0 + 1 .. n : j + 0 = j /\ j <= n
        OBVIOUS
      <4>. QED
        BY <3>1, <4>1 DEF WipeTail, Moved
    <3>3. WipeHead(s, n, c, 0, f[0])
      <4>1. 0 + f[0].moved = 0 /\ 0 <= Len(s)
        BY <1>0, <3>1
      <4>2. SubSeq(f[0].buf, 1, 0) = <<>> /\ SubSeq(s, 1, 0) = <<>>
        <5>1. SubSeq(s, 1, 0) = <<>>
          BY SubSeqEmpty DEF Str
        <5>2. f[0].buf \in Seq(Int)
          <6>1. f[0].buf \in [1 .. n -> Int]
            BY <2>1
          <6>. QED
            BY <6>1
        <5>3. SubSeq(f[0].buf, 1, 0) = <<>>
          BY <5>2, SubSeqEmpty
        <5>. QED
          BY <5>1, <5>3
      <4>3. Wiped(<<>>, c) = <<>>
        <5>1. <<>> \in Str
          BY DEF Str
        <5>. QED
          BY <5>1, WipedIs
      <4>. QED
        BY <4>1, <4>2, <4>3, Zenon DEF WipeHead
    <3>. QED
      BY <1>0, <3>1, <3>2, <3>3 DEF WipeInv
  <2>. DEFINE Is(k) == /\ WipeInv(s, n, c, k, f[k])
                       /\ k > 0 => \A j \in 1 .. k - 1 : f[k].buf[j] = f[k - 1].buf[j]
              P == {k \in Nat : k <= n => Is(k)}
  <2>3. 0 \in P
    BY <2>2
  <2>4. ASSUME NEW k \in Nat, k \in P PROVE k + 1 \in P
    <3>. SUFFICES ASSUME k + 1 <= n PROVE Is(k + 1)
      OBVIOUS
    <3>. DEFINE i == k + 1
    <3>1. i \in 1 .. n /\ i - 1 = k /\ i \in Nat \ {0}
      OBVIOUS
    <3>2. WipeInv(s, n, c, k, f[k])
      BY <2>4
    <3>. HIDE DEF i
    <3>3. f[k] \in [buf : [1 .. n -> Int], moved : Nat] /\ f[i] = CloseGap(f[k], i, g)
      BY <2>1, <3>1
    <3>. DEFINE st == f[k]
    <3>4. st \in [buf : [1 .. n -> Int], moved : Nat] /\ WipeInv(s, n, c, i - 1, st)
      BY <3>1, <3>2, <3>3
    <3>. HIDE DEF st
    <3>5. /\ WipeInv(s, n, c, i, CloseGap(st, i, g))
          /\ \A j \in 1 .. i - 1 : CloseGap(st, i, g).buf[j] = st.buf[j]
      BY <3>1, <3>4, WipeHeadStep
    <3>6. Is(i)
      BY <3>1, <3>3, <3>5 DEF st
    <3>. QED
      BY <3>6 DEF i
  <2>. HIDE DEF P
  <2>5. ASSUME NEW k \in 0 .. n PROVE Is(k)
    <3>1. \A j \in Nat : j \in P
      BY <2>3, <2>4, Induction
    <3>. QED
      BY <3>1 DEF P
  <2>. HIDE DEF Is
  <2>6. ASSUME NEW i \in 0 .. n, NEW j \in 1 .. i PROVE f[n].buf[j] = f[i].buf[j]
    <3>. DEFINE Q == {k \in Nat : i <= k /\ k <= n => f[k].buf[j] = f[i].buf[j]}
    <3>1. 0 \in Q
      <4>1. i <= 0 => i = 0
        OBVIOUS
      <4>. QED
        BY <4>1
    <3>2. ASSUME NEW k \in Nat, k \in Q PROVE k + 1 \in Q
      <4>. SUFFICES ASSUME i <= k + 1, k + 1 <= n PROVE f[k + 1].buf[j] = f[i].buf[j]
        OBVIOUS
      <4>1. CASE i = k + 1
        BY <4>1
      <4>2. CASE i # k + 1
        <5>1. i <= k /\ k <= n /\ k + 1 \in 0 .. n /\ j \in 1 .. (k + 1) - 1 /\ (k + 1) - 1 = k
              /\ k + 1 > 0
          BY <4>2
        <5>2. f[k].buf[j] = f[i].buf[j]
          BY <3>2, <5>1
        <5>3. f[k + 1].buf[j] = f[(k + 1) - 1].buf[j]
          <6>. DEFINE h == k + 1
          <6>1. h \in 0 .. n /\ h > 0 /\ j \in 1 .. h - 1
            BY <5>1
          <6>. HIDE DEF h
          <6>2. f[h].buf[j] = f[h - 1].buf[j]
            BY <2>5, <6>1 DEF Is
          <6>. QED
            BY <6>2 DEF h
        <5>. QED
          BY <5>1, <5>2, <5>3
      <4>. QED
        BY <4>1, <4>2
    <3>. HIDE DEF Q
    <3>3. \A k \in Nat : k \in Q
      BY <3>1, <3>2, Induction
    <3>4. n \in Q /\ i <= n
      BY <3>3
    <3>. QED
      BY <3>4 DEF Q
  <2>. DEFINE e == [f[n].buf EXCEPT ![n - g + 1] = NUL]
              F == Find(e, NUL)
              p == F - 1
  <2>7. n - g + 1 \in 1 .. n /\ n \in 0 .. n
    <3>. HIDE DEF g
    <3>. QED
      BY <1>0, <1>2
  <2>8. /\ e \in Str /\ Len(e) = n /\ e[n - g + 1] = NUL
        /\ \A j \in 1 .. n : j # n - g + 1 => e[j] = f[n].buf[j]
    <3>. DEFINE b == f[n].buf
                q == n - g + 1
    <3>1. b \in [1 .. n -> Int]
      BY <2>1
    <3>2. q \in 1 .. n
      BY <2>7
    <3>. HIDE DEF b, q
    <3>3. [b EXCEPT ![q] = NUL] \in [1 .. n -> Int]
      BY <3>1, <3>2 DEF NUL
    <3>4. /\ [b EXCEPT ![q] = NUL][q] = NUL
          /\ \A j \in 1 .. n : j # q => [b EXCEPT ![q] = NUL][j] = b[j]
      BY <3>1, <3>2
    <3>5. e = [b EXCEPT ![q] = NUL]
      BY DEF b, q
    <3>. HIDE DEF e
    <3>6. e \in [1 .. n -> Int]
      BY <3>3, <3>5
    <3>7. e \in Seq(Int) /\ Len(e) = n
      BY <3>6
    <3>8. e[q] = NUL /\ \A j \in 1 .. n : j # q => e[j] = b[j]
      BY <3>4, <3>5
    <3>. QED
      BY <3>7, <3>8 DEF b, q, Str
  <2>. HIDE DEF e
  <2>9. /\ F \in Nat /\ 1 <= F /\ F <= n + 1
        /\ \A i \in 1 .. F - 1 : e[i] # NUL
        /\ F <= n => e[F] = NUL
        /\ InBuffer(e) = SubSeq(e, 1, F - 1)
    BY <2>8, InBufferIs
  <2>10. out = SubSeq(e, 1, p)
    <3>1. out = InBuffer(e)
      BY <1>2, <2>1 DEF e
    <3>. QED
      BY <2>9, <3>1
  <2>. HIDE DEF F, out
  <2>11. p \in Nat /\ p <= n - g /\ F = p + 1 /\ p <= n /\ n - g \in Nat
    <3>1. ~(n - g + 1 <= F - 1)
      BY <2>7, <2>8, <2>9
    <3>. HIDE DEF g
    <3>. QED
      BY <1>0, <2>7, <2>9, <3>1
  <2>. HIDE DEF p, W, R, M
  <2>. DEFINE st == f[p]
              m == st.moved
              b == st.buf
  <2>12. /\ WipeInv(s, n, c, p, st) /\ st \in [buf : [1 .. n -> Int], moved : Nat]
         /\ \A j \in 1 .. p : e[j] = b[j] /\ b[j] # NUL
    <3>1. p \in 0 .. n /\ p \in Nat
      BY <2>11
    <3>2. ASSUME NEW j \in 1 .. p PROVE e[j] = b[j] /\ b[j] # NUL
      <4>1. j \in 1 .. n /\ j # n - g + 1 /\ j \in 1 .. F - 1
        <5>. HIDE DEF g
        <5>. QED
          BY <2>11
      <4>2. e[j] = f[n].buf[j] /\ e[j] # NUL
        BY <2>8, <2>9, <4>1
      <4>3. f[n].buf[j] = b[j]
        BY <2>6, <3>1
      <4>. QED
        BY <4>2, <4>3, Zenon
    <3>. QED
      BY <2>1, <2>5, <3>1, <3>2 DEF Is
  <2>. HIDE DEF st
  <2>13. m \in Nat /\ m <= g /\ p + m <= Len(s) /\ SubSeq(b, 1, p) = W(p + m)
    BY <2>11, <2>12 DEF WipeInv, WipeHead, W
  <2>14. b \in Seq(Int) /\ Len(b) = n
    <3>1. b \in [1 .. n -> Int]
      BY <2>12
    <3>. HIDE DEF b
    <3>. QED
      BY <3>1
  <2>. HIDE DEF m, b
  <2>15. out = W(p + m) /\ Len(out) = p
    <3>1. p \in Int /\ p <= Len(e) /\ p <= Len(b) /\ 1 \in Nat \ {0} /\ e \in Seq(Int)
      BY <2>8, <2>11, <2>14 DEF Str
    <3>2. SubSeq(e, 1, p) = SubSeq(b, 1, p)
      BY <2>12, <2>14, <3>1, SamePart
    <3>3. Len(SubSeq(e, 1, p)) = IF 1 <= p THEN p - 1 + 1 ELSE 0
      BY <3>1, PartIs
    <3>4. Len(SubSeq(e, 1, p)) = p
      BY <2>11, <3>3
    <3>. QED
      BY <2>10, <2>13, <3>2, <3>4, Zenon
  <2>. DEFINE k == p + m
              rest == Drop(s, k)
  <2>16. k \in 0 .. Len(s) /\ k \in Nat
    BY <1>0, <2>11, <2>13
  <2>. HIDE DEF k
  <2>17. want = W(k) \o R(k) /\ rest \in Str /\ Len(rest) = Len(s) - k
         /\ \A j \in 1 .. Len(s) - k : rest[j] = s[k + j]
    <3>1. SubSeq(s, 1, k) \in Str /\ Drop(s, k) \in Str /\ s = SubSeq(s, 1, k) \o Drop(s, k)
      BY <2>16, Parts DEF Str
    <3>2. Wiped(SubSeq(s, 1, k) \o Drop(s, k), c) = W(k) \o R(k)
      BY <3>1, WipedConcat DEF W, R
    <3>3. Len(rest) = Len(s) - k /\ \A j \in 1 .. Len(s) - k : rest[j] = s[k + j]
      BY <1>0, <2>16, DropIs DEF Str
    <3>. QED
      BY <3>1, <3>2, <3>3, Zenon
  <2>18. W(k) \in Seq(Int) /\ R(k) \in Seq(Int) /\ Len(R(k)) \in Nat
    <3>1. SubSeq(s, 1, k) \in Str
      BY <2>16, Parts DEF Str
    <3>. HIDE DEF rest
    <3>2. Wiped(rest, c) \in Seq(Int) /\ Len(Wiped(rest, c)) \in Nat
      BY <2>17, WipedShorter
    <3>. QED
      BY <3>1, <3>2, WipedIs DEF W, R, rest, Str
  <2>19. out = W(k)
    BY <2>15 DEF k
  <2>20. IsPrefix(out, want)
    BY <2>17, <2>18, <2>19, PrefixOf
  <2>21. Len(s) - g = p + Len(R(k))
    <3>1. Len(W(k) \o R(k)) = Len(W(k)) + Len(R(k))
      BY <2>18, TextLen
    <3>. HIDE DEF want
    <3>2. Len(want) = Len(out) + Len(R(k))
      BY <2>17, <2>19, <3>1, Zenon
    <3>. QED
      BY <1>0, <2>15, <3>2
  <2>22. Len(R(k)) = 0 => out = want
    <3>. HAVE Len(R(k)) = 0
    <3>1. R(k) = <<>>
      BY <2>18, EmptySeq
    <3>2. W(k) \o <<>> = W(k)
      BY <2>18, ConcatEmptySeq
    <3>. QED
      BY <2>17, <2>19, <3>1, <3>2, Zenon
  <2>23. ~HasPair(s, c) => Len(R(k)) = 0
    <3>. SUFFICES ASSUME ~HasPair(s, c) PROVE Len(R(k)) = 0
      OBVIOUS
    <3>1. CASE p = n - g
      <4>. HIDE DEF g
      <4>. QED
        BY <1>0, <2>11, <2>18, <2>21, <3>1
    <3>2. CASE p # n - g
      <4>1. F <= n - g /\ F \in 1 .. n /\ F # n - g + 1 /\ F <= n /\ F \in 0 .. n /\ F > 0
            /\ F - 1 = p /\ F \in 1 .. F
        <5>. HIDE DEF g
        <5>. QED
          BY <1>0, <2>11, <3>2
      <4>2. f[F].buf[F] = NUL
        <5>1. e[F] = NUL /\ e[F] = f[n].buf[F]
          BY <2>8, <2>9, <4>1
        <5>2. f[n].buf[F] = f[F].buf[F]
          BY <2>6, <4>1
        <5>. QED
          BY <5>1, <5>2
      <4>3. f[F] = CloseGap(st, F, g)
        <5>1. F \in Nat \ {0} /\ F - 1 = p
          BY <4>1
        <5>2. f[F] = CloseGap(f[F - 1], F, g)
          BY <2>1, <5>1
        <5>. QED
          BY <5>1, <5>2 DEF st
      <4>4. ASSUME NEW j \in F .. n PROVE b[j] = M(j + m)
        <5>1. p + 1 = F
          BY <2>11
        <5>. QED
          BY <2>12, <5>1 DEF WipeInv, WipeTail, M, b, m
      <4>5. ASSUME NEW j \in 1 .. n
            PROVE  M(j) = NUL => j > Len(s) \/ s[j] = c
        BY MovedIs DEF M
      <4>6. CASE k = Len(s)
        <5>1. Len(rest) = 0
          BY <1>0, <2>17, <4>6
        <5>. HIDE DEF rest
        <5>2. Len(Wiped(rest, c)) \in Nat /\ Len(Wiped(rest, c)) <= Len(rest)
          BY <2>17, WipedShorter
        <5>. QED
          BY <5>1, <5>2 DEF R, rest
      <4>7. CASE k # Len(s)
        <5>. DEFINE h == k + 1
        <5>1. h \in 1 .. Len(s) /\ h \in 1 .. n /\ h = F + m /\ h \in Nat
              /\ 1 \in 1 .. Len(s) - k
          BY <1>0, <2>11, <2>13, <2>16, <4>7 DEF k
        <5>2. b[F] = M(h) /\ F \in F .. n
          BY <4>1, <4>4, <5>1
        <5>. HIDE DEF h
        <5>3. b[F] = NUL
          <6>. SUFFICES ASSUME b[F] # NUL PROVE FALSE
            OBVIOUS
          <6>1. f[F] = st
            BY <4>3 DEF CloseGap, b
          <6>. QED
            BY <4>2, <6>1 DEF b
        <5>4. s[h] = c
          BY <1>0, <4>5, <5>1, <5>2, <5>3
        <5>5. rest[1] = c
          BY <2>17, <5>1, <5>4 DEF h
        <5>6. CASE m < g
          <6>1. f[F].buf = ShiftLeft(b, F)
            BY <4>3, <5>3, <5>6 DEF CloseGap, b, m
          <6>2. b \in [1 .. n -> Int] /\ F \in Nat \ {0} /\ F < n
            <7>1. F < n
              <8>. HIDE DEF g
              <8>. QED
                BY <1>0, <1>2, <4>1
            <7>. QED
              BY <2>12, <4>1, <7>1 DEF b
          <6>3. f[F].buf[F] = b[F + 1]
            <7>1. \A j \in 1 .. n : ShiftLeft(b, F)[j] = IF j < F \/ j = n THEN b[j] ELSE b[j + 1]
              BY <6>2, ShiftLeftIs
            <7>. QED
              BY <4>1, <6>1, <6>2, <7>1
          <6>4. h + 1 \in 1 .. n /\ F + 1 \in F .. n /\ (F + 1) + m = h + 1
            <7>. HIDE DEF g
            <7>. QED
              BY <1>0, <2>13, <4>1, <5>1, <5>6, <6>2
          <6>5. M(h + 1) = NUL
            <7>. DEFINE j == F + 1
            <7>1. j \in F .. n /\ j + m = h + 1
              BY <6>4
            <7>. HIDE DEF j
            <7>2. b[j] = M(j + m)
              BY <4>4, <7>1
            <7>. QED
              BY <4>2, <6>3, <7>1, <7>2 DEF j
          <6>6. h + 1 > Len(s) \/ s[h + 1] = c
            <7>. DEFINE j == h + 1
            <7>1. j \in 1 .. n /\ M(j) = NUL
              BY <6>4, <6>5
            <7>. HIDE DEF j
            <7>2. j > Len(s) \/ s[j] = c
              BY <4>5, <7>1
            <7>. QED
              BY <7>2 DEF j
          <6>7. ~(s[h + 1] = c /\ h + 1 <= Len(s))
            <7>1. h + 1 <= Len(s) => h + 1 \in DOMAIN s /\ h + 1 > 1 /\ (h + 1) - 1 = h
              BY <1>0, <5>1, LenProperties DEF Str
            <7>. QED
              BY <5>4, <7>1 DEF HasPair
          <6>8. Len(s) = h /\ Len(rest) = 1
            BY <1>0, <2>16, <2>17, <5>1, <6>6, <6>7 DEF h
          <6>9. \A j \in 1 .. Len(rest) : rest[j] = c
            BY <5>5, <6>8
          <6>. HIDE DEF rest
          <6>10. Wiped(rest, c) = <<>>
            BY <2>17, <6>9, WipedAll
          <6>. QED
            BY <6>10 DEF R, rest
        <5>7. CASE ~(m < g)
          <6>1. m = g
            <7>. HIDE DEF g
            <7>. QED
              BY <1>0, <2>13, <5>7
          <6>2. Len(R(k)) = Len(rest)
            <7>. HIDE DEF g, rest
            <7>1. k = p + m /\ Len(rest) = Len(s) - k /\ Len(s) - g = p + Len(R(k))
                  /\ Len(R(k)) \in Nat
              BY <2>17, <2>18, <2>21 DEF k
            <7>2. Len(s) \in Nat /\ g \in Nat /\ p \in Nat /\ m \in Nat
              BY <1>0, <2>11, <2>13
            <7>3. Len(R(k)) = Len(s) - g - p
              BY <7>1, <7>2
            <7>4. Len(rest) = Len(s) - p - g
              BY <6>1, <7>1, <7>2
            <7>. QED
              BY <7>2, <7>3, <7>4
          <6>3. rest # <<>> /\ Len(rest) \in Nat \ {0}
            BY <1>0, <2>16, <2>17, <4>7
          <6>. DEFINE v == Drop(rest, 1)
          <6>. HIDE DEF rest
          <6>4. v \in Str /\ Len(v) < Len(rest)
            BY <2>17, <6>3, DropIs DEF Str
          <6>5. Wiped(rest, c) = Wiped(v, c)
            BY <2>17, <5>5, <6>3, WipedIs
          <6>. HIDE DEF v
          <6>6. Len(Wiped(v, c)) <= Len(v) /\ Len(Wiped(v, c)) \in Nat /\ Len(v) \in Nat
            BY <6>4, WipedShorter, LenProperties DEF Str
          <6>7. Len(R(k)) <= Len(v)
            BY <6>5, <6>6 DEF R, rest
          <6>. QED
            BY <2>18, <6>2, <6>3, <6>4, <6>6, <6>7
        <5>. QED
          BY <5>6, <5>7
      <4>. QED
        BY <4>6, <4>7
    <3>. QED
      BY <3>1, <3>2
  <2>24. IsPrefix(out, want) /\ (~HasPair(s, c) => out = want)
    BY <2>20, <2>22, <2>23, Zenon
  <2>. QED
    BY <2>24 DEF out
<1>. QED
  BY <1>1, <1>2

(***************************************************************************)
(* In place: filtrationBlank.                                              *)
(***************************************************************************)

\* The first loop over the buffer, and the second.
FirstBody(f, n, buf, i) ==
  IF i <= n /\ buf[i] = BLANK THEN f[i + 1]
  ELSE IF i < n /\ buf[i] = HALF /\ buf[i + 1] = HALF THEN f[i + 2] ELSE i
LastBody(f, first, buf, j) ==
  IF j <= first THEN first
  ELSE IF buf[j] \in {NUL, BLANK} THEN f[j - 1]
  ELSE IF buf[j] = HALF /\ buf[j - 1] = HALF THEN f[j - 2] ELSE j
IsFirst(f, n, buf)       == f = [i \in 1 .. n + 1 |-> FirstBody(f, n, buf, i)]
IsLast(f, n, buf, first) == f = [j \in 0 .. n |-> LastBody(f, first, buf, j)]
MovedBuffer(buf, n, first, last) ==
  LET kept == [i \in 1 .. n |-> IF i < first \/ i > last THEN NUL ELSE buf[i]]
  IN  [i \in 1 .. n |-> IF i + first - 1 <= n THEN kept[i + first - 1] ELSE kept[i]]

\* The first loop ends, somewhere in the buffer or just behind it.
LEMMA FirstExists ==
  ASSUME NEW n \in Nat, NEW buf
  PROVE  /\ \E f : IsFirst(f, n, buf)
         /\ \A f : IsFirst(f, n, buf) => \A i \in 1 .. n + 1 :
              f[i] \in 1 .. n + 1 /\ f[i] = FirstBody(f, n, buf, i)
<1>. DEFINE D == 1 .. n + 1
            One(i) == i <= n /\ buf[i] = BLANK
            Two(i) == i < n /\ buf[i] = HALF /\ buf[i + 1] = HALF
            m == [i \in D |-> n + 1 - i]
            stop == {i \in D : ~One(i) /\ ~Two(i)}
            next == [i \in D |-> IF One(i) THEN i + 1 ELSE IF Two(i) THEN i + 2 ELSE i]
            base == [i \in D |-> i]
            step == [x \in D \X D |-> x[2]]
<1>1. m \in [D -> Nat] /\ base \in [D -> D] /\ step \in [D \X D -> D]
  OBVIOUS
<1>2. next \in [D -> D]
  OBVIOUS
<1>3. \A i \in D : i \notin stop => m[next[i]] < m[i]
  <2>. SUFFICES ASSUME NEW i \in D, One(i) \/ Two(i) PROVE m[next[i]] < m[i]
    OBVIOUS
  <2>1. next[i] \in D /\ next[i] > i
    OBVIOUS
  <2>. HIDE DEF next
  <2>. QED
    BY <2>1
<1>4. \A f, i : i \in D => FirstBody(f, n, buf, i) =
                  IF i \in stop THEN base[i] ELSE f[next[i]]
  BY DEF FirstBody
<1>5. \A i \in D, r \in D : step[<<i, r>>] = r
  OBVIOUS
<1>. HIDE DEF D, m, stop, next, base, step
<1>6. IsRecursion(D, m, D, stop, next, base, step)
  BY <1>1, <1>2, <1>3 DEF IsRecursion
<1>7. ASSUME NEW f \in [D -> D], Solves(f, D, stop, next, base, step) PROVE IsFirst(f, n, buf)
  <2>1. ASSUME NEW i \in D PROVE f[i] = FirstBody(f, n, buf, i)
    <3>. DEFINE y == next[i]
    <3>1. f[y] \in D
      BY <1>2, <1>7
    <3>2. step[<<i, f[y]>>] = f[y]
      BY <1>5, <3>1
    <3>3. f[i] = IF i \in stop THEN base[i] ELSE step[<<i, f[y]>>]
      BY <1>7 DEF Solves
    <3>4. FirstBody(f, n, buf, i) = IF i \in stop THEN base[i] ELSE f[y]
      BY <1>4
    <3>. QED
      BY <3>2, <3>3, <3>4
  <2>. QED
    BY <2>1 DEF IsFirst, D
<1>8. \E f : IsFirst(f, n, buf)
  BY <1>6, <1>7, Recursion
<1>9. ASSUME NEW f, IsFirst(f, n, buf), NEW i \in D
      PROVE  f[i] \in D /\ f[i] = FirstBody(f, n, buf, i)
  <2>1. \A k \in D : f[k] = FirstBody(f, n, buf, k)
    BY <1>9, Zenon DEF IsFirst, D
  <2>. DEFINE P == {k \in D : f[k] \in D}
  <2>2. ASSUME NEW k \in D, \A e \in D : m[e] < m[k] => e \in P PROVE k \in P
    <3>1. f[k] = IF k \in stop THEN base[k] ELSE f[next[k]]
      BY <1>4, <2>1
    <3>2. k \notin stop => next[k] \in P
      BY <1>2, <1>3, <2>2
    <3>. QED
      BY <1>1, <3>1, <3>2
  <2>. HIDE DEF P
  <2>3. \A k \in D : k \in P
    BY <1>1, <2>2, MeasureInduction
  <2>. QED
    BY <2>1, <2>3 DEF P
<1>. QED
  BY <1>8, <1>9 DEF D

\* The second loop ends.
LEMMA LastExists ==
  ASSUME NEW n \in Nat, NEW buf, NEW first \in Nat \ {0}
  PROVE  /\ \E f : IsLast(f, n, buf, first)
         /\ \A f : IsLast(f, n, buf, first) => \A j \in 0 .. n : f[j] = LastBody(f, first, buf, j)
<1>. DEFINE D == 0 .. n
            One(j) == buf[j] \in {NUL, BLANK}
            Two(j) == ~One(j) /\ buf[j] = HALF /\ buf[j - 1] = HALF
            m == [j \in D |-> j]
            stop == {j \in D : j <= first \/ (~One(j) /\ ~Two(j))}
            next == [j \in D |-> IF j <= first THEN 0 ELSE IF One(j) THEN j - 1 ELSE j - 2]
            base == [j \in D |-> IF j <= first THEN first ELSE j]
            step == [x \in D \X Nat |-> x[2]]
<1>1. m \in [D -> Nat] /\ base \in [D -> Nat] /\ step \in [D \X Nat -> Nat]
  OBVIOUS
<1>2. next \in [D -> D]
  OBVIOUS
<1>10. \A j \in D : next[j] = IF j <= first THEN 0 ELSE IF One(j) THEN j - 1 ELSE j - 2
  <2>. HIDE DEF One, Two
  <2>. QED
    OBVIOUS
<1>3. \A j \in D : j \notin stop => m[next[j]] < m[j]
  <2>. SUFFICES ASSUME NEW j \in D, ~(j <= first) PROVE m[next[j]] < m[j]
    OBVIOUS
  <2>1. next[j] \in D /\ next[j] < j
    <3>. HIDE DEF One, next
    <3>1. next[j] = IF One(j) THEN j - 1 ELSE j - 2
      BY <1>10
    <3>2. j - 1 \in D /\ j - 2 \in D /\ j - 1 < j /\ j - 2 < j
      <4>1. j \in Nat /\ j <= n /\ j >= 2
        OBVIOUS
      <4>. QED
        BY <4>1
    <3>. HIDE DEF D, next
    <3>. QED
      BY <3>1, <3>2
  <2>. HIDE DEF next
  <2>. QED
    BY <2>1
<1>4. \A f, j : j \in D => LastBody(f, first, buf, j) =
                  IF j \in stop THEN base[j] ELSE f[next[j]]
  <2>. SUFFICES ASSUME NEW f, NEW j \in D
                PROVE  LastBody(f, first, buf, j) = IF j \in stop THEN base[j] ELSE f[next[j]]
    OBVIOUS
  <2>1. LastBody(f, first, buf, j) =
          IF j <= first THEN first ELSE IF One(j) THEN f[j - 1] ELSE IF Two(j) THEN f[j - 2] ELSE j
    BY DEF LastBody
  <2>. HIDE DEF One, Two
  <2>2. j \in stop <=> j <= first \/ (~One(j) /\ ~Two(j))
    OBVIOUS
  <2>3. /\ base[j] = IF j <= first THEN first ELSE j
        /\ next[j] = IF j <= first THEN 0 ELSE IF One(j) THEN j - 1 ELSE j - 2
    OBVIOUS
  <2>. HIDE DEF base, next, stop
  <2>4. CASE j <= first
    <3>1. LastBody(f, first, buf, j) = first /\ base[j] = first /\ j \in stop
      BY <2>1, <2>2, <2>3, <2>4
    <3>. QED
      BY <3>1, Zenon
  <2>5. CASE ~(j <= first) /\ One(j)
    BY <2>1, <2>2, <2>3, <2>5, Zenon
  <2>6. CASE ~(j <= first) /\ ~One(j) /\ Two(j)
    BY <2>1, <2>2, <2>3, <2>6, Zenon
  <2>7. CASE ~(j <= first) /\ ~One(j) /\ ~Two(j)
    BY <2>1, <2>2, <2>3, <2>7, Zenon
  <2>. QED
    BY <2>4, <2>5, <2>6, <2>7
<1>5. \A j \in D, r \in Nat : step[<<j, r>>] = r
  OBVIOUS
<1>. HIDE DEF D, m, stop, next, base, step
<1>6. IsRecursion(D, m, Nat, stop, next, base, step)
  BY <1>1, <1>2, <1>3 DEF IsRecursion
<1>7. ASSUME NEW f \in [D -> Nat], Solves(f, D, stop, next, base, step) PROVE IsLast(f, n, buf, first)
  <2>1. ASSUME NEW j \in D PROVE f[j] = LastBody(f, first, buf, j)
    <3>. DEFINE y == next[j]
    <3>1. f[y] \in Nat
      BY <1>2, <1>7
    <3>2. step[<<j, f[y]>>] = f[y]
      BY <1>5, <3>1
    <3>3. f[j] = IF j \in stop THEN base[j] ELSE step[<<j, f[y]>>]
      BY <1>7 DEF Solves
    <3>4. LastBody(f, first, buf, j) = IF j \in stop THEN base[j] ELSE f[y]
      BY <1>4
    <3>. QED
      BY <3>2, <3>3, <3>4
  <2>. QED
    BY <2>1 DEF IsLast, D
<1>8. \E f : IsLast(f, n, buf, first)
  BY <1>6, <1>7, Recursion
<1>9. ASSUME NEW f, IsLast(f, n, buf, first), NEW j \in D
      PROVE  f[j] = LastBody(f, first, buf, j)
  BY <1>9, Zenon DEF IsLast, D
<1>. QED
  BY <1>8, <1>9 DEF D

\* What the two loops leave in the buffer.
LEMMA FiltrationBlankIs ==
  ASSUME NEW s \in Str, NEW n \in Nat
  PROVE  \E first, last :
           /\ IsFirst(first, n, Buffer(s, n)) /\ IsLast(last, n, Buffer(s, n), first[1])
           /\ FiltrationBlank(s, n) =
                IF first[1] > Len(s) THEN <<>>
                ELSE InBuffer(MovedBuffer(Buffer(s, n), n, first[1], last[n]))
<1>. DEFINE buf == Buffer(s, n)
            first == CHOOSE f : IsFirst(f, n, buf)
            last == CHOOSE f : IsLast(f, n, buf, first[1])
<1>1. FiltrationBlank(s, n) =
        IF first[1] > Len(s) THEN <<>> ELSE InBuffer(MovedBuffer(buf, n, first[1], last[n]))
  BY DEF FiltrationBlank, MovedBuffer, IsFirst, IsLast, FirstBody, LastBody
<1>. HIDE DEF buf
<1>2. IsFirst(first, n, buf)
  <2>1. \E f : IsFirst(f, n, buf)
    BY FirstExists
  <2>. QED
    BY <2>1, Zenon
<1>. HIDE DEF first
<1>3. first[1] \in Nat \ {0}
  <2>1. \A i \in 1 .. n + 1 : first[i] \in 1 .. n + 1
    BY <1>2, FirstExists
  <2>2. 1 \in 1 .. n + 1
    OBVIOUS
  <2>. QED
    BY <2>1, <2>2
<1>4. IsLast(last, n, buf, first[1])
  <2>1. \E f : IsLast(f, n, buf, first[1])
    BY <1>3, LastExists
  <2>. QED
    BY <2>1, Zenon
<1>. QED
  BY <1>1, <1>2, <1>4 DEF buf

\* The cells from a to b are blanks and pairs of halves; cut tells where a pair begins.
Tile1(s, k) == s[k] = BLANK
Tile2(s, b, cut, k) == s[k] = HALF /\ k \in cut /\ k + 1 \notin cut /\ k < b /\ s[k + 1] = HALF
Tile3(s, a, cut, k) == s[k] = HALF /\ k \notin cut /\ k > a /\ k - 1 \in cut /\ s[k - 1] = HALF
Tiled(s, a, b, cut) ==
  \A k \in a .. b : Tile1(s, k) \/ Tile2(s, b, cut, k) \/ Tile3(s, a, cut, k)
Tiles(s, a, b) == \E cut \in SUBSET Int : Tiled(s, a, b, cut)

\* A part of a text is blank if it can be tiled so.
LEMMA BlanksIs ==
  ASSUME NEW s \in Str, NEW a \in Nat \ {0}, NEW b \in Nat, a <= b + 1, b <= Len(s)
  PROVE  Blanks(SubSeq(s, a, b)) <=> Tiles(s, a, b)
<1>. DEFINE t == SubSeq(s, a, b)
            m == b + 1 - a
<1>0. Len(s) \in Nat /\ s \in Seq(Int)
  BY LenProperties DEF Str
<1>1. /\ Len(t) = m /\ m \in Nat /\ DOMAIN t = 1 .. m
      /\ \A i \in 1 .. m : t[i] = s[i + a - 1]
  <2>1. m \in Nat
    OBVIOUS
  <2>2. t \in Seq(Int) /\ Len(t) = m /\ \A i \in 1 .. m : t[i] = s[a + i - 1]
    BY <1>0, <2>1, SubSeqProperties
  <2>. QED
    BY <2>1, <2>2, LenProperties
<1>. HIDE DEF t
<1>2. ASSUME Blanks(t) PROVE Tiles(s, a, b)
  <2>1. PICK cut \in SUBSET (1 .. m) :
          \A i \in 1 .. m : \/ t[i] = BLANK
                            \/ t[i] = HALF /\ i \in cut /\ i + 1 \notin cut
                                 /\ i < m /\ t[i + 1] = HALF
                            \/ t[i] = HALF /\ i \notin cut /\ i > 1 /\ i - 1 \in cut
                                 /\ t[i - 1] = HALF
    BY <1>1, <1>2 DEF Blanks
  <2>. DEFINE c2 == {k \in Int : k + 1 - a \in cut}
  <2>2. c2 \in SUBSET Int /\ \A k \in Int : k \in c2 <=> k + 1 - a \in cut
    OBVIOUS
  <2>. HIDE DEF c2
  <2>3. ASSUME NEW k \in a .. b
        PROVE  Tile1(s, k) \/ Tile2(s, b, c2, k) \/ Tile3(s, a, c2, k)
    <3>. DEFINE i == k + 1 - a
    <3>1. /\ i \in 1 .. m /\ i \in Int /\ k \in Int /\ (i < m <=> k < b) /\ (i > 1 <=> k > a)
          /\ (k + 1) + 1 - a = i + 1 /\ (k - 1) + 1 - a = i - 1
          /\ i < m => i + 1 \in 1 .. m /\ (i + 1) + a - 1 = k + 1
          /\ i > 1 => i - 1 \in 1 .. m /\ (i - 1) + a - 1 = k - 1
          /\ i + a - 1 = k
      OBVIOUS
    <3>2. (k \in c2 <=> i \in cut) /\ (k + 1 \in c2 <=> i + 1 \in cut) /\ (k - 1 \in c2 <=> i - 1 \in cut)
      <4>1. k \in c2 <=> k + 1 - a \in cut
        BY <2>2
      <4>2. k + 1 \in c2 <=> (k + 1) + 1 - a \in cut
        <5>1. k + 1 \in Int
          OBVIOUS
        <5>. QED
          BY <2>2, <5>1
      <4>3. k - 1 \in c2 <=> (k - 1) + 1 - a \in cut
        <5>1. k - 1 \in Int
          OBVIOUS
        <5>. QED
          BY <2>2, <5>1
      <4>. QED
        BY <3>1, <4>1, <4>2, <4>3
    <3>. HIDE DEF i, m
    <3>3. t[i] = s[k] /\ (i < m => t[i + 1] = s[k + 1]) /\ (i > 1 => t[i - 1] = s[k - 1])
      BY <1>1, <3>1
    <3>. QED
      BY <2>1, <3>1, <3>2, <3>3 DEF Tile1, Tile2, Tile3
  <2>. QED
    BY <2>2, <2>3 DEF Tiles, Tiled
<1>3. ASSUME Tiles(s, a, b) PROVE Blanks(t)
  <2>1. PICK cut \in SUBSET Int : Tiled(s, a, b, cut)
    BY <1>3 DEF Tiles
  <2>. DEFINE c2 == {i \in 1 .. m : i + a - 1 \in cut}
  <2>2. c2 \in SUBSET (1 .. m) /\ \A i \in 1 .. m : i \in c2 <=> i + a - 1 \in cut
    OBVIOUS
  <2>. HIDE DEF c2
  <2>3. ASSUME NEW i \in 1 .. m
        PROVE  \/ t[i] = BLANK
               \/ t[i] = HALF /\ i \in c2 /\ i + 1 \notin c2 /\ i < m /\ t[i + 1] = HALF
               \/ t[i] = HALF /\ i \notin c2 /\ i > 1 /\ i - 1 \in c2 /\ t[i - 1] = HALF
    <3>. DEFINE k == i + a - 1
    <3>1. /\ k \in a .. b /\ i \in Int /\ k \in Int /\ (i < m <=> k < b) /\ (i > 1 <=> k > a)
          /\ i < m => i + 1 \in 1 .. m /\ (i + 1) + a - 1 = k + 1
          /\ i > 1 => i - 1 \in 1 .. m /\ (i - 1) + a - 1 = k - 1
          /\ i + a - 1 = k
      OBVIOUS
    <3>. HIDE DEF k, m
    <3>2. /\ k \in cut <=> i \in c2
          /\ i < m => (k + 1 \in cut <=> i + 1 \in c2)
          /\ i > 1 => (k - 1 \in cut <=> i - 1 \in c2)
      BY <2>2, <3>1
    <3>3. t[i] = s[k] /\ (i < m => t[i + 1] = s[k + 1]) /\ (i > 1 => t[i - 1] = s[k - 1])
      BY <1>1, <3>1
    <3>4. Tile1(s, k) \/ Tile2(s, b, cut, k) \/ Tile3(s, a, cut, k)
      BY <2>1, <3>1 DEF Tiled
    <3>. QED
      BY <3>1, <3>2, <3>3, <3>4 DEF Tile1, Tile2, Tile3
  <2>. QED
    BY <1>1, <2>2, <2>3 DEF Blanks
<1>. QED
  BY <1>2, <1>3 DEF t

\* A tiling can be continued by a blank or a pair, at either end.
LEMMA TilesMore ==
  ASSUME NEW s, NEW a \in Int, NEW b \in Int, a <= b + 1, NEW cut \in SUBSET Int, Tiled(s, a, b, cut)
  PROVE  /\ s[b + 1] = BLANK => Tiles(s, a, b + 1)
         /\ s[b + 1] = HALF /\ s[b + 2] = HALF => Tiles(s, a, b + 2)
         /\ s[a - 1] = BLANK => Tiles(s, a - 1, b)
         /\ s[a - 1] = HALF /\ s[a - 2] = HALF => Tiles(s, a - 2, b)
<1>1. ASSUME s[b + 1] = BLANK PROVE Tiles(s, a, b + 1)
  <2>1. Tiled(s, a, b + 1, cut)
    BY <1>1 DEF Tiled, Tile1, Tile2, Tile3
  <2>. QED
    BY <2>1 DEF Tiles
<1>2. ASSUME s[b + 1] = HALF, s[b + 2] = HALF PROVE Tiles(s, a, b + 2)
  <2>. DEFINE c2 == (cut \cap (a .. b)) \cup {b + 1}
  <2>1. Tiled(s, a, b + 2, c2)
    <3>. SUFFICES ASSUME NEW k \in a .. b + 2
                  PROVE  Tile1(s, k) \/ Tile2(s, b + 2, c2, k) \/ Tile3(s, a, c2, k)
      BY DEF Tiled
    <3>1. CASE k <= b
      BY <3>1 DEF Tiled, Tile1, Tile2, Tile3
    <3>2. CASE k = b + 1
      BY <1>2, <3>2 DEF Tile2
    <3>3. CASE k = b + 2
      BY <1>2, <3>3 DEF Tile3
    <3>. QED
      BY <3>1, <3>2, <3>3
  <2>. QED
    BY <2>1 DEF Tiles
<1>3. ASSUME s[a - 1] = BLANK PROVE Tiles(s, a - 1, b)
  <2>1. Tiled(s, a - 1, b, cut)
    BY <1>3 DEF Tiled, Tile1, Tile2, Tile3
  <2>. QED
    BY <2>1 DEF Tiles
<1>4. ASSUME s[a - 1] = HALF, s[a - 2] = HALF PROVE Tiles(s, a - 2, b)
  <2>. DEFINE c2 == (cut \cap (a .. b)) \cup {a - 2}
  <2>1. Tiled(s, a - 2, b, c2)
    <3>. SUFFICES ASSUME NEW k \in a - 2 .. b
                  PROVE  Tile1(s, k) \/ Tile2(s, b, c2, k) \/ Tile3(s, a - 2, c2, k)
      BY DEF Tiled
    <3>1. CASE k >= a
      BY <3>1 DEF Tiled, Tile1, Tile2, Tile3
    <3>2. CASE k = a - 2
      BY <1>4, <3>2 DEF Tile2
    <3>3. CASE k = a - 1
      BY <1>4, <3>3 DEF Tile3
    <3>. QED
      BY <3>1, <3>2, <3>3
  <2>. QED
    BY <2>1 DEF Tiles
<1>. QED
  BY <1>1, <1>2, <1>3, <1>4

\* Behind the text the loops see only NUL, so they do as if the buffer were the text.
LEMMA FirstStep ==
  ASSUME NEW s \in Str, \A j \in 1 .. Len(s) : s[j] # NUL, NEW n \in Nat, Len(s) <= n,
         NEW first, IsFirst(first, n, Buffer(s, n))
  PROVE  \A i \in 1 .. Len(s) + 1 : first[i] = FirstBody(first, Len(s), s, i)
<1>0. Len(s) \in Nat
  BY LenProperties DEF Str
<1>. DEFINE l == Len(s)
            buf == Buffer(s, n)
<1>1. \A i \in 1 .. n : buf[i] = IF i <= l THEN s[i] ELSE NUL
  BY DEF Buffer
<1>2. \A i \in 1 .. n + 1 : first[i] = FirstBody(first, n, buf, i)
  BY FirstExists
<1>. HIDE DEF l, buf
<1>3. l \in Nat /\ l <= n
  BY <1>0 DEF l
<1>4. ASSUME NEW i \in 1 .. l + 1 PROVE first[i] = FirstBody(first, l, s, i)
  <2>1. first[i] = FirstBody(first, n, buf, i)
    BY <1>2, <1>3
  <2>2. CASE i <= l
    <3>1. i \in 1 .. n /\ i <= n /\ buf[i] = s[i]
      BY <1>1, <1>3, <2>2
    <3>2. i < n /\ buf[i + 1] = HALF <=> i < l /\ s[i + 1] = HALF
      <4>1. i < n => buf[i + 1] = IF i + 1 <= l THEN s[i + 1] ELSE NUL
        <5>1. i < n => i + 1 \in 1 .. n
          BY <1>3
        <5>. QED
          BY <1>1, <5>1
      <4>. QED
        BY <1>3, <2>2, <4>1 DEF NUL, HALF
    <3>. QED
      BY <2>1, <2>2, <3>1, <3>2 DEF FirstBody
  <2>3. CASE i = l + 1
    <3>1. i <= n => buf[i] = NUL
      BY <1>1, <1>3, <2>3
    <3>2. ~(i <= l) /\ ~(i < l) /\ (i < n => i <= n)
      BY <1>3, <2>3
    <3>. QED
      BY <2>1, <3>1, <3>2 DEF FirstBody, NUL, BLANK, HALF
  <2>. QED
    BY <1>3, <2>2, <2>3
<1>. QED
  BY <1>4 DEF l

\* The same for the second loop, which passes over the NULs first.
LEMMA LastStep ==
  ASSUME NEW s \in Str, \A j \in 1 .. Len(s) : s[j] # NUL, NEW n \in Nat, Len(s) <= n,
         NEW F \in 1 .. Len(s), NEW last, IsLast(last, n, Buffer(s, n), F)
  PROVE  /\ \A j \in 1 .. Len(s) : last[j] = LastBody(last, F, s, j)
         /\ last[n] = last[Len(s)]
<1>0. Len(s) \in Nat
  BY LenProperties DEF Str
<1>. DEFINE l == Len(s)
            buf == Buffer(s, n)
<1>1. \A i \in 1 .. n : buf[i] = IF i <= l THEN s[i] ELSE NUL
  BY DEF Buffer
<1>2. \A j \in 0 .. n : last[j] = LastBody(last, F, buf, j)
  <2>1. F \in Nat \ {0}
    BY <1>0
  <2>. QED
    BY <2>1, LastExists
<1>. HIDE DEF l, buf
<1>3. l \in Nat /\ l <= n /\ F \in 1 .. l
  BY <1>0 DEF l
<1>4. ASSUME NEW j \in 1 .. l PROVE last[j] = LastBody(last, F, s, j)
  <2>1. last[j] = LastBody(last, F, buf, j)
    BY <1>2, <1>3
  <2>2. buf[j] = s[j]
    BY <1>1, <1>3
  <2>3. ~(j <= F) => buf[j - 1] = s[j - 1]
    <3>1. ~(j <= F) => j - 1 \in 1 .. n /\ j - 1 <= l
      BY <1>3
    <3>. QED
      BY <1>1, <3>1
  <2>. QED
    BY <2>1, <2>2, <2>3 DEF LastBody
<1>5. last[n] = last[l]
  <2>. DEFINE P == {k \in Nat : l + k <= n => last[l + k] = last[l]}
  <2>1. 0 \in P
    BY <1>3
  <2>2. ASSUME NEW k \in Nat, k \in P PROVE k + 1 \in P
    <3>. SUFFICES ASSUME l + (k + 1) <= n PROVE last[l + (k + 1)] = last[l]
      OBVIOUS
    <3>. DEFINE j == l + (k + 1)
    <3>1. j \in 0 .. n /\ j \in 1 .. n /\ ~(j <= l) /\ ~(j <= F) /\ j - 1 = l + k /\ l + k <= n
      BY <1>3
    <3>2. last[l + k] = last[l]
      BY <2>2, <3>1
    <3>. HIDE DEF j
    <3>3. last[j] = LastBody(last, F, buf, j)
      BY <1>2, <3>1
    <3>4. buf[j] = NUL
      BY <1>1, <3>1
    <3>5. last[j] = last[j - 1]
      BY <3>1, <3>3, <3>4 DEF LastBody
    <3>6. last[j] = last[l]
      BY <3>1, <3>2, <3>5
    <3>. QED
      BY <3>6 DEF j
  <2>. HIDE DEF P
  <2>3. \A k \in Nat : k \in P
    BY <2>1, <2>2, Induction
  <2>4. n - l \in Nat /\ l + (n - l) = n /\ l + (n - l) <= n
    BY <1>3
  <2>5. n - l \in P
    BY <2>3, <2>4
  <2>. QED
    BY <2>4, <2>5 DEF P
<1>. QED
  BY <1>4, <1>5 DEF l

\* A place where the first loop stops.
Stuck(s, F) == F <= Len(s) => s[F] # BLANK /\ ~(F < Len(s) /\ s[F] = HALF /\ s[F + 1] = HALF)

\* What the first loop passes over is blank, and it passes over all that is.
LEMMA FirstLoop ==
  ASSUME NEW s \in Str, NEW first, \A i \in 1 .. Len(s) + 1 : first[i] = FirstBody(first, Len(s), s, i)
  PROVE  /\ \A i \in 1 .. Len(s) + 1 : /\ first[i] \in i .. Len(s) + 1 /\ Stuck(s, first[i])
                                       /\ Tiles(s, 1, i - 1) => Tiles(s, 1, first[i] - 1)
         /\ first[Len(s) + 1] = Len(s) + 1
<1>. DEFINE l == Len(s)
            D == 1 .. l + 1
            m == [i \in D |-> l + 1 - i]
            Good(i) == /\ first[i] \in i .. l + 1 /\ Stuck(s, first[i])
                       /\ Tiles(s, 1, i - 1) => Tiles(s, 1, first[i] - 1)
            P == {i \in D : Good(i)}
<1>1. l \in Nat
  BY LenProperties DEF Str
<1>2. m \in [D -> Nat] /\ \A i, k \in D : i < k => m[k] < m[i]
  BY <1>1
<1>3. ASSUME NEW i \in D, \A e \in D : m[e] < m[i] => e \in P PROVE i \in P
  <2>0. i \in Nat /\ 1 <= i /\ i <= l + 1 /\ first[i] = FirstBody(first, l, s, i)
    BY <1>1
  <2>. HIDE DEF Good, m
  <2>1. CASE i <= l /\ s[i] = BLANK
    <3>. DEFINE k == i + 1
    <3>1. k \in D /\ i < k
      BY <1>1, <2>0, <2>1
    <3>2. Good(k)
      BY <1>2, <1>3, <3>1
    <3>3. first[i] = first[k]
      BY <2>0, <2>1 DEF FirstBody
    <3>4. Tiles(s, 1, i - 1) => Tiles(s, 1, k - 1)
      <4>1. ASSUME NEW cut \in SUBSET Int, Tiled(s, 1, i - 1, cut) PROVE Tiles(s, 1, k - 1)
        <5>. DEFINE b == i - 1
        <5>1. b \in Int /\ 1 \in Int /\ 1 <= b + 1 /\ b + 1 = i /\ k - 1 = b + 1
          BY <2>0
        <5>. HIDE DEF b
        <5>2. Tiled(s, 1, b, cut)
          BY <4>1 DEF b
        <5>. HIDE DEF k
        <5>3. s[b + 1] = BLANK => Tiles(s, 1, b + 1)
          BY <5>1, <5>2, TilesMore
        <5>. QED
          BY <2>1, <5>1, <5>3
      <4>. QED
        BY <4>1 DEF Tiles
    <3>5. first[k] \in k .. l + 1 => first[k] \in i .. l + 1
      BY <1>1, <2>0
    <3>. QED
      BY <3>2, <3>3, <3>4, <3>5 DEF Good
  <2>2. CASE i < l /\ s[i] = HALF /\ s[i + 1] = HALF
    <3>. DEFINE k == i + 2
    <3>1. k \in D /\ i < k /\ i <= l
      BY <1>1, <2>0, <2>2
    <3>2. Good(k)
      BY <1>2, <1>3, <3>1
    <3>3. first[i] = first[k]
      BY <2>0, <2>2 DEF FirstBody, HALF, BLANK
    <3>4. Tiles(s, 1, i - 1) => Tiles(s, 1, k - 1)
      <4>1. ASSUME NEW cut \in SUBSET Int, Tiled(s, 1, i - 1, cut) PROVE Tiles(s, 1, k - 1)
        <5>. DEFINE b == i - 1
        <5>1. b \in Int /\ 1 \in Int /\ 1 <= b + 1 /\ b + 1 = i /\ b + 2 = i + 1 /\ k - 1 = b + 2
          BY <2>0
        <5>. HIDE DEF b
        <5>2. Tiled(s, 1, b, cut)
          BY <4>1 DEF b
        <5>. HIDE DEF k
        <5>3. s[b + 1] = HALF /\ s[b + 2] = HALF => Tiles(s, 1, b + 2)
          BY <5>1, <5>2, TilesMore
        <5>. QED
          BY <2>2, <5>1, <5>3
      <4>. QED
        BY <4>1 DEF Tiles
    <3>5. first[k] \in k .. l + 1 => first[k] \in i .. l + 1
      BY <1>1, <2>0
    <3>. QED
      BY <3>2, <3>3, <3>4, <3>5 DEF Good
  <2>3. CASE ~(i <= l /\ s[i] = BLANK) /\ ~(i < l /\ s[i] = HALF /\ s[i + 1] = HALF)
    <3>1. first[i] = i
      BY <2>0, <2>3 DEF FirstBody
    <3>2. Stuck(s, i)
      BY <2>3 DEF Stuck
    <3>3. i \in i .. l + 1
      BY <1>1, <2>0
    <3>. QED
      BY <3>1, <3>2, <3>3 DEF Good
  <2>. QED
    BY <2>1, <2>2, <2>3
<1>. HIDE DEF P, m, D
<1>4. \A i \in D : i \in P
  BY <1>2, <1>3, MeasureInduction
<1>5. first[l + 1] = l + 1
  <2>1. l + 1 \in 1 .. l + 1 /\ ~(l + 1 <= l) /\ ~(l + 1 < l)
    BY <1>1
  <2>2. first[l + 1] = FirstBody(first, l, s, l + 1)
    BY <2>1
  <2>. QED
    BY <2>1, <2>2 DEF FirstBody
<1>. QED
  BY <1>4, <1>5 DEF P, D

\* However a part is tiled, the first loop comes from its begin to its end.
LEMMA FirstThrough ==
  ASSUME NEW s \in Str, NEW first, \A i \in 1 .. Len(s) + 1 : first[i] = FirstBody(first, Len(s), s, i),
         NEW a \in Nat \ {0}, NEW b \in Nat, a <= b + 1, b <= Len(s), Tiles(s, a, b)
  PROVE  first[a] = first[b + 1]
<1>. DEFINE l == Len(s)
<1>1. l \in Nat
  BY LenProperties DEF Str
<1>2. PICK cut \in SUBSET Int : Tiled(s, a, b, cut)
  BY DEF Tiles
<1>. DEFINE D == a .. b + 1
            m == [i \in D |-> b + 1 - i]
            P == {i \in D : (i <= b => ~Tile3(s, a, cut, i)) => first[i] = first[b + 1]}
<1>3. m \in [D -> Nat] /\ \A i, k \in D : i < k => m[k] < m[i]
  OBVIOUS
<1>4. ASSUME NEW i \in D, \A e \in D : m[e] < m[i] => e \in P PROVE i \in P
  <2>. SUFFICES ASSUME i <= b, ~Tile3(s, a, cut, i) PROVE first[i] = first[b + 1]
    <3>1. ~(i <= b) => i = b + 1
      OBVIOUS
    <3>. QED
      BY <3>1
  <2>0. i \in Nat /\ 1 <= i /\ i <= l /\ i \in a .. b /\ i \in 1 .. l + 1
    BY <1>1
  <2>1. Tile1(s, i) \/ Tile2(s, b, cut, i)
    BY <1>2, <2>0 DEF Tiled
  <2>2. first[i] = FirstBody(first, l, s, i)
    BY <2>0
  <2>3. CASE Tile1(s, i)
    <3>. DEFINE k == i + 1
    <3>1. k \in D /\ i < k /\ k - 1 = i
      BY <2>0
    <3>2. first[i] = first[k]
      BY <2>0, <2>2, <2>3 DEF FirstBody, Tile1
    <3>3. ~Tile3(s, a, cut, k)
      BY <2>3, <3>1 DEF Tile1, Tile3, BLANK, HALF
    <3>4. k \in P
      BY <1>3, <1>4, <3>1
    <3>. QED
      BY <3>2, <3>3, <3>4
  <2>4. CASE Tile2(s, b, cut, i)
    <3>. DEFINE k == i + 2
    <3>1. k \in D /\ i < k /\ k - 1 = i + 1 /\ i < l
      BY <1>1, <2>0, <2>4 DEF Tile2
    <3>2. first[i] = first[k]
      BY <2>0, <2>2, <2>4, <3>1 DEF FirstBody, Tile2, BLANK, HALF
    <3>3. ~Tile3(s, a, cut, k)
      BY <2>4, <3>1 DEF Tile2, Tile3
    <3>4. k \in P
      BY <1>3, <1>4, <3>1
    <3>. QED
      BY <3>2, <3>3, <3>4
  <2>. QED
    BY <2>1, <2>3, <2>4
<1>. HIDE DEF P, m, D
<1>5. \A i \in D : i \in P
  BY <1>3, <1>4, MeasureInduction
<1>6. a \in D /\ ~Tile3(s, a, cut, a)
  BY DEF Tile3, D
<1>. QED
  BY <1>5, <1>6 DEF P

\* The same for the second loop: what it passes over is blank, and it passes over
\* all that is, unless it comes back to where the first one stopped.
LEMMA LastLoop ==
  ASSUME NEW s \in Str, NEW F \in 1 .. Len(s), Stuck(s, F), \A j \in 1 .. Len(s) : s[j] # NUL,
         NEW last, \A j \in 1 .. Len(s) : last[j] = LastBody(last, F, s, j)
  PROVE  \A j \in F .. Len(s) : /\ last[j] \in F .. j
                                /\ Tiles(s, j + 1, Len(s)) => Tiles(s, last[j] + 1, Len(s))
<1>. DEFINE l == Len(s)
            D == F .. l
            m == [j \in D |-> j - F]
            Good(j) == /\ last[j] \in F .. j
                       /\ Tiles(s, j + 1, l) => Tiles(s, last[j] + 1, l)
            P == {j \in D : Good(j)}
<1>1. l \in Nat /\ F \in Nat /\ 1 <= F /\ F <= l
  BY LenProperties DEF Str
<1>2. m \in [D -> Nat] /\ \A i, k \in D : i < k => m[i] < m[k]
  BY <1>1
<1>3. ASSUME NEW j \in D, \A e \in D : m[e] < m[j] => e \in P PROVE j \in P
  <2>0. j \in Nat /\ F <= j /\ 1 <= j /\ j <= l /\ last[j] = LastBody(last, F, s, j) /\ s[j] # NUL
    BY <1>1
  <2>. HIDE DEF Good, m
  <2>1. CASE j <= F
    <3>1. last[j] = F /\ j = F
      BY <1>1, <2>0, <2>1 DEF LastBody
    <3>2. F \in F .. F
      BY <1>1
    <3>. QED
      BY <3>1, <3>2 DEF Good
  <2>2. CASE ~(j <= F) /\ s[j] = BLANK
    <3>. DEFINE k == j - 1
    <3>1. k \in D /\ k < j /\ k + 1 = j
      BY <1>1, <2>0, <2>2
    <3>2. Good(k)
      BY <1>2, <1>3, <3>1
    <3>3. last[j] = last[k]
      BY <2>0, <2>2 DEF LastBody
    <3>4. Tiles(s, j + 1, l) => Tiles(s, k + 1, l)
      <4>1. ASSUME NEW cut \in SUBSET Int, Tiled(s, j + 1, l, cut) PROVE Tiles(s, k + 1, l)
        <5>. DEFINE a == j + 1
        <5>1. a \in Int /\ l \in Int /\ a <= l + 1 /\ a - 1 = j /\ k + 1 = a - 1
          BY <1>1, <2>0
        <5>. HIDE DEF a
        <5>2. Tiled(s, a, l, cut)
          BY <4>1 DEF a
        <5>. HIDE DEF k, l
        <5>3. s[a - 1] = BLANK => Tiles(s, a - 1, l)
          BY <5>1, <5>2, TilesMore
        <5>. QED
          BY <2>2, <5>1, <5>3
      <4>. QED
        BY <4>1 DEF Tiles
    <3>5. last[k] \in F .. k => last[k] \in F .. j
      BY <1>1, <2>0
    <3>. QED
      BY <3>2, <3>3, <3>4, <3>5 DEF Good
  <2>3. CASE ~(j <= F) /\ s[j] = HALF /\ s[j - 1] = HALF
    <3>. DEFINE k == j - 2
    <3>0. j - 1 # F
      <4>1. j - 1 = F => F < l /\ F + 1 = j
        BY <1>1, <2>0
      <4>. QED
        BY <1>1, <2>3, <4>1 DEF Stuck
    <3>1. k \in D /\ k < j /\ k + 1 = j - 1
      BY <1>1, <2>0, <2>3, <3>0
    <3>2. Good(k)
      BY <1>2, <1>3, <3>1
    <3>3. last[j] = last[k]
      BY <2>0, <2>3 DEF LastBody, HALF, BLANK, NUL
    <3>4. Tiles(s, j + 1, l) => Tiles(s, k + 1, l)
      <4>1. ASSUME NEW cut \in SUBSET Int, Tiled(s, j + 1, l, cut) PROVE Tiles(s, k + 1, l)
        <5>. DEFINE a == j + 1
        <5>1. a \in Int /\ l \in Int /\ a <= l + 1 /\ a - 1 = j /\ a - 2 = j - 1 /\ k + 1 = a - 2
          BY <1>1, <2>0
        <5>. HIDE DEF a
        <5>2. Tiled(s, a, l, cut)
          BY <4>1 DEF a
        <5>. HIDE DEF k, l
        <5>3. s[a - 1] = HALF /\ s[a - 2] = HALF => Tiles(s, a - 2, l)
          BY <5>1, <5>2, TilesMore
        <5>. QED
          BY <2>3, <5>1, <5>3
      <4>. QED
        BY <4>1 DEF Tiles
    <3>5. last[k] \in F .. k => last[k] \in F .. j
      BY <1>1, <2>0
    <3>. QED
      BY <3>2, <3>3, <3>4, <3>5 DEF Good
  <2>4. CASE ~(j <= F) /\ s[j] # BLANK /\ ~(s[j] = HALF /\ s[j - 1] = HALF)
    <3>1. last[j] = j
      BY <2>0, <2>4 DEF LastBody
    <3>2. j \in F .. j
      BY <1>1, <2>0
    <3>. QED
      BY <3>1, <3>2 DEF Good
  <2>. QED
    BY <2>1, <2>2, <2>3, <2>4
<1>. HIDE DEF P, m, D
<1>4. \A j \in D : j \in P
  BY <1>2, <1>3, MeasureInduction
<1>. QED
  BY <1>4 DEF P, D

\* However an end of the text is tiled, the second loop comes to its begin or further.
LEMMA LastThrough ==
  ASSUME NEW s \in Str, NEW F \in 1 .. Len(s), Stuck(s, F), \A j \in 1 .. Len(s) : s[j] # NUL,
         NEW last, \A j \in 1 .. Len(s) : last[j] = LastBody(last, F, s, j),
         \A j \in F .. Len(s) : last[j] \in F .. j,
         NEW b \in 0 .. Len(s), Tiles(s, b + 1, Len(s)), last[Len(s)] > F
  PROVE  last[Len(s)] <= b
<1>. DEFINE l == Len(s)
<1>1. l \in Nat /\ F \in Nat /\ 1 <= F /\ F <= l /\ b \in Nat /\ b <= l
  BY LenProperties DEF Str
<1>2. PICK cut \in SUBSET Int : Tiled(s, b + 1, l, cut)
  BY DEF Tiles
<1>. DEFINE D == b .. l
            m == [j \in D |-> j - b]
            Good(j) == (j > b => ~Tile2(s, l, cut, j)) /\ j > F /\ last[j] > F => last[j] <= b
            P == {j \in D : Good(j)}
<1>3. m \in [D -> Nat] /\ \A i, k \in D : i < k => m[i] < m[k]
  BY <1>1
<1>4. ASSUME NEW j \in D, \A e \in D : m[e] < m[j] => e \in P PROVE j \in P
  <2>. SUFFICES ASSUME j > b => ~Tile2(s, l, cut, j), j > F, last[j] > F PROVE last[j] <= b
    OBVIOUS
  <2>0. j \in Nat /\ b <= j /\ j <= l /\ 1 <= j /\ j \in F .. l /\ j \in 1 .. l /\ ~(j <= F)
    BY <1>1
  <2>1. last[j] = LastBody(last, F, s, j)
    BY <2>0
  <2>. HIDE DEF m
  <2>2. CASE j = b
    <3>1. last[j] \in F .. j
      BY <2>0
    <3>. QED
      BY <1>1, <2>0, <2>2, <3>1
  <2>3. CASE j > b /\ Tile1(s, j)
    <3>. DEFINE k == j - 1
    <3>1. k \in D /\ k < j /\ k + 1 = j /\ k \in F .. l
      BY <1>1, <2>0, <2>3
    <3>2. last[j] = last[k]
      BY <2>0, <2>1, <2>3 DEF LastBody, Tile1
    <3>3. ~Tile2(s, l, cut, k)
      BY <2>3, <3>1 DEF Tile1, Tile2, BLANK, HALF
    <3>4. Good(k)
      BY <1>3, <1>4, <3>1
    <3>5. k > F
      <4>1. last[k] \in F .. k /\ last[k] > F
        BY <3>1, <3>2
      <4>. QED
        BY <1>1, <2>0, <4>1
    <3>. QED
      BY <3>2, <3>3, <3>4, <3>5
  <2>4. CASE j > b /\ Tile3(s, b + 1, cut, j)
    <3>. DEFINE k == j - 2
    <3>1. k \in D /\ k < j /\ k + 1 = j - 1 /\ k >= F - 1
      BY <1>1, <2>0, <2>4 DEF Tile3
    <3>2. last[j] = last[k]
      BY <2>0, <2>1, <2>4 DEF LastBody, Tile3, HALF, BLANK, NUL
    <3>3. ~Tile2(s, l, cut, k)
      BY <2>4, <3>1 DEF Tile2, Tile3
    <3>4. Good(k)
      BY <1>3, <1>4, <3>1
    <3>5. j - 1 # F
      <4>1. j - 1 = F => F < l /\ F + 1 = j
        BY <1>1, <2>0
      <4>. QED
        BY <1>1, <2>4, <4>1 DEF Stuck, Tile3
    <3>6. k > F
      <4>1. k \in F .. l
        BY <1>1, <2>0, <3>1, <3>5
      <4>2. last[k] \in F .. k /\ last[k] > F
        BY <3>2, <4>1
      <4>. QED
        BY <1>1, <4>1, <4>2
    <3>. QED
      BY <3>2, <3>3, <3>4, <3>6
  <2>5. j > b => Tile1(s, j) \/ Tile3(s, b + 1, cut, j)
    <3>1. j > b => j \in b + 1 .. l
      BY <1>1, <2>0
    <3>. QED
      BY <1>2, <3>1 DEF Tiled
  <2>. QED
    BY <1>1, <2>0, <2>2, <2>3, <2>4, <2>5
<1>. HIDE DEF P, m, D
<1>5. \A j \in D : j \in P
  BY <1>3, <1>4, MeasureInduction
<1>6. l \in D /\ ~Tile2(s, l, cut, l)
  BY <1>1 DEF Tile2, D
<1>7. l > F
  <2>1. last[l] \in F .. l
    BY <1>1
  <2>. QED
    BY <1>1, <2>1
<1>. QED
  BY <1>5, <1>6, <1>7 DEF P

\* The cores of a text: what blank ends leave of it.
LEMMA CoresIs ==
  ASSUME NEW s \in Str
  PROVE  /\ \A i \in 1 .. Len(s) + 1, j \in 0 .. Len(s) :
              j >= i - 1 /\ Tiles(s, 1, i - 1) /\ Tiles(s, j + 1, Len(s)) => SubSeq(s, i, j) \in Cores(s)
         /\ \A c \in Cores(s) : \E i \in 1 .. Len(s) + 1, j \in 0 .. Len(s) :
              /\ j >= i - 1 /\ Tiles(s, 1, i - 1) /\ Tiles(s, j + 1, Len(s))
              /\ c = SubSeq(s, i, j) /\ Len(c) = j + 1 - i
<1>. DEFINE l == Len(s)
            Ok(i, j) == j >= i - 1 /\ Tiles(s, 1, i - 1) /\ Tiles(s, j + 1, l)
            Is(i, j) == /\ Blanks(SubSeq(s, 1, i - 1))
                        /\ Blanks(SubSeq(s, j + 1, Len(s)))
                        /\ j >= i - 1
<1>1. l \in Nat /\ s \in Seq(Int)
  BY LenProperties DEF Str
<1>2. ASSUME NEW i \in 1 .. l + 1, NEW j \in 0 .. l
      PROVE  Is(i, j) <=> Ok(i, j)
  <2>. DEFINE b == i - 1
              a == j + 1
  <2>1. /\ 1 \in Nat \ {0} /\ b \in Nat /\ 1 <= b + 1 /\ b <= l
        /\ a \in Nat \ {0} /\ a <= l + 1 /\ l <= l
    BY <1>1
  <2>. HIDE DEF a, b
  <2>2. Blanks(SubSeq(s, 1, b)) <=> Tiles(s, 1, b)
    BY <2>1, BlanksIs
  <2>3. Blanks(SubSeq(s, a, l)) <=> Tiles(s, a, l)
    BY <1>1, <2>1, BlanksIs
  <2>. QED
    BY <2>2, <2>3 DEF a, b
<1>3. Cores(s) = {SubSeq(s, ij[1], ij[2]) : ij \in {ij \in (1 .. l + 1) \X (0 .. l) : Is(ij[1], ij[2])}}
  BY DEF Cores
<1>4. ASSUME NEW i \in 1 .. l + 1, NEW j \in 0 .. l, j >= i - 1
      PROVE  Len(SubSeq(s, i, j)) = j + 1 - i
  <2>1. i \in Int /\ j \in Int /\ i \in 1 .. Len(s) + 1 /\ j \in i - 1 .. Len(s)
    BY <1>1, <1>4
  <2>. QED
    BY <1>1, <1>4, SubSeqProperties
<1>. HIDE DEF Ok, Is, l
<1>5. ASSUME NEW i \in 1 .. l + 1, NEW j \in 0 .. l, Ok(i, j) PROVE SubSeq(s, i, j) \in Cores(s)
  <2>1. Is(i, j)
    BY <1>2, <1>5
  <2>. DEFINE ij == <<i, j>>
  <2>2. ij \in (1 .. l + 1) \X (0 .. l) /\ ij[1] = i /\ ij[2] = j
    OBVIOUS
  <2>. HIDE DEF ij
  <2>3. SubSeq(s, ij[1], ij[2]) \in Cores(s)
    BY <1>3, <2>1, <2>2
  <2>. QED
    BY <2>2, <2>3
<1>6. ASSUME NEW c \in Cores(s)
      PROVE  \E i \in 1 .. l + 1, j \in 0 .. l : Ok(i, j) /\ c = SubSeq(s, i, j)
  <2>1. PICK ij \in (1 .. l + 1) \X (0 .. l) : Is(ij[1], ij[2]) /\ c = SubSeq(s, ij[1], ij[2])
    BY <1>3
  <2>2. ij[1] \in 1 .. l + 1 /\ ij[2] \in 0 .. l
    OBVIOUS
  <2>. QED
    BY <1>2, <2>1, <2>2
<1>7. \A c \in Cores(s) : \E i \in 1 .. l + 1, j \in 0 .. l :
        Ok(i, j) /\ c = SubSeq(s, i, j) /\ Len(c) = j + 1 - i
  <2>. SUFFICES ASSUME NEW c \in Cores(s)
                PROVE  \E i \in 1 .. l + 1, j \in 0 .. l :
                         Ok(i, j) /\ c = SubSeq(s, i, j) /\ Len(c) = j + 1 - i
    OBVIOUS
  <2>1. PICK i \in 1 .. l + 1, j \in 0 .. l : Ok(i, j) /\ c = SubSeq(s, i, j)
    BY <1>6
  <2>2. Len(SubSeq(s, i, j)) = j + 1 - i
    BY <1>4, <2>1 DEF Ok
  <2>. QED
    BY <2>1, <2>2
<1>. QED
  BY <1>5, <1>7 DEF Ok, l

\* filtrationBlank leaves the shortest core when the buffer has a cell to spare,
\* and otherwise a core with something behind it.
LEMMA FiltrationBlankSound ==
  ASSUME NEW s \in Str, \A j \in 1 .. Len(s) : s[j] # NUL, NEW n \in Nat, Len(s) <= n
  PROVE  LET out == FiltrationBlank(s, n) IN
         IF n > Len(s) THEN out \in Cores(s) /\ \A c \in Cores(s) : Len(out) <= Len(c)
         ELSE \E c \in Cores(s) : IsPrefix(c, out)
<1>. DEFINE l == Len(s)
            buf == Buffer(s, n)
            out == FiltrationBlank(s, n)
<1>1. l \in Nat /\ l <= n /\ s \in Seq(Int)
  BY LenProperties DEF Str
<1>2. PICK first, last :
        /\ IsFirst(first, n, buf) /\ IsLast(last, n, buf, first[1])
        /\ out = IF first[1] > l THEN <<>> ELSE InBuffer(MovedBuffer(buf, n, first[1], last[n]))
  BY FiltrationBlankIs
<1>. DEFINE F == first[1]
            L == last[l]
<1>3. \A i \in 1 .. l + 1 : first[i] = FirstBody(first, l, s, i)
  BY <1>1, <1>2, FirstStep
<1>4. F \in 1 .. l + 1 /\ Stuck(s, F) /\ Tiles(s, 1, F - 1) /\ first[l + 1] = l + 1
  <2>1. /\ \A i \in 1 .. l + 1 : /\ first[i] \in i .. l + 1 /\ Stuck(s, first[i])
                                 /\ Tiles(s, 1, i - 1) => Tiles(s, 1, first[i] - 1)
        /\ first[l + 1] = l + 1
    BY <1>3, FirstLoop
  <2>2. Tiles(s, 1, 1 - 1)
    <3>1. Tiled(s, 1, 1 - 1, {})
      BY DEF Tiled
    <3>. QED
      BY <3>1 DEF Tiles
  <2>3. 1 \in 1 .. l + 1
    BY <1>1
  <2>. QED
    BY <2>1, <2>2, <2>3
<1>5. Tiles(s, l + 1, l)
  <2>1. Tiled(s, l + 1, l, {})
    BY <1>1 DEF Tiled
  <2>. QED
    BY <2>1 DEF Tiles
<1>6. ASSUME NEW a \in Nat \ {0}, NEW b \in Nat, a <= b + 1, b <= l, Tiles(s, a, b)
      PROVE  first[a] = first[b + 1]
  BY <1>3, <1>6, FirstThrough
<1>7. ASSUME NEW i \in 1 .. l + 1, Tiles(s, 1, i - 1) PROVE i <= F
  <2>. DEFINE b == i - 1
  <2>1. b \in Nat /\ 1 <= b + 1 /\ b <= l /\ b + 1 = i /\ 1 \in Nat \ {0}
    BY <1>1
  <2>. HIDE DEF b
  <2>2. F = first[b + 1]
    BY <1>6, <1>7, <2>1 DEF b
  <2>3. first[i] \in i .. l + 1
    BY <1>3, FirstLoop
  <2>. QED
    BY <1>1, <2>1, <2>2, <2>3
<1>. HIDE DEF out, buf
<1>8. CASE F > l
  <2>1. F = l + 1 /\ out = <<>> /\ l + 1 \in 1 .. l + 1 /\ l \in 0 .. l /\ l >= (l + 1) - 1
    BY <1>1, <1>2, <1>4, <1>8
  <2>2. SubSeq(s, l + 1, l) = <<>>
    <3>1. SubSeq(s, Len(s) + 1, Len(s)) = << >>
      BY <1>1, SubSeqEmpty
    <3>. QED
      BY <3>1
  <2>3. out \in Cores(s)
    <3>1. SubSeq(s, l + 1, l) \in Cores(s)
      BY <1>4, <1>5, <2>1, CoresIs
    <3>. QED
      BY <2>1, <2>2, <3>1
  <2>4. ASSUME NEW c \in Cores(s) PROVE Len(out) <= Len(c)
    <3>1. PICK i \in 1 .. l + 1, j \in 0 .. l : j >= i - 1 /\ Len(c) = j + 1 - i
      BY CoresIs
    <3>2. Len(out) = 0
      BY <2>1
    <3>. QED
      BY <1>1, <3>1, <3>2
  <2>5. IsPrefix(out, out)
    <3>1. <<>> \in Seq(Int) /\ <<>> \o <<>> = <<>>
      OBVIOUS
    <3>2. IsPrefix(<<>>, <<>> \o <<>>)
      BY <3>1, PrefixOf
    <3>. QED
      BY <2>1, <3>1, <3>2
  <2>. QED
    BY <2>3, <2>4, <2>5 DEF out
<1>9. CASE F <= l
  <2>0. F \in 1 .. l /\ F \in Nat
    BY <1>1, <1>4, <1>9
  <2>. HIDE DEF F
  <2>1. (\A j \in 1 .. l : last[j] = LastBody(last, F, s, j)) /\ last[n] = L
    BY <1>1, <1>2, <2>0, LastStep DEF buf, F
  <2>2. \A j \in F .. l : last[j] \in F .. j /\ (Tiles(s, j + 1, l) => Tiles(s, last[j] + 1, l))
    BY <1>4, <2>0, <2>1, LastLoop
  <2>3. L \in F .. l /\ Tiles(s, L + 1, l)
    <3>1. l \in F .. l
      BY <1>1, <2>0
    <3>. QED
      BY <1>5, <2>2, <3>1
  <2>4. ASSUME NEW b \in 0 .. l, Tiles(s, b + 1, l), L > F PROVE L <= b
    BY <1>4, <2>0, <2>1, <2>2, <2>4, LastThrough
  <2>. HIDE DEF L
  <2>. DEFINE core == SubSeq(s, F, L)
              d == L + 1 - F
  <2>5. core \in Cores(s)
    <3>1. F \in 1 .. l + 1 /\ L \in 0 .. l /\ L >= F - 1
      BY <1>1, <2>0, <2>3
    <3>. QED
      BY <1>4, <2>3, <3>1, CoresIs DEF F
  <2>6. /\ core \in Seq(Int) /\ Len(core) = d /\ d \in Nat /\ d >= 1 /\ d <= n
        /\ \A i \in 1 .. d : core[i] = s[F + i - 1]
    <3>1. F \in Int /\ L \in Int /\ d \in Nat /\ d >= 1 /\ d <= n
      BY <1>1, <2>0, <2>3
    <3>2. F \in 1 .. Len(s) + 1 /\ L \in F - 1 .. Len(s)
      BY <1>1, <2>0, <2>3
    <3>. QED
      BY <1>1, <3>1, <3>2, SubSeqProperties
  <2>7. ASSUME NEW c \in Cores(s) PROVE d <= Len(c)
    <3>1. PICK i \in 1 .. l + 1, j \in 0 .. l :
            j >= i - 1 /\ Tiles(s, 1, i - 1) /\ Tiles(s, j + 1, l) /\ Len(c) = j + 1 - i
      BY CoresIs
    <3>2. i <= F
      BY <1>7, <3>1 DEF F
    <3>3. CASE L > F
      <4>1. L <= j
        BY <2>4, <3>1, <3>3
      <4>. QED
        BY <1>1, <2>0, <2>3, <3>1, <3>2, <4>1
    <3>4. CASE L = F
      <4>1. j # i - 1
        <5>. SUFFICES ASSUME j = i - 1 PROVE FALSE
          OBVIOUS
        <5>1. i \in Nat \ {0} /\ l \in Nat /\ i <= l + 1 /\ l <= l /\ j + 1 = i
          BY <1>1
        <5>2. first[i] = l + 1
          BY <1>4, <1>6, <3>1, <5>1
        <5>. DEFINE b == i - 1
        <5>3. b \in Nat /\ 1 <= b + 1 /\ b <= l /\ b + 1 = i /\ 1 \in Nat \ {0}
          BY <1>1
        <5>. HIDE DEF b
        <5>4. F = first[b + 1]
          BY <1>6, <3>1, <5>3 DEF b, F
        <5>. QED
          BY <1>1, <1>9, <5>2, <5>3, <5>4
      <4>. QED
        BY <1>1, <2>0, <3>1, <3>4, <4>1
    <3>. QED
      BY <1>1, <2>0, <2>3, <3>3, <3>4
  <2>. DEFINE moved == MovedBuffer(buf, n, F, L)
  <2>8. out = InBuffer(moved)
    BY <1>1, <1>2, <1>9, <2>0, <2>1 DEF F
  <2>9. \A i \in 1 .. n : buf[i] = IF i <= l THEN s[i] ELSE NUL
    BY DEF Buffer, buf
  <2>10. \A i \in 1 .. n : /\ (IF i < F \/ i > L THEN NUL ELSE buf[i]) \in Int
                           /\ i \in F .. L => buf[i] = s[i] /\ s[i] # NUL
    <3>1. ASSUME NEW i \in 1 .. n PROVE buf[i] \in Int
      <4>1. i <= l => s[i] \in Int
        BY <1>1, ElementOfSeq
      <4>. QED
        BY <2>9, <4>1 DEF NUL
    <3>2. ASSUME NEW i \in 1 .. n, i \in F .. L PROVE buf[i] = s[i] /\ s[i] # NUL
      BY <1>1, <2>0, <2>3, <2>9, <3>2
    <3>. QED
      BY <3>1, <3>2 DEF NUL
  <2>. DEFINE Kept(i) == IF i < F \/ i > L THEN NUL ELSE buf[i]
  <2>11. /\ moved \in Seq(Int) /\ Len(moved) = n
         /\ \A i \in 1 .. n : moved[i] = IF i + F - 1 <= n THEN Kept(i + F - 1) ELSE Kept(i)
    <3>1. moved = [i \in 1 .. n |-> IF i + F - 1 <= n THEN Kept(i + F - 1) ELSE Kept(i)]
      <4>1. ASSUME NEW i \in 1 .. n, i + F - 1 <= n PROVE i + F - 1 \in 1 .. n
        BY <1>1, <2>0, <4>1
      <4>. QED
        BY <4>1 DEF MovedBuffer
    <3>2. ASSUME NEW i \in 1 .. n
          PROVE  (IF i + F - 1 <= n THEN Kept(i + F - 1) ELSE Kept(i)) \in Int
      <4>1. i + F - 1 <= n => i + F - 1 \in 1 .. n
        BY <1>1, <2>0
      <4>. QED
        BY <2>10, <4>1
    <3>. HIDE DEF Kept, moved
    <3>. QED
      BY <3>1, <3>2
  <2>12. \A i \in 1 .. d : moved[i] = core[i] /\ moved[i] # NUL
    <3>. SUFFICES ASSUME NEW i \in 1 .. d PROVE moved[i] = core[i] /\ moved[i] # NUL
      OBVIOUS
    <3>. DEFINE k == i + F - 1
    <3>1. i \in 1 .. n /\ k \in 1 .. n /\ k <= n /\ k \in F .. L /\ ~(k < F) /\ ~(k > L) /\ k = F + i - 1
      BY <1>1, <2>0, <2>3, <2>6
    <3>. HIDE DEF k, moved
    <3>2. moved[i] = Kept(k)
      BY <2>11, <3>1 DEF k
    <3>3. Kept(k) = s[k] /\ s[k] # NUL
      BY <2>10, <3>1
    <3>4. core[i] = s[k]
      BY <2>6, <3>1
    <3>. QED
      BY <3>2, <3>3, <3>4
  <2>13. d < n /\ L < n => moved[d + 1] = NUL
    <3>. SUFFICES ASSUME d < n, L < n PROVE moved[d + 1] = NUL
      OBVIOUS
    <3>1. d + 1 \in 1 .. n /\ d + 1 + F - 1 = L + 1 /\ L + 1 <= n /\ L + 1 > L
      BY <1>1, <2>0, <2>3, <2>6
    <3>. HIDE DEF moved, d
    <3>2. moved[d + 1] = IF L + 1 <= n THEN Kept(L + 1) ELSE Kept(d + 1)
      BY <2>11, <3>1
    <3>. QED
      BY <3>1, <3>2
  <2>. HIDE DEF moved, core
  <2>14. LET f == Find(moved, NUL) IN
         /\ f \in Nat /\ 1 <= f /\ f <= n + 1
         /\ \A i \in 1 .. f - 1 : moved[i] # NUL
         /\ f <= n => moved[f] = NUL
         /\ out = SubSeq(moved, 1, f - 1)
    <3>1. moved \in Str
      BY <2>11 DEF Str
    <3>. QED
      BY <2>8, <2>11, <3>1, InBufferIs
  <2>. DEFINE f == Find(moved, NUL)
              e == f - 1
  <2>15. e \in Nat /\ e <= n /\ d <= e /\ f = e + 1
    <3>1. f \in Nat /\ 1 <= f /\ f <= n + 1 /\ (f <= n => moved[f] = NUL)
      BY <2>14
    <3>. HIDE DEF f
    <3>2. ~(f <= d)
      <4>1. f <= d => f \in 1 .. d /\ f <= n
        BY <2>6, <3>1
      <4>. QED
        BY <2>12, <3>1, <4>1
    <3>. QED
      BY <2>6, <3>1, <3>2
  <2>. HIDE DEF f
  <2>16. /\ out = SubSeq(moved, 1, e) /\ out \in Seq(Int) /\ Len(out) = e
         /\ \A i \in 1 .. e : out[i] = moved[i]
    <3>1. out = SubSeq(moved, 1, e)
      BY <2>14 DEF f
    <3>. HIDE DEF e
    <3>2. SubSeq(moved, 1, e) \in Seq(Int) /\ Len(SubSeq(moved, 1, e)) = e
          /\ \A i \in 1 .. e : SubSeq(moved, 1, e)[i] = moved[i]
      <4>1. 1 \in 1 .. Len(moved) + 1 /\ e \in 1 - 1 .. Len(moved) /\ e \in Int /\ 1 \in Int
        BY <2>11, <2>15
      <4>. QED
        BY <2>11, <2>15, <4>1, SubSeqProperties
    <3>. QED
      BY <3>1, <3>2
  <2>. HIDE DEF e, d
  <2>17. SubSeq(out, 1, d) = core
    <3>1. SubSeq(core, 1, d) = SubSeq(out, 1, d)
      <4>1. d \in Int /\ d <= Len(core) /\ d <= Len(out) /\ 1 \in Nat \ {0}
        BY <2>6, <2>15, <2>16
      <4>2. \A k \in 1 .. d : core[k] = out[k]
        <5>1. \A k \in 1 .. d : k \in 1 .. e
          BY <2>6, <2>15
        <5>. QED
          BY <2>12, <2>16, <5>1
      <4>. QED
        BY <2>6, <2>16, <4>1, <4>2, SamePart
    <3>2. SubSeq(core, 1, Len(core)) = core
      BY <2>6, SubSeqFull
    <3>. QED
      BY <2>6, <3>1, <3>2
  <2>18. IsPrefix(core, out)
    <3>1. Len(core) <= Len(out)
      BY <2>6, <2>15, <2>16
    <3>. QED
      BY <2>6, <2>17, <3>1 DEF IsPrefix
  <2>19. n > l => out = core
    <3>. SUFFICES ASSUME n > l PROVE out = core
      OBVIOUS
    <3>1. L < n /\ d < n
      BY <1>1, <2>0, <2>3 DEF d
    <3>2. moved[d + 1] = NUL
      BY <2>13, <3>1
    <3>3. e = d
      <4>1. \A i \in 1 .. e : moved[i] # NUL
        BY <2>14, <2>15 DEF f, e
      <4>2. ~(e >= d + 1)
        <5>1. e >= d + 1 => d + 1 \in 1 .. e
          BY <2>6, <2>15
        <5>. QED
          BY <3>2, <4>1, <5>1
      <4>. QED
        BY <2>6, <2>15, <4>2
    <3>4. SubSeq(out, 1, Len(out)) = out
      BY <2>16, SubSeqFull
    <3>. QED
      BY <2>16, <2>17, <3>3, <3>4
  <2>20. CASE n > l
    <3>1. Len(out) = d /\ out \in Cores(s)
      BY <2>5, <2>6, <2>19, <2>20
    <3>. QED
      BY <2>7, <2>20, <3>1 DEF out
  <2>21. CASE ~(n > l)
    BY <2>5, <2>18, <2>21 DEF out
  <2>. QED
    BY <2>20, <2>21
<1>. QED
  BY <1>1, <1>4, <1>8, <1>9

(***************************************************************************)
(* The calls.                                                              *)
(***************************************************************************)

\* A text over characters other than NUL has no NUL in it.
LEMMA NoNul ==
  ASSUME NEW C \in SUBSET Int, NUL \notin C, NEW s \in Text(C)
  PROVE  /\ s \in Str /\ Len(s) \in Nat /\ \A j \in 1 .. Len(s) : s[j] # NUL
         /\ \A j \in DOMAIN s : s[j] # NUL
<1>1. s \in Str /\ s \in Seq(C)
  BY StrIs
<1>2. Len(s) \in Nat /\ DOMAIN s = 1 .. Len(s)
  BY <1>1, LenProperties
<1>3. \A j \in 1 .. Len(s) : s[j] \in C
  BY <1>1, ElementOfSeq
<1>. QED
  BY <1>1, <1>2, <1>3

\* The short second argument of a call.
LEMMA ShortIs ==
  ASSUME NEW C \in SUBSET Int, NEW t \in BoundedSeq(C, 2)
  PROVE  t \in Str /\ t \in Seq(C)
<1>1. t \in Seq(C)
  BY TextIs
<1>. QED
  BY <1>1, SeqMonotonic DEF Str

\* The calls of the cutting routines.
LEMMA CutCall ==
  CallCut => RoutinesSound'
<1>. SUFFICES ASSUME CallCut PROVE RoutinesSound'
  OBVIOUS
<1>1. PICK s \in Text({97, 98, COMMA}) :
        \/ text' = [fn |-> "cut", s |-> s, out |-> CutAt(s, COMMA)]
        \/ \E t \in BoundedSeq({97, COMMA}, 2) :
             text' = [fn |-> "cutToken", s |-> s, t |-> t, out |-> CutAtToken(s, t)]
  BY DEF CallCut
<1>2. COMMA \in Int /\ s \in Str
  <2>1. COMMA \in Int /\ {97, 98, COMMA} \in SUBSET Int
    BY DEF COMMA
  <2>. QED
    BY <2>1, StrIs
<1>3. CASE text' = [fn |-> "cut", s |-> s, out |-> CutAt(s, COMMA)]
  <2>1. text'.fn = "cut" /\ text'.s = s /\ text'.out = CutAt(s, COMMA)
    BY <1>3
  <2>2. IF COMMA \in ToSet(s) THEN s = CutAt(s, COMMA).sub \o <<COMMA>> \o CutAt(s, COMMA).rest
        ELSE CutAt(s, COMMA).sub = s /\ CutAt(s, COMMA).rest = <<>>
    BY <1>2, CutIs
  <2>3. CutSound'
    BY <2>1, <2>2, Zenon DEF CutSound
  <2>. QED
    BY <2>1, <2>3 DEF RoutinesSound, PiecesSound, InPlaceSound, MultibyteSound, SearchSound,
                      DirectorySound, ListSound, NumberSound
<1>4. CASE \E t \in BoundedSeq({97, COMMA}, 2) :
             text' = [fn |-> "cutToken", s |-> s, t |-> t, out |-> CutAtToken(s, t)]
  <2>0. PICK t \in BoundedSeq({97, COMMA}, 2) :
          text' = [fn |-> "cutToken", s |-> s, t |-> t, out |-> CutAtToken(s, t)]
    BY <1>4
  <2>1. text'.fn = "cutToken" /\ text'.s = s /\ text'.t = t /\ text'.out = CutAtToken(s, t)
    BY <2>0
  <2>2. t \in Str
    <3>1. {97, COMMA} \in SUBSET Int
      BY DEF COMMA
    <3>. QED
      BY <3>1, ShortIs
  <2>3. LET out == CutAtToken(s, t) IN
        /\ out.ok => s = out.rest \o t \o out.sub
        /\ out.ok <=> s # <<>> /\ \E p \in 1 .. Len(s) + 1 : Occurs(s, t, p)
    BY <1>2, <2>2, CutTokenIs
  <2>4. CutSound'
    BY <2>1, <2>3, Zenon DEF CutSound
  <2>. QED
    BY <2>1, <2>4 DEF RoutinesSound, PiecesSound, InPlaceSound, MultibyteSound, SearchSound,
                      DirectorySound, ListSound, NumberSound
<1>. QED
  BY <1>1, <1>3, <1>4

\* The calls of replaceString.
LEMMA ReplaceCall ==
  CallReplace => RoutinesSound'
<1>. SUFFICES ASSUME CallReplace PROVE RoutinesSound'
  OBVIOUS
<1>1. PICK s \in Text({97, 98}), src \in BoundedSeq({97, 98}, 2) \ {<<>>},
           dst \in BoundedSeq({97, COMMA}, 2) :
        text' = [fn |-> "replace", s |-> s, src |-> src, dst |-> dst,
                 out |-> Replace(s, src, dst)]
  BY DEF CallReplace
<1>2. /\ text'.fn = "replace" /\ text'.s = s /\ text'.src = src /\ text'.dst = dst
      /\ text'.out = Replace(s, src, dst)
  BY <1>1
<1>3. dst = <<COMMA>> => Replace(Replace(s, src, dst), dst, src) = s
  <2>1. {97, 98} \in SUBSET Int /\ COMMA \in Int /\ COMMA \notin {97, 98}
    BY DEF COMMA
  <2>2. s \in Seq({97, 98}) /\ src \in Seq({97, 98}) /\ src # <<>>
    BY <2>1, StrIs, ShortIs
  <2>. QED
    BY <2>1, <2>2, ReplaceUndone
<1>4. PiecesSound'
  BY <1>2, <1>3 DEF PiecesSound
<1>. QED
  BY <1>2, <1>4 DEF RoutinesSound, CutSound, InPlaceSound, MultibyteSound, SearchSound,
                    DirectorySound, ListSound, NumberSound

\* The calls of the splitting routines.
LEMMA SplitCall ==
  CallSplit => RoutinesSound'
<1>. SUFFICES ASSUME CallSplit PROVE RoutinesSound'
  OBVIOUS
<1>1. CASE \E s \in Text({97, 98, COMMA}) :
             text' = [fn |-> "split", s |-> s, out |-> Split(s, COMMA),
                      divided |-> Divide(s, COMMA)]
  <2>0. PICK s \in Text({97, 98, COMMA}) :
          text' = [fn |-> "split", s |-> s, out |-> Split(s, COMMA), divided |-> Divide(s, COMMA)]
    BY <1>1
  <2>1. /\ text'.fn = "split" /\ text'.s = s /\ text'.out = Split(s, COMMA)
        /\ text'.divided = Divide(s, COMMA)
    BY <2>0
  <2>2. COMMA \in Int /\ s \in Str
    <3>1. COMMA \in Int /\ {97, 98, COMMA} \in SUBSET Int
      BY DEF COMMA
    <3>. QED
      BY <3>1, StrIs
  <2>3. PiecesSound'
    BY <2>1, <2>2, SplitJoined, DivideSound DEF PiecesSound
  <2>. QED
    BY <2>1, <2>3 DEF RoutinesSound, CutSound, InPlaceSound, MultibyteSound, SearchSound,
                      DirectorySound, ListSound, NumberSound
<1>2. CASE \E s \in Text({97, OPEN, CLOSE}) :
             text' = [fn |-> "between", s |-> s, out |-> Between(s, OPEN, CLOSE)]
  <2>0. PICK s \in Text({97, OPEN, CLOSE}) :
          text' = [fn |-> "between", s |-> s, out |-> Between(s, OPEN, CLOSE)]
    BY <1>2
  <2>1. text'.fn = "between" /\ text'.s = s /\ text'.out = Between(s, OPEN, CLOSE)
    BY <2>0
  <2>2. s \in Str
    <3>1. {97, OPEN, CLOSE} \in SUBSET Int
      BY DEF OPEN, CLOSE
    <3>. QED
      BY <3>1, StrIs
  <2>3. PiecesSound'
    BY <2>1, <2>2, BetweenHasNoClose DEF PiecesSound
  <2>. QED
    BY <2>1, <2>3 DEF RoutinesSound, CutSound, InPlaceSound, MultibyteSound, SearchSound,
                      DirectorySound, ListSound, NumberSound
<1>. QED
  BY <1>1, <1>2 DEF CallSplit

\* The calls of wipeOffChar.
LEMMA WipeOffCall ==
  CallWipeOff => RoutinesSound'
<1>. SUFFICES ASSUME CallWipeOff PROVE RoutinesSound'
  OBVIOUS
<1>1. PICK s \in Text({97, 98, COMMA}) : \E n \in Len(s) .. MaxText + 1 :
        n > 0 /\ text' = [fn |-> "wipeOff", s |-> s, n |-> n, out |-> WipeOff(s, n, COMMA)]
  BY DEF CallWipeOff
<1>2. s \in Str /\ Len(s) \in Nat /\ COMMA \in Int /\ \A j \in 1 .. Len(s) : s[j] # NUL
  <2>1. {97, 98, COMMA} \in SUBSET Int /\ NUL \notin {97, 98, COMMA} /\ COMMA \in Int
    BY DEF COMMA, NUL
  <2>. QED
    BY <2>1, NoNul
<1>3. PICK n \in Len(s) .. MaxText + 1 :
        n > 0 /\ text' = [fn |-> "wipeOff", s |-> s, n |-> n, out |-> WipeOff(s, n, COMMA)]
  BY <1>1
<1>4. text'.fn = "wipeOff" /\ text'.s = s /\ text'.out = WipeOff(s, n, COMMA)
  BY <1>3
<1>5. n \in Nat /\ Len(s) <= n
  BY <1>2
<1>6. InPlaceSound'
  BY <1>2, <1>4, <1>5, WipeOffSound DEF InPlaceSound
<1>. QED
  BY <1>4, <1>6 DEF RoutinesSound, CutSound, PiecesSound, MultibyteSound, SearchSound,
                    DirectorySound, ListSound, NumberSound

\* The calls of filtrationBlank.
LEMMA FiltrationBlankCall ==
  CallFiltrationBlank => RoutinesSound'
<1>. SUFFICES ASSUME CallFiltrationBlank PROVE RoutinesSound'
  OBVIOUS
<1>1. PICK s \in Text({97, BLANK, HALF}) : \E n \in Len(s) .. MaxText + 1 :
        n > 0 /\ text' = [fn |-> "filtrationBlank", s |-> s, n |-> n,
                          out |-> FiltrationBlank(s, n)]
  BY DEF CallFiltrationBlank
<1>2. s \in Str /\ Len(s) \in Nat /\ \A j \in 1 .. Len(s) : s[j] # NUL
  <2>1. {97, BLANK, HALF} \in SUBSET Int /\ NUL \notin {97, BLANK, HALF}
    BY DEF BLANK, HALF, NUL
  <2>. QED
    BY <2>1, NoNul
<1>3. PICK n \in Len(s) .. MaxText + 1 :
        n > 0 /\ text' = [fn |-> "filtrationBlank", s |-> s, n |-> n,
                          out |-> FiltrationBlank(s, n)]
  BY <1>1
<1>4. /\ text'.fn = "filtrationBlank" /\ text'.s = s /\ text'.n = n
      /\ text'.out = FiltrationBlank(s, n)
  BY <1>3
<1>5. n \in Nat /\ Len(s) <= n
  BY <1>2
<1>6. InPlaceSound'
  BY <1>2, <1>4, <1>5, FiltrationBlankSound DEF InPlaceSound
<1>. QED
  BY <1>4, <1>6 DEF RoutinesSound, CutSound, PiecesSound, MultibyteSound, SearchSound,
                    DirectorySound, ListSound, NumberSound

\* The calls of testMultibyte.
LEMMA TestMultibyteCall ==
  CallTestMultibyte => RoutinesSound'
<1>. SUFFICES ASSUME CallTestMultibyte PROVE RoutinesSound'
  OBVIOUS
<1>1. PICK s \in Text({97, 100, 228}) \ {<<>>} :
        text' = [fn |-> "testMultibyte", s |-> s, ok |-> TestMultibyte(s).ok,
                 out |-> TestMultibyte(s).out]
  BY DEF CallTestMultibyte
<1>2. text'.fn = "testMultibyte" /\ text'.s = s /\ text'.out = TestMultibyte(s).out
  BY <1>1
<1>3. s \in Str /\ s # <<>>
  <2>1. {97, 100, 228} \in SUBSET Int
    OBVIOUS
  <2>. QED
    BY <2>1, StrIs
<1>4. MultibyteSound'
  BY <1>2, <1>3, TestMultibyteIs DEF MultibyteSound
<1>. QED
  BY <1>2, <1>4 DEF RoutinesSound, CutSound, PiecesSound, InPlaceSound, SearchSound,
                    DirectorySound, ListSound, NumberSound

\* The calls of dStristr.
LEMMA StristrCall ==
  CallStristr => RoutinesSound'
<1>. SUFFICES ASSUME CallStristr PROVE RoutinesSound'
  OBVIOUS
<1>1. PICK s \in Text({97, 65, 98}), t \in BoundedSeq({97, 65, 66}, 2) :
        text' = [fn |-> "stristr", s |-> s, t |-> t, out |-> Stristr(s, t)]
  BY DEF CallStristr
<1>2. text'.fn = "stristr" /\ text'.s = s /\ text'.t = t /\ text'.out = Stristr(s, t)
  BY <1>1
<1>3. s \in Str
  <2>1. {97, 65, 98} \in SUBSET Int
    OBVIOUS
  <2>. QED
    BY <2>1, StrIs
<1>4. t \in Str /\ \A i \in DOMAIN t : t[i] # NUL
  <2>1. {97, 65, 66} \in SUBSET Int /\ NUL \notin {97, 65, 66}
    BY DEF NUL
  <2>2. t \in Str /\ t \in Seq({97, 65, 66})
    BY <2>1, ShortIs
  <2>3. \A i \in DOMAIN t : t[i] \in {97, 65, 66}
    <3>1. DOMAIN t = 1 .. Len(t)
      BY <2>2, LenProperties
    <3>. QED
      BY <2>2, <3>1, ElementOfSeq
  <2>. QED
    BY <2>1, <2>2, <2>3
<1>5. SearchSound'
  BY <1>2, <1>3, <1>4, StristrIs DEF SearchSound
<1>. QED
  BY <1>2, <1>5 DEF RoutinesSound, CutSound, PiecesSound, InPlaceSound, MultibyteSound,
                    DirectorySound, ListSound, NumberSound

\* The calls of createDirectory.
LEMMA DirectoryCall ==
  CallCreateDirectory => RoutinesSound'
<1>. SUFFICES ASSUME CallCreateDirectory PROVE RoutinesSound'
  OBVIOUS
<1>0. PICK path \in Text({97, 98, 47}) \ {<<>>} :
        \E there \in [DOMAIN Names(path, 47) -> {"no", "dir", "file"}],
           rival \in SUBSET (DOMAIN Names(path, 47)) :
          /\ \A j, k \in DOMAIN there : j < k /\ there[j] # "dir" => there[k] = "no"
          /\ \A j \in DOMAIN there, k \in rival : there[k] = "no" /\ (j < k => there[j] # "file")
          /\ text' = [fn |-> "createDirectory", s |-> path, there |-> there, rival |-> rival,
                      names |-> Names(path, 47), out |-> CreateDirectory(there, rival)]
  BY DEF CallCreateDirectory
<1>1. PICK there \in [DOMAIN Names(path, 47) -> {"no", "dir", "file"}],
           rival \in SUBSET (DOMAIN Names(path, 47)) :
        /\ \A j, k \in DOMAIN there : j < k /\ there[j] # "dir" => there[k] = "no"
        /\ \A j \in DOMAIN there, k \in rival : there[k] = "no" /\ (j < k => there[j] # "file")
        /\ text' = [fn |-> "createDirectory", s |-> path, there |-> there, rival |-> rival,
                    names |-> Names(path, 47), out |-> CreateDirectory(there, rival)]
  BY <1>0
<1>2. /\ text'.fn = "createDirectory" /\ text'.rival = rival
      /\ text'.out = CreateDirectory(there, rival)
  BY <1>1
<1>. DEFINE names == Names(path, 47)
            n == Len(names)
<1>3. n \in Nat /\ DOMAIN names = 1 .. n
  <2>1. path \in Str
    <3>1. {97, 98, 47} \in SUBSET Int
      OBVIOUS
    <3>. QED
      BY <3>1, StrIs
  <2>2. names \in Seq(Str)
    BY <2>1, NamesIs
  <2>. QED
    BY <2>2, LenProperties
<1>. HIDE DEF n
<1>4. there \in [1 .. n -> Entry] /\ DOMAIN there = 1 .. n /\ rival \in SUBSET (1 .. n)
  BY <1>3 DEF Entry
<1>5. DirectorySound'
  <2>1. LET out == CreateDirectory(there, rival)
            end == out.there IN
         /\ out.ok => \A k \in DOMAIN end : end[k] = "dir" \/ (k = Len(end) /\ end[k] = "file")
         /\ ~out.ok => rival # {} \/ \E k \in DOMAIN end : end[k] = "file"
         /\ \A k \in DOMAIN end : end[k] = "dir" /\ k > 1 => end[k - 1] = "dir"
    BY <1>1, <1>3, <1>4, DirectoryIs
  <2>. QED
    BY <1>2, <2>1 DEF DirectorySound
<1>. QED
  BY <1>2, <1>5 DEF RoutinesSound, CutSound, PiecesSound, InPlaceSound, MultibyteSound,
                    SearchSound, ListSound, NumberSound

\* The calls of _qsort_pointer.
LEMMA QsortPointerCall ==
  CallQsortPointer => RoutinesSound'
<1>. SUFFICES ASSUME CallQsortPointer PROVE RoutinesSound'
  OBVIOUS
<1>1. PICK list \in Text({NUL, 97, 98}) :
        text' = [fn |-> "qsortPointer", s |-> list, out |-> QsortPointer(list)]
  BY DEF CallQsortPointer
<1>2. text'.fn = "qsortPointer" /\ text'.s = list /\ text'.out = QsortPointer(list)
  BY <1>1
<1>3. list \in Str
  <2>1. {NUL, 97, 98} \in SUBSET Int
    BY DEF NUL
  <2>. QED
    BY <2>1, StrIs
<1>4. ListSound'
  BY <1>2, <1>3, ListIs DEF ListSound
<1>. QED
  BY <1>2, <1>4 DEF RoutinesSound, CutSound, PiecesSound, InPlaceSound, MultibyteSound,
                    SearchSound, DirectorySound, NumberSound

\* The calls of getNumberBit and the divisions.
LEMMA NumberCall ==
  CallNumber => RoutinesSound'
<1>. SUFFICES ASSUME CallNumber PROVE RoutinesSound'
  OBVIOUS
<1>0. PICK a \in 0 .. MaxNumber :
        \/ text' = [fn |-> "numberBit", a |-> a, out |-> NumberBit(a)]
        \/ \E b \in 0 .. 7, floor \in BOOLEAN :
             text' = [fn |-> "division", a |-> a, b |-> b, floor |-> floor,
                      out |-> Division(a, b, floor, 8)]
  BY DEF CallNumber
<1>1. a \in Nat
  BY RoutinesAssumption
<1>2. CASE text' = [fn |-> "numberBit", a |-> a, out |-> NumberBit(a)]
  <2>1. text'.fn = "numberBit" /\ text'.a = a /\ text'.out = NumberBit(a)
    BY <1>2
  <2>2. a < TenTo[NumberBit(a)] /\ (a > 0 => TenTo[NumberBit(a) - 1] <= a)
    BY <1>1, DigitsFit
  <2>3. NumberSound'
    BY <2>1, <2>2 DEF NumberSound
  <2>. QED
    BY <2>1, <2>3 DEF RoutinesSound, CutSound, PiecesSound, InPlaceSound, MultibyteSound,
                      SearchSound, DirectorySound, ListSound
<1>3. CASE \E b \in 0 .. 7, floor \in BOOLEAN :
             text' = [fn |-> "division", a |-> a, b |-> b, floor |-> floor,
                      out |-> Division(a, b, floor, 8)]
  <2>0. PICK b \in 0 .. 7, floor \in BOOLEAN :
          text' = [fn |-> "division", a |-> a, b |-> b, floor |-> floor,
                   out |-> Division(a, b, floor, 8)]
    BY <1>3
  <2>1. /\ text'.fn = "division" /\ text'.a = a /\ text'.b = b /\ text'.floor = floor
        /\ text'.out = Division(a, b, floor, 8)
    BY <2>0
  <2>2. ASSUME b > 0, a < 7 * b
        PROVE  IF floor THEN Division(a, b, floor, 8) * b <= a /\ a < (Division(a, b, floor, 8) + 1) * b
               ELSE (Division(a, b, floor, 8) - 1) * b < a /\ a <= Division(a, b, floor, 8) * b
    <3>1. b \in 1 .. 7
      BY <2>2
    <3>. QED
      BY <1>1, <2>2, <3>1, DivisionIs
  <2>3. NumberSound'
    BY <2>1, <2>2 DEF NumberSound
  <2>. QED
    BY <2>1, <2>3 DEF RoutinesSound, CutSound, PiecesSound, InPlaceSound, MultibyteSound,
                      SearchSound, DirectorySound, ListSound
<1>. QED
  BY <1>0, <1>2, <1>3

\* The text, list, directory and digit routines keep their promises on every text
\* of every length, whatever the buffer behind it.
THEOREM RoutinesCorrect == RoutinesSpec => []RoutinesSound
<1>1. text = NoText => RoutinesSound
  <2>. SUFFICES ASSUME text = NoText PROVE RoutinesSound
    OBVIOUS
  <2>1. text.fn = "none"
    BY DEF NoText
  <2>. QED
    BY <2>1 DEF RoutinesSound, CutSound, PiecesSound, InPlaceSound, MultibyteSound,
                SearchSound, DirectorySound, ListSound, NumberSound
<1>2. text' = NoText => RoutinesSound'
  <2>. SUFFICES ASSUME text' = NoText PROVE RoutinesSound'
    OBVIOUS
  <2>1. text'.fn = "none"
    BY DEF NoText
  <2>. QED
    BY <2>1 DEF RoutinesSound, CutSound, PiecesSound, InPlaceSound, MultibyteSound,
                SearchSound, DirectorySound, ListSound, NumberSound
<1>3. RoutinesInit => RoutinesSound
  BY <1>1 DEF RoutinesInit
<1>4. RoutinesSound /\ [RoutinesNext]_text => RoutinesSound'
  <2>1. ASSUME UNCHANGED text, RoutinesSound PROVE RoutinesSound'
    <3>1. CutSound'
      BY <2>1 DEF RoutinesSound, CutSound
    <3>2. PiecesSound'
      BY <2>1 DEF RoutinesSound, PiecesSound
    <3>3. InPlaceSound'
      BY <2>1 DEF RoutinesSound, InPlaceSound
    <3>4. MultibyteSound'
      BY <2>1 DEF RoutinesSound, MultibyteSound
    <3>5. SearchSound'
      BY <2>1 DEF RoutinesSound, SearchSound
    <3>6. DirectorySound'
      BY <2>1 DEF RoutinesSound, DirectorySound
    <3>7. ListSound'
      BY <2>1 DEF RoutinesSound, ListSound
    <3>8. NumberSound'
      BY <2>1 DEF RoutinesSound, NumberSound
    <3>. QED
      BY <3>1, <3>2, <3>3, <3>4, <3>5, <3>6, <3>7, <3>8 DEF RoutinesSound
  <2>2. ASSUME RoutinesNext PROVE RoutinesSound'
    BY <1>2, <2>2, CutCall, ReplaceCall, SplitCall, WipeOffCall, FiltrationBlankCall,
       TestMultibyteCall, StristrCall, DirectoryCall, QsortPointerCall, NumberCall
       DEF RoutinesNext, AnyRoutine
  <2>. QED
    BY <2>1, <2>2
<1>. QED
  BY <1>3, <1>4, PTL DEF RoutinesSpec

=============================================================================
