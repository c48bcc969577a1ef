----------------------------- MODULE Arithmetic -----------------------------
(***************************************************************************)
(* The saturating arithmetic of common/basic/basicFunctions.cpp, for one   *)
(* word width: the 32 and 64 bit functions, and the int8 one, are the same *)
(* code.  A caller asks canUpdateX and then calls updateX on the same      *)
(* arguments; a behaviour is a series of such pairs, and of single calls.  *)
(*                                                                         *)
(* Unsigned sums wrap.  A signed sum that leaves the word is undefined: a  *)
(* build either wraps it and then runs the test that looks for the wrong   *)
(* sign, or drops the test as one that can never be true.                  *)
(***************************************************************************)
EXTENDS Integers

CONSTANT Half   \* 2^(w-1), for a word of w bits

ASSUME HalfAssumption == Half \in Nat \ {0}

VARIABLE arith  \* the last call: its arguments and what came of it

Unsigned == 0 .. 2 * Half - 1
Signed   == -Half .. Half - 1

\* An unsigned result, of a sum or a difference of two words.
Wrap(n) == IF n < 0 THEN n + 2 * Half ELSE IF n >= 2 * Half THEN n - 2 * Half ELSE n

\* The tests that the sum t of v and u has neither wrapped nor passed max.
Passed(t, v, u, max) == t > max \/ t < v \/ t < u

\* getAddValue
GetAddValue(v, u, max) ==
  LET sum == Wrap(v + u) IN IF v > sum \/ sum >= max THEN max ELSE sum

\* addValue.  -1 * nValue overflows for the least number alone, and is Half as a
\* uint32 all the same.
AddValue(v, i, max) ==
  LET sum == IF i < 0 /\ v < -i THEN 0 ELSE Wrap(v + i) IN
  IF sum > max THEN max ELSE sum

\* canUpdateUint32 and updateUint32 by a signed number (and the 64 bit ones)
CanUpdateUint(v, i, max) ==
  \/ i = 0
  \/ i < 0 /\ v >= -i
  \/ i > 0 /\ ~Passed(Wrap(v + i), v, i, max)

\* Mutant of UpdateUint: the sum is compared with the limit alone.
UpdateUintUnwrapped(v, i, max) ==
  IF i < 0 THEN IF v < -i THEN 0 ELSE Wrap(v + i)
  ELSE IF Wrap(v + i) > max THEN max ELSE Wrap(v + i)

UpdateUint(v, i, max) ==
  IF i < 0 THEN IF v < -i THEN 0 ELSE Wrap(v + i)
  ELSE IF Passed(Wrap(v + i), v, i, max) THEN max ELSE Wrap(v + i)

\* The two-way forms: what could not be added or taken stays in uUpdate.
CanTransfer(v, u, add, max) ==
  \/ u = 0
  \/ add /\ ~Passed(Wrap(v + u), v, u, max)
  \/ ~add /\ v >= u

Transfer(v, u, add, max) ==
  LET t == IF add THEN IF Passed(Wrap(v + u), v, u, max) THEN max ELSE Wrap(v + u)
           ELSE IF v >= u THEN v - u ELSE 0
  IN  [out |-> t, rest |-> Wrap(u - Wrap(IF add THEN t - v ELSE v - t))]

\* iMax and iMin, and the cut to them
Upper(max, min) == IF max < min THEN min ELSE max
Cut(n, max, min) == IF n < min THEN min ELSE IF n > Upper(max, min) THEN Upper(max, min) ELSE n

\* setInt, setInt8: an unchanged value is not cut.
SetInt(old, new, max, min) ==
  IF old = new THEN [ok |-> FALSE, out |-> old]
  ELSE [ok |-> TRUE, out |-> Cut(new, max, min)]

BothNegative(v, i) == v < 0 /\ i < 0
BothPositive(v, i) == v > 0 /\ i > 0

\* v + i, as a word: what it wraps to when it leaves the word.
SignedWrap(n) == IF n < -Half THEN n + 2 * Half ELSE IF n >= Half THEN n - 2 * Half ELSE n

\* updateInt, updateInt64: the possible results.
UpdateInt(v, i, max, min) ==
  LET sum  == SignedWrap(v + i)
      seen == IF BothNegative(v, i) /\ sum > 0 THEN min
              ELSE IF BothPositive(v, i) /\ sum < 0 THEN Upper(max, min) ELSE sum
  IN  IF i = 0 THEN {v}
      ELSE {Cut(seen, max, min)} \cup
           {Cut(n, max, min) : n \in IF sum = v + i THEN {} ELSE {sum}}

\* canUpdateInt64: no limit is looked at when the signs differ.
CanUpdateInt(v, i, max, min) ==
  LET sum    == SignedWrap(v + i)
      within == IF BothNegative(v, i) THEN sum >= min
                ELSE BothPositive(v, i) => sum <= Upper(max, min)
      signed == /\ BothNegative(v, i) => sum <= 0
                /\ BothPositive(v, i) => sum >= 0
  IN  IF i = 0 THEN {FALSE}
      ELSE {within /\ signed} \cup
           IF sum = v + i THEN {} ELSE {within}

(***************************************************************************)
(* The calls.                                                              *)
(***************************************************************************)
NoSum == [fn |-> "none"]

ArithmeticInit == arith = NoSum

CallGetAddValue ==
  \E v, u, max \in Unsigned :
    arith' = [fn |-> "getAddValue", v |-> v, u |-> u, max |-> max,
              out |-> GetAddValue(v, u, max)]

CallAddValue ==
  \E v, max \in Unsigned, i \in Signed :
    arith' = [fn |-> "addValue", v |-> v, u |-> i, max |-> max,
              out |-> AddValue(v, i, max)]

CallUpdateUint ==
  \E v, max \in Unsigned, i \in Signed :
    arith' = [fn |-> "updateUint", v |-> v, u |-> i, max |-> max,
              can |-> CanUpdateUint(v, i, max), out |-> UpdateUint(v, i, max)]

CallTransfer ==
  \E v, u, max \in Unsigned, add \in BOOLEAN :
    arith' = [fn |-> "transfer", v |-> v, u |-> u, add |-> add, max |-> max,
              can |-> CanTransfer(v, u, add, max),
              out |-> Transfer(v, u, add, max).out,
              rest |-> Transfer(v, u, add, max).rest]

CallSetInt ==
  \E old, new, max, min \in Signed :
    arith' = [fn |-> "setInt", v |-> old, u |-> new, max |-> max, min |-> min,
              can |-> SetInt(old, new, max, min).ok,
              out |-> SetInt(old, new, max, min).out]

CallUpdateInt ==
  \E v, i, max, min \in Signed :
    \E can \in CanUpdateInt(v, i, max, min), out \in UpdateInt(v, i, max, min) :
      arith' = [fn |-> "updateInt", v |-> v, u |-> i, max |-> max, min |-> min,
                can |-> can, out |-> out]

Call == \/ CallGetAddValue \/ CallAddValue \/ CallUpdateUint \/ CallTransfer
        \/ CallSetInt \/ CallUpdateInt

ArithmeticNext == IF arith = NoSum THEN Call ELSE arith' = NoSum

ArithmeticSpec == ArithmeticInit /\ [][ArithmeticNext]_arith

-----------------------------------------------------------------------------
(***************************************************************************)
(* Properties, in the arithmetic of the integers.                          *)
(***************************************************************************)
Least(a, b) == IF a <= b THEN a ELSE b

\* getAddValue saturates for every pair of words; addValue does so downwards,
\* but a sum past the word comes out near zero, below both limit and value.
AddSound ==
  /\ arith.fn = "getAddValue" => arith.out = Least(arith.v + arith.u, arith.max)
  /\ arith.fn = "addValue" =>
       arith.out = LET n == arith.v + arith.u IN
                   Least(IF n < 0 THEN 0 ELSE IF n >= 2 * Half THEN n - 2 * Half ELSE n,
                         arith.max)

\* An update that canUpdateUint agreed to loses nothing, except that one by 0
\* still cuts to the limit; one it refused ends at 0 or at the limit.
UpdateUintSound ==
  arith.fn = "updateUint" =>
    /\ arith.can /\ arith.u # 0 => arith.out = arith.v + arith.u
    /\ ~arith.can => arith.out = IF arith.u < 0 THEN 0 ELSE arith.max
    /\ arith.out <= arith.max \/ (arith.u < 0 /\ arith.out < arith.v)

\* A transfer creates and destroys nothing, as long as the value starts within
\* its limit: adding moves units, taking leaves the units that were not there.
\* It is complete exactly when canUpdateUint agreed.
TransferSound ==
  arith.fn = "transfer" =>
    /\ arith.v <= arith.max =>
         /\ arith.out <= arith.max
         /\ arith.add => arith.out + arith.rest = arith.v + arith.u
         /\ arith.can <=> arith.rest = 0
    /\ ~arith.add => arith.v - arith.out = arith.u - arith.rest

\* A signed update that stays in the word saturates; none leaves the limits,
\* unless it changes nothing.  canUpdateInt64 speaks for the limits only when
\* the signs agree.
UpdateIntSound ==
  arith.fn = "updateInt" =>
    /\ arith.u # 0 => arith.min <= arith.out /\ arith.out <= Upper(arith.max, arith.min)
    /\ arith.u # 0 /\ arith.v + arith.u \in Signed =>
         /\ arith.out = Cut(arith.v + arith.u, arith.max, arith.min)
         /\ BothNegative(arith.v, arith.u) =>
              (arith.can <=> arith.v + arith.u >= arith.min)
         /\ BothPositive(arith.v, arith.u) =>
              (arith.can <=> arith.v + arith.u <= Upper(arith.max, arith.min))

\* setInt leaves the limits only by leaving the value alone.
SetIntSound ==
  arith.fn = "setInt" =>
    /\ arith.can <=> arith.v # arith.u
    /\ arith.can => arith.min <= arith.out /\ arith.out <= Upper(arith.max, arith.min)
    /\ arith.v = arith.u => arith.out = arith.v

\* What the functions promise their callers, for every pair of words.
ArithmeticSound ==
  AddSound /\ UpdateUintSound /\ TransferSound /\ UpdateIntSound /\ SetIntSound
=============================================================================
