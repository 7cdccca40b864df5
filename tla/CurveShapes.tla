------------------------------- MODULE CurveShapes -------------------------------
(***************************************************************************)
(* The curves that scale what parts of a ship do (src/src/Game/curves),    *)
(* the search for the point of best and of worst return of a curve         *)
(* (NormalCurve.cpp) and a pipe of curves (CurvePipe.cpp), as operators.   *)
(*                                                                         *)
(* A number is a fraction; one with denominator 0 is infinite, or no       *)
(* number when both parts are 0, and compares as in IEEE 754, where zero   *)
(* has no sign.  A step takes one sample of arguments.                     *)
(***************************************************************************)
EXTENDS Integers, Sequences

CONSTANTS NormalCurves,   \* the curves, each with its class and its fields
          Parts,          \* arguments are multiples of 1 / Parts
          Probes          \* the numbers of probes

(* The objects of each class; points of a Bezier curve are in 1 / unit.     *)
Fractions == [n : Int, d : Nat \ {0}]
Curves4 ==
  [class : {"linear"}]
    \cup [class : {"const"}, value : Fractions]
    \cup [class : {"step"}, stepUp : BOOLEAN, numSteps : [n : Nat \ {0}, d : Nat \ {0}]]
    \cup [class : {"bezier"}, points : [0 .. 3 -> Int], weights : [0 .. 3 -> Int], unit : Nat \ {0}]

ASSUME CurveAssumption == NormalCurves \subseteq Curves4 /\ Parts \in Nat \ {0} /\ Probes \subseteq Nat

(* Fractions in lowest terms, their denominators not negative.              *)
gcd[b \in Nat] == [a \in Nat |-> IF b = 0 THEN a ELSE gcd[a % b][b]]
Factor(a, b) == IF a = 0 /\ b = 0 THEN 1 ELSE gcd[b][IF a < 0 THEN -a ELSE a]
Reduced(a, b) == [n |-> a \div Factor(a, b), d |-> b \div Factor(a, b)]
F(a, b) == IF b < 0 THEN Reduced(-a, -b) ELSE Reduced(a, b)
IsNumber(a) == a.n # 0 \/ a.d # 0
Below(a, b) == \/ a.n * b.d < b.n * a.d
               \/ a.d = 0 /\ b.d = 0 /\ a.n < 0 /\ 0 < b.n

-----------------------------------------------------------------------------
(* evaluate of each class, for an r between 0 and 1.                        *)

(* A step goes down when stepUp is set.                                     *)
Steps(c, r) == (r.n * c.numSteps.n) \div (r.d * c.numSteps.d)
Stepped(c, r) == LET v == Steps(c, r) * c.numSteps.d
              IN  F(IF c.stepUp THEN c.numSteps.n - v ELSE v, c.numSteps.n)

Power(b, k) == <<1, b, b * b, b * b * b, b * b * b * b>>[k + 1]
btkvw == <<1, 4, 6, 4>>

(* Altered form: the powers of 1 - r begin one too low, and its sign is     *)
(* that of r - 1.                                                           *)
BernsteinSigned(k, r) == btkvw[k + 1] * Power(r.n - r.d, 3 - k) * Power(r.n, k)
(* The degree is 4, of which only four of the five terms are there.         *)
Bernstein(k, r) == btkvw[k + 1] * Power(r.d - r.n, 4 - k) * Power(r.n, k)

Bezier(c, r) ==
  LET allbutV(k) == Bernstein(k, r) * c.weights[k]
      v(k) == allbutV(k) * c.points[k]
  IN  F(v(0) + v(1) + v(2) + v(3), c.unit * (allbutV(0) + allbutV(1) + allbutV(2) + allbutV(3)))

evaluate(c, r) ==
  CASE c.class = "linear" -> r
    [] c.class = "const"  -> F(c.value.n, c.value.d)
    [] c.class = "step"   -> Stepped(c, r)
    [] c.class = "bezier" -> Bezier(c, r)

-----------------------------------------------------------------------------
(* findMaxEfficiency and findMinEfficiency.  Between equal bounds the       *)
(* distance of two probes is zero, and the loop never ends.                 *)

Ratio(c, x) == F(evaluate(c, x).n * x.d, evaluate(c, x).d * x.n)
Probe(lo, hi, probes, k) == F(lo * probes + k * (hi - lo), Parts * probes)

Endless(lo, hi, probes) == lo = hi /\ probes > 0

(* Altered form: the last probe is left out.                                *)
findShort(c, lo, hi, probes, greatest) ==
  LET x(k) == Probe(lo, hi, probes, k)
      Better(p, q) == IF greatest THEN Below(q, p) ELSE Below(p, q)
      best[k \in 0 .. probes] ==
        IF k = 0 THEN x(0)
        ELSE IF k < probes /\ Better(Ratio(c, x(k)), Ratio(c, best[k - 1])) THEN x(k) ELSE best[k - 1]
  IN  IF probes = 0 \/ hi < lo THEN F(lo, Parts) ELSE best[probes]
find(c, lo, hi, probes, greatest) ==
  LET x(k) == Probe(lo, hi, probes, k)
      Better(p, q) == IF greatest THEN Below(q, p) ELSE Below(p, q)
      best[k \in 0 .. probes] ==
        IF k = 0 THEN x(0)
        ELSE IF Better(Ratio(c, x(k)), Ratio(c, best[k - 1])) THEN x(k) ELSE best[k - 1]
  IN  IF probes = 0 \/ hi < lo THEN F(lo, Parts) ELSE best[probes]

findMaxEfficiency(c, lo, hi, probes) == find(c, lo, hi, probes, TRUE)
findMinEfficiency(c, lo, hi, probes) == find(c, lo, hi, probes, FALSE)

-----------------------------------------------------------------------------
(* CurvePipe::passthough.  min and max give back their first argument when  *)
(* the second is not less, so what is no number becomes zero.               *)

stdMin(a, b) == IF Below(b, a) THEN b ELSE a
stdMax(a, b) == IF Below(a, b) THEN b ELSE a

(* Altered form: the bounds are put on the other way round.                 *)
ClampSwapped(r) == stdMin(stdMax(r, F(0, 1)), F(1, 1))
Clamp(r) == stdMax(F(0, 1), stdMin(r, F(1, 1)))

passthough(stages, r) ==
  LET after[i \in 0 .. Len(stages)] ==
        IF i = 0 THEN r ELSE evaluate(stages[i], Clamp(after[i - 1]))
  IN  after[Len(stages)]

-----------------------------------------------------------------------------
VARIABLE probe
curveVars == <<probe>>

InitCurves == probe = [of |-> "nothing"]

TakeSearch ==
  \E c \in NormalCurves, lo, hi \in 0 .. Parts, n \in Probes :
    ~Endless(lo, hi, n) /\ probe' = [of |-> "search", curve |-> c, lo |-> lo, hi |-> hi, probes |-> n]
(* What a pipe is asked for may also be infinite, or no number.             *)
Asked == {F(n, Parts) : n \in -1 .. Parts + 1} \cup {F(n, 0) : n \in -1 .. 1}
TakePipe ==
  \E c, e \in NormalCurves, r \in Asked : probe' = [of |-> "pipe", stages |-> <<c, e>>, r |-> r]

NextCurves == probe.of = "nothing" /\ (TakeSearch \/ TakePipe)
SpecCurves == InitCurves /\ [][NextCurves]_curveVars

-----------------------------------------------------------------------------
Within01(r) == r.d > 0 /\ 0 <= r.n /\ r.n <= r.d

CurvesTypeOK ==
  /\ probe.of \in {"nothing", "search", "pipe"}
  /\ probe.of = "search" =>
       Within01(findMaxEfficiency(probe.curve, probe.lo, probe.hi, probe.probes))

(* The search ends at a probe that no other, the last one included, is      *)
(* better than.  It passes over a probe whose return is no number (the end  *)
(* of a Bezier curve), unless that is the lower bound (0 of 0 at zero): it  *)
(* then ends where it began, whatever the others return.                    *)
Searched(c, lo, hi, n, greatest) ==
  LET r == find(c, lo, hi, n, greatest)
      first == Probe(lo, hi, n, 0)
  IN  IF ~IsNumber(Ratio(c, first)) THEN r = first
      ELSE /\ IsNumber(Ratio(c, r))
           /\ \A k \in 0 .. n : LET x == Probe(lo, hi, n, k)
                                IN  IF greatest THEN ~Below(Ratio(c, r), Ratio(c, x))
                                                ELSE ~Below(Ratio(c, x), Ratio(c, r))
BestProbed ==
  probe.of = "search" /\ probe.lo <= probe.hi /\ probe.probes > 0 =>
    \A greatest \in BOOLEAN : Searched(probe.curve, probe.lo, probe.hi, probe.probes, greatest)

(* The last stage of a pipe is handed a number between 0 and 1, whatever    *)
(* goes in, and whatever the stage before gives: a constant of 3, infinity  *)
(* or no number.  What comes out need not lie there (NormalCurve.hpp:12);   *)
(* it does when the last stage is normal: a line, steps, a constant from 0  *)
(* to 1, or a Bezier curve of such points whose weights are not negative,   *)
(* which gives no number where all of its terms are 0.                      *)
Normal(c) == /\ c.class = "const" => 0 <= c.value.n /\ c.value.n <= c.value.d
             /\ c.class = "bezier" => \A k \in 0 .. 3 : c.points[k] \in 0 .. c.unit /\ c.weights[k] >= 0
PipeBounded ==
  probe.of = "pipe" =>
    LET last == probe.stages[2]
        into == Clamp(passthough(<<probe.stages[1]>>, probe.r))
        r == passthough(probe.stages, probe.r)
    IN  /\ Within01(into) /\ r = evaluate(last, into)
        /\ Normal(last) => Within01(r) \/ (last.class = "bezier" /\ ~IsNumber(r))

(* Every search and every pipe gives what its reference definition says.    *)
CurvesAgree == CurvesTypeOK /\ BestProbed /\ PipeBounded
=============================================================================
