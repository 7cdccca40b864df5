------------------------------- MODULE ShipMotion -------------------------------
(***************************************************************************)
(* How a ship turns: Transform and RotationHandler, the navigation         *)
(* pattern, the drive train, and the two updates that processGrid makes of *)
(* an object.                                                              *)
(*                                                                         *)
(* Angles, spins and accelerations are in sevenths of a radian, pi being   *)
(* 22 / 7, and an update takes a second; a spin below one seventh is cut   *)
(* off, as the code does below 0.00001.  The sines and cosines of the      *)
(* matrix are stood for by the angle that it was made from, and the place  *)
(* the drive pushes the ship to is left out.                               *)
(***************************************************************************)
EXTENDS Integers

CONSTANTS Targets,     \* what GetResult of a line can give as targetRot
          LineRates    \* and, times u_rotAccele, as rate

HalfTurn == 22
FullTurn == 44
Radian == 7
u_rotAccele == 2       \* a tenth of a half turn

(* The length of a line is a share of the screen: nothing for a click, and  *)
(* one at most.                                                             *)
ASSUME ShipMotionAssumption ==
  Targets \subseteq -HalfTurn .. HalfTurn /\ LineRates \subseteq 0 .. u_rotAccele

VARIABLES rotation,          \* _rotation
          matrix,            \* the angle that mat was made from
          isMatBad,
          angularVelocity,
          navPattern         \* NONE, or the pattern of the ship

motionVars == <<rotation, matrix, isMatBad, angularVelocity, navPattern>>

NONE == [state |-> "NONE"]
ALIGN(t, a) == [state |-> "ALIGN", targetRot |-> t, rate |-> a]

InitMotion ==
  /\ rotation = 0 /\ matrix = 0 /\ isMatBad = FALSE /\ angularVelocity = 0
  /\ navPattern = NONE

-----------------------------------------------------------------------------
(* RotationHandler.                                                         *)

RotScale(r) == IF r >= 0 THEN r % FullTurn ELSE -((-r) % FullTurn)   \* fmod keeps the sign
RotDiff(a, b) == LET tr == RotScale(b - a) IN IF tr > HalfTurn THEN HalfTurn - tr ELSE tr

(* Altered form: the angle is not scaled.                                   *)
setRotationUnscaled(h, r) == [h EXCEPT !.rotation = r, !.bad = r # h.rotation]
(* What setRotation, by way of rotateBy, and getUTD make of [rotation,      *)
(* matrix, bad].  A rotation that is set to what it is clears the flag.     *)
setRotation(h, r) == [h EXCEPT !.rotation = RotScale(r), !.bad = RotScale(r) # h.rotation]
getUTD(h) == IF h.bad THEN [h EXCEPT !.matrix = h.rotation, !.bad = FALSE] ELSE h

Handler == [rotation |-> rotation, matrix |-> matrix, bad |-> isMatBad]
Set(h) == rotation' = h.rotation /\ matrix' = h.matrix /\ isMatBad' = h.bad

-----------------------------------------------------------------------------
(* ALIGN::nav_update, the only pattern that does anything.                  *)

Between(lo, x, hi) == IF x < lo THEN lo ELSE IF x > hi THEN hi ELSE x
Quotient(x, y) == IF x >= 0 THEN x \div y ELSE -((-x) \div y)   \* what is less than one is cut off

(* The spin that is steered for.                                            *)
Steered(h) == Quotient(RotDiff(h.rotation, navPattern.targetRot) * navPattern.rate, Radian)
(* Altered form: the spin there is already is not taken off.                *)
navUpdateUnbraked(h) ==
  IF navPattern.state = "ALIGN"
  THEN angularVelocity + Between(-navPattern.rate, Steered(h), navPattern.rate)
  ELSE angularVelocity
nav_update(h) ==
  IF navPattern.state = "ALIGN"
  THEN angularVelocity + Between(-navPattern.rate, Steered(h) - angularVelocity, navPattern.rate)
  ELSE angularVelocity

(* processGrid: GameObject::Update turns the ship; Ship::Update has the     *)
(* drive push it along the matrix, which brings that up to date even when   *)
(* the throttle is zero, and then lets the pattern change the spin.         *)
Turned == setRotation(Handler, rotation + angularVelocity)
(* Altered form: the drive does not ask for the matrix.                     *)
DrivenStale == Turned
Driven == getUTD(Turned)

Update ==
  /\ Set(Driven)
  /\ angularVelocity' = nav_update(Driven)
  /\ UNCHANGED navPattern

(* setNavPattern, when a line is drawn.                                     *)
setNavPattern(t, a) ==
  /\ navPattern' = ALIGN(t, a) /\ navPattern' # navPattern
  /\ UNCHANGED <<rotation, matrix, isMatBad, angularVelocity>>

NextMotion == Update \/ \E t \in Targets, a \in LineRates : setNavPattern(t, a)

(* The main loop of the client updates the grid in every turn.              *)
SpecMotion == InitMotion /\ [][NextMotion]_motionVars /\ WF_motionVars(Update)

-----------------------------------------------------------------------------
(* Properties.                                                              *)

MotionTypeOK ==
  /\ {rotation, matrix} \subseteq 1 - FullTurn .. FullTurn - 1
  /\ navPattern \in {NONE} \cup {ALIGN(t, a) : t \in Targets, a \in LineRates}

(* The flag may be cleared by setting the same rotation again while the     *)
(* matrix is old.  With the order of the calls in an update it never is:    *)
(* between updates the matrix is that of the rotation, so a point that is   *)
(* tested against the body, which does not refresh it, is tested rightly.   *)
MatrixFresh == matrix = rotation /\ ~isMatBad

(* The spin never exceeds a full turn times u_rotAccele, however often one  *)
(* order cuts another short and whichever way RotDiff sends the ship.       *)
MaxSpin == (FullTurn * u_rotAccele) \div Radian
SpinBounded == -MaxSpin <= angularVelocity /\ angularVelocity <= MaxSpin

(* A ship left to an order with some acceleration comes to rest, and points *)
(* as the order says but for what the cut-off hides: the weaker the order,  *)
(* the more.  What may keep it from that is RotDiff, when the ship comes    *)
(* again and again to where it counts more than half a turn.  An order of   *)
(* no acceleration, a click in place of a line, neither starts nor ends a   *)
(* spin.                                                                    *)
Ordered(t, a) == navPattern = ALIGN(t, a)
Aligned(t, a) == angularVelocity = 0 /\ Quotient(RotDiff(rotation, t) * a, Radian) = 0
LongWay(t) == RotScale(t - rotation) \notin -HalfTurn .. HalfTurn
AlignSettles ==
  \A t \in Targets, a \in LineRates :
    <>[]Ordered(t, a) =>
      IF a > 0 THEN <>[]Aligned(t, a) \/ []<>LongWay(t)
               ELSE <>[](angularVelocity = 0) \/ <>[](angularVelocity # 0)

(* The motion: the matrix is that of the rotation, and the spin is bounded. *)
MotionInv == MotionTypeOK /\ MatrixFresh /\ SpinBounded
=============================================================================
