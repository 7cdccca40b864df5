--------------------------------- MODULE Camera ---------------------------------
(***************************************************************************)
(* The camera of the client (src/src/Camera.cpp), what the mouse does to   *)
(* it in Client::OnMouse, and the buttons of an inspector that make it     *)
(* follow an object.  The two axes behave alike, so there is one.          *)
(*                                                                         *)
(* Scale and offset are whole numbers of 1 / den, and each turn of the     *)
(* wheel, by 4/5 or 6/5, makes the den of the transformation five times    *)
(* what it was, so that nothing is rounded.  A point of the grid is a      *)
(* fraction.  The scale a client starts with counts as one.                *)
(***************************************************************************)
EXTENDS Integers

CONSTANTS Cells,        \* where on the screen the mouse can be
          Places,       \* where in the grid the object can be
          Widths,       \* the width of the canvas: two dots for each cell
          MaxTurns,     \* bound: turns of the wheel
          MaxPanned     \* bound: dots that the view is moved by

ASSUME CameraAssumption ==
  /\ Cells \cup Places \subseteq Int /\ Widths \subseteq {w \in Nat : w % 2 = 0}
  /\ {MaxTurns, MaxPanned} \subseteq Nat

Identity == [scale |-> 1, off |-> 0, den |-> 1]

VARIABLES trans,             \* the transformation, by its scale and offset
          c_d_trans,         \* former trans, or Unset
          c_i_trans,         \* cached inverse: the transformation it inverts, or Unset
          mouse_screen,      \* two times a cell, plus 3
          place, tracked,    \* where the object is, and whether the camera follows it
          zoomed             \* the turns of the wheel

cameraVars == <<trans, c_d_trans, c_i_trans, mouse_screen, place, tracked, zoomed>>

Unset == [scale |-> 0, off |-> 0, den |-> 1]
Screen(cell) == 2 * (cell - 1) + 3

(* The matrices of the cache have no initialiser: whatever is there is not  *)
(* the transformation, or is what an earlier client left.                   *)
InitCamera ==
  /\ trans = Identity
  /\ c_d_trans \in {Unset, Identity} /\ c_i_trans = c_d_trans
  /\ mouse_screen = 0 /\ place \in Places /\ tracked = FALSE /\ zoomed = 0

(* Altered form: only the scale is compared.                                *)
inverseByScale == IF c_d_trans.scale # trans.scale THEN trans ELSE c_i_trans
(* getTransformationInverse, as the transformation that the result inverts. *)
getTransformationInverse == IF c_d_trans # trans THEN trans ELSE c_i_trans
Refresh == c_d_trans' = trans /\ c_i_trans' = getTransformationInverse

(* The inverse of t applied to the point p of the screen, as a fraction;    *)
(* and t applied to such a fraction, in 1 / den.                            *)
screenToGrid(t, p) == [num |-> t.den * p - t.off, den |-> t.scale]
gridToScreen(t, q) == (t.scale * q.num) \div q.den + t.off

SamePoint(q, r) == q.num * r.den = r.num * q.den

-----------------------------------------------------------------------------
(* Client::OnMouse, after it has noted where the mouse is.                  *)

Move(cell) ==
  /\ mouse_screen' = Screen(cell)
  /\ UNCHANGED <<trans, c_d_trans, c_i_trans, place, tracked, zoomed>>

Pan(cell) ==
  /\ trans' = [trans EXCEPT !.off = @ + trans.den * (Screen(cell) - mouse_screen)]
  /\ trans'.off \in -(MaxPanned * trans.den) .. MaxPanned * trans.den
  /\ mouse_screen' = Screen(cell)
  /\ UNCHANGED <<c_d_trans, c_i_trans, place, tracked, zoomed>>

(* The wheel: the point below the mouse is taken before the scale changes,  *)
(* and the offset is what brings it below the mouse again.                  *)
Rescaled(z) == [scale |-> z * trans.scale, off |-> 5 * trans.off, den |-> 5 * trans.den]
(* Altered form: the offset stays.                                          *)
WheelKeepsOffset(z, cell) ==
  /\ zoomed < MaxTurns /\ zoomed' = zoomed + 1
  /\ Refresh
  /\ trans' = Rescaled(z)
  /\ mouse_screen' = Screen(cell)
  /\ UNCHANGED <<place, tracked>>
Wheel(z, cell) ==
  LET ref == screenToGrid(getTransformationInverse, Screen(cell))
      new == Rescaled(z)
      mos == gridToScreen(new, ref) - new.off - new.den * Screen(cell)
  IN  /\ zoomed < MaxTurns /\ zoomed' = zoomed + 1
      /\ Refresh
      /\ trans' = [new EXCEPT !.off = -mos]
      /\ mouse_screen' = Screen(cell)
      /\ UNCHANGED <<place, tracked>>

(* A click or a controller asks for the point below the mouse.              *)
Ask == Refresh /\ UNCHANGED <<trans, mouse_screen, place, tracked, zoomed>>

(* Camera::Draw follows the object, and its text asks for the inverse.      *)
Followed(w) ==
  IF tracked
  THEN [trans EXCEPT !.off = @ + trans.den * (w \div 2)
                               - gridToScreen(trans, [num |-> place, den |-> 1])]
  ELSE trans

Draw(w) ==
  /\ trans' = Followed(w)
  /\ c_d_trans' = Followed(w)
  /\ c_i_trans' = IF c_d_trans # Followed(w) THEN Followed(w) ELSE c_i_trans
  /\ UNCHANGED <<mouse_screen, place, tracked, zoomed>>

(* The buttons of an inspector, and the object on its way.                  *)
FollowObject(b) == tracked' = b /\ UNCHANGED <<trans, c_d_trans, c_i_trans, mouse_screen, place, zoomed>>
Drift(p) == place' = p /\ UNCHANGED <<trans, c_d_trans, c_i_trans, mouse_screen, tracked, zoomed>>

NextCamera ==
  \/ \E cell \in Cells : Move(cell) \/ Pan(cell) \/ Wheel(4, cell) \/ Wheel(6, cell)
  \/ Ask
  \/ \E w \in Widths : Draw(w)
  \/ \E b \in BOOLEAN : FollowObject(b)
  \/ \E p \in Places : Drift(p)

SpecCamera == InitCamera /\ [][NextCamera]_cameraVars

-----------------------------------------------------------------------------

(* The wheel keeps the point of the grid that is below the mouse where it   *)
(* is, however the view was moved and zoomed before, and whether or not the *)
(* camera follows an object.                                                *)
PointKept ==
  [][\A cell \in Cells : zoomed' # zoomed /\ mouse_screen' = Screen(cell) =>
       SamePoint(screenToGrid(trans, Screen(cell)), screenToGrid(trans', Screen(cell)))]_cameraVars

=============================================================================
