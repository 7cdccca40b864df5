-------------------------------- MODULE Gestures --------------------------------
(***************************************************************************)
(* The mouse over the canvas of the client: Client::OnMouse, the stack of  *)
(* input controllers and the two controllers there are, the rectangle      *)
(* that selects objects and the line that steers ships.                    *)
(*                                                                         *)
(* An event goes to the controller on top before OnMouse has noted where   *)
(* the mouse is.  Between the events the main loop of Client::run takes    *)
(* down the controller that has finished and lets the buttons of the       *)
(* windows, which are responders by then, put up new ones.  The camera is  *)
(* at rest: a point is the point of the grid below the mouse.              *)
(***************************************************************************)
EXTENDS Integers, FiniteSets, SequencesExt

CONSTANTS Points,        \* where the mouse can be, in one dimension
          Ships,         \* the objects of the grid
          Where,         \* the point where each of them rests
          Own,           \* the ship of the client
          Nothing,       \* a null pointer
          MaxWaiting,    \* bound: navigation buttons pressed in one turn
          MaxStack       \* bound: controllers on the stack

ASSUME GesturesAssumption ==
  /\ Points \subseteq Int /\ 0 \in Points /\ Where \in [Ships -> Points] /\ Own \in Ships
  /\ Nothing \notin Ships /\ {MaxWaiting, MaxStack} \subseteq Nat /\ MaxWaiting < MaxStack

VARIABLES InputControllers, \* the stack; the rectangle is static, its state is in rect
          rect,             \* the one ICSelectGridRectangle of the process
          mouse,            \* cam.mouse_screen
          mouseHeld, press, \* static in OnMouse: the count of events and initialPress_screen
          selected,         \* the ships in selectedGOs
          course,           \* the line that the navigation of a ship was made from
          waiting,          \* responders that put up a line
          currentGrid,      \* whether the grid is there
          crashed           \* a null pointer was followed

gestureVars == <<InputControllers, rect, mouse, mouseHeld, press, selected, course,
                 waiting, currentGrid, crashed>>

HeldCap == 5    \* more events than this make no difference to mouseHeld > 4

Rectangle == [kind |-> "rect"]
NewLine == [kind |-> "line", state |-> "UNSTARTED", from |-> 0, to |-> 0]

InitGestures ==
  /\ InputControllers = <<>>
  /\ rect = [made |-> FALSE, state |-> "PICK_LOWERBOUNDS", pos |-> 0, size |-> 0, forced |-> FALSE]
  /\ mouse = 0 /\ mouseHeld = 0 /\ press = 0 /\ waiting = 0
  /\ selected = {} /\ course = [s \in Ships |-> Nothing]
  /\ currentGrid = FALSE /\ crashed = FALSE

-----------------------------------------------------------------------------
(* The controllers.                                                         *)

Top == Last(InputControllers)
State(ic) == IF ic = Rectangle THEN rect.state ELSE ic.state
(* Altered form: a line that was begun counts as done.                      *)
IsBegun(ic) == State(ic) \in {"POINTING", "FINISHED"}
IsDone(ic) == State(ic) = "FINISHED"
IsFinished(ic) == (ic = Rectangle /\ rect.forced) \/ IsDone(ic)

(* Altered form: the forced end is not taken back.                          *)
resetKeepsForced(r) == [r EXCEPT !.state = "PICK_LOWERBOUNDS", !.pos = 0, !.size = 0]
(* ICSelectGridRectangle::reset.                                            *)
resetRect(r) == [r EXCEPT !.forced = FALSE, !.state = "PICK_LOWERBOUNDS", !.pos = 0, !.size = 0]

(* ICLine::OnEvent, for the left button; the mouse is where it was.         *)
LineOnEvent(ic, motion) ==
  CASE ic.state = "UNSTARTED" ->
         [ic EXCEPT !.from = mouse, !.to = mouse,
                    !.state = IF motion = "Pressed" THEN "POINTING" ELSE @]
    [] ic.state = "POINTING" ->
         [ic EXCEPT !.to = mouse, !.state = IF motion = "Released" THEN "FINISHED" ELSE @]
    [] OTHER -> ic

(* ICSelectGridRectangle::OnEvent.  It keeps the release of the left button *)
(* for itself.                                                              *)
Follow(r) == IF r.state = "PICK_LOWERBOUNDS" THEN [r EXCEPT !.pos = mouse]
             ELSE [r EXCEPT !.size = mouse - r.pos]
RectOnEvent(r, motion, button) ==
  IF motion = "Released" /\ button = "Left"
  THEN [Follow(r) EXCEPT !.state =
          IF @ = "PICK_LOWERBOUNDS" THEN "PICK_UPPERBOUNDS" ELSE "FINISHED"]
  ELSE Follow(r)

OnTop(ic) == InputControllers # <<>> /\ Top = ic
Swallows(motion, button) ==
  OnTop(Rectangle) /\ ~IsDone(Rectangle) /\ motion = "Released" /\ button = "Left"

-----------------------------------------------------------------------------
(* What lies where.                                                         *)

(* Grid::ObjectAt, and Grid::ObjectsWithin, which moves the rectangle by    *)
(* the position of the object and not the object.                           *)
ObjectAt(p) == {s \in Ships : Where[s] = p}
ObjectsWithin(lo, hi) == {s \in Ships : lo + Where[s] < 1 /\ hi + Where[s] > -1}
Lower(a, b) == IF a < b THEN a ELSE b
Upper(a, b) == IF a < b THEN b ELSE a
Normalised(r) == <<Lower(r.pos, r.pos + r.size), Upper(r.pos, r.pos + r.size)>>  \* GetResult

-----------------------------------------------------------------------------
(* Client::OnMouse.                                                         *)

Held == IF mouseHeld > HeldCap THEN mouseHeld ELSE mouseHeld + 1
OpensRectangle(button) == button = "Left" /\ Held > 4 /\ InputControllers = <<>>

(* The first time the rectangle is made, later it is reset.                 *)
Opened == [resetRect(rect) EXCEPT !.made = TRUE, !.state = "PICK_UPPERBOUNDS", !.pos = press']

Press(p, button) ==
  /\ mouseHeld' = Held
  /\ press' = IF mouseHeld = 1 THEN p ELSE press
  /\ IF OpensRectangle(button)
     THEN InputControllers' = <<Rectangle>> /\ rect' = Opened
     ELSE /\ InputControllers' = IF button = "Left" /\ InputControllers # <<>> /\ Top # Rectangle
                                 THEN Append(Front(InputControllers), LineOnEvent(Top, "Pressed"))
                                 ELSE InputControllers
          /\ rect' = IF OnTop(Rectangle) /\ ~IsDone(Rectangle)
                     THEN RectOnEvent(rect, "Pressed", button) ELSE rect
  /\ UNCHANGED <<selected, crashed>>

Release(p, button) ==
  /\ mouseHeld' = 0
  /\ InputControllers' = IF button = "Left" /\ InputControllers # <<>> /\ Top # Rectangle
                         THEN Append(Front(InputControllers), LineOnEvent(Top, "Released"))
                         ELSE InputControllers
  /\ rect' = IF OnTop(Rectangle) /\ ~IsDone(Rectangle)
             THEN RectOnEvent(rect, "Released", button) ELSE rect
  /\ selected' = IF button = "Left" /\ currentGrid THEN selected \cup ObjectAt(p) ELSE selected
  /\ crashed' = (button \in {"Left", "Right"} /\ ~currentGrid)
  /\ press' = press

(* An event of the mouse while the canvas has the focus.  A mouse that only *)
(* moves presses the button None.                                           *)
OnMouse(p, motion, button) ==
  /\ ~crashed
  /\ IF Swallows(motion, button)
     THEN /\ rect' = RectOnEvent(rect, motion, button)
          /\ UNCHANGED <<InputControllers, mouse, mouseHeld, press, selected, crashed>>
     ELSE /\ mouse' = p
          /\ IF motion = "Pressed" THEN Press(p, button) ELSE Release(p, button)
  /\ UNCHANGED <<course, waiting, currentGrid>>

(* on_escape.                                                               *)
Escape ==
  /\ ~crashed /\ InputControllers # <<>>
  /\ rect' = [rect EXCEPT !.forced = @ \/ Rectangle \in Range(InputControllers)]
  /\ InputControllers' = <<>>
  /\ UNCHANGED <<mouse, mouseHeld, press, selected, course, waiting, currentGrid, crashed>>

(* A button under Navigation in the window of options.                      *)
NavigationButton ==
  /\ ~crashed /\ waiting < MaxWaiting /\ Len(InputControllers) + waiting < MaxStack
  /\ waiting' = waiting + 1
  /\ UNCHANGED <<InputControllers, rect, mouse, mouseHeld, press, selected, course, currentGrid, crashed>>

-----------------------------------------------------------------------------
(* A turn of the loop in Client::run: the controller on top is taken down   *)
(* once it has finished, then the responders run.                           *)

(* onFinish, the rectangle's and that of ICNavWrapper; GetSelectedShips     *)
(* begins with the client's own ship.                                       *)
onFinish(ic) ==
  IF ic = Rectangle
  THEN /\ selected' = IF IsDone(ic) THEN selected \cup ObjectsWithin(Normalised(rect)[1], Normalised(rect)[2])
                                    ELSE selected
       /\ course' = course
  ELSE /\ course' = IF IsDone(ic) THEN [s \in Ships |-> IF s \in selected \cup {Own} THEN ic ELSE course[s]]
                                  ELSE course
       /\ selected' = selected

(* Altered form: nothing is taken down.                                     *)
RemainingAll == InputControllers
Remaining == IF InputControllers # <<>> /\ IsFinished(Top) THEN Front(InputControllers)
             ELSE InputControllers
TakeDown == IF Remaining # InputControllers THEN onFinish(Top) ELSE UNCHANGED <<selected, course>>
PutUp(stack) == stack \o [i \in 1 .. waiting |-> NewLine]

(* Altered form: the responders are not taken off their queue.              *)
TurnKeepsResponders ==
  /\ ~crashed /\ TakeDown
  /\ InputControllers' = PutUp(Remaining)
  /\ UNCHANGED <<waiting, rect, mouse, mouseHeld, press, currentGrid, crashed>>
Turn ==
  /\ ~crashed /\ TakeDown
  /\ InputControllers' = PutUp(Remaining)
  /\ waiting' = 0
  /\ UNCHANGED <<rect, mouse, mouseHeld, press, currentGrid, crashed>>

(* The responder of Client::run that waits for the grid.                    *)
GridArrives ==
  /\ ~crashed /\ ~currentGrid /\ currentGrid' = TRUE
  /\ UNCHANGED <<InputControllers, rect, mouse, mouseHeld, press, selected, course, waiting, crashed>>

NextGestures ==
  \/ \E p \in Points, motion \in {"Pressed", "Released"}, button \in {"None", "Left", "Right"} :
       OnMouse(p, motion, button)
  \/ Escape \/ NavigationButton \/ Turn \/ GridArrives

SpecGestures == InitGestures /\ [][NextGestures]_gestureVars

-----------------------------------------------------------------------------
(* Properties.                                                              *)

GesturesTypeOK ==
  /\ Len(InputControllers) <= MaxStack /\ mouseHeld \in 0 .. HeldCap + 1
  /\ {mouse, press} \subseteq Points /\ selected \subseteq Ships /\ waiting \in 0 .. MaxWaiting
  /\ \A i \in DOMAIN InputControllers :
       \/ InputControllers[i] = Rectangle
       \/ /\ InputControllers[i].state \in {"UNSTARTED", "POINTING", "FINISHED"}
          /\ {InputControllers[i].from, InputControllers[i].to} \subseteq Points

(* The loop asks the controller on top whether it has finished and then     *)
(* pops the top: a controller that has finished is always the one on top,   *)
(* so none is left below the others to take the mouse when they are gone.   *)
FinishedOnTop ==
  \A i \in DOMAIN InputControllers : IsFinished(InputControllers[i]) => i = Len(InputControllers)

(* There is a single rectangle, and an escape marks it as forced to finish: *)
(* it lies on the stack once at most and below the lines, and each time it  *)
(* comes back it is neither forced nor as the last selection left it.       *)
RectangleFresh ==
  LET at == {i \in DOMAIN InputControllers : InputControllers[i] = Rectangle}
  IN  at \subseteq {1} /\ (at # {} => rect.made /\ ~rect.forced /\ rect.state # "PICK_LOWERBOUNDS")

(* Ships are only steered by a line that was both begun and ended, the one  *)
(* on top; an escape, a rectangle or a line half drawn steers nobody, and   *)
(* all the selected ships and the client's own get the same course.         *)
WholeGesture ==
  [][course' # course =>
       /\ Top.kind = "line" /\ Top.state = "FINISHED" /\ Len(InputControllers') >= Len(InputControllers) - 1
       /\ \A s \in selected \cup {Own} : course'[s] = Top
       /\ \A s \in Ships \ (selected \cup {Own}) : course'[s] = course[s]]_gestureVars

(* The stack of controllers: what has finished is on top, and the one       *)
(* rectangle of the process is fresh each time it comes back.               *)
GesturesInv == GesturesTypeOK /\ FinishedOnTop /\ RectangleFresh
=============================================================================
