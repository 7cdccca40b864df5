----------------------------- MODULE ClientUIProofs -----------------------------
(* Proofs about the user interface of the client, for any number of points,    *)
(* ships, controllers, listeners, windows, characters and inspectors: the      *)
(* gestures of the mouse, the listeners of the events and the windows; the     *)
(* camera, whose caches hold what they were computed from and whose wheel      *)
(* keeps the point below the mouse; the messager, which tells what was typed   *)
(* in order; and the inspectors, whose buttons go through the selection.       *)
EXTENDS Gestures, Observer, Windows, Camera, Chat, Inspection, SequenceLemmas

--------------------------------------------------------------------------------
(* The gestures.                                                               *)

Lines == [kind : {"line"}, state : {"UNSTARTED", "POINTING", "FINISHED"}, from : Points, to : Points]
RectStates == {"PICK_LOWERBOUNDS", "PICK_UPPERBOUNDS", "FINISHED"}

(* What the stack is made of, and the room that is kept for the lines to come. *)
StackTyped ==
  /\ InputControllers \in Seq({Rectangle} \cup Lines)
  /\ waiting \in 0 .. MaxWaiting /\ Len(InputControllers) + waiting <= MaxStack
RectTyped ==
  DOMAIN rect = {"made", "state", "pos", "size", "forced"} /\ rect.state \in RectStates
MouseTyped ==
  mouse \in Points /\ press \in Points /\ mouseHeld \in 0 .. HeldCap + 1 /\ selected \subseteq Ships

GesturesIInv ==
  StackTyped /\ RectTyped /\ MouseTyped /\ FinishedOnTop /\ RectangleFresh

(* The rectangle is no line, and a line that was just made is not finished.    *)
LEMMA LinesAreLines ==
  /\ Rectangle \notin Lines /\ NewLine \in Lines /\ NewLine # Rectangle
  /\ \A l \in Lines : l # Rectangle /\ l.kind = "line" /\ l.state \in {"UNSTARTED", "POINTING", "FINISHED"}
                      /\ l.from \in Points /\ l.to \in Points
<1>1. NewLine \in Lines
  BY GesturesAssumption DEF NewLine, Lines
<1>2. \A l \in Lines : l.kind = "line"
  BY DEF Lines
<1>3. Rectangle.kind = "rect"
  BY DEF Rectangle
<1>4. \A l \in Lines : l # Rectangle
  BY <1>2, <1>3
<1>5. \A l \in Lines : l.state \in {"UNSTARTED", "POINTING", "FINISHED"}
                       /\ l.from \in Points /\ l.to \in Points
  BY DEF Lines
<1> QED BY <1>1, <1>2, <1>4, <1>5

(* The type invariant and the two properties of the stack make up what is      *)
(* checked.                                                                    *)
LEMMA GesturesFollow == GesturesIInv => GesturesInv
<1> SUFFICES ASSUME GesturesIInv PROVE GesturesTypeOK
  BY DEF GesturesIInv, GesturesInv
<1> USE DEF GesturesIInv
<1>1. Len(InputControllers) <= MaxStack /\ waiting \in 0 .. MaxWaiting
  BY GesturesAssumption DEF StackTyped
<1>2. ASSUME NEW i \in DOMAIN InputControllers
      PROVE  \/ InputControllers[i] = Rectangle
             \/ /\ InputControllers[i].state \in {"UNSTARTED", "POINTING", "FINISHED"}
                /\ {InputControllers[i].from, InputControllers[i].to} \subseteq Points
  <2>1. InputControllers[i] \in {Rectangle} \cup Lines
    BY DEF StackTyped
  <2> QED BY <2>1, LinesAreLines
<1> QED BY <1>1, <1>2 DEF MouseTyped, GesturesTypeOK

(* At first there is no controller.                                            *)
LEMMA GesturesStart == InitGestures => GesturesIInv
<1> SUFFICES ASSUME InitGestures PROVE GesturesIInv
  OBVIOUS
<1>1. StackTyped
  BY GesturesAssumption DEF InitGestures, StackTyped
<1>2. RectTyped /\ MouseTyped
  BY GesturesAssumption DEF InitGestures, RectTyped, MouseTyped, RectStates, HeldCap
<1>3. FinishedOnTop /\ RectangleFresh
  BY DEF InitGestures, FinishedOnTop, RectangleFresh
<1> QED BY <1>1, <1>2, <1>3 DEF GesturesIInv

(* What the invariant says of the stack, position by position.                 *)
LEMMA StackInWords ==
  ASSUME GesturesIInv
  PROVE  /\ DOMAIN InputControllers = 1 .. Len(InputControllers) /\ Len(InputControllers) \in Nat
         /\ \A i \in 1 .. Len(InputControllers) :
              /\ InputControllers[i] \in {Rectangle} \cup Lines
              /\ InputControllers[i] = Rectangle =>
                   i = 1 /\ rect.made /\ ~rect.forced /\ rect.state # "PICK_LOWERBOUNDS"
              /\ InputControllers[i] = Rectangle /\ rect.state = "FINISHED" =>
                   i = Len(InputControllers)
              /\ InputControllers[i] # Rectangle /\ InputControllers[i].state = "FINISHED" =>
                   i = Len(InputControllers)
<1>1. DOMAIN InputControllers = 1 .. Len(InputControllers) /\ Len(InputControllers) \in Nat
  BY DEF GesturesIInv, StackTyped
<1> SUFFICES ASSUME NEW i \in 1 .. Len(InputControllers)
             PROVE  /\ InputControllers[i] \in {Rectangle} \cup Lines
                    /\ InputControllers[i] = Rectangle =>
                         i = 1 /\ rect.made /\ ~rect.forced /\ rect.state # "PICK_LOWERBOUNDS"
                    /\ InputControllers[i] = Rectangle /\ rect.state = "FINISHED" =>
                         i = Len(InputControllers)
                    /\ InputControllers[i] # Rectangle /\ InputControllers[i].state = "FINISHED" =>
                         i = Len(InputControllers)
  BY <1>1
<1>2. InputControllers[i] \in {Rectangle} \cup Lines
  BY <1>1 DEF GesturesIInv, StackTyped
<1>3. InputControllers[i] = Rectangle => i = 1 /\ rect.made /\ ~rect.forced /\ rect.state # "PICK_LOWERBOUNDS"
  BY <1>1 DEF GesturesIInv, RectangleFresh
<1>4. IsFinished(InputControllers[i]) => i = Len(InputControllers)
  BY <1>1 DEF GesturesIInv, FinishedOnTop
<1> QED BY <1>2, <1>3, <1>4 DEF IsFinished, IsDone, State

(* And the way back: what is to be shown of the stack after a step.            *)
LEMMA StackKept ==
  ASSUME DOMAIN InputControllers' = 1 .. Len(InputControllers)', Len(InputControllers)' \in Nat,
         \A i \in 1 .. Len(InputControllers)' :
              /\ InputControllers'[i] = Rectangle =>
                   i = 1 /\ rect'.made /\ ~rect'.forced /\ rect'.state # "PICK_LOWERBOUNDS"
              /\ InputControllers'[i] = Rectangle /\ rect'.state = "FINISHED" =>
                   i = Len(InputControllers)'
              /\ InputControllers'[i] # Rectangle /\ InputControllers'[i].state = "FINISHED" =>
                   i = Len(InputControllers)'
  PROVE  FinishedOnTop' /\ RectangleFresh'
<1>1. ASSUME NEW i \in DOMAIN InputControllers', IsFinished(InputControllers[i])'
      PROVE  i = Len(InputControllers)'
  <2>1. CASE InputControllers'[i] = Rectangle
    BY <1>1, <2>1 DEF IsFinished, IsDone, State
  <2>2. CASE InputControllers'[i] # Rectangle
    BY <1>1, <2>2 DEF IsFinished, IsDone, State
  <2> QED BY <2>1, <2>2
<1>2. FinishedOnTop'
  BY <1>1 DEF FinishedOnTop
<1>3. RectangleFresh'
  BY DEF RectangleFresh
<1> QED BY <1>2, <1>3

(* A line stays a line whatever the mouse does.                                *)
LEMMA LineStaysLine ==
  ASSUME mouse \in Points, NEW l \in Lines, NEW motion
  PROVE  LineOnEvent(l, motion) \in Lines
<1>1. CASE l.state = "UNSTARTED"
  BY <1>1 DEF LineOnEvent, Lines
<1>2. CASE l.state = "POINTING"
  BY <1>2 DEF LineOnEvent, Lines
<1>3. CASE l.state \notin {"UNSTARTED", "POINTING"}
  BY <1>3 DEF LineOnEvent
<1> QED BY <1>1, <1>2, <1>3

(* The rectangle on an event: it never goes back to its lower bounds, and an   *)
(* event does not force it.                                                    *)
LEMMA RectFollows ==
  ASSUME RectTyped, NEW motion, NEW button
  PROVE  LET r == RectOnEvent(rect, motion, button)
         IN  /\ DOMAIN r = DOMAIN rect /\ r.made = rect.made /\ r.forced = rect.forced
             /\ r.state \in RectStates
             /\ rect.state # "PICK_LOWERBOUNDS" => r.state # "PICK_LOWERBOUNDS"
<1> DEFINE f == Follow(rect)
<1>1. /\ DOMAIN f = DOMAIN rect /\ f.made = rect.made /\ f.forced = rect.forced
      /\ f.state = rect.state
  BY DEF Follow, RectTyped
<1>2. CASE motion = "Released" /\ button = "Left"
  <2> DEFINE v == IF f.state = "PICK_LOWERBOUNDS" THEN "PICK_UPPERBOUNDS" ELSE "FINISHED"
  <2>1. RectOnEvent(rect, motion, button) = [f EXCEPT !.state = v]
    BY <1>2 DEF RectOnEvent
  <2> HIDE DEF f
  <2>2. DOMAIN f = {"made", "state", "pos", "size", "forced"}
    BY <1>1 DEF RectTyped
  <2>3. LET r == [f EXCEPT !.state = v]
        IN  DOMAIN r = DOMAIN f /\ r.made = f.made /\ r.forced = f.forced /\ r.state = v
    BY <2>2
  <2> QED BY <1>1, <2>1, <2>3 DEF RectStates
<1>3. CASE ~(motion = "Released" /\ button = "Left")
  BY <1>1, <1>3 DEF RectOnEvent, RectTyped
<1> QED BY <1>2, <1>3

(* The controller on top gets an event of the mouse, if it wants it: a line    *)
(* follows it and leaves the rectangle alone, or the rectangle does.           *)
LEMMA TopFollows ==
  ASSUME GesturesIInv, waiting' = waiting, NEW motion, NEW button,
         InputControllers' = IF button = "Left" /\ InputControllers # <<>> /\ Top # Rectangle
                             THEN Append(Front(InputControllers), LineOnEvent(Top, motion))
                             ELSE InputControllers,
         rect' = IF OnTop(Rectangle) /\ ~IsDone(Rectangle)
                 THEN RectOnEvent(rect, motion, button) ELSE rect
  PROVE  StackTyped' /\ RectTyped' /\ FinishedOnTop' /\ RectangleFresh'
<1> DEFINE IC == InputControllers  n == Len(IC)
<1>1. /\ IC \in Seq({Rectangle} \cup Lines) /\ n \in Nat /\ DOMAIN IC = 1 .. n
      /\ mouse \in Points /\ RectTyped
  BY DEF GesturesIInv, StackTyped, MouseTyped
<1>0. n \in Nat
  BY <1>1
<1>a. \A i \in 1 .. n :
        /\ IC[i] = Rectangle =>
             i = 1 /\ rect.made /\ ~rect.forced /\ rect.state # "PICK_LOWERBOUNDS"
        /\ IC[i] = Rectangle /\ rect.state = "FINISHED" => i = n
        /\ IC[i] # Rectangle /\ IC[i].state = "FINISHED" => i = n
  BY StackInWords
<1>2. CASE button = "Left" /\ IC # <<>> /\ Top # Rectangle
  <2> DEFINE l == LineOnEvent(Top, motion)
  <2>1. n > 0 /\ Top = IC[n] /\ Top \in Lines
    BY <1>1, <1>2 DEF Top, Last
  <2>2. l \in Lines /\ l # Rectangle
    BY <1>1, <2>1, LineStaysLine, LinesAreLines
  <2>3. rect' = rect
    BY <1>2 DEF OnTop
  <2>4. IC' = Append(SubSeq(IC, 1, n - 1), l)
    BY <1>2 DEF Front
  <2> HIDE DEF l
  <2>a. PICK below : below = SubSeq(IC, 1, n - 1)
    OBVIOUS
  <2>b. /\ below \in Seq({Rectangle} \cup Lines) /\ Len(below) = n - 1
        /\ \A i \in 1 .. n - 1 : below[i] = IC[i]
    BY <1>1, <2>1, <2>a
  <2>c. IC' = Append(below, l)
    BY <2>4, <2>a
  <2>5. /\ IC' \in Seq({Rectangle} \cup Lines) /\ Len(IC') = n /\ DOMAIN IC' = 1 .. n
        /\ \A i \in 1 .. n - 1 : IC'[i] = IC[i]
        /\ IC'[n] = l
    <3>1. l \in {Rectangle} \cup Lines
      BY <2>2
    <3>2. /\ IC' \in Seq({Rectangle} \cup Lines) /\ Len(IC') = Len(below) + 1
          /\ DOMAIN IC' = 1 .. Len(below) + 1 /\ IC'[Len(below) + 1] = l
          /\ \A i \in 1 .. Len(below) : IC'[i] = below[i]
      <4> DEFINE S == {Rectangle} \cup Lines
      <4>1. below \in Seq(S) /\ l \in S
        BY <2>b, <3>1
      <4> HIDE DEF S, n
      <4>2. IC' \in Seq(S)
        BY <2>c, <4>1, Appended
      <4>3. Len(IC') = Len(below) + 1
        BY <2>c, <4>1, Appended
      <4>4. DOMAIN IC' = 1 .. Len(below) + 1
        BY <4>2, <4>3
      <4>5. IC'[Len(below) + 1] = l
        BY <2>c, <4>1, Appended
      <4>6. \A i \in 1 .. Len(below) : IC'[i] = below[i]
        BY <2>c, <4>1, Appended, SMTT(30)
      <4> QED BY <4>2, <4>3, <4>4, <4>5, <4>6 DEF S
    <3>3. Len(below) + 1 = n /\ Len(below) = n - 1
      BY <1>0, <2>b
    <3> QED BY <2>b, <3>2, <3>3
  <2>6. StackTyped'
    BY <2>5 DEF GesturesIInv, StackTyped
  <2>7. RectTyped'
    BY <1>1, <2>3 DEF RectTyped
  <2>8. ASSUME NEW i \in 1 .. n
        PROVE  /\ IC'[i] = Rectangle =>
                    i = 1 /\ rect'.made /\ ~rect'.forced /\ rect'.state # "PICK_LOWERBOUNDS"
               /\ IC'[i] = Rectangle /\ rect'.state = "FINISHED" => i = n
               /\ IC'[i] # Rectangle /\ IC'[i].state = "FINISHED" => i = n
    <3>1. CASE i = n
      BY <2>2, <2>5, <3>1
    <3>2. CASE i # n
      <4>1. i \in 1 .. n - 1
        BY <1>0, <3>2
      <4>2. IC'[i] = IC[i] /\ i # n
        BY <2>5, <3>2, <4>1
      <4> QED BY <1>a, <2>3, <4>2
    <3> QED BY <3>1, <3>2
  <2> QED BY <1>1, <2>5, <2>6, <2>7, <2>8, StackKept
<1>3. CASE ~(button = "Left" /\ IC # <<>> /\ Top # Rectangle)
  <2>1. IC' = IC
    BY <1>3
  <2>2. StackTyped'
    BY <2>1 DEF GesturesIInv, StackTyped
  <2>3. CASE OnTop(Rectangle) /\ ~IsDone(Rectangle)
    <3>1. n > 0 /\ IC[n] = Rectangle
      BY <1>1, <2>3 DEF OnTop, Top, Last
    <3>2. n = 1 /\ rect.made /\ ~rect.forced /\ rect.state # "PICK_LOWERBOUNDS"
      <4>1. n \in 1 .. n
        BY <1>0, <3>1
      <4> QED BY <1>a, <3>1, <4>1
    <3>3. rect' = RectOnEvent(rect, motion, button)
      BY <2>3
    <3>4. /\ DOMAIN rect' = DOMAIN rect /\ rect'.made = rect.made /\ rect'.forced = rect.forced
          /\ rect'.state \in RectStates /\ rect'.state # "PICK_LOWERBOUNDS"
      BY <1>1, <3>2, <3>3, RectFollows
    <3>5. RectTyped'
      BY <1>1, <3>4 DEF RectTyped
    <3>6. rect'.made /\ ~rect'.forced
      BY <3>2, <3>4
    <3>7. \A i \in 1 .. n : i = n /\ i = 1
      BY <3>2
    <3>8. DOMAIN IC' = 1 .. Len(IC)' /\ Len(IC)' \in Nat
      BY <1>1, <2>1
    <3>9. FinishedOnTop' /\ RectangleFresh'
      BY <2>1, <3>4, <3>6, <3>7, <3>8, StackKept
    <3> QED BY <2>2, <3>5, <3>9
  <2>4. CASE ~(OnTop(Rectangle) /\ ~IsDone(Rectangle))
    <3>1. rect' = rect
      BY <2>4
    <3>2. RectTyped'
      BY <1>1, <3>1 DEF RectTyped
    <3>3. DOMAIN IC' = 1 .. Len(IC)' /\ Len(IC)' \in Nat
      BY <1>1, <2>1
    <3>4. FinishedOnTop' /\ RectangleFresh'
      BY <1>a, <2>1, <3>1, <3>3, StackKept
    <3> QED BY <2>2, <3>2, <3>4
  <2> QED BY <2>3, <2>4
<1> QED BY <1>2, <1>3

(* A rectangle is opened on an empty stack only, and reset before.             *)
LEMMA RectangleOpens ==
  ASSUME GesturesIInv, waiting' = waiting, InputControllers = <<>>, mouseHeld \in Int,
         InputControllers' = <<Rectangle>>, rect' = Opened
  PROVE  StackTyped' /\ RectTyped' /\ FinishedOnTop' /\ RectangleFresh'
<1>1. StackTyped'
  BY GesturesAssumption DEF GesturesIInv, StackTyped
<1>2. DOMAIN rect = {"made", "state", "pos", "size", "forced"}
  BY DEF GesturesIInv, RectTyped
<1>3. /\ DOMAIN rect' = DOMAIN rect /\ rect'.made = TRUE /\ rect'.forced = FALSE
      /\ rect'.state = "PICK_UPPERBOUNDS"
  BY <1>2 DEF Opened, resetRect
<1>4. RectTyped'
  BY <1>2, <1>3 DEF RectTyped, RectStates
<1>5. Len(InputControllers') = 1 /\ DOMAIN InputControllers' = 1 .. 1 /\ InputControllers'[1] = Rectangle
  OBVIOUS
<1>6. rect'.made /\ ~rect'.forced
  BY <1>3
<1> QED BY <1>1, <1>3, <1>4, <1>5, <1>6, StackKept

(* An event of the mouse.                                                      *)
LEMMA MouseKeeps ==
  ASSUME GesturesIInv, NEW p \in Points, NEW motion \in {"Pressed", "Released"},
         NEW button \in {"None", "Left", "Right"}, OnMouse(p, motion, button)
  PROVE  GesturesIInv'
<1>1. /\ mouse \in Points /\ press \in Points /\ mouseHeld \in 0 .. HeldCap + 1
      /\ selected \subseteq Ships /\ RectTyped /\ StackTyped
  BY DEF GesturesIInv, MouseTyped
<1>2. waiting' = waiting
  BY DEF OnMouse
<1>3. CASE Swallows(motion, button)
  <2>1. /\ InputControllers' = InputControllers /\ rect' = RectOnEvent(rect, motion, button)
        /\ mouse' = mouse /\ press' = press /\ mouseHeld' = mouseHeld /\ selected' = selected
    BY <1>3 DEF OnMouse
  <2>2. OnTop(Rectangle) /\ ~IsDone(Rectangle)
    BY <1>3 DEF Swallows
  <2>3. Top = Rectangle
    BY <2>2 DEF OnTop
  <2>4. StackTyped' /\ RectTyped' /\ FinishedOnTop' /\ RectangleFresh'
    BY <1>2, <2>1, <2>2, <2>3, TopFollows
  <2>5. MouseTyped'
    BY <1>1, <2>1 DEF MouseTyped
  <2> QED BY <2>4, <2>5 DEF GesturesIInv
<1>4. CASE ~Swallows(motion, button) /\ motion = "Pressed"
  <2>1. mouse' = p /\ Press(p, button)
    BY <1>4 DEF OnMouse
  <2>2. MouseTyped'
    <3>1. Held \in 0 .. HeldCap + 1
      BY <1>1 DEF Held, HeldCap
    <3>2. mouseHeld' = Held /\ press' \in Points /\ selected' = selected
      BY <1>1, <2>1 DEF Press
    <3> QED BY <1>1, <2>1, <3>1, <3>2 DEF MouseTyped
  <2>3. CASE OpensRectangle(button)
    <3>1. /\ InputControllers = <<>> /\ InputControllers' = <<Rectangle>>
          /\ rect' = Opened
      BY <2>1, <2>3 DEF Press, OpensRectangle
    <3>2. mouseHeld \in Int
      BY <1>1 DEF HeldCap
    <3> QED BY <1>2, <2>2, <3>1, <3>2, RectangleOpens DEF GesturesIInv
  <2>4. CASE ~OpensRectangle(button)
    <3>1. /\ InputControllers' = IF button = "Left" /\ InputControllers # <<>> /\ Top # Rectangle
                                 THEN Append(Front(InputControllers), LineOnEvent(Top, "Pressed"))
                                 ELSE InputControllers
          /\ rect' = IF OnTop(Rectangle) /\ ~IsDone(Rectangle)
                     THEN RectOnEvent(rect, "Pressed", button) ELSE rect
      BY <2>1, <2>4 DEF Press
    <3> QED BY <1>2, <2>2, <3>1, TopFollows DEF GesturesIInv
  <2> QED BY <2>3, <2>4
<1>5. CASE ~Swallows(motion, button) /\ motion = "Released"
  <2>1. mouse' = p /\ Release(p, button)
    BY <1>5 DEF OnMouse
  <2>2. MouseTyped'
    <3>1. ObjectAt(p) \subseteq Ships
      BY DEF ObjectAt
    <3>2. mouseHeld' = 0 /\ press' = press /\ selected' \subseteq Ships
      BY <1>1, <2>1, <3>1 DEF Release
    <3> QED BY <1>1, <2>1, <3>2 DEF MouseTyped, HeldCap
  <2>3. /\ InputControllers' = IF button = "Left" /\ InputControllers # <<>> /\ Top # Rectangle
                               THEN Append(Front(InputControllers), LineOnEvent(Top, "Released"))
                               ELSE InputControllers
        /\ rect' = IF OnTop(Rectangle) /\ ~IsDone(Rectangle)
                   THEN RectOnEvent(rect, "Released", button) ELSE rect
    BY <2>1 DEF Release
  <2> QED BY <1>2, <2>2, <2>3, TopFollows DEF GesturesIInv
<1> QED BY <1>3, <1>4, <1>5

(* An escape takes the whole stack; the rectangle may be forced from then on,  *)
(* but it is not there.                                                        *)
LEMMA EscapeKeeps == GesturesIInv /\ Escape => GesturesIInv'
<1> SUFFICES ASSUME GesturesIInv, Escape PROVE GesturesIInv'
  OBVIOUS
<1>1. InputControllers' = <<>> /\ waiting' = waiting
  BY DEF Escape
<1>2. StackTyped'
  <2>1. Len(InputControllers) \in Nat /\ waiting \in 0 .. MaxWaiting
        /\ Len(InputControllers) + waiting <= MaxStack
    BY DEF GesturesIInv, StackTyped
  <2> QED BY <1>1, <2>1, GesturesAssumption DEF StackTyped
<1>3. RectTyped'
  BY DEF Escape, GesturesIInv, RectTyped
<1>4. MouseTyped'
  BY DEF Escape, GesturesIInv, MouseTyped
<1>5. FinishedOnTop' /\ RectangleFresh'
  BY <1>1 DEF FinishedOnTop, RectangleFresh
<1> QED BY <1>2, <1>3, <1>4, <1>5 DEF GesturesIInv

(* What is left when the controller on top was looked at: nothing that has     *)
(* finished.                                                                   *)
LEMMA NoneFinishedRemains ==
  ASSUME GesturesIInv
  PROVE  /\ Remaining \in Seq({Rectangle} \cup Lines) /\ Len(Remaining) <= Len(InputControllers)
         /\ Len(Remaining) \in Nat
         /\ \A i \in 1 .. Len(Remaining) :
              /\ i \in 1 .. Len(InputControllers)
              /\ Remaining[i] = InputControllers[i] /\ ~IsFinished(InputControllers[i])
<1> DEFINE IC == InputControllers  n == Len(IC)
<1>1. IC \in Seq({Rectangle} \cup Lines) /\ DOMAIN IC = 1 .. n
  BY DEF GesturesIInv, StackTyped
<1>2. n \in Nat
  BY <1>1
<1>3. \A i \in 1 .. n : IsFinished(IC[i]) => i = n
  BY <1>1 DEF GesturesIInv, FinishedOnTop
<1>4. CASE IC # <<>> /\ IsFinished(Top)
  <2>1. Remaining = SubSeq(IC, 1, n - 1) /\ n > 0
    BY <1>1, <1>4 DEF Remaining, Front
  <2>2. /\ Remaining \in Seq({Rectangle} \cup Lines) /\ Len(Remaining) = n - 1
        /\ \A i \in 1 .. n - 1 : Remaining[i] = IC[i]
    BY <1>1, <2>1
  <2>3. \A i \in 1 .. n - 1 : i \in 1 .. n /\ i # n
    BY <1>2
  <2> QED BY <1>2, <1>3, <2>1, <2>2, <2>3
<1>5. CASE ~(IC # <<>> /\ IsFinished(Top))
  <2>1. Remaining = IC
    BY <1>5 DEF Remaining
  <2>2. ASSUME NEW i \in 1 .. n, IsFinished(IC[i]) PROVE FALSE
    <3>1. i = n /\ IC # <<>>
      <4>1. i = n
        BY <1>3, <2>2
      <4>2. n # 0
        BY <1>2, <4>1
      <4> QED BY <4>1, <4>2
    <3>2. IC[i] = Top
      BY <3>1 DEF Top, Last
    <3> QED BY <1>5, <2>2, <3>1, <3>2
  <2> QED BY <1>1, <1>2, <2>1, <2>2
<1> QED BY <1>4, <1>5

(* The loop takes down what has finished and puts up what the responders made. *)
LEMMA TurnKeeps == GesturesIInv /\ Turn => GesturesIInv'
<1> SUFFICES ASSUME GesturesIInv, Turn PROVE GesturesIInv'
  OBVIOUS
<1> DEFINE IC == InputControllers  new == [i \in 1 .. waiting |-> NewLine]
           S == {Rectangle} \cup Lines
<1>1. /\ IC \in Seq(S) /\ waiting \in 0 .. MaxWaiting /\ Len(IC) + waiting <= MaxStack
      /\ Len(IC) \in Nat
  BY DEF GesturesIInv, StackTyped
<1>2. IC' = Remaining \o new /\ waiting' = 0 /\ rect' = rect
  BY DEF Turn, PutUp
<1>3. new \in Seq(S) /\ Len(new) = waiting /\ \A i \in 1 .. waiting : new[i] = NewLine
  BY <1>1, LinesAreLines, GesturesAssumption
<1> DEFINE k == Len(Remaining)
<1>4. Remaining \in Seq(S) /\ k \in Nat /\ k <= Len(IC)
  BY NoneFinishedRemains
<1> HIDE DEF new, S, k
<1>5. /\ IC' \in Seq(S) /\ Len(IC') = k + waiting /\ DOMAIN IC' = 1 .. Len(IC')
      /\ \A i \in 1 .. k : IC'[i] = Remaining[i]
      /\ \A i \in k + 1 .. k + waiting : IC'[i] = new[i - k]
  <2>1. waiting \in Nat
    BY <1>1
  <2>2. new \in Seq(S) /\ Remaining \in Seq(S)
    BY <1>3, <1>4
  <2>3. /\ IC' \in Seq(S) /\ Len(IC') = Len(Remaining) + Len(new) /\ DOMAIN IC' = 1 .. Len(IC')
        /\ \A i \in 1 .. Len(Remaining) : IC'[i] = Remaining[i]
        /\ \A i \in Len(Remaining) + 1 .. Len(Remaining) + Len(new) :
             IC'[i] = new[i - Len(Remaining)]
    BY <1>2, <2>2, Concatenated
  <2> QED BY <1>3, <2>3 DEF k
<1>6. StackTyped'
  BY <1>1, <1>2, <1>4, <1>5, GesturesAssumption DEF StackTyped, S
<1>7. ASSUME NEW i \in 1 .. Len(IC')
      PROVE  /\ IC'[i] = Rectangle =>
                  i = 1 /\ rect'.made /\ ~rect'.forced /\ rect'.state # "PICK_LOWERBOUNDS"
             /\ ~(IC'[i] = Rectangle /\ rect'.state = "FINISHED")
             /\ ~(IC'[i] # Rectangle /\ IC'[i].state = "FINISHED")
  <2>1. CASE i \in 1 .. k
    <3>1. IC'[i] = IC[i] /\ i \in 1 .. Len(IC) /\ ~IsFinished(IC[i])
      BY <1>5, <2>1, NoneFinishedRemains DEF k
    <3>2. IC[i] = Rectangle => i = 1 /\ rect.made /\ ~rect.forced /\ rect.state # "PICK_LOWERBOUNDS"
      BY <3>1, StackInWords
    <3>3. /\ IC[i] = Rectangle => rect.state # "FINISHED"
          /\ IC[i] # Rectangle => IC[i].state # "FINISHED"
      BY <3>1 DEF IsFinished, IsDone, State
    <3> QED BY <1>2, <3>1, <3>2, <3>3
  <2>2. CASE i \notin 1 .. k
    <3>1. i \in k + 1 .. k + waiting /\ i - k \in 1 .. waiting
      BY <1>1, <1>4, <1>5, <2>2
    <3>2. IC'[i] = NewLine
      BY <1>3, <1>5, <3>1
    <3> QED BY <3>2, LinesAreLines DEF NewLine
  <2> QED BY <2>1, <2>2
<1>8. FinishedOnTop' /\ RectangleFresh'
  <2>1. Len(IC)' \in Nat
    BY <1>1, <1>4, <1>5
  <2> QED BY <1>5, <1>7, <2>1, StackKept
<1>9. RectTyped'
  BY <1>2 DEF GesturesIInv, RectTyped
<1>10. MouseTyped'
  <2>1. \A lo, hi : ObjectsWithin(lo, hi) \subseteq Ships
    BY DEF ObjectsWithin
  <2>2. selected' \subseteq Ships
    BY <2>1 DEF Turn, TakeDown, onFinish, GesturesIInv, MouseTyped
  <2>3. mouse' = mouse /\ press' = press /\ mouseHeld' = mouseHeld
    BY DEF Turn
  <2> QED BY <2>2, <2>3 DEF GesturesIInv, MouseTyped
<1> QED BY <1>6, <1>8, <1>9, <1>10 DEF GesturesIInv

(* A step that leaves the stack, the rectangle and the mouse alone.            *)
LEMMA AloneKeeps ==
  ASSUME GesturesIInv, waiting' \in 0 .. MaxWaiting, Len(InputControllers) + waiting' <= MaxStack,
         UNCHANGED <<InputControllers, rect, mouse, mouseHeld, press, selected>>
  PROVE  GesturesIInv'
<1>1. StackTyped'
  BY DEF GesturesIInv, StackTyped
<1>2. RectTyped' /\ MouseTyped'
  BY DEF GesturesIInv, RectTyped, MouseTyped
<1>3. RectangleFresh'
  BY DEF GesturesIInv, RectangleFresh
<1>4. FinishedOnTop'
  BY DEF GesturesIInv, FinishedOnTop, IsFinished, IsDone, State
<1> QED BY <1>1, <1>2, <1>3, <1>4 DEF GesturesIInv

(* The invariant has a part for each action to keep.                           *)
LEMMA GesturesStep == GesturesIInv /\ [NextGestures]_gestureVars => GesturesIInv'
<1> SUFFICES ASSUME GesturesIInv, [NextGestures]_gestureVars PROVE GesturesIInv'
  OBVIOUS
<1>1. waiting \in 0 .. MaxWaiting /\ Len(InputControllers) + waiting <= MaxStack
      /\ Len(InputControllers) \in Nat
  BY DEF GesturesIInv, StackTyped
<1>2. ASSUME NEW p \in Points, NEW motion \in {"Pressed", "Released"},
             NEW button \in {"None", "Left", "Right"}, OnMouse(p, motion, button)
      PROVE  GesturesIInv'
  BY <1>2, MouseKeeps
<1>3. CASE NavigationButton
  <2>1. waiting' \in 0 .. MaxWaiting /\ Len(InputControllers) + waiting' <= MaxStack
    BY <1>1, <1>3, GesturesAssumption DEF NavigationButton
  <2> QED BY <1>3, <2>1, AloneKeeps DEF NavigationButton
<1>4. CASE GridArrives
  BY <1>1, <1>4, AloneKeeps DEF GridArrives
<1>5. CASE UNCHANGED gestureVars
  BY <1>1, <1>5, AloneKeeps DEF gestureVars
<1> QED BY <1>2, <1>3, <1>4, <1>5, EscapeKeeps, TurnKeeps DEF NextGestures

(* The inductive invariant holds.                                              *)
THEOREM GesturesReachable == SpecGestures => []GesturesIInv
<1> QED BY GesturesStart, GesturesStep, PTL DEF SpecGestures

(* The controller that has finished is the one on top, which the loop takes    *)
(* down, and the one rectangle is fresh whenever it is on the stack, for any   *)
(* number of controllers.                                                      *)
THEOREM GesturesHold == SpecGestures => []GesturesInv
<1> QED BY GesturesReachable, GesturesFollow, PTL

(* Ships are steered by whole lines only, and all selected ones alike.         *)
THEOREM GestureIsWhole == SpecGestures => WholeGesture
<1> DEFINE Whole ==
      course' # course =>
        /\ Top.kind = "line" /\ Top.state = "FINISHED" /\ Len(InputControllers') >= Len(InputControllers) - 1
        /\ \A s \in selected \cup {Own} : course'[s] = Top
        /\ \A s \in Ships \ (selected \cup {Own}) : course'[s] = course[s]
<1>1. ASSUME GesturesIInv, [NextGestures]_gestureVars, course' # course PROVE Whole
  <2>1. Turn
    BY <1>1 DEF NextGestures, gestureVars, OnMouse, Escape, NavigationButton, GridArrives
  <2>2. Remaining # InputControllers /\ onFinish(Top)
    BY <1>1, <2>1 DEF Turn, TakeDown
  <2>3. InputControllers # <<>> /\ Remaining = Front(InputControllers)
    BY <2>2 DEF Remaining
  <2>4. Top # Rectangle /\ IsDone(Top)
        /\ course' = [s \in Ships |-> IF s \in selected \cup {Own} THEN Top ELSE course[s]]
    BY <1>1, <2>2 DEF onFinish
  <2>5. /\ InputControllers \in Seq({Rectangle} \cup Lines) /\ selected \cup {Own} \subseteq Ships
        /\ waiting \in Nat
    BY <1>1, GesturesAssumption DEF GesturesIInv, StackTyped, MouseTyped
  <2>6. Top \in {Rectangle} \cup Lines
    BY <2>3, <2>5 DEF Top, Last
  <2>7. Top.kind = "line" /\ Top.state = "FINISHED"
    BY <2>4, <2>6, LinesAreLines DEF IsDone, State
  <2>8. Len(InputControllers') >= Len(InputControllers) - 1
    <3> DEFINE new == [i \in 1 .. waiting |-> NewLine]
    <3>1. Remaining \in Seq({Rectangle} \cup Lines) /\ Len(Remaining) = Len(InputControllers) - 1
      BY <2>3, <2>5, WithoutLast
    <3>2. new \in Seq({Rectangle} \cup Lines) /\ Len(new) = waiting
      BY <2>5, LinesAreLines
    <3>3. InputControllers' = Remaining \o new
      BY <2>1 DEF Turn, PutUp
    <3> HIDE DEF new
    <3>4. Len(InputControllers') = Len(Remaining) + waiting
      <4> DEFINE S == {Rectangle} \cup Lines
      <4>1. Remaining \in Seq(S) /\ new \in Seq(S)
        BY <3>1, <3>2
      <4> HIDE DEF S
      <4>2. Len(InputControllers') = Len(Remaining) + Len(new)
        BY <3>3, <4>1, Concatenated
      <4> QED BY <3>2, <4>2
    <3> QED BY <2>5, <3>1, <3>4
  <2> QED BY <2>4, <2>5, <2>7, <2>8
<1>2. GesturesIInv /\ [NextGestures]_gestureVars => [Whole]_gestureVars
  BY <1>1
<1> QED BY <1>2, GesturesReachable, PTL DEF SpecGestures, WholeGesture

--------------------------------------------------------------------------------
(* The listeners of the events.                                                *)

Walks == [channel : Channels, i : Nat \ {0}, calling : Listeners \cup {Nobody},
          called : Seq(Listeners), due : SUBSET Listeners]

ObserverTyped ==
  /\ subscribers \in [Channels -> Seq(Listeners)] /\ owned \subseteq Listeners
  /\ KeyMap \in [Keys -> Seq(Channels)] /\ keyed \in Seq(Channels)
  /\ walks \in Seq(Walks)

(* A listener is in an array once at most, and an event is under way once.     *)
Once == \A c \in Channels : IsInjective(subscribers[c])
OneWalkEach == \A m, n \in DOMAIN walks : walks[m].channel = walks[n].channel => m = n

(* A walk has called the first listeners of its array as it is by now, one     *)
(* after the other, and whoever it owes a call is owned and in the array.      *)
OnItsWay(w) ==
  /\ Len(w.called) = IF w.calling = Nobody THEN w.i - 1 ELSE w.i
  /\ Len(w.called) <= Len(subscribers[w.channel])
  /\ \A j \in 1 .. Len(w.called) : w.called[j] = subscribers[w.channel][j]
  /\ w.due \subseteq owned
  /\ \A l \in w.due : \E j \in 1 .. Len(subscribers[w.channel]) : subscribers[w.channel][j] = l
AllOnTheirWay == \A n \in DOMAIN walks : OnItsWay(walks[n])

ObserverIInv == ObserverTyped /\ Once /\ OneWalkEach /\ AllOnTheirWay

(* The fields of a walk.                                                       *)
LEMMA WalkFields ==
  ASSUME NEW w \in Walks
  PROVE  /\ w.channel \in Channels /\ w.i \in Nat \ {0} /\ w.calling \in Listeners \cup {Nobody}
         /\ w.called \in Seq(Listeners) /\ w.due \subseteq Listeners
  BY DEF Walks

(* What the invariant says of the arrays and of the walks.                     *)
LEMMA ObserverInWords ==
  ASSUME ObserverIInv
  PROVE  /\ \A c \in Channels :
              /\ subscribers[c] \in Seq(Listeners) /\ Len(subscribers[c]) \in Nat
              /\ DOMAIN subscribers[c] = 1 .. Len(subscribers[c])
              /\ \A j, k \in 1 .. Len(subscribers[c]) :
                   subscribers[c][j] = subscribers[c][k] => j = k
         /\ Len(walks) \in Nat /\ DOMAIN walks = 1 .. Len(walks)
         /\ \A n \in 1 .. Len(walks) :
              /\ walks[n] \in Walks /\ walks[n].channel \in Channels /\ OnItsWay(walks[n])
         /\ \A m, n \in 1 .. Len(walks) : walks[m].channel = walks[n].channel => m = n
<1>1. ASSUME NEW c \in Channels
      PROVE  /\ subscribers[c] \in Seq(Listeners) /\ Len(subscribers[c]) \in Nat
             /\ DOMAIN subscribers[c] = 1 .. Len(subscribers[c])
             /\ \A j, k \in 1 .. Len(subscribers[c]) :
                  subscribers[c][j] = subscribers[c][k] => j = k
  <2>1. subscribers[c] \in Seq(Listeners)
    BY DEF ObserverIInv, ObserverTyped
  <2>2. IsInjective(subscribers[c])
    BY DEF ObserverIInv, Once
  <2>3. Len(subscribers[c]) \in Nat /\ DOMAIN subscribers[c] = 1 .. Len(subscribers[c])
    BY <2>1
  <2> QED BY <2>1, <2>2, <2>3 DEF IsInjective
<1>2. walks \in Seq(Walks)
  BY DEF ObserverIInv, ObserverTyped
<1>3. Len(walks) \in Nat /\ DOMAIN walks = 1 .. Len(walks) /\ \A n \in 1 .. Len(walks) : walks[n] \in Walks
  BY <1>2
<1>4. \A n \in 1 .. Len(walks) : walks[n].channel \in Channels
  BY <1>3, WalkFields
<1>5. \A n \in 1 .. Len(walks) : OnItsWay(walks[n])
  BY <1>3 DEF ObserverIInv, AllOnTheirWay
<1>6. \A m, n \in 1 .. Len(walks) : walks[m].channel = walks[n].channel => m = n
  BY <1>3 DEF ObserverIInv, OneWalkEach
<1> QED BY <1>1, <1>3, <1>4, <1>5, <1>6

(* And the way back.                                                           *)
LEMMA ObserverKept ==
  ASSUME ObserverTyped',
         \A c \in Channels : \A j, k \in DOMAIN subscribers'[c] :
            subscribers'[c][j] = subscribers'[c][k] => j = k,
         \A m, n \in DOMAIN walks' : walks'[m].channel = walks'[n].channel => m = n,
         \A n \in DOMAIN walks' : \A w : w = walks'[n] => OnItsWay(w)'
  PROVE  ObserverIInv'
<1>1. Once'
  BY DEF Once, IsInjective
<1>2. OneWalkEach'
  BY DEF OneWalkEach
<1>3. AllOnTheirWay'
  BY DEF AllOnTheirWay
<1> QED BY <1>1, <1>2, <1>3 DEF ObserverIInv

(* A walk stays on its way while the first listeners of its array stay where   *)
(* they are, and those it owes a call stay owned and in the array.             *)
LEMMA StaysOnItsWay ==
  ASSUME NEW w, OnItsWay(w), Len(w.called) <= Len(subscribers'[w.channel]),
         \A j \in 1 .. Len(w.called) : subscribers'[w.channel][j] = subscribers[w.channel][j],
         w.due \subseteq owned',
         \A l \in w.due : \E j \in 1 .. Len(subscribers'[w.channel]) : subscribers'[w.channel][j] = l
  PROVE  OnItsWay(w)'
BY DEF OnItsWay

(* At first there is no listener and no event.                                 *)
LEMMA ObserverStarts == InitObserver => ObserverIInv
<1> SUFFICES ASSUME InitObserver PROVE ObserverIInv
  OBVIOUS
<1>1. ObserverTyped
  BY DEF InitObserver, ObserverTyped
<1>2. Once /\ OneWalkEach /\ AllOnTheirWay
  BY DEF InitObserver, Once, IsInjective, OneWalkEach, AllOnTheirWay
<1> QED BY <1>1, <1>2 DEF ObserverIInv

(* A new listener comes last in its array, and was in none.                    *)
LEMMA AddListenerKeeps ==
  ASSUME ObserverIInv, NEW l \in Listeners, AddListenerToEvent(l)
  PROVE  ObserverIInv'
<1> DEFINE c == ChannelOf[l]  arr == subscribers[c]  new == Append(arr, l)
<1>1. c \in Channels
  BY ObserverAssumption
<1>2. /\ arr \in Seq(Listeners) /\ DOMAIN arr = 1 .. Len(arr)
      /\ \A j, k \in 1 .. Len(arr) : arr[j] = arr[k] => j = k
  BY <1>1, ObserverInWords
<1>3. /\ subscribers' = [subscribers EXCEPT ![c] = new] /\ owned' = owned \cup {l}
      /\ walks' = walks /\ KeyMap' = KeyMap /\ keyed' = keyed
  BY DEF AddListenerToEvent
<1>4. \A j \in 1 .. Len(arr) : arr[j] # l
  BY <1>1, <1>2 DEF AddListenerToEvent, Range
<1>5. /\ new \in Seq(Listeners) /\ Len(new) = Len(arr) + 1 /\ DOMAIN new = 1 .. Len(arr) + 1
      /\ Len(arr) \in Nat /\ new[Len(arr) + 1] = l /\ \A i \in 1 .. Len(arr) : new[i] = arr[i]
  <2> HIDE DEF arr
  <2> QED BY <1>2, Appended
<1> HIDE DEF new, arr, c
<1>6. ObserverTyped'
  BY <1>1, <1>3, <1>5 DEF ObserverIInv, ObserverTyped
<1>7. DOMAIN subscribers = Channels
  BY DEF ObserverIInv, ObserverTyped
<1>8. subscribers'[c] = new /\ \A d \in Channels : d # c => subscribers'[d] = subscribers[d]
  BY <1>1, <1>3, <1>7
<1>9. ASSUME NEW d \in Channels, NEW j \in DOMAIN subscribers'[d], NEW k \in DOMAIN subscribers'[d],
             subscribers'[d][j] = subscribers'[d][k]
      PROVE  j = k
  <2>1. CASE d = c
    <3>1. j \in 1 .. Len(arr) + 1 /\ k \in 1 .. Len(arr) + 1 /\ new[j] = new[k]
      BY <1>5, <1>8, <1>9, <2>1
    <3>2. (j \in 1 .. Len(arr) \/ j = Len(arr) + 1) /\ (k \in 1 .. Len(arr) \/ k = Len(arr) + 1)
      BY <1>5, <3>1
    <3> QED BY <1>2, <1>4, <1>5, <3>1, <3>2
  <2>2. CASE d # c
    BY <1>8, <1>9, <2>2, ObserverInWords
  <2> QED BY <2>1, <2>2
<1>10. ASSUME NEW n \in DOMAIN walks', NEW w, w = walks'[n]
       PROVE  OnItsWay(w)'
  <2>1. w \in Walks /\ w.channel \in Channels /\ OnItsWay(w)
    BY <1>3, <1>10, ObserverInWords
  <2>2. CASE w.channel = c
    <3>1. /\ Len(w.called) \in Nat /\ Len(w.called) <= Len(arr) /\ w.due \subseteq owned
          /\ \A m \in w.due : \E j \in 1 .. Len(arr) : arr[j] = m
      BY <2>1, <2>2, WalkFields DEF OnItsWay, arr
    <3>2. \A j \in 1 .. Len(arr) : j \in 1 .. Len(new)
      BY <1>5
    <3>3. \A m \in w.due : \E j \in 1 .. Len(new) : new[j] = m
      BY <1>5, <3>1, <3>2
    <3>4. Len(w.called) <= Len(new) /\ \A j \in 1 .. Len(w.called) : new[j] = arr[j]
      BY <1>5, <3>1
    <3>5. w.due \subseteq owned'
      BY <1>3, <3>1
    <3> QED BY <1>8, <2>1, <2>2, <3>3, <3>4, <3>5, StaysOnItsWay DEF arr
  <2>3. CASE w.channel # c
    <3>1. subscribers'[w.channel] = subscribers[w.channel] /\ owned \subseteq owned'
      BY <1>3, <1>8, <2>1, <2>3
    <3> QED BY <2>1, <3>1 DEF OnItsWay
  <2> QED BY <2>2, <2>3
<1>11. \A m, n \in DOMAIN walks' : walks'[m].channel = walks'[n].channel => m = n
  BY <1>3, ObserverInWords
<1> QED BY <1>6, <1>9, <1>10, <1>11, ObserverKept

(* A walk is what has the fields of one.                                       *)
LEMMA WalkMade ==
  ASSUME NEW c \in Channels, NEW i \in Nat \ {0}, NEW l \in Listeners \cup {Nobody},
         NEW s \in Seq(Listeners), NEW D \in SUBSET Listeners
  PROVE  [channel |-> c, i |-> i, calling |-> l, called |-> s, due |-> D] \in Walks
BY DEF Walks

(* A listener that is let go of is owed no call any more.                      *)
LEMMA LetGoKeeps ==
  ASSUME ObserverIInv, NEW l \in Listeners, LetGo(l)
  PROVE  ObserverIInv'
<1>1. /\ owned' = owned \ {l} /\ subscribers' = subscribers /\ KeyMap' = KeyMap /\ keyed' = keyed
      /\ walks' = [w \in DOMAIN walks |-> [walks[w] EXCEPT !.due = @ \ {l}]]
  BY DEF LetGo
<1>2. /\ Len(walks) \in Nat /\ DOMAIN walks = 1 .. Len(walks)
      /\ \A n \in 1 .. Len(walks) : walks[n] \in Walks /\ OnItsWay(walks[n])
      /\ \A m, n \in 1 .. Len(walks) : walks[m].channel = walks[n].channel => m = n
  BY ObserverInWords
<1>3. ASSUME NEW n \in 1 .. Len(walks)
      PROVE  /\ walks'[n] \in Walks /\ walks'[n].channel = walks[n].channel
             /\ walks'[n].i = walks[n].i /\ walks'[n].calling = walks[n].calling
             /\ walks'[n].called = walks[n].called /\ walks'[n].due = walks[n].due \ {l}
  <2>1. walks'[n] = [walks[n] EXCEPT !.due = walks[n].due \ {l}]
    BY <1>1, <1>2
  <2>2. walks[n] \in Walks
    BY <1>2
  <2> QED BY <2>1, <2>2 DEF Walks
<1>4. DOMAIN walks' = 1 .. Len(walks)
  BY <1>1, <1>2
<1>5. walks' \in Seq(Walks)
  <2>1. walks' = [n \in 1 .. Len(walks) |-> walks'[n]]
    BY <1>1, <1>2
  <2> QED BY <1>2, <1>3, <2>1
<1>6. ObserverTyped'
  BY <1>1, <1>5 DEF ObserverIInv, ObserverTyped
<1>7. ASSUME NEW n \in DOMAIN walks', NEW w, w = walks'[n]
      PROVE  OnItsWay(w)'
  <2>1. n \in 1 .. Len(walks) /\ OnItsWay(walks[n])
    BY <1>2, <1>4, <1>7
  <2>2. PICK u : u = walks[n]
    OBVIOUS
  <2>3. /\ w.channel = u.channel /\ w.i = u.i /\ w.calling = u.calling
        /\ w.called = u.called /\ w.due = u.due \ {l}
    BY <1>3, <1>7, <2>1, <2>2
  <2>4. OnItsWay(u)
    BY <2>1, <2>2
  <2> QED BY <1>1, <2>3, <2>4 DEF OnItsWay
<1>8. \A m, n \in DOMAIN walks' : walks'[m].channel = walks'[n].channel => m = n
  BY <1>2, <1>3, <1>4
<1>9. \A c \in Channels : \A j, k \in DOMAIN subscribers'[c] :
         subscribers'[c][j] = subscribers'[c][k] => j = k
  BY <1>1, ObserverInWords
<1> QED BY <1>6, <1>7, <1>8, <1>9, ObserverKept

(* An event that begins owes a call to those who are there.                    *)
LEMMA WalkBegins ==
  ASSUME ObserverIInv, NEW c \in Channels, NEW w, w = Walk(c)
  PROVE  w \in Walks /\ w.channel = c /\ OnItsWay(w)
<1>1. /\ w.channel = c /\ w.i = 1 /\ w.calling = Nobody /\ w.called = <<>>
      /\ w.due = {l \in owned : l \in Range(subscribers[c])}
  BY DEF Walk
<1>2. w.due \subseteq owned /\ owned \subseteq Listeners
  BY <1>1 DEF ObserverIInv, ObserverTyped
<1>3. w \in Walks
  BY <1>2 DEF Walk, Walks
<1>4. DOMAIN subscribers[c] = 1 .. Len(subscribers[c]) /\ Len(subscribers[c]) \in Nat
  BY ObserverInWords
<1>5. \A l \in w.due : \E j \in 1 .. Len(subscribers[c]) : subscribers[c][j] = l
  BY <1>1, <1>4 DEF Range
<1>6. Len(w.called) = 0
  BY <1>1
<1> QED BY <1>1, <1>2, <1>3, <1>4, <1>5, <1>6 DEF OnItsWay

(* A walk that begins, on top of those under way or of none.                   *)
LEMMA InvokeKeeps ==
  ASSUME ObserverIInv, NEW c \in Channels, invokeEvent(c)
  PROVE  ObserverIInv'
<1>1. /\ walks' = Append(walks, Walk(c)) /\ owned' = owned /\ subscribers' = subscribers
      /\ KeyMap' = KeyMap /\ keyed' = keyed
      /\ \A n \in DOMAIN walks : walks[n].channel # c
  BY DEF invokeEvent
<1>2. /\ Len(walks) \in Nat /\ DOMAIN walks = 1 .. Len(walks)
      /\ \A n \in 1 .. Len(walks) : walks[n] \in Walks /\ OnItsWay(walks[n])
      /\ \A m, n \in 1 .. Len(walks) : walks[m].channel = walks[n].channel => m = n
  BY ObserverInWords
<1>3. PICK w : w = Walk(c)
  OBVIOUS
<1>4. w \in Walks /\ w.channel = c /\ OnItsWay(w)
  BY <1>3, WalkBegins
<1>5. /\ walks' \in Seq(Walks) /\ DOMAIN walks' = 1 .. Len(walks) + 1
      /\ walks'[Len(walks) + 1] = w /\ \A n \in 1 .. Len(walks) : walks'[n] = walks[n]
  <2>1. walks \in Seq(Walks)
    BY DEF ObserverIInv, ObserverTyped
  <2> QED BY <1>1, <1>3, <1>4, <2>1, Appended
<1>6. \A n \in 1 .. Len(walks) + 1 : n \in 1 .. Len(walks) \/ n = Len(walks) + 1
  BY <1>2
<1>7. ObserverTyped'
  BY <1>1, <1>5 DEF ObserverIInv, ObserverTyped
<1>8. ASSUME NEW n \in DOMAIN walks', NEW v, v = walks'[n]
      PROVE  OnItsWay(v)'
  <2>1. OnItsWay(v)
    BY <1>2, <1>4, <1>5, <1>6, <1>8
  <2> QED BY <1>1, <2>1 DEF OnItsWay
<1>9. \A m, n \in DOMAIN walks' : walks'[m].channel = walks'[n].channel => m = n
  BY <1>1, <1>2, <1>4, <1>5, <1>6
<1>10. \A d \in Channels : \A j, k \in DOMAIN subscribers'[d] :
          subscribers'[d][j] = subscribers'[d][k] => j = k
  BY <1>1, ObserverInWords
<1> QED BY <1>7, <1>8, <1>9, <1>10, ObserverKept

(* The same when a key is sent: nothing else is under way.                     *)
LEMMA SendKeyInvokesKeeps == ObserverIInv /\ SendKeyInvokes => ObserverIInv'
<1> SUFFICES ASSUME ObserverIInv, SendKeyInvokes PROVE ObserverIInv'
  OBVIOUS
<1>1. /\ walks' = <<Walk(Head(keyed))>> /\ owned' = owned /\ subscribers' = subscribers
      /\ KeyMap' = KeyMap /\ keyed' = Tail(keyed) /\ keyed # <<>> /\ keyed \in Seq(Channels)
  BY DEF SendKeyInvokes, ObserverIInv, ObserverTyped
<1>2. PICK c \in Channels : c = Head(keyed)
  BY <1>1
<1>3. PICK w : w = Walk(c)
  OBVIOUS
<1>4. w \in Walks /\ OnItsWay(w)
  BY <1>3, WalkBegins
<1>5. walks' = <<w>>
  BY <1>1, <1>2, <1>3
<1>6. DOMAIN walks' = 1 .. 1 /\ walks'[1] = w /\ walks' \in Seq(Walks)
  BY <1>4, <1>5
<1>7. keyed' \in Seq(Channels)
  BY <1>1
<1>8. ObserverTyped'
  BY <1>1, <1>6, <1>7 DEF ObserverIInv, ObserverTyped
<1>9. ASSUME NEW n \in DOMAIN walks', NEW v, v = walks'[n]
      PROVE  OnItsWay(v)'
  <2>1. v = w
    BY <1>6, <1>9
  <2> QED BY <1>1, <1>4, <2>1 DEF OnItsWay
<1>10. \A m, n \in DOMAIN walks' : walks'[m].channel = walks'[n].channel => m = n
  BY <1>6
<1>11. \A d \in Channels : \A j, k \in DOMAIN subscribers'[d] :
          subscribers'[d][j] = subscribers'[d][k] => j = k
  BY <1>1, ObserverInWords
<1> QED BY <1>8, <1>9, <1>10, <1>11, ObserverKept

(* The innermost walk moves on: the others stay as they are.                   *)
LEMMA InnermostMoves ==
  ASSUME ObserverIInv, walks # <<>>, NEW v \in Walks, walks' = Innermost(v),
         v.channel = Last(walks).channel, OnItsWay(v)',
         subscribers' = subscribers, owned' = owned, KeyMap' = KeyMap, keyed' = keyed
  PROVE  ObserverIInv'
<1>1. /\ Len(walks) \in Nat /\ DOMAIN walks = 1 .. Len(walks)
      /\ \A n \in 1 .. Len(walks) : walks[n] \in Walks /\ OnItsWay(walks[n])
      /\ \A m, n \in 1 .. Len(walks) : walks[m].channel = walks[n].channel => m = n
  BY ObserverInWords
<1>2. walks \in Seq(Walks)
  BY DEF ObserverIInv, ObserverTyped
<1>3. Len(walks) \in 1 .. Len(walks) /\ Last(walks) = walks[Len(walks)]
  BY <1>1, <1>2 DEF Last
<1>4. /\ DOMAIN walks' = 1 .. Len(walks) /\ walks'[Len(walks)] = v
      /\ \A n \in 1 .. Len(walks) : n # Len(walks) => walks'[n] = walks[n]
  BY <1>1, <1>3 DEF Innermost
<1>5. walks' \in Seq(Walks)
  BY <1>2, <1>3 DEF Innermost
<1>6. ObserverTyped'
  BY <1>5 DEF ObserverIInv, ObserverTyped
<1>7. ASSUME NEW n \in DOMAIN walks', NEW w, w = walks'[n]
      PROVE  OnItsWay(w)'
  <2>1. CASE n = Len(walks)
    BY <1>4, <1>7, <2>1
  <2>2. CASE n # Len(walks)
    <3>1. OnItsWay(w)
      BY <1>1, <1>4, <1>7, <2>2
    <3> QED BY <3>1 DEF OnItsWay
  <2> QED BY <2>1, <2>2
<1>8. \A n \in 1 .. Len(walks) : walks'[n].channel = walks[n].channel
  BY <1>3, <1>4
<1>9. ASSUME NEW m \in DOMAIN walks', NEW n \in DOMAIN walks', walks'[m].channel = walks'[n].channel
      PROVE  m = n
  <2>1. m \in 1 .. Len(walks) /\ n \in 1 .. Len(walks)
    BY <1>4
  <2>2. walks[m].channel = walks[n].channel
    BY <1>8, <1>9, <2>1
  <2> QED BY <1>1, <2>1, <2>2
<1>10. \A d \in Channels : \A j, k \in DOMAIN subscribers'[d] :
          subscribers'[d][j] = subscribers'[d][k] => j = k
  BY ObserverInWords
<1> QED BY <1>6, <1>7, <1>9, <1>10, ObserverKept

(* It calls the listener at its place.                                         *)
LEMMA CallKeeps == ObserverIInv /\ Call => ObserverIInv'
<1> SUFFICES ASSUME ObserverIInv, Call PROVE ObserverIInv'
  OBVIOUS
<1> DEFINE w == Last(walks)  arr == subscribers[w.channel]  l == arr[w.i]
<1>0. PICK v : v = [w EXCEPT !.calling = l, !.called = Append(w.called, l)]
  OBVIOUS
<1>1. /\ walks # <<>> /\ w.calling = Nobody /\ w.i <= Len(arr) /\ walks' = Innermost(v)
      /\ subscribers' = subscribers /\ owned' = owned /\ KeyMap' = KeyMap /\ keyed' = keyed
  BY <1>0 DEF Call
<1>2. w \in Walks /\ OnItsWay(w)
  <2>1. Len(walks) \in 1 .. Len(walks)
    BY <1>1 DEF ObserverIInv, ObserverTyped
  <2> QED BY <2>1, ObserverInWords DEF Last
<1>3. w.channel \in Channels /\ w.i \in Nat \ {0} /\ w.called \in Seq(Listeners)
  BY <1>2, WalkFields
<1>4. arr \in Seq(Listeners) /\ Len(arr) \in Nat
  BY <1>3, ObserverInWords
<1>5. w.i \in 1 .. Len(arr)
  BY <1>1, <1>3, <1>4
<1>6. l \in Listeners /\ l # Nobody
  BY <1>4, <1>5, ObserverAssumption
<1> HIDE DEF arr
<1> HIDE DEF w, l
<1>a. v = [channel |-> w.channel, i |-> w.i, calling |-> l, called |-> Append(w.called, l), due |-> w.due]
  BY <1>0, <1>2 DEF Walks
<1>7. /\ v.channel = w.channel /\ v.i = w.i /\ v.calling = l /\ v.due = w.due
      /\ v.called = Append(w.called, l)
  BY <1>a
<1>8. v \in Walks
  <2>1. Append(w.called, l) \in Seq(Listeners) /\ w.due \in SUBSET Listeners
    BY <1>2, <1>3, <1>6, WalkFields
  <2> QED BY <1>3, <1>6, <1>a, <2>1, WalkMade
<1>9. /\ Len(w.called) = w.i - 1 /\ Len(w.called) <= Len(arr) /\ w.due \subseteq owned
      /\ \A j \in 1 .. Len(w.called) : w.called[j] = arr[j]
      /\ \A m \in w.due : \E j \in 1 .. Len(arr) : arr[j] = m
  BY <1>1, <1>2 DEF OnItsWay, arr
<1>10. /\ Len(v.called) = Len(w.called) + 1 /\ v.called[Len(w.called) + 1] = l
       /\ \A j \in 1 .. Len(w.called) : v.called[j] = w.called[j] /\ Len(w.called) \in Nat
  BY <1>3, <1>6, <1>7, Appended
<1>11. Len(v.called) = w.i /\ v.called[w.i] = arr[w.i]
  BY <1>3, <1>9, <1>10 DEF l
<1>12. \A j \in 1 .. w.i : j \in 1 .. Len(w.called) \/ j = w.i
  BY <1>3, <1>9
<1>13. \A j \in 1 .. Len(v.called) : v.called[j] = arr[j]
  BY <1>9, <1>10, <1>11, <1>12
<1>14. arr = subscribers'[v.channel]
  BY <1>1, <1>7 DEF arr
<1>15. OnItsWay(v)'
  BY <1>1, <1>5, <1>6, <1>7, <1>9, <1>11, <1>13, <1>14 DEF OnItsWay
<1> QED BY <1>1, <1>7, <1>8, <1>15, InnermostMoves DEF w

(* And goes on when the call returns.                                          *)
LEMMA CallbackKeeps == ObserverIInv /\ CallbackReturns => ObserverIInv'
<1> SUFFICES ASSUME ObserverIInv, CallbackReturns PROVE ObserverIInv'
  OBVIOUS
<1> DEFINE w == Last(walks)
<1>0. PICK v : v = [w EXCEPT !.calling = Nobody, !.i = w.i + 1]
  OBVIOUS
<1>1. /\ walks # <<>> /\ w.calling # Nobody /\ walks' = Innermost(v)
      /\ subscribers' = subscribers /\ owned' = owned /\ KeyMap' = KeyMap /\ keyed' = keyed
  BY <1>0 DEF CallbackReturns
<1>2. w \in Walks /\ OnItsWay(w)
  <2>1. Len(walks) \in 1 .. Len(walks)
    BY <1>1 DEF ObserverIInv, ObserverTyped
  <2> QED BY <2>1, ObserverInWords DEF Last
<1>3. w.i \in Nat \ {0}
  BY <1>2, WalkFields
<1> HIDE DEF w
<1>a. v = [channel |-> w.channel, i |-> w.i + 1, calling |-> Nobody, called |-> w.called, due |-> w.due]
  BY <1>0, <1>2 DEF Walks
<1>4. /\ v.channel = w.channel /\ v.i = w.i + 1 /\ v.calling = Nobody /\ v.due = w.due
      /\ v.called = w.called
  BY <1>a
<1>5. v \in Walks
  <2>1. /\ w.channel \in Channels /\ w.i + 1 \in Nat \ {0} /\ w.called \in Seq(Listeners)
        /\ w.due \in SUBSET Listeners
    BY <1>2, <1>3, WalkFields
  <2> QED BY <1>a, <2>1, WalkMade
<1>6. OnItsWay(v)'
  BY <1>1, <1>2, <1>3, <1>4 DEF OnItsWay
<1> QED BY <1>1, <1>4, <1>5, <1>6, InnermostMoves DEF w

(* The place of the walk is erased when its listener has expired: what comes   *)
(* before has been called and stays, and no walk owes an expired listener      *)
(* anything.                                                                   *)
LEMMA PruneKeeps == ObserverIInv /\ Prune => ObserverIInv'
<1> SUFFICES ASSUME ObserverIInv, Prune PROVE ObserverIInv'
  OBVIOUS
<1>1. PICK w : w = Last(walks)
  OBVIOUS
<1>2. PICK c, arr, i : c = w.channel /\ arr = subscribers[c] /\ i = w.i
  OBVIOUS
<1>3. PICK new : new = RemoveAt(arr, i)
  OBVIOUS
<1>4. /\ walks # <<>> /\ w.calling = Nobody /\ i <= Len(arr) /\ ~AliveListener(arr[i])
      /\ subscribers' = [subscribers EXCEPT ![c] = new]
      /\ walks' = walks /\ owned' = owned /\ KeyMap' = KeyMap /\ keyed' = keyed
  BY <1>1, <1>2, <1>3 DEF Prune
<1>5. PICK top \in 1 .. Len(walks) : w = walks[top]
  <2>1. Len(walks) \in 1 .. Len(walks)
    BY <1>4 DEF ObserverIInv, ObserverTyped
  <2> QED BY <1>1, <2>1 DEF Last
<1>6. w \in Walks /\ OnItsWay(w) /\ c \in Channels /\ i \in Nat \ {0}
  BY <1>2, <1>5, ObserverInWords, WalkFields
<1>7. /\ arr \in Seq(Listeners) /\ Len(arr) \in Nat /\ i \in 1 .. Len(arr)
      /\ \A j, k \in 1 .. Len(arr) : arr[j] = arr[k] => j = k
  BY <1>2, <1>4, <1>6, ObserverInWords
<1>8. /\ new \in Seq(Listeners) /\ Len(new) = Len(arr) - 1 /\ DOMAIN new = 1 .. Len(arr) - 1
      /\ \A j \in 1 .. i - 1 : new[j] = arr[j] /\ j \in 1 .. Len(arr) - 1
      /\ \A j \in i .. Len(arr) - 1 : new[j] = arr[j + 1]
  <2>1. arr \in Seq(Listeners) /\ i \in 1 .. Len(arr)
    BY <1>7
  <2>2. WithoutAt(new, arr, i, Listeners)
    BY <1>3, <2>1, WithoutPlace
  <2> QED BY <2>2 DEF WithoutAt
<1>9. subscribers \in [Channels -> Seq(Listeners)]
  BY DEF ObserverIInv, ObserverTyped
<1>10. subscribers'[c] = new /\ \A d \in Channels : d # c => subscribers'[d] = subscribers[d]
  BY <1>4, <1>6, <1>9
<1>11. ObserverTyped'
  BY <1>4, <1>6, <1>8, <1>9 DEF ObserverIInv, ObserverTyped
<1>12. ASSUME NEW d \in Channels, NEW j \in DOMAIN subscribers'[d], NEW k \in DOMAIN subscribers'[d],
              subscribers'[d][j] = subscribers'[d][k]
       PROVE  j = k
  <2>1. CASE d = c
    <3>1. j \in 1 .. Len(arr) - 1 /\ k \in 1 .. Len(arr) - 1 /\ new[j] = new[k]
      BY <1>8, <1>10, <1>12, <2>1
    <3>2. \A n \in 1 .. Len(arr) - 1 : n \in 1 .. i - 1 \/ n \in i .. Len(arr) - 1
      BY <1>7
    <3>0. ASSUME NEW n \in 1 .. Len(arr) - 1
          PROVE  \E a \in 1 .. Len(arr) : new[n] = arr[a] /\ a = IF n < i THEN n ELSE n + 1
      <4>1. CASE n \in 1 .. i - 1
        BY <1>6, <1>7, <1>8, <4>1
      <4>2. CASE n \in i .. Len(arr) - 1
        <5>1. n + 1 \in 1 .. Len(arr) /\ ~(n < i)
          BY <1>6, <1>7, <4>2
        <5> QED BY <1>8, <4>2, <5>1
      <4> QED BY <3>2, <4>1, <4>2
    <3>3. PICK a \in 1 .. Len(arr) : new[j] = arr[a] /\ a = IF j < i THEN j ELSE j + 1
      BY <3>0, <3>1
    <3>4. PICK b \in 1 .. Len(arr) : new[k] = arr[b] /\ b = IF k < i THEN k ELSE k + 1
      BY <3>0, <3>1
    <3>5. a = b
      BY <1>7, <3>1, <3>3, <3>4
    <3> QED BY <1>7, <3>1, <3>3, <3>4, <3>5
  <2>2. CASE d # c
    <3>1. subscribers'[d] = subscribers[d]
      BY <1>10, <2>2
    <3>2. PICK s : s = subscribers[d]
      OBVIOUS
    <3>3. DOMAIN s = 1 .. Len(s) /\ \A m, n \in 1 .. Len(s) : s[m] = s[n] => m = n
      BY <3>2, ObserverInWords
    <3> QED BY <1>12, <3>1, <3>2, <3>3
  <2> QED BY <2>1, <2>2
<1>13. ASSUME NEW n \in DOMAIN walks', NEW v, v = walks'[n]
       PROVE  OnItsWay(v)'
  <2>1. n \in 1 .. Len(walks) /\ v = walks[n] /\ v \in Walks /\ OnItsWay(v) /\ v.channel \in Channels
    BY <1>4, <1>13, ObserverInWords
  <2>2. CASE v.channel = c
    <3>1. v = w
      BY <1>2, <1>5, <2>1, <2>2, ObserverInWords
    <3>2. Len(v.called) = i - 1 /\ v.due \subseteq owned
      BY <1>2, <1>4, <1>6, <3>1 DEF OnItsWay
    <3>3. Len(v.called) <= Len(new) /\ \A j \in 1 .. Len(v.called) : new[j] = arr[j]
      BY <1>6, <1>7, <1>8, <3>2
    <3>4. ASSUME NEW l \in v.due PROVE \E j \in 1 .. Len(new) : new[j] = l
      <4>1. PICK k \in 1 .. Len(arr) : arr[k] = l
        BY <1>2, <1>6, <3>1 DEF OnItsWay
      <4>2. k # i
        BY <1>4, <3>2, <4>1 DEF AliveListener
      <4>3. CASE k < i
        <5>1. k \in 1 .. i - 1
          BY <1>6, <4>1, <4>3
        <5> QED BY <1>8, <4>1, <5>1
      <4>4. CASE k > i
        <5>1. k - 1 \in i .. Len(arr) - 1 /\ k - 1 \in 1 .. Len(arr) - 1 /\ (k - 1) + 1 = k
          BY <1>6, <1>7, <4>1, <4>4
        <5> QED BY <1>8, <4>1, <5>1
      <4> QED BY <1>6, <4>1, <4>2, <4>3, <4>4
    <3>5. v.due \subseteq owned'
      BY <1>4, <3>2
    <3> QED BY <1>2, <1>10, <2>1, <2>2, <3>3, <3>4, <3>5, StaysOnItsWay, SMTT(30)
  <2>3. CASE v.channel # c
    <3>1. subscribers'[v.channel] = subscribers[v.channel]
      BY <1>10, <2>1, <2>3
    <3>2. owned' = owned /\ OnItsWay(v)
      BY <1>4, <2>1
    <3> QED BY <3>1, <3>2 DEF OnItsWay
  <2> QED BY <2>2, <2>3
<1>14. \A m, n \in DOMAIN walks' : walks'[m].channel = walks'[n].channel => m = n
  BY <1>4, ObserverInWords
<1> QED BY <1>11, <1>12, <1>13, <1>14, ObserverKept

(* The innermost walk is over, or nothing is under way and an array is         *)
(* cleared.                                                                    *)
LEMMA ReturnsKeeps == ObserverIInv /\ InvokeReturns => ObserverIInv'
<1> SUFFICES ASSUME ObserverIInv, InvokeReturns PROVE ObserverIInv'
  OBVIOUS
<1>1. /\ walks # <<>> /\ walks' = Front(walks) /\ subscribers' = subscribers /\ owned' = owned
      /\ KeyMap' = KeyMap /\ keyed' = keyed /\ walks \in Seq(Walks)
  BY DEF InvokeReturns, ObserverIInv, ObserverTyped
<1>2. /\ walks' \in Seq(Walks) /\ Len(walks') = Len(walks) - 1 /\ Len(walks) \in Nat \ {0}
      /\ \A n \in 1 .. Len(walks) - 1 : walks'[n] = walks[n]
  BY <1>1, WithoutLast
<1>3. DOMAIN walks' = 1 .. Len(walks) - 1 /\ \A n \in 1 .. Len(walks) - 1 : n \in 1 .. Len(walks)
  BY <1>2
<1>4. ObserverTyped'
  BY <1>1, <1>2 DEF ObserverIInv, ObserverTyped
<1>5. ASSUME NEW n \in DOMAIN walks', NEW v, v = walks'[n]
      PROVE  OnItsWay(v)'
  <2>1. OnItsWay(v)
    BY <1>2, <1>3, <1>5, ObserverInWords
  <2> QED BY <1>1, <2>1 DEF OnItsWay
<1>6. \A m, n \in DOMAIN walks' : walks'[m].channel = walks'[n].channel => m = n
  BY <1>2, <1>3, ObserverInWords
<1>7. \A d \in Channels : \A j, k \in DOMAIN subscribers'[d] :
          subscribers'[d][j] = subscribers'[d][k] => j = k
  BY <1>1, ObserverInWords
<1> QED BY <1>4, <1>5, <1>6, <1>7, ObserverKept

(* Nothing is under way when an array is cleared.                              *)
LEMMA ClearKeeps ==
  ASSUME ObserverIInv, NEW c \in Channels, ClearListenersToEventOfType(c)
  PROVE  ObserverIInv'
<1>1. /\ walks = <<>> /\ subscribers' = [subscribers EXCEPT ![c] = <<>>]
      /\ UNCHANGED <<owned, walks, KeyMap, keyed>>
  BY DEF ClearListenersToEventOfType, Idle
<1>2. subscribers' \in [Channels -> Seq(Listeners)]
  BY <1>1 DEF ObserverIInv, ObserverTyped
<1>3. ObserverTyped'
  BY <1>1, <1>2 DEF ObserverIInv, ObserverTyped
<1>4. ASSUME NEW d \in Channels, NEW j \in DOMAIN subscribers'[d], NEW k \in DOMAIN subscribers'[d],
             subscribers'[d][j] = subscribers'[d][k]
      PROVE  j = k
  <2>1. subscribers'[d] = IF d = c THEN <<>> ELSE subscribers[d]
    BY <1>1 DEF ObserverIInv, ObserverTyped
  <2>2. d # c /\ subscribers'[d] = subscribers[d]
    BY <1>4, <2>1
  <2> QED BY <1>4, <2>2, ObserverInWords
<1>5. DOMAIN walks' = {}
  BY <1>1
<1> QED BY <1>3, <1>4, <1>5, ObserverKept

(* The keys only say which events are invoked.                                 *)
LEMMA KeysKeep ==
  ASSUME ObserverIInv, UNCHANGED <<subscribers, owned, walks>>,
         KeyMap' \in [Keys -> Seq(Channels)], keyed' \in Seq(Channels)
  PROVE  ObserverIInv'
<1>1. ObserverTyped'
  BY DEF ObserverIInv, ObserverTyped
<1>2. Once'
  BY DEF ObserverIInv, Once
<1>3. OneWalkEach'
  BY DEF ObserverIInv, OneWalkEach
<1>4. AllOnTheirWay'
  BY DEF ObserverIInv, AllOnTheirWay, OnItsWay
<1> QED BY <1>1, <1>2, <1>3, <1>4 DEF ObserverIInv

(* The invariant has a part for each action to keep.                           *)
LEMMA ObserverStep == ObserverIInv /\ [NextObserver]_observerVars => ObserverIInv'
<1> SUFFICES ASSUME ObserverIInv, [NextObserver]_observerVars PROVE ObserverIInv'
  OBVIOUS
<1>1. KeyMap \in [Keys -> Seq(Channels)] /\ keyed \in Seq(Channels)
  BY DEF ObserverIInv, ObserverTyped
<1>2. ASSUME NEW l \in Listeners, AddListenerToEvent(l) \/ LetGo(l) PROVE ObserverIInv'
  BY <1>2, AddListenerKeeps, LetGoKeeps
<1>3. ASSUME NEW c \in Channels, invokeEvent(c) \/ ClearListenersToEventOfType(c) PROVE ObserverIInv'
  BY <1>3, InvokeKeeps, ClearKeeps
<1>4. ASSUME NEW k \in Keys, sendKey(k) PROVE ObserverIInv'
  BY <1>1, <1>4, KeysKeep DEF sendKey
<1>5. ASSUME NEW k \in Keys, NEW c \in Channels, registerCtrlEvent(k, c) PROVE ObserverIInv'
  <2>1. KeyMap[k] \in Seq(Channels)
    BY <1>1
  <2>2. Append(KeyMap[k], c) \in Seq(Channels)
    BY <2>1
  <2>3. KeyMap' = [KeyMap EXCEPT ![k] = Append(KeyMap[k], c)] /\ keyed' = keyed
    BY <1>5 DEF registerCtrlEvent
  <2>4. KeyMap' \in [Keys -> Seq(Channels)]
    BY <1>1, <2>2, <2>3
  <2>5. UNCHANGED <<subscribers, owned, walks>>
    BY <1>5 DEF registerCtrlEvent
  <2> QED BY <1>1, <2>3, <2>4, <2>5, KeysKeep
<1>6. ASSUME NEW k \in Keys, NEW c \in Channels, unregisterCtrlEvent(k, c) PROVE ObserverIInv'
  <2>1. KeyMap[k] \in Seq(Channels)
    BY <1>1
  <2>2. PICK i \in DOMAIN KeyMap[k] : KeyMap' = [KeyMap EXCEPT ![k] = RemoveAt(KeyMap[k], i)]
    BY <1>6 DEF unregisterCtrlEvent
  <2>3. i \in 1 .. Len(KeyMap[k])
    BY <2>1
  <2>4. RemoveAt(KeyMap[k], i) \in Seq(Channels)
    BY <2>1, <2>3, WithoutPlace DEF WithoutAt
  <2>5. KeyMap' \in [Keys -> Seq(Channels)]
    BY <1>1, <2>2, <2>4
  <2>6. keyed' = keyed /\ UNCHANGED <<subscribers, owned, walks>>
    BY <1>6 DEF unregisterCtrlEvent
  <2> QED BY <1>1, <2>5, <2>6, KeysKeep
<1>7. CASE UNCHANGED observerVars
  BY <1>1, <1>7, KeysKeep DEF observerVars
<1> QED
  BY <1>2, <1>3, <1>4, <1>5, <1>6, <1>7, PruneKeeps, CallKeeps, CallbackKeeps, ReturnsKeeps,
     SendKeyInvokesKeeps DEF NextObserver

(* The inductive invariant holds.                                              *)
THEOREM ObserverReachable == SpecObserver => []ObserverIInv
<1> QED BY ObserverStarts, ObserverStep, PTL DEF SpecObserver

(* Only the end of an invocation takes a walk off.                             *)
LEMMA OnlyReturnsEnd ==
  ASSUME ObserverIInv, [NextObserver]_observerVars, Len(walks') < Len(walks)
  PROVE  InvokeReturns
<1>1. walks \in Seq(Walks) /\ Len(walks) \in Nat
  BY DEF ObserverIInv, ObserverTyped
<1>2. walks' # walks
  BY <1>1
<1>3. ASSUME NEW l \in Listeners, LetGo(l) PROVE FALSE
  <2>1. DOMAIN walks = 1 .. Len(walks) /\ walks' = [w \in 1 .. Len(walks) |-> walks'[w]]
    BY <1>1, <1>3 DEF LetGo
  <2> QED BY <1>1, <2>1
<1>4. ASSUME NEW c \in Channels, invokeEvent(c) PROVE FALSE
  <2>1. PICK w : w = Walk(c)
    OBVIOUS
  <2>2. w \in Walks /\ walks' = Append(walks, w)
    BY <1>4, <2>1, WalkBegins DEF invokeEvent
  <2>3. Len(walks') = Len(walks) + 1
    BY <1>1, <2>2, Appended
  <2> QED BY <1>1, <2>3
<1>5. ASSUME NEW v, walks' = Innermost(v) PROVE FALSE
  <2>1. DOMAIN walks' = DOMAIN walks /\ walks' = [n \in DOMAIN walks |-> walks'[n]]
    BY <1>5 DEF Innermost
  <2>2. walks' = [n \in 1 .. Len(walks) |-> walks'[n]]
    BY <1>1, <2>1
  <2> QED BY <1>1, <2>2
<1>6. ~Call /\ ~CallbackReturns
  BY <1>5 DEF Call, CallbackReturns
<1>7. ~SendKeyInvokes
  BY DEF SendKeyInvokes
<1>8. /\ \A l \in Listeners : ~AddListenerToEvent(l) /\ ~LetGo(l)
      /\ \A c \in Channels : ~invokeEvent(c) /\ ~ClearListenersToEventOfType(c)
      /\ \A k \in Keys : ~sendKey(k) /\ \A c \in Channels : ~registerCtrlEvent(k, c)
                                                         /\ ~unregisterCtrlEvent(k, c)
      /\ ~Prune
  BY <1>2, <1>3, <1>4 DEF AddListenerToEvent, ClearListenersToEventOfType, sendKey,
     registerCtrlEvent, unregisterCtrlEvent, Prune
<1> QED BY <1>2, <1>6, <1>7, <1>8 DEF NextObserver, observerVars

(* When an invocation returns it has called each listener that was there all   *)
(* the time exactly once, and returns the number of its calls, however many    *)
(* listeners came and went and however deep the calls were within each other.  *)
THEOREM EachListenerTriggered == SpecObserver => Triggered
<1> DEFINE Answered ==
      Len(walks') < Len(walks) =>
        LET w == Last(walks)
        IN  /\ w.due \subseteq Range(w.called) /\ IsInjective(w.called)
            /\ Len(w.called) = Len(subscribers[w.channel])
<1>1. ASSUME ObserverIInv, [NextObserver]_observerVars, Len(walks') < Len(walks)
      PROVE  LET w == Last(walks)
             IN  /\ w.due \subseteq Range(w.called) /\ IsInjective(w.called)
                 /\ Len(w.called) = Len(subscribers[w.channel])
  <2>1. InvokeReturns
    BY <1>1, OnlyReturnsEnd
  <2>2. PICK w, arr : w = Last(walks) /\ arr = subscribers[w.channel]
    OBVIOUS
  <2>3. walks # <<>> /\ w.calling = Nobody /\ w.i > Len(arr)
    BY <2>1, <2>2 DEF InvokeReturns
  <2>4. w \in Walks /\ OnItsWay(w)
    <3>1. Len(walks) \in 1 .. Len(walks)
      BY <1>1, <2>3 DEF ObserverIInv, ObserverTyped
    <3> QED BY <1>1, <2>2, <3>1, ObserverInWords DEF Last
  <2>5. w.channel \in Channels /\ w.i \in Nat \ {0} /\ w.called \in Seq(Listeners)
    BY <2>4, WalkFields
  <2>6. Len(arr) \in Nat /\ \A j, k \in 1 .. Len(arr) : arr[j] = arr[k] => j = k
    BY <1>1, <2>2, <2>5, ObserverInWords
  <2>7. /\ Len(w.called) = w.i - 1 /\ Len(w.called) <= Len(arr)
        /\ \A j \in 1 .. Len(w.called) : w.called[j] = arr[j]
        /\ \A l \in w.due : \E j \in 1 .. Len(arr) : arr[j] = l
    BY <2>2, <2>3, <2>4 DEF OnItsWay
  <2>8. Len(w.called) = Len(arr) /\ DOMAIN w.called = 1 .. Len(arr)
    BY <2>3, <2>5, <2>6, <2>7
  <2>9. w.due \subseteq Range(w.called)
    BY <2>7, <2>8 DEF Range
  <2>10. IsInjective(w.called)
    BY <2>6, <2>7, <2>8 DEF IsInjective
  <2> QED BY <2>2, <2>8, <2>9, <2>10
<1>2. ObserverIInv /\ [NextObserver]_observerVars => [Answered]_observerVars
  BY <1>1
<1> QED BY <1>2, ObserverReachable, PTL DEF SpecObserver, Triggered

--------------------------------------------------------------------------------
(* The windows.                                                                *)

WindowKinds == Kinds \cup {"IFOptions"}

WindowsTyped ==
  /\ interfaces \in Seq(WindowKinds) /\ Len(interfaces) <= MaxInterfaces
  /\ windowContainer \in Seq(0 .. Len(interfaces))
  /\ interfaceWindows \in Seq(1 .. Len(interfaces))
  /\ sweeping \in BOOLEAN

(* A window shows what no other shows, unless it shows nothing.                *)
ShownOnce(s) == \A v, w \in DOMAIN s : s[v] = s[w] => v = w \/ s[v] = Empty

(* The options that are still there are there once, and on the list of those   *)
(* who are told of the focus.                                                  *)
OptionsListed ==
  /\ \A m, n \in Options : m = n
  /\ \A n \in Options : \E k \in DOMAIN interfaceWindows : interfaceWindows[k] = n

WindowsIInv ==
  /\ WindowsTyped /\ ShownOnce(windowContainer)
  /\ \A j, k \in DOMAIN interfaceWindows : interfaceWindows[j] = interfaceWindows[k] => j = k
  /\ OptionsListed /\ EmptySwept

(* What is checked follows.                                                    *)
LEMMA WindowsFollow == WindowsIInv => WindowsInv
<1> SUFFICES ASSUME WindowsIInv PROVE WindowsInv
  OBVIOUS
<1>1. interfaces \in Seq(WindowKinds) /\ windowContainer \in Seq(0 .. Len(interfaces))
      /\ interfaceWindows \in Seq(1 .. Len(interfaces)) /\ Len(interfaces) \in Nat
      /\ DOMAIN interfaces = 1 .. Len(interfaces)
  BY DEF WindowsIInv, WindowsTyped
<1>2. Range(interfaces) \subseteq WindowKinds
  BY <1>1 DEF Range
<1>3. IsInjective(interfaceWindows)
  BY DEF WindowsIInv, IsInjective
<1>4. Range(interfaceWindows) \subseteq 1 .. Len(interfaces)
  BY <1>1 DEF Range
<1>5. Shown \subseteq 1 .. Len(interfaces)
  <2>1. Range(windowContainer) \subseteq 0 .. Len(interfaces)
    BY <1>1 DEF Range
  <2> QED BY <1>1, <2>1 DEF Shown, Empty
<1>6. WindowsTypeOK
  <2>1. Range(interfaceWindows) \cup Shown \subseteq DOMAIN interfaces
    BY <1>1, <1>4, <1>5
  <2> QED BY <1>2, <1>3, <2>1 DEF WindowsTypeOK, WindowsIInv, WindowsTyped, WindowKinds, ShownOnce
<1>7. OneOptions
  <2>1. CASE Options = {}
    BY <2>1, FS_EmptySet DEF OneOptions
  <2>2. CASE Options # {}
    <3>1. PICK n : n \in Options
      BY <2>2
    <3>2. Options = {n}
      BY <3>1 DEF WindowsIInv, OptionsListed
    <3>3. Cardinality({n}) = 1
      BY FS_Singleton
    <3> QED BY <3>2, <3>3 DEF OneOptions
  <2> QED BY <2>1, <2>2
<1> QED BY <1>6, <1>7 DEF WindowsInv, WindowsIInv

(* At first there is no window.                                                *)
LEMMA WindowsStart == InitWindows => WindowsIInv
<1> SUFFICES ASSUME InitWindows PROVE WindowsIInv
  OBVIOUS
<1>1. interfaces = <<>> /\ windowContainer = <<>> /\ interfaceWindows = <<>> /\ sweeping = FALSE
  BY DEF InitWindows
<1>2. WindowsTyped
  <2>1. /\ interfaces \in Seq(WindowKinds) /\ windowContainer \in Seq(0 .. Len(interfaces))
        /\ interfaceWindows \in Seq(1 .. Len(interfaces))
    BY <1>1
  <2>2. Len(interfaces) <= MaxInterfaces
    BY <1>1, WindowsAssumption
  <2>3. sweeping \in BOOLEAN
    BY <1>1
  <2> QED BY <2>1, <2>2, <2>3 DEF WindowsTyped
<1>3. ShownOnce(windowContainer) /\ EmptySwept
  BY <1>1 DEF ShownOnce, EmptySwept, Range
<1>4. Options = {}
  BY <1>1 DEF Options
<1> QED BY <1>1, <1>2, <1>3, <1>4 DEF WindowsIInv, OptionsListed

(* What is left of a sequence when only those of a set are kept.               *)
LEMMA OnlyKeeps ==
  ASSUME NEW S, NEW s \in Seq(S), NEW T, NEW t, t = Only(s, T)
  PROVE  /\ t \in Seq(S \cap T)
         /\ \A k \in DOMAIN t : \E i \in DOMAIN s : t[k] = s[i]
         /\ \A k, m \in DOMAIN t : k # m => \E i, j \in DOMAIN s : i # j /\ t[k] = s[i] /\ t[m] = s[j]
         /\ \A i \in DOMAIN s : s[i] \in T => \E k \in DOMAIN t : t[k] = s[i]
<1>1. PICK kept : kept = {i \in DOMAIN s : s[i] \in T}
  OBVIOUS
<1>2. t = Selection(s, kept)
  BY <1>1 DEF Only, Selection
<1>3. kept \in SUBSET (DOMAIN s) /\ \A i \in kept : s[i] \in S \cap T
  BY <1>1
<1>4. /\ \A k \in DOMAIN t : \E i \in kept : t[k] = s[i]
      /\ \A k, m \in DOMAIN t : k # m => \E i, j \in kept : i # j /\ t[k] = s[i] /\ t[m] = s[j]
      /\ \A i \in kept : \E k \in DOMAIN t : t[k] = s[i]
      /\ t \in Seq({s[i] : i \in kept})
  BY <1>2, <1>3, Selected
<1>5. t \in Seq(S \cap T)
  <2>1. {s[i] : i \in kept} \subseteq S \cap T
    BY <1>3
  <2> QED BY <1>4, <2>1
<1>6. kept \subseteq DOMAIN s
  BY <1>3
<1>7. \A k \in DOMAIN t : \E i \in DOMAIN s : t[k] = s[i]
  BY <1>4, <1>6, ZenonT(20)
<1>8. ASSUME NEW k \in DOMAIN t, NEW m \in DOMAIN t, k # m
      PROVE  \E i, j \in DOMAIN s : i # j /\ t[k] = s[i] /\ t[m] = s[j]
  <2>1. PICK i \in kept, j \in kept : i # j /\ t[k] = s[i] /\ t[m] = s[j]
    BY <1>4, <1>8
  <2> QED BY <1>6, <2>1
<1>9. \A i \in DOMAIN s : s[i] \in T => i \in kept
  BY <1>1
<1> QED BY <1>4, <1>5, <1>7, <1>8, <1>9

(* What the event first does to the windows: the options go if the focus has   *)
(* left, and no window shows what it did not show before.                      *)
LEMMA SeenFacts ==
  ASSUME WindowsIInv
  PROVE  /\ SeenWindows \in Seq(0 .. Len(interfaces)) /\ DOMAIN SeenWindows = DOMAIN windowContainer
         /\ ShownOnce(SeenWindows)
         /\ \A w \in DOMAIN SeenWindows :
              SeenWindows[w] = windowContainer[w] \/ (SeenWindows[w] = Empty /\ Unfocusing)
         /\ Unfocusing => \A w \in DOMAIN SeenWindows : SeenWindows[w] \notin Options
<1>1. /\ windowContainer \in Seq(0 .. Len(interfaces)) /\ Len(interfaces) \in Nat
      /\ DOMAIN windowContainer = 1 .. Len(windowContainer)
      /\ Len(windowContainer) \in Nat
  BY DEF WindowsIInv, WindowsTyped
<1>2. PICK s : s = SeenWindows
  OBVIOUS
<1>3. /\ DOMAIN s = DOMAIN windowContainer
      /\ \A w \in DOMAIN s : s[w] = IF windowContainer[w] \in Detached THEN Empty ELSE windowContainer[w]
  BY <1>2 DEF SeenWindows
<1>4. Detached # {} => Unfocusing
  BY DEF Detached
<1>5. \A w \in DOMAIN s : s[w] = windowContainer[w] \/ (s[w] = Empty /\ Unfocusing)
  BY <1>3, <1>4
<1>6. s \in Seq(0 .. Len(interfaces))
  <2>1. PICK n \in Nat : n = Len(windowContainer)
    BY <1>1
  <2>2. \A w \in 1 .. n : windowContainer[w] \in 0 .. Len(interfaces) /\ Empty \in 0 .. Len(interfaces)
    BY <1>1, <2>1 DEF Empty
  <2>3. \A w \in 1 .. n : s[w] \in 0 .. Len(interfaces)
    BY <1>1, <1>3, <2>1, <2>2
  <2>4. s = [w \in 1 .. n |-> s[w]]
    BY <1>1, <1>2, <2>1 DEF SeenWindows
  <2> QED BY <2>3, <2>4
<1>7. ShownOnce(s)
  BY <1>3, <1>5 DEF WindowsIInv, ShownOnce
<1>8. ASSUME Unfocusing, NEW w \in DOMAIN s, s[w] \in Options PROVE FALSE
  <2>1. Empty \notin Options
    BY <1>1 DEF Options, Empty, WindowsIInv, WindowsTyped
  <2>2. windowContainer[w] \notin Detached /\ windowContainer[w] = s[w]
    BY <1>3, <1>8, <2>1
  <2>3. s[w] \in Range(interfaceWindows) /\ Alive(s[w]) /\ interfaces[s[w]] = "IFOptions"
    BY <1>8 DEF WindowsIInv, OptionsListed, Options, Range
  <2> QED BY <1>8, <2>2, <2>3 DEF Detached, Told
<1> QED BY <1>2, <1>3, <1>5, <1>6, <1>7, <1>8

(* And to the list: those who are gone are taken off it, nobody else.          *)
LEMMA SeenListFacts ==
  ASSUME WindowsIInv
  PROVE  /\ SeenInterfaces \in Seq(1 .. Len(interfaces))
         /\ \A j, k \in DOMAIN SeenInterfaces : SeenInterfaces[j] = SeenInterfaces[k] => j = k
         /\ \A n \in Options : \E k \in DOMAIN SeenInterfaces : SeenInterfaces[k] = n
<1>1. interfaceWindows \in Seq(1 .. Len(interfaces))
  BY DEF WindowsIInv, WindowsTyped
<1>2. \A j, k \in DOMAIN interfaceWindows : interfaceWindows[j] = interfaceWindows[k] => j = k
  BY DEF WindowsIInv
<1>3. \A n \in Options : \E k \in DOMAIN interfaceWindows : interfaceWindows[k] = n
  BY DEF WindowsIInv, OptionsListed
<1>4. CASE isWindowSelected # wasWinSelected
  <2>1. PICK t : t = Only(interfaceWindows, Told)
    OBVIOUS
  <2>2. SeenInterfaces = t
    BY <1>4, <2>1 DEF SeenInterfaces
  <2>3. /\ t \in Seq((1 .. Len(interfaces)) \cap Told)
        /\ \A k, m \in DOMAIN t : k # m =>
             \E i, j \in DOMAIN interfaceWindows :
               i # j /\ t[k] = interfaceWindows[i] /\ t[m] = interfaceWindows[j]
        /\ \A i \in DOMAIN interfaceWindows :
             interfaceWindows[i] \in Told => \E k \in DOMAIN t : t[k] = interfaceWindows[i]
    <3>1. PICK S : S = 1 .. Len(interfaces)
      OBVIOUS
    <3>2. interfaceWindows \in Seq(S)
      BY <1>1, <3>1
    <3>3. PICK L : L = interfaceWindows
      OBVIOUS
    <3>4. /\ t \in Seq(S \cap Told)
          /\ \A k \in DOMAIN t : \E i \in DOMAIN L : t[k] = L[i]
          /\ \A k, m \in DOMAIN t : k # m => \E i, j \in DOMAIN L : i # j /\ t[k] = L[i] /\ t[m] = L[j]
          /\ \A i \in DOMAIN L : L[i] \in Told => \E k \in DOMAIN t : t[k] = L[i]
      <4>1. L \in Seq(S) /\ t = Only(L, Told)
        BY <2>1, <3>2, <3>3
      <4> QED BY <4>1, OnlyKeeps
    <3> QED BY <3>1, <3>3, <3>4
  <2>4. t \in Seq(1 .. Len(interfaces))
    BY <2>3
  <2>5. \A j, k \in DOMAIN t : t[j] = t[k] => j = k
    BY <1>2, <2>3
  <2>6. ASSUME NEW n \in Options PROVE \E k \in DOMAIN t : t[k] = n
    <3>1. PICK i \in DOMAIN interfaceWindows : interfaceWindows[i] = n
      BY <1>3
    <3>2. n \in Told
      BY <3>1 DEF Told, Options, Range
    <3> QED BY <2>3, <3>1, <3>2
  <2> QED BY <2>2, <2>4, <2>5, <2>6
<1>5. CASE isWindowSelected = wasWinSelected
  BY <1>1, <1>2, <1>3, <1>5 DEF SeenInterfaces
<1> QED BY <1>4, <1>5

(* What a step may do to the windows and the list: an interface that is new is *)
(* of options only if there were none, and on the list then; nothing else is   *)
(* shown that was not, and a window without content waits for the sweep.       *)
LEMMA WindowsKept ==
  ASSUME WindowsIInv,
         interfaces' \in Seq(WindowKinds), Len(interfaces') <= MaxInterfaces,
         Len(interfaces) <= Len(interfaces'), Len(interfaces') <= Len(interfaces) + 1,
         \A n \in 1 .. Len(interfaces) : interfaces'[n] = interfaces[n],
         windowContainer' \in Seq(0 .. Len(interfaces')), ShownOnce(windowContainer'),
         interfaceWindows' \in Seq(1 .. Len(interfaces')),
         \A j, k \in DOMAIN interfaceWindows' : interfaceWindows'[j] = interfaceWindows'[k] => j = k,
         \A w \in DOMAIN windowContainer' : windowContainer'[w] \in 1 .. Len(interfaces) =>
            \E v \in DOMAIN windowContainer : windowContainer[v] = windowContainer'[w],
         \A n \in Options : \E k \in DOMAIN interfaceWindows' : interfaceWindows'[k] = n,
         \A n \in 1 .. Len(interfaces') : n \notin 1 .. Len(interfaces) /\ interfaces'[n] = "IFOptions" =>
            Options = {} /\ \E k \in DOMAIN interfaceWindows' : interfaceWindows'[k] = n,
         sweeping' \in BOOLEAN,
         (\E w \in DOMAIN windowContainer' : windowContainer'[w] = Empty) => sweeping'
  PROVE  WindowsIInv'
<1>1. WindowsTyped'
  BY DEF WindowsTyped
<1>2. ShownOnce(windowContainer)'
  BY DEF ShownOnce
<1>3. EmptySwept'
  BY DEF EmptySwept, Range
<1>4. Len(interfaces) \in Nat /\ DOMAIN interfaces = 1 .. Len(interfaces) /\ Len(interfaces') \in Nat
      /\ DOMAIN interfaces' = 1 .. Len(interfaces')
  BY DEF WindowsIInv, WindowsTyped
<1>5. ASSUME NEW n \in Options'
      PROVE  /\ n \in 1 .. Len(interfaces') /\ interfaces'[n] = "IFOptions"
             /\ n \in 1 .. Len(interfaces) => n \in Options
  <2>1. n \in 1 .. Len(interfaces') /\ interfaces'[n] = "IFOptions" /\ Alive(n)'
    BY <1>4 DEF Options
  <2>2. n \in Shown'
    BY <2>1 DEF Alive, SelfHeld
  <2>3. PICK w \in DOMAIN windowContainer' : windowContainer'[w] = n
    BY <2>2 DEF Shown, Range
  <2>4. ASSUME n \in 1 .. Len(interfaces) PROVE n \in Options
    <3>1. PICK v \in DOMAIN windowContainer : windowContainer[v] = n
      BY <2>3, <2>4
    <3>2. n # Empty
      BY <1>4, <2>4 DEF Empty
    <3>3. n \in Shown
      BY <3>1, <3>2 DEF Shown, Range
    <3> QED BY <1>4, <2>1, <2>4, <3>3 DEF Options, Alive
  <2> QED BY <2>1, <2>4
<1>6. \A m, n \in Options : m = n
  BY DEF WindowsIInv, OptionsListed
<1>7. ASSUME NEW m \in Options', NEW n \in Options' PROVE m = n
  <2>1. CASE m \in 1 .. Len(interfaces) /\ n \in 1 .. Len(interfaces)
    BY <1>5, <1>6, <2>1
  <2>2. CASE m \notin 1 .. Len(interfaces) /\ n \notin 1 .. Len(interfaces)
    BY <1>4, <1>5, <2>2
  <2>3. CASE m \in 1 .. Len(interfaces) /\ n \notin 1 .. Len(interfaces)
    BY <1>5, <2>3
  <2>4. CASE m \notin 1 .. Len(interfaces) /\ n \in 1 .. Len(interfaces)
    BY <1>5, <2>4
  <2> QED BY <2>1, <2>2, <2>3, <2>4
<1>8. ASSUME NEW n \in Options' PROVE \E k \in DOMAIN interfaceWindows' : interfaceWindows'[k] = n
  BY <1>5
<1>9. OptionsListed'
  BY <1>7, <1>8 DEF OptionsListed
<1> QED BY <1>1, <1>2, <1>3, <1>9 DEF WindowsIInv

(* The windows after they were restacked: none that was not there, but for     *)
(* those that are put in, and still each once.                                 *)
Restacked(t, s, new) ==
  /\ \A w \in DOMAIN t : (\E v \in DOMAIN s : t[w] = s[v]) \/ t[w] \in new
  /\ ShownOnce(t)

(* The first one is taken away.                                                *)
LEMMA TailRestacks ==
  ASSUME NEW S, NEW s \in Seq(S), ShownOnce(s), s # <<>>, NEW t, t = Tail(s)
  PROVE  t \in Seq(S) /\ Restacked(t, s, {})
<1>1. PICK n \in Nat : n = Len(s) - 1 /\ DOMAIN s = 1 .. n + 1
  BY DEF ShownOnce
<1>2. t \in Seq(S) /\ DOMAIN t = 1 .. n /\ \A w \in 1 .. n : t[w] = s[w + 1]
  BY <1>1
<1>3. \A w \in 1 .. n : w + 1 \in 1 .. n + 1
  BY <1>1
<1>4. \A w \in DOMAIN t : \E v \in DOMAIN s : t[w] = s[v]
  BY <1>1, <1>2, <1>3
<1>5. ASSUME NEW v \in DOMAIN t, NEW w \in DOMAIN t, t[v] = t[w], v # w PROVE t[v] = Empty
  <2>1. v + 1 \in DOMAIN s /\ w + 1 \in DOMAIN s /\ s[v + 1] = s[w + 1] /\ v + 1 # w + 1
    BY <1>1, <1>2, <1>3, <1>5
  <2>2. s[v + 1] = Empty
    BY <2>1 DEF ShownOnce
  <2> QED BY <1>2, <2>2
<1> QED BY <1>2, <1>4, <1>5 DEF Restacked, ShownOnce

(* A window is added behind the others.                                        *)
LEMMA AppendRestacks ==
  ASSUME NEW S, NEW s \in Seq(S), ShownOnce(s), NEW x \in S, \A w \in DOMAIN s : s[w] # x,
         NEW t, t = Append(s, x)
  PROVE  t \in Seq(S) /\ Restacked(t, s, {x})
<1>1. PICK n \in Nat : n = Len(s) /\ DOMAIN s = 1 .. n
  BY DEF ShownOnce
<1>2. t \in Seq(S) /\ DOMAIN t = 1 .. n + 1 /\ t[n + 1] = x /\ \A w \in 1 .. n : t[w] = s[w]
  BY <1>1, Appended
<1>3. \A w \in 1 .. n + 1 : w \in 1 .. n \/ w = n + 1
  BY <1>1
<1>4. \A w \in DOMAIN t : (\E v \in DOMAIN s : t[w] = s[v]) \/ t[w] = x
  BY <1>1, <1>2, <1>3
<1>5. ASSUME NEW v \in DOMAIN t, NEW w \in DOMAIN t, t[v] = t[w], v # w PROVE t[v] = Empty
  <2>1. v \in 1 .. n /\ w \in 1 .. n
    BY <1>1, <1>2, <1>3, <1>5
  <2>2. s[v] = Empty
    BY <1>1, <1>2, <1>5, <2>1 DEF ShownOnce
  <2> QED BY <1>2, <2>1, <2>2
<1> QED BY <1>2, <1>4, <1>5 DEF Restacked, ShownOnce

(* Or before them.                                                             *)
LEMMA PrependRestacks ==
  ASSUME NEW S, NEW s \in Seq(S), ShownOnce(s), NEW x \in S,
         x = Empty \/ \A w \in DOMAIN s : s[w] # x,
         NEW t, t = <<x>> \o s
  PROVE  t \in Seq(S) /\ Restacked(t, s, {x})
<1>1. PICK n \in Nat : n = Len(s) /\ DOMAIN s = 1 .. n
  BY DEF ShownOnce
<1>2. <<x>> \in Seq(S) /\ Len(<<x>>) = 1
  OBVIOUS
<1>3. t \in Seq(S) /\ DOMAIN t = 1 .. n + 1 /\ t[1] = x /\ \A w \in 2 .. n + 1 : t[w] = s[w - 1]
  <2>1. /\ t \in Seq(S) /\ Len(t) = Len(<<x>>) + Len(s) /\ DOMAIN t = 1 .. Len(t)
        /\ \A i \in 1 .. Len(<<x>>) : t[i] = <<x>>[i]
        /\ \A i \in Len(<<x>>) + 1 .. Len(<<x>>) + Len(s) : t[i] = s[i - Len(<<x>>)]
    BY <1>2, Concatenated
  <2>2. Len(t) = n + 1 /\ t[1] = x
    BY <1>1, <1>2, <2>1
  <2> QED BY <1>1, <1>2, <2>1, <2>2
<1>4. \A w \in 1 .. n + 1 : w = 1 \/ (w \in 2 .. n + 1 /\ w - 1 \in 1 .. n)
  BY <1>1
<1>5. \A w \in DOMAIN t : (\E v \in DOMAIN s : t[w] = s[v]) \/ t[w] = x
  BY <1>1, <1>3, <1>4
<1>6. ASSUME NEW v \in DOMAIN t, NEW w \in DOMAIN t, t[v] = t[w], v # w PROVE t[v] = Empty
  <2>1. CASE v = 1 \/ w = 1
    <3>1. t[v] = x /\ \E u \in DOMAIN s : s[u] = x
      BY <1>1, <1>3, <1>4, <1>6, <2>1
    <3> QED BY <3>1
  <2>2. CASE v # 1 /\ w # 1
    <3>1. v - 1 \in DOMAIN s /\ w - 1 \in DOMAIN s /\ s[v - 1] = s[w - 1] /\ v - 1 # w - 1
      BY <1>1, <1>3, <1>4, <1>6, <2>2
    <3>2. s[v - 1] = Empty
      BY <3>1 DEF ShownOnce
    <3> QED BY <1>3, <1>4, <2>2, <3>2
  <2> QED BY <2>1, <2>2
<1> QED BY <1>3, <1>5, <1>6 DEF Restacked, ShownOnce

(* One window comes to the front.                                              *)
LEMMA FrontRestacks ==
  ASSUME NEW S, NEW s \in Seq(S), ShownOnce(s), NEW w \in DOMAIN s,
         NEW t, t = <<s[w]>> \o RemoveAt(s, w)
  PROVE  t \in Seq(S) /\ Restacked(t, s, {})
<1>1. PICK n \in Nat : n = Len(s) /\ DOMAIN s = 1 .. n
  BY DEF ShownOnce
<1>2. PICK r, x : r = RemoveAt(s, w) /\ x = s[w]
  OBVIOUS
<1>3. w \in 1 .. n /\ x \in S
  BY <1>1, <1>2
<1>4. /\ r \in Seq(S) /\ DOMAIN r = 1 .. n - 1
      /\ \A j \in 1 .. w - 1 : r[j] = s[j] /\ j \in 1 .. n - 1
      /\ \A j \in w .. n - 1 : r[j] = s[j + 1]
  <2>1. w \in 1 .. Len(s) /\ r = RemoveAt(s, w)
    BY <1>1, <1>2
  <2>2. /\ r \in Seq(S) /\ Len(r) = Len(s) - 1 /\ DOMAIN r = 1 .. Len(s) - 1 /\ Len(s) \in Nat
        /\ \A j \in 1 .. w - 1 : r[j] = s[j] /\ j \in 1 .. Len(s) - 1
        /\ \A j \in w .. Len(s) - 1 : r[j] = s[j + 1]
    <3>1. WithoutAt(r, s, w, S)
      BY <2>1, WithoutPlace
    <3> QED BY <3>1 DEF WithoutAt
  <2> QED BY <1>1, <2>2
<1>5. ASSUME NEW j \in 1 .. n - 1
      PROVE  \E i \in 1 .. n : i # w /\ r[j] = s[i] /\ i = IF j < w THEN j ELSE j + 1
  <2>1. CASE j < w
    <3>1. j \in 1 .. w - 1 /\ j \in 1 .. n /\ j # w
      BY <1>3, <2>1
    <3> QED BY <1>4, <2>1, <3>1
  <2>2. CASE ~(j < w)
    <3>1. j \in w .. n - 1 /\ j + 1 \in 1 .. n /\ j + 1 # w
      BY <1>3, <2>2
    <3> QED BY <1>4, <2>2, <3>1
  <2> QED BY <2>1, <2>2
<1>6. ASSUME NEW j \in DOMAIN r, NEW k \in DOMAIN r, r[j] = r[k], j # k PROVE r[j] = Empty
  <2>1. PICK a \in 1 .. n : r[j] = s[a] /\ a = IF j < w THEN j ELSE j + 1
    BY <1>4, <1>5
  <2>2. PICK b \in 1 .. n : r[k] = s[b] /\ b = IF k < w THEN k ELSE k + 1
    BY <1>4, <1>5
  <2>3. a # b
    BY <1>3, <1>4, <1>6, <2>1, <2>2
  <2> QED BY <1>1, <1>6, <2>1, <2>2, <2>3 DEF ShownOnce
<1>7. ShownOnce(r)
  BY <1>6 DEF ShownOnce
<1>8. ASSUME NEW j \in DOMAIN r, r[j] = x PROVE x = Empty
  <2>1. PICK a \in 1 .. n : r[j] = s[a] /\ a # w
    BY <1>4, <1>5
  <2> QED BY <1>1, <1>2, <1>3, <1>8, <2>1 DEF ShownOnce
<1>9. t \in Seq(S) /\ Restacked(t, r, {x})
  <2>1. /\ r \in Seq(S) /\ x \in S /\ t = <<x>> \o r
        /\ x = Empty \/ \A j \in DOMAIN r : r[j] # x
    BY <1>2, <1>3, <1>4, <1>8
  <2> QED BY <1>7, <2>1, PrependRestacks
<1>10. \A j \in DOMAIN r : \E i \in DOMAIN s : r[j] = s[i]
  BY <1>1, <1>4, <1>5
<1>11. \A j \in DOMAIN t : \E i \in DOMAIN s : t[j] = s[i]
  <2> SUFFICES ASSUME NEW j \in DOMAIN t PROVE \E i \in DOMAIN s : t[j] = s[i]
    OBVIOUS
  <2>1. (\E v \in DOMAIN r : t[j] = r[v]) \/ t[j] = x
    BY <1>9 DEF Restacked
  <2>2. CASE \E v \in DOMAIN r : t[j] = r[v]
    BY <1>10, <2>2
  <2>3. CASE t[j] = x
    BY <1>2, <2>3
  <2> QED BY <2>1, <2>2, <2>3
<1> QED BY <1>9, <1>11 DEF Restacked

(* What TellFocus makes of the sweep.                                          *)
LEMMA FocusTold ==
  ASSUME sweeping \in BOOLEAN, TellFocus
  PROVE  sweeping' \in BOOLEAN /\ (sweeping \/ Unfocusing => sweeping')
                               /\ wasWinSelected' = isWindowSelected
<1>1. sweeping' = (sweeping \/ Unfocusing) /\ wasWinSelected' = isWindowSelected
  BY DEF TellFocus
<1>2. (sweeping \/ Unfocusing) \in BOOLEAN
  BY Zenon
<1> QED BY <1>1, <1>2, Zenon

(* An event that opens nothing.                                                *)
LEMMA EventKeeps ==
  ASSUME WindowsIInv, TellFocus, interfaces' = interfaces, interfaceWindows' = SeenInterfaces,
         windowContainer' \in Seq(0 .. Len(interfaces)), Restacked(windowContainer', SeenWindows, {})
  PROVE  WindowsIInv'
<1>1. /\ interfaces \in Seq(WindowKinds) /\ Len(interfaces) <= MaxInterfaces
      /\ Len(interfaces) \in Nat /\ sweeping \in BOOLEAN
  BY DEF WindowsIInv, WindowsTyped
<1>2. sweeping' \in BOOLEAN /\ (sweeping \/ Unfocusing => sweeping')
  BY <1>1, FocusTold
<1>3. ASSUME NEW w \in DOMAIN windowContainer'
      PROVE  \/ \E v \in DOMAIN windowContainer : windowContainer[v] = windowContainer'[w]
             \/ windowContainer'[w] = Empty /\ Unfocusing
  <2>1. PICK v \in DOMAIN SeenWindows : windowContainer'[w] = SeenWindows[v]
    BY DEF Restacked
  <2> QED BY <2>1, SeenFacts
<1>4. ASSUME NEW w \in DOMAIN windowContainer', windowContainer'[w] = Empty PROVE sweeping'
  <2>1. CASE \E v \in DOMAIN windowContainer : windowContainer[v] = Empty
    BY <1>2, <2>1 DEF WindowsIInv, EmptySwept, Range
  <2>2. CASE Unfocusing
    BY <1>2, <2>2
  <2> QED BY <1>3, <1>4, <2>1, <2>2
<1>5. \A w \in DOMAIN windowContainer' : windowContainer'[w] \in 1 .. Len(interfaces) =>
         \E v \in DOMAIN windowContainer : windowContainer[v] = windowContainer'[w]
  BY <1>1, <1>3 DEF Empty
<1>6. ShownOnce(windowContainer')
  BY DEF Restacked
<1>7. /\ interfaces' \in Seq(WindowKinds) /\ Len(interfaces') <= MaxInterfaces
      /\ Len(interfaces) <= Len(interfaces') /\ Len(interfaces') <= Len(interfaces) + 1
      /\ \A n \in 1 .. Len(interfaces) : interfaces'[n] = interfaces[n]
      /\ windowContainer' \in Seq(0 .. Len(interfaces'))
  BY <1>1
<1>8. \A n \in 1 .. Len(interfaces') : ~(n \notin 1 .. Len(interfaces))
  OBVIOUS
<1> QED BY <1>2, <1>4, <1>5, <1>6, <1>7, <1>8, SeenListFacts, WindowsKept

(* An interface that is made: what was made before is as it was.               *)
LEMMA InterfaceMade ==
  ASSUME WindowsIInv, NEW kind \in WindowKinds, Len(interfaces) < MaxInterfaces,
         interfaces' = Append(interfaces, kind)
  PROVE  /\ interfaces' \in Seq(WindowKinds) /\ Len(interfaces') = Len(interfaces) + 1
         /\ Len(interfaces) \in Nat /\ Len(interfaces') <= MaxInterfaces
         /\ \A n \in 1 .. Len(interfaces) : interfaces'[n] = interfaces[n]
         /\ \A n \in 1 .. Len(interfaces') : n \notin 1 .. Len(interfaces) =>
              n = Len(interfaces') /\ interfaces'[n] = kind
<1>1. interfaces \in Seq(WindowKinds)
  BY DEF WindowsIInv, WindowsTyped
<1>2. /\ interfaces' \in Seq(WindowKinds) /\ Len(interfaces') = Len(interfaces) + 1
      /\ Len(interfaces) \in Nat /\ interfaces'[Len(interfaces) + 1] = kind
      /\ \A n \in 1 .. Len(interfaces) : interfaces'[n] = interfaces[n]
  BY <1>1, Appended
<1>3. Len(interfaces') <= MaxInterfaces
  BY <1>2, WindowsAssumption
<1>4. ASSUME NEW n \in 1 .. Len(interfaces'), n \notin 1 .. Len(interfaces)
      PROVE  n = Len(interfaces')
  BY <1>2, <1>4
<1> QED BY <1>2, <1>3, <1>4

(* An interface is opened, in a window before the others or behind them; one   *)
(* of options is put on the list.                                              *)
LEMMA OpenKeeps ==
  ASSUME WindowsIInv, NEW kind \in WindowKinds, Len(interfaces) < MaxInterfaces,
         interfaces' = Append(interfaces, kind),
         NEW s, windowContainer' \in Seq(0 .. Len(interfaces')),
         Restacked(windowContainer', s, {Len(interfaces')}),
         \A v \in DOMAIN s : \/ \E w \in DOMAIN windowContainer : windowContainer[w] = s[v]
                             \/ s[v] = Empty /\ sweeping',
         sweeping' \in BOOLEAN, sweeping => sweeping',
         NEW L \in Seq(1 .. Len(interfaces)), \A j, k \in DOMAIN L : L[j] = L[k] => j = k,
         \A n \in Options : \E k \in DOMAIN L : L[k] = n,
         \/ interfaceWindows' = Append(L, Len(interfaces')) /\ (kind = "IFOptions" => Options = {})
         \/ interfaceWindows' = L /\ kind # "IFOptions"
  PROVE  WindowsIInv'
<1>1. PICK m, new : m = Len(interfaces) /\ new = m + 1
  OBVIOUS
<1>2. /\ interfaces' \in Seq(WindowKinds) /\ Len(interfaces') = new /\ m \in Nat
      /\ new \in Nat /\ new <= MaxInterfaces
      /\ \A n \in 1 .. m : interfaces'[n] = interfaces[n]
      /\ \A n \in 1 .. new : n \notin 1 .. m => n = new /\ interfaces'[n] = kind
  BY <1>1, InterfaceMade
<1>3. ASSUME NEW w \in DOMAIN windowContainer', windowContainer'[w] # new
      PROVE  \/ \E v \in DOMAIN windowContainer : windowContainer[v] = windowContainer'[w]
             \/ windowContainer'[w] = Empty /\ sweeping'
  <2>1. PICK v \in DOMAIN s : windowContainer'[w] = s[v]
    BY <1>2, <1>3 DEF Restacked
  <2> QED BY <2>1
<1>4. ASSUME NEW w \in DOMAIN windowContainer', windowContainer'[w] = Empty PROVE sweeping'
  <2>1. windowContainer'[w] # new
    BY <1>1, <1>2, <1>4 DEF Empty
  <2>2. CASE \E v \in DOMAIN windowContainer : windowContainer[v] = Empty
    BY <2>2 DEF WindowsIInv, EmptySwept, Range
  <2> QED BY <1>3, <1>4, <2>1, <2>2
<1>5. \A w \in DOMAIN windowContainer' : windowContainer'[w] \in 1 .. m =>
         \E v \in DOMAIN windowContainer : windowContainer[v] = windowContainer'[w]
  BY <1>1, <1>2, <1>3, SMTT(30) DEF Empty
<1>6. ShownOnce(windowContainer')
  BY DEF Restacked
<1>7. PICK V : V = 1 .. new
  OBVIOUS
<1>8. L \in Seq(V) /\ new \in V /\ Len(L) \in Nat /\ DOMAIN L = 1 .. Len(L)
      /\ \A j \in 1 .. Len(L) : L[j] # new
  BY <1>1, <1>2, <1>7
<1>9. /\ interfaceWindows' \in Seq(V)
      /\ \A j, k \in DOMAIN interfaceWindows' : interfaceWindows'[j] = interfaceWindows'[k] => j = k
      /\ \A n \in Options : \E k \in DOMAIN interfaceWindows' : interfaceWindows'[k] = n
      /\ kind = "IFOptions" => Options = {} /\ \E k \in DOMAIN interfaceWindows' : interfaceWindows'[k] = new
  <2>1. CASE interfaceWindows' = Append(L, new) /\ (kind = "IFOptions" => Options = {})
    <3>1. /\ interfaceWindows' \in Seq(V) /\ DOMAIN interfaceWindows' = 1 .. Len(L) + 1
          /\ interfaceWindows'[Len(L) + 1] = new
          /\ \A i \in 1 .. Len(L) : interfaceWindows'[i] = L[i]
      <4>1. L \in Seq(V) /\ new \in V /\ interfaceWindows' = Append(L, new)
        BY <1>8, <2>1
      <4>2. interfaceWindows' \in Seq(V) /\ DOMAIN interfaceWindows' = 1 .. Len(L) + 1
        BY <4>1, Appended
      <4>3. /\ interfaceWindows'[Len(L) + 1] = new
            /\ \A i \in 1 .. Len(L) : interfaceWindows'[i] = L[i]
        BY <4>1, Appended
      <4> QED BY <4>2, <4>3
    <3>2. \A i \in 1 .. Len(L) + 1 : i \in 1 .. Len(L) \/ i = Len(L) + 1
      BY <1>8
    <3>3. Len(L) + 1 \in 1 .. Len(L) + 1 /\ \A i \in 1 .. Len(L) : i \in 1 .. Len(L) + 1
      BY <1>8
    <3>4. \A j, k \in DOMAIN interfaceWindows' : interfaceWindows'[j] = interfaceWindows'[k] => j = k
      BY <1>8, <3>1, <3>2
    <3>5. \A n \in Options : \E k \in DOMAIN interfaceWindows' : interfaceWindows'[k] = n
      BY <1>8, <3>1, <3>3
    <3> QED BY <2>1, <3>1, <3>3, <3>4, <3>5
  <2>2. CASE interfaceWindows' = L /\ kind # "IFOptions"
    BY <1>8, <2>2
  <2> QED BY <1>2, <2>1, <2>2
<1>10. \A n \in 1 .. new : n \notin 1 .. m /\ interfaces'[n] = "IFOptions" =>
          Options = {} /\ \E k \in DOMAIN interfaceWindows' : interfaceWindows'[k] = n
  BY <1>2, <1>9
<1>11. m <= new /\ new <= m + 1
  BY <1>1, <1>2
<1> QED BY <1>1, <1>2, <1>4, <1>5, <1>6, <1>7, <1>9, <1>10, <1>11, WindowsKept

(* The number of a new interface is in no window yet.                          *)
LEMMA NewIsNotShown ==
  ASSUME WindowsIInv, NEW kind \in WindowKinds, Len(interfaces) < MaxInterfaces,
         interfaces' = Append(interfaces, kind),
         NEW s \in Seq(0 .. Len(interfaces))
  PROVE  /\ s \in Seq(0 .. Len(interfaces')) /\ Len(interfaces') \in 0 .. Len(interfaces')
         /\ \A w \in DOMAIN s : s[w] # Len(interfaces')
<1>1. PICK m \in Nat : m = Len(interfaces) /\ Len(interfaces') = m + 1
  BY InterfaceMade
<1>2. s \in Seq(0 .. m)
  BY <1>1
<1>3. s \in Seq(0 .. m + 1) /\ \A w \in DOMAIN s : s[w] # m + 1
  BY <1>2
<1> QED BY <1>1, <1>3

(* The focus was told, and the windows are those that were seen then, stacked. *)
SeenStacked(new) == TellFocus /\ Restacked(windowContainer', SeenWindows, new)

(* The events, one by one.                                                     *)
LEMMA PassingKeeps ==
  ASSUME WindowsIInv,
         OtherEvent \/ DisplayNewWindow \/ \E over \in BOOLEAN : MouseMoves(over)
  PROVE  WindowsIInv' /\ SeenStacked({})
<1>1. /\ windowContainer' = SeenWindows /\ interfaceWindows' = SeenInterfaces /\ TellFocus
      /\ interfaces' = interfaces
  BY DEF OtherEvent, DisplayNewWindow, MouseMoves
<1>2. windowContainer' \in Seq(0 .. Len(interfaces)) /\ Restacked(windowContainer', SeenWindows, {})
  BY <1>1, SeenFacts DEF Restacked
<1> QED BY <1>1, <1>2, EventKeeps DEF SeenStacked

(* A window is removed by a key.                                               *)
LEMMA RemoveKeeps == WindowsIInv /\ DisplayRemoveWindow => WindowsIInv' /\ SeenStacked({})
<1> SUFFICES ASSUME WindowsIInv, DisplayRemoveWindow PROVE WindowsIInv' /\ SeenStacked({})
  OBVIOUS
<1>1. PICK S, s : S = 0 .. Len(interfaces) /\ s = SeenWindows
  OBVIOUS
<1>2. s \in Seq(S) /\ ShownOnce(s) /\ DOMAIN s = DOMAIN windowContainer
  BY <1>1, SeenFacts
<1>3. /\ windowContainer' = Tail(s) /\ interfaceWindows' = SeenInterfaces /\ TellFocus
      /\ interfaces' = interfaces /\ windowContainer # <<>>
  BY <1>1 DEF DisplayRemoveWindow
<1>4. s # <<>>
  <2>1. PICK t : t = windowContainer
    OBVIOUS
  <2>2. t \in Seq(S) /\ t # <<>>
    BY <1>1, <1>3, <2>1 DEF WindowsIInv, WindowsTyped
  <2>3. Len(t) \in Nat /\ Len(t) # 0 /\ DOMAIN t = 1 .. Len(t)
    BY <2>2
  <2>4. 1 \in DOMAIN t
    BY <2>3
  <2> QED BY <1>2, <2>1, <2>4
<1>5. windowContainer' \in Seq(S) /\ Restacked(windowContainer', s, {})
  BY <1>2, <1>3, <1>4, TailRestacks
<1> QED BY <1>1, <1>3, <1>5, EventKeeps DEF SeenStacked

(* Or brought to the front by a click.                                         *)
LEMMA ClickKeeps ==
  ASSUME WindowsIInv, NEW w \in DOMAIN windowContainer, ClickWindow(w)
  PROVE  WindowsIInv' /\ SeenStacked({})
<1>1. PICK S, s : S = 0 .. Len(interfaces) /\ s = SeenWindows
  OBVIOUS
<1>2. s \in Seq(S) /\ ShownOnce(s) /\ w \in DOMAIN s
  BY <1>1, SeenFacts
<1>3. /\ windowContainer' = <<s[w]>> \o RemoveAt(s, w) /\ interfaceWindows' = SeenInterfaces
      /\ TellFocus /\ interfaces' = interfaces
  BY <1>1 DEF ClickWindow
<1>4. windowContainer' \in Seq(S) /\ Restacked(windowContainer', s, {})
  BY <1>2, <1>3, FrontRestacks
<1> QED BY <1>1, <1>3, <1>4, EventKeeps DEF SeenStacked

(* What OpenKeeps asks of the windows that were seen, and of the list.         *)
LEMMA SeenToOpen ==
  ASSUME WindowsIInv, TellFocus
  PROVE  /\ sweeping' \in BOOLEAN /\ (sweeping => sweeping')
         /\ \A v \in DOMAIN SeenWindows :
              \/ \E w \in DOMAIN windowContainer : windowContainer[w] = SeenWindows[v]
              \/ SeenWindows[v] = Empty /\ sweeping'
<1>1. sweeping' \in BOOLEAN /\ (sweeping \/ Unfocusing => sweeping')
  BY FocusTold DEF WindowsIInv, WindowsTyped
<1> QED BY <1>1, SeenFacts

(* The options open, where there were none.                                    *)
LEMMA OptionsKeep == WindowsIInv /\ OpenOptions => WindowsIInv' /\ SeenStacked({Len(interfaces')})
<1> SUFFICES ASSUME WindowsIInv, OpenOptions PROVE WindowsIInv' /\ SeenStacked({Len(interfaces')})
  OBVIOUS
<1>1. PICK s, L : s = SeenWindows /\ L = SeenInterfaces
  OBVIOUS
<1>2. /\ Options = {} /\ Len(interfaces) < MaxInterfaces /\ interfaces' = Append(interfaces, "IFOptions")
      /\ interfaceWindows' = Append(L, Len(interfaces')) /\ TellFocus
      /\ windowContainer' = Append(s, Len(interfaces'))
  BY <1>1 DEF OpenOptions
<1>3. "IFOptions" \in WindowKinds
  BY DEF WindowKinds
<1>4. s \in Seq(0 .. Len(interfaces)) /\ ShownOnce(s)
  BY <1>1, SeenFacts
<1>5. PICK S, new : S = 0 .. Len(interfaces') /\ new = Len(interfaces')
  OBVIOUS
<1>6. s \in Seq(S) /\ new \in S /\ \A w \in DOMAIN s : s[w] # new
  BY <1>2, <1>3, <1>4, <1>5, NewIsNotShown
<1>7. windowContainer' \in Seq(S) /\ Restacked(windowContainer', s, {new})
  BY <1>2, <1>4, <1>5, <1>6, AppendRestacks
<1>8. /\ L \in Seq(1 .. Len(interfaces)) /\ \A j, k \in DOMAIN L : L[j] = L[k] => j = k
      /\ \A n \in Options : \E k \in DOMAIN L : L[k] = n
  BY <1>1, SeenListFacts
<1>9. /\ sweeping' \in BOOLEAN /\ (sweeping => sweeping')
      /\ \A v \in DOMAIN s : \/ \E w \in DOMAIN windowContainer : windowContainer[w] = s[v]
                             \/ s[v] = Empty /\ sweeping'
  BY <1>1, <1>2, SeenToOpen
<1>10. WindowsIInv'
  BY <1>2, <1>3, <1>5, <1>7, <1>8, <1>9, OpenKeeps
<1> QED BY <1>1, <1>2, <1>5, <1>7, <1>10 DEF SeenStacked

(* A button of the options opens a window before the others.                   *)
LEMMA ButtonKeeps ==
  ASSUME WindowsIInv, NEW kind \in Kinds, DisplayButton(kind)
  PROVE  WindowsIInv' /\ SeenStacked({Len(interfaces')})
<1>1. PICK s, L : s = SeenWindows /\ L = SeenInterfaces
  OBVIOUS
<1>2. /\ Len(interfaces) < MaxInterfaces /\ interfaces' = Append(interfaces, kind)
      /\ interfaceWindows' = L /\ TellFocus /\ windowContainer' = <<Len(interfaces')>> \o s
  BY <1>1 DEF DisplayButton
<1>3. kind \in WindowKinds /\ kind # "IFOptions"
  BY WindowsAssumption DEF WindowKinds, PublicInterfaces
<1>4. s \in Seq(0 .. Len(interfaces)) /\ ShownOnce(s)
  BY <1>1, SeenFacts
<1>5. PICK S, new : S = 0 .. Len(interfaces') /\ new = Len(interfaces')
  OBVIOUS
<1>6. s \in Seq(S) /\ new \in S /\ \A w \in DOMAIN s : s[w] # new
  BY <1>2, <1>3, <1>4, <1>5, NewIsNotShown
<1>7. windowContainer' \in Seq(S) /\ Restacked(windowContainer', s, {new})
  BY <1>2, <1>4, <1>5, <1>6, PrependRestacks
<1>8. /\ L \in Seq(1 .. Len(interfaces)) /\ \A j, k \in DOMAIN L : L[j] = L[k] => j = k
      /\ \A n \in Options : \E k \in DOMAIN L : L[k] = n
  BY <1>1, SeenListFacts
<1>9. /\ sweeping' \in BOOLEAN /\ (sweeping => sweeping')
      /\ \A v \in DOMAIN s : \/ \E w \in DOMAIN windowContainer : windowContainer[w] = s[v]
                             \/ s[v] = Empty /\ sweeping'
  BY <1>1, <1>2, SeenToOpen
<1>10. WindowsIInv'
  BY <1>2, <1>3, <1>5, <1>7, <1>8, <1>9, OpenKeeps
<1> QED BY <1>1, <1>2, <1>5, <1>7, <1>10 DEF SeenStacked

(* The dialogue opens one behind them.                                         *)
LEMMA ConfirmKeeps ==
  ASSUME WindowsIInv, NEW kind \in Kinds, Confirm(kind)
  PROVE  WindowsIInv'
<1>1. PICK s, L : s = windowContainer /\ L = interfaceWindows
  OBVIOUS
<1>2. /\ Len(interfaces) < MaxInterfaces /\ interfaces' = Append(interfaces, kind)
      /\ interfaceWindows' = Append(L, Len(interfaces')) /\ sweeping' = sweeping
      /\ windowContainer' = Append(s, Len(interfaces'))
  BY <1>1 DEF Confirm
<1>3. kind \in WindowKinds /\ kind # "IFOptions"
  BY WindowsAssumption DEF WindowKinds, PublicInterfaces
<1>4. s \in Seq(0 .. Len(interfaces)) /\ ShownOnce(s)
  BY <1>1 DEF WindowsIInv, WindowsTyped
<1>5. PICK S, new : S = 0 .. Len(interfaces') /\ new = Len(interfaces')
  OBVIOUS
<1>6. s \in Seq(S) /\ new \in S /\ \A w \in DOMAIN s : s[w] # new
  BY <1>2, <1>3, <1>4, <1>5, NewIsNotShown
<1>7. windowContainer' \in Seq(S) /\ Restacked(windowContainer', s, {new})
  BY <1>2, <1>4, <1>5, <1>6, AppendRestacks
<1>8. /\ L \in Seq(1 .. Len(interfaces)) /\ \A j, k \in DOMAIN L : L[j] = L[k] => j = k
      /\ \A n \in Options : \E k \in DOMAIN L : L[k] = n
  BY <1>1 DEF WindowsIInv, WindowsTyped, OptionsListed
<1>9. /\ sweeping' \in BOOLEAN /\ (sweeping => sweeping')
      /\ \A v \in DOMAIN s : \E w \in DOMAIN windowContainer : windowContainer[w] = s[v]
  BY <1>1, <1>2 DEF WindowsIInv, WindowsTyped
<1> QED BY <1>2, <1>3, <1>5, <1>7, <1>8, <1>9, OpenKeeps

(* The sweep removes the windows without content, and nothing else.            *)
LEMMA SweepKeeps == WindowsIInv /\ Sweep => WindowsIInv'
<1> SUFFICES ASSUME WindowsIInv, Sweep PROVE WindowsIInv'
  OBVIOUS
<1>1. PICK S, s, t : S = 0 .. Len(interfaces) /\ s = windowContainer /\ t = Only(s, Shown)
  OBVIOUS
<1>2. /\ s \in Seq(S) /\ interfaces \in Seq(WindowKinds) /\ Len(interfaces) <= MaxInterfaces
      /\ interfaceWindows \in Seq(1 .. Len(interfaces)) /\ Len(interfaces) \in Nat
      /\ ShownOnce(s)
      /\ \A j, k \in DOMAIN interfaceWindows : interfaceWindows[j] = interfaceWindows[k] => j = k
      /\ \A n \in Options : \E k \in DOMAIN interfaceWindows : interfaceWindows[k] = n
  BY <1>1 DEF WindowsIInv, WindowsTyped, OptionsListed
<1>3. /\ windowContainer' = t /\ sweeping' = FALSE /\ interfaces' = interfaces
      /\ interfaceWindows' = interfaceWindows
  BY <1>1 DEF Sweep
<1>4. /\ t \in Seq(S \cap Shown)
      /\ \A k \in DOMAIN t : \E i \in DOMAIN s : t[k] = s[i]
      /\ \A k, m \in DOMAIN t : k # m => \E i, j \in DOMAIN s : i # j /\ t[k] = s[i] /\ t[m] = s[j]
      /\ \A i \in DOMAIN s : s[i] \in Shown => \E k \in DOMAIN t : t[k] = s[i]
  <2>1. s \in Seq(S) /\ t = Only(s, Shown)
    BY <1>1, <1>2
  <2> QED BY <2>1, OnlyKeeps
<1>5. t \in Seq(S) /\ \A w \in DOMAIN t : t[w] # Empty
  BY <1>4 DEF Shown
<1>6. ShownOnce(t)
  <2> SUFFICES ASSUME NEW k \in DOMAIN t, NEW m \in DOMAIN t, t[k] = t[m], k # m PROVE t[k] = Empty
    BY DEF ShownOnce
  <2>1. PICK i \in DOMAIN s, j \in DOMAIN s : i # j /\ t[k] = s[i] /\ t[m] = s[j]
    BY <1>4
  <2> QED BY <1>2, <2>1 DEF ShownOnce
<1>7. \A n \in 1 .. Len(interfaces') : ~(n \notin 1 .. Len(interfaces))
  BY <1>3
<1>8. \A w \in DOMAIN t : \E v \in DOMAIN windowContainer : windowContainer[v] = t[w]
  BY <1>1, <1>4
<1>9. sweeping' \in BOOLEAN
  BY <1>3
<1>10. Len(interfaces) <= Len(interfaces') /\ Len(interfaces') <= Len(interfaces) + 1
  BY <1>2, <1>3
<1> QED BY <1>1, <1>2, <1>3, <1>5, <1>6, <1>7, <1>8, <1>9, <1>10, WindowsKept

(* The invariant has a part for each action to keep.                           *)
LEMMA WindowsStep == WindowsIInv /\ [NextWindows]_windowVars => WindowsIInv'
<1> SUFFICES ASSUME WindowsIInv, [NextWindows]_windowVars PROVE WindowsIInv'
  OBVIOUS
<1>1. CASE UNCHANGED <<interfaces, windowContainer, interfaceWindows, sweeping>>
  <2>1. WindowsTyped' /\ ShownOnce(windowContainer)' /\ EmptySwept'
    BY <1>1 DEF WindowsIInv, WindowsTyped, ShownOnce, EmptySwept
  <2>2. Options' = Options
    BY <1>1 DEF Options, Alive, Shown
  <2> QED BY <1>1, <2>1, <2>2 DEF WindowsIInv, OptionsListed
<1>2. Cancel \/ UNCHANGED windowVars => UNCHANGED <<interfaces, windowContainer, interfaceWindows, sweeping>>
  BY DEF Cancel, windowVars
<1> QED
  BY <1>1, <1>2, PassingKeeps, RemoveKeeps, ClickKeeps, OptionsKeep, ButtonKeeps, ConfirmKeeps,
     SweepKeeps DEF NextWindows

(* The inductive invariant holds.                                              *)
THEOREM WindowsReachable == SpecWindows => []WindowsIInv
<1> QED BY WindowsStart, WindowsStep, PTL DEF SpecWindows

(* An interface is shown in one window at most, the options are there once at  *)
(* most, and a window that lost its content is swept, for any number of        *)
(* interfaces of any kinds.                                                    *)
THEOREM WindowsHold == SpecWindows => []WindowsInv
<1> QED BY WindowsReachable, WindowsFollow, PTL

(* Who was shown and had the focus is not once it is gone: the windows that    *)
(* an event leaves are among those it saw, or new.                             *)
LEMMA FocusLeaves ==
  ASSUME WindowsIInv, wasWinSelected, ~wasWinSelected',
         NEW new, new \notin Options, SeenStacked({new})
  PROVE  Options \cap Shown' = {}
<1>1. Unfocusing
  BY DEF SeenStacked, TellFocus, Unfocusing
<1>2. ASSUME NEW n \in Options \cap Shown' PROVE FALSE
  <2>1. PICK w \in DOMAIN windowContainer' : windowContainer'[w] = n
    BY <1>2 DEF Shown, Range
  <2>2. PICK v \in DOMAIN SeenWindows : n = SeenWindows[v]
    BY <1>2, <2>1 DEF SeenStacked, Restacked
  <2> QED BY <1>1, <1>2, <2>2, SeenFacts
<1> QED BY <1>2

(* An event that only restacks the windows.                                    *)
LEMMA FocusLeavesNone ==
  ASSUME WindowsIInv, wasWinSelected, ~wasWinSelected', SeenStacked({})
  PROVE  Options \cap Shown' = {}
<1>1. Empty \notin Options
  BY DEF Options, Empty, WindowsIInv, WindowsTyped
<1>2. SeenStacked({Empty})
  BY DEF SeenStacked, Restacked
<1> QED BY <1>1, <1>2, FocusLeaves

(* The number of a new interface is not that of options that were there.       *)
LEMMA NewIsNotOptions ==
  ASSUME WindowsIInv, NEW kind \in WindowKinds, Len(interfaces) < MaxInterfaces,
         interfaces' = Append(interfaces, kind)
  PROVE  Len(interfaces') \notin Options
<1>1. PICK m \in Nat : m = Len(interfaces) /\ Len(interfaces') = m + 1
  BY InterfaceMade
<1>2. \A n \in Options : n \in 1 .. m
  BY <1>1 DEF Options, WindowsIInv, WindowsTyped
<1> QED BY <1>1, <1>2

(* No step leaves options behind when the focus goes.                          *)
LEMMA OptionsGoStep ==
  ASSUME WindowsIInv, NextWindows, wasWinSelected, ~wasWinSelected'
  PROVE  Options \cap Shown' = {}
<1>1. CASE SeenStacked({})
  BY <1>1, FocusLeavesNone
<1>2. CASE OpenOptions
  <2>1. Len(interfaces') \notin Options
    <3>1. "IFOptions" \in WindowKinds /\ Len(interfaces) < MaxInterfaces
      BY <1>2 DEF OpenOptions, WindowKinds
    <3> QED BY <1>2, <3>1, NewIsNotOptions DEF OpenOptions
  <2> QED BY <1>2, <2>1, OptionsKeep, FocusLeaves
<1>3. ASSUME NEW kind \in Kinds, DisplayButton(kind) PROVE Options \cap Shown' = {}
  <2>1. Len(interfaces') \notin Options
    <3>1. kind \in WindowKinds /\ Len(interfaces) < MaxInterfaces
      BY <1>3 DEF DisplayButton, WindowKinds
    <3> QED BY <1>3, <3>1, NewIsNotOptions DEF DisplayButton
  <2> QED BY <1>3, <2>1, ButtonKeeps, FocusLeaves
<1>4. ~(Cancel \/ Sweep \/ \E kind \in Kinds : Confirm(kind))
  BY DEF Cancel, Sweep, Confirm
<1> QED
  BY <1>1, <1>2, <1>3, <1>4, PassingKeeps, RemoveKeeps, ClickKeeps DEF NextWindows

(* The options go when the focus leaves the windows, however these were        *)
(* stacked, clicked or deleted meanwhile: the listed options are told, and     *)
(* every event makes its windows of those that were left.                      *)
THEOREM FocusTakesOptions == SpecWindows => OptionsGo
<1>1. WindowsIInv /\ [NextWindows]_windowVars =>
        [wasWinSelected /\ ~wasWinSelected' => Options \cap Shown' = {}]_windowVars
  BY OptionsGoStep
<1> QED BY <1>1, WindowsReachable, PTL DEF SpecWindows, OptionsGo

--------------------------------------------------------------------------------
(* The camera.                                                                 *)

Transformations == [scale : Nat, off : Int, den : Nat \ {0}]

CameraTyped ==
  /\ trans \in Transformations /\ c_d_trans \in Transformations
  /\ mouse_screen \in Int /\ place \in Int /\ zoomed \in Nat

(* The cache is of the transformation that it names.                           *)
CacheOfIts == c_i_trans = c_d_trans

(* The inductive invariant of the camera: its scale never becomes zero.        *)
CameraIInv == CameraTyped /\ CacheOfIts /\ trans.scale > 0

(* The inverse that is asked for is that of the transformation.                *)
LEMMA InverseIsOfTrans == CacheOfIts => getTransformationInverse = trans
  BY DEF CacheOfIts, getTransformationInverse

(* The camera shows the grid as it is at first.                                *)
LEMMA CameraInitially == InitCamera => CameraIInv
<1> SUFFICES ASSUME InitCamera PROVE CameraIInv
  OBVIOUS
<1>1. trans \in Transformations /\ c_d_trans \in Transformations /\ trans = [scale |-> 1, off |-> 0, den |-> 1]
  BY DEF InitCamera, Identity, Unset, Transformations
<1>2. CameraTyped /\ CacheOfIts
  BY <1>1, CameraAssumption DEF InitCamera, CameraTyped, CacheOfIts
<1> QED BY <1>1, <1>2 DEF CameraIInv

(* A multiple of a number, divided by that number.                             *)
LEMMA MultipleDivided ==
  ASSUME NEW a \in Int, NEW s \in Nat, s > 0
  PROVE  (a * s) \div s = a
<1>1. PICK x \in Int : x = a * s
  OBVIOUS
<1>2. PICK q \in Int : q = x \div s
  OBVIOUS
<1>3. s * q <= x /\ x < s * q + s
  BY <1>2
<1>4. CASE q < a
  <2>1. PICK e \in Nat : a = q + 1 + e
    <3>1. a - q - 1 \in Nat /\ a = q + 1 + (a - q - 1)
      BY <1>4
    <3> QED BY <3>1
  <2>2. a * s = s * q + s + e * s /\ e * s >= 0
    BY <2>1
  <2> QED BY <1>1, <1>3, <2>2
<1>5. CASE a < q
  <2>1. PICK e \in Nat : q = a + 1 + e
    <3>1. q - a - 1 \in Nat /\ q = a + 1 + (q - a - 1)
      BY <1>5
    <3> QED BY <3>1
  <2>2. s * q = a * s + s + e * s /\ e * s >= 0
    BY <2>1
  <2> QED BY <1>1, <1>3, <2>2
<1> QED BY <1>1, <1>2, <1>4, <1>5

(* A turn of the wheel scales, and moves the offset by what keeps the point.   *)
Turned(z, p) ==
  trans' = [scale |-> z * trans.scale, den |-> 5 * trans.den,
            off |-> 5 * trans.den * p - z * (trans.den * p - trans.off)]

(* What the code computes from the point below the mouse comes to that.        *)
LEMMA WheelTurns ==
  ASSUME CameraIInv, NEW z \in {4, 6}, NEW cell \in Cells, Wheel(z, cell)
  PROVE  Turned(z, Screen(cell))
<1>1. PICK p \in Int : p = Screen(cell)
  BY CameraAssumption DEF Screen
<1>2. PICK s \in Nat, o \in Int, d \in Nat \ {0} :
        s = trans.scale /\ o = trans.off /\ d = trans.den /\ s > 0
  BY DEF CameraIInv, CameraTyped, Transformations
<1>3. PICK m \in Int : m = d * p - o
  OBVIOUS
<1>4. PICK new : new = [scale |-> z * s, off |-> 5 * o, den |-> 5 * d]
  OBVIOUS
<1>5. Rescaled(z) = new
  BY <1>2, <1>4 DEF Rescaled
<1>6. screenToGrid(trans, p) = [num |-> m, den |-> s]
  BY <1>2, <1>3 DEF screenToGrid
<1>7. PICK x : x = gridToScreen(new, [num |-> m, den |-> s])
  OBVIOUS
<1>8. x = z * m + 5 * o
  <2>1. x = ((z * s) * m) \div s + 5 * o
    BY <1>4, <1>7 DEF gridToScreen
  <2>2. (z * s) * m = (z * m) * s /\ z * m \in Int
    OBVIOUS
  <2>3. ((z * m) * s) \div s = z * m
    BY <1>2, <2>2, MultipleDivided
  <2> QED BY <2>1, <2>2, <2>3
<1>9. PICK y : y = -(x - 5 * o - (5 * d) * p)
  OBVIOUS
<1>10. trans' = [new EXCEPT !.off = y]
  <2>1. getTransformationInverse = trans
    BY InverseIsOfTrans DEF CameraIInv
  <2>2. new.off = 5 * o /\ new.den = 5 * d
    BY <1>4
  <2>3. trans' = [new EXCEPT !.off = -(x - new.off - new.den * p)]
    BY <1>1, <1>5, <1>6, <1>7, <2>1 DEF Wheel
  <2> QED BY <1>9, <2>2, <2>3
<1>11. trans' = [scale |-> z * s, off |-> y, den |-> 5 * d]
  BY <1>4, <1>10
<1>12. y = 5 * d * p - z * (d * p - o)
  <2>1. y = (5 * d) * p - z * m
    BY <1>8, <1>9
  <2> QED BY <1>3, <2>1
<1> QED BY <1>1, <1>2, <1>11, <1>12 DEF Turned

(* The transformation after a turn is one, and its scale is not zero.          *)
LEMMA TurnedTyped ==
  ASSUME CameraIInv, NEW z \in {4, 6}, NEW p \in Int, Turned(z, p)
  PROVE  trans' \in Transformations /\ trans'.scale > 0
<1>1. PICK s \in Nat, o \in Int, d \in Nat \ {0} :
        s = trans.scale /\ o = trans.off /\ d = trans.den /\ s > 0
  BY DEF CameraIInv, CameraTyped, Transformations
<1>2. PICK y \in Int : y = 5 * d * p - z * (d * p - o)
  <2>1. PICK a \in Int, b \in Int : a = 5 * d * p /\ b = d * p - o
    OBVIOUS
  <2>2. PICK c \in Int : c = z * b
    OBVIOUS
  <2>3. a - c \in Int /\ a - c = 5 * d * p - z * (d * p - o)
    BY <2>1, <2>2
  <2> QED BY ONLY <2>3
<1>3. trans' = [scale |-> z * s, den |-> 5 * d, off |-> y]
  BY <1>1, <1>2 DEF Turned
<1>4. z * s \in Nat /\ z * s > 0 /\ 5 * d \in Nat \ {0}
  BY <1>1
<1> QED BY <1>3, <1>4 DEF Transformations

(* Every step keeps the cache what it claims to be, and the scale above zero.  *)
LEMMA CameraStep == CameraIInv /\ [NextCamera]_cameraVars => CameraIInv'
<1> SUFFICES ASSUME CameraIInv, [NextCamera]_cameraVars PROVE CameraIInv'
  OBVIOUS
<1> USE DEF CameraIInv
<1>0. /\ trans \in Transformations /\ c_d_trans \in Transformations /\ trans.scale > 0
      /\ zoomed \in Nat /\ mouse_screen \in Int /\ place \in Int
  BY DEF CameraTyped
<1>1. ASSUME UNCHANGED <<trans, zoomed>>, mouse_screen' \in Int, place' \in Int,
             c_d_trans' \in {c_d_trans, trans}, c_i_trans' = c_d_trans'
      PROVE  CameraIInv'
  BY <1>0, <1>1 DEF CameraTyped, CacheOfIts
<1>2. CASE UNCHANGED cameraVars
  BY <1>0, <1>1, <1>2 DEF cameraVars, CacheOfIts
<1>3. ASSUME NEW cell \in Cells, Move(cell) PROVE CameraIInv'
  <2>1. Screen(cell) \in Int
    BY CameraAssumption DEF Screen
  <2> QED BY <1>0, <1>1, <1>3, <2>1 DEF Move, CacheOfIts
<1>4. ASSUME NEW cell \in Cells, Pan(cell) PROVE CameraIInv'
  <2>1. Screen(cell) \in Int
    BY CameraAssumption DEF Screen
  <2>2. PICK y \in Int : y = trans.off + trans.den * (Screen(cell) - mouse_screen)
    BY <1>0, <2>1 DEF Transformations
  <2>3. trans' = [trans EXCEPT !.off = y]
    BY <1>4, <2>2 DEF Pan
  <2>4. trans' \in Transformations /\ trans'.scale > 0
    BY <1>0, <2>3 DEF Transformations
  <2> QED BY <1>0, <1>4, <2>1, <2>4 DEF Pan, CameraTyped, CacheOfIts
<1>5. ASSUME NEW z \in {4, 6}, NEW cell \in Cells, Wheel(z, cell) PROVE CameraIInv'
  <2>1. Screen(cell) \in Int
    BY CameraAssumption DEF Screen
  <2>2. trans' \in Transformations /\ trans'.scale > 0
    BY <1>5, <2>1, WheelTurns, TurnedTyped
  <2>3. c_d_trans' = trans /\ c_i_trans' = trans
    BY <1>5, InverseIsOfTrans DEF Wheel, Refresh
  <2>4. mouse_screen' \in Int /\ place' \in Int /\ zoomed' \in Nat
    BY <1>0, <1>5, <2>1 DEF Wheel
  <2> QED BY <1>0, <2>2, <2>3, <2>4 DEF CameraTyped, CacheOfIts
<1>6. CASE Ask
  BY <1>0, <1>1, <1>6, InverseIsOfTrans DEF Ask, Refresh
<1>7. ASSUME NEW w \in Widths, Draw(w) PROVE CameraIInv'
  <2>1. trans' = Followed(w) /\ c_d_trans' = trans'
        /\ c_i_trans' = (IF c_d_trans # trans' THEN trans' ELSE c_i_trans)
        /\ zoomed' = zoomed /\ mouse_screen' = mouse_screen /\ place' = place
    BY <1>7 DEF Draw
  <2>2. c_i_trans' = c_d_trans'
    BY <2>1 DEF CacheOfIts
  <2>3. CASE ~tracked
    <3>1. trans' = trans
      BY <2>1, <2>3 DEF Followed
    <3> QED BY <1>0, <1>1, <2>1, <2>2, <3>1
  <2>4. CASE tracked
    <3>1. PICK g \in Int : g = gridToScreen(trans, [num |-> place, den |-> 1])
      <4>1. PICK x \in Int, o \in Int : x = trans.scale * place /\ o = trans.off
        BY <1>0 DEF Transformations
      <4>2. gridToScreen(trans, [num |-> place, den |-> 1]) = x \div 1 + o
        BY <4>1 DEF gridToScreen
      <4> QED BY <4>1, <4>2
    <3>2. PICK y \in Int : y = trans.off + trans.den * (w \div 2) - g
      <4>1. w \in Nat
        BY CameraAssumption
      <4> QED BY <1>0, <3>1, <4>1 DEF Transformations
    <3>3. trans' = [trans EXCEPT !.off = y]
      BY <2>1, <2>4, <3>1, <3>2 DEF Followed
    <3>4. trans' \in Transformations /\ trans'.scale > 0
      BY <1>0, <3>3 DEF Transformations
    <3> QED BY <1>0, <2>1, <2>2, <3>4 DEF CameraTyped, CacheOfIts
  <2> QED BY <2>3, <2>4
<1>8. ASSUME NEW b \in BOOLEAN, FollowObject(b) PROVE CameraIInv'
  BY <1>0, <1>1, <1>8 DEF FollowObject, CacheOfIts
<1>9. ASSUME NEW p \in Places, Drift(p) PROVE CameraIInv'
  <2>1. p \in Int
    BY CameraAssumption
  <2> QED BY <1>0, <1>1, <1>9, <2>1 DEF Drift, CacheOfIts
<1> QED BY <1>2, <1>3, <1>4, <1>5, <1>6, <1>7, <1>8, <1>9 DEF NextCamera

(* Whatever the camera was asked, moved or followed, and however often it was  *)
(* zoomed, the cached inverse is of what it was computed from, and the scale   *)
(* is not zero: what the proofs about the camera start from.                   *)
THEOREM CameraReachable == SpecCamera => []CameraIInv
<1>1. CameraIInv /\ [NextCamera]_cameraVars => CameraIInv'
  BY CameraStep
<1> QED BY <1>1, CameraInitially, PTL DEF SpecCamera

(* The point of the grid below the mouse stays there when the wheel is turned, *)
(* wherever the camera was moved or followed the object to before: the inverse *)
(* that is cached is that of the transformation, and the offset is set so that *)
(* the scaled point comes to lie below the mouse again.                        *)
THEOREM PointIsKept == SpecCamera => PointKept
<1> DEFINE Kept == \A cell \in Cells : zoomed' # zoomed /\ mouse_screen' = Screen(cell) =>
              SamePoint(screenToGrid(trans, Screen(cell)), screenToGrid(trans', Screen(cell)))
<1>1. ASSUME CameraIInv, NextCamera, NEW cell \in Cells, zoomed' # zoomed, mouse_screen' = Screen(cell)
      PROVE  SamePoint(screenToGrid(trans, Screen(cell)), screenToGrid(trans', Screen(cell)))
  <2>1. PICK at \in Cells, z \in {4, 6} : Wheel(z, at)
    BY <1>1 DEF NextCamera, Move, Pan, Ask, Draw, FollowObject, Drift
  <2>2. Turned(z, Screen(at)) /\ Screen(at) = Screen(cell)
    BY <1>1, <2>1, WheelTurns DEF Wheel
  <2>3. PICK p \in Int : p = Screen(cell)
    BY CameraAssumption DEF Screen
  <2>4. PICK s \in Nat, o \in Int, d \in Nat \ {0} : s = trans.scale /\ o = trans.off /\ d = trans.den
    BY <1>1 DEF CameraIInv, CameraTyped, Transformations
  <2>5. PICK m \in Int : m = d * p - o
    OBVIOUS
  <2>6. trans'.scale = z * s /\ 5 * d * p - trans'.off = z * m /\ trans'.den = 5 * d
    <3>1. PICK y \in Int : y = 5 * d * p - z * m
      <4>1. PICK a \in Int, b \in Int : a = 5 * d * p /\ b = z * m
        OBVIOUS
      <4>2. a - b \in Int /\ a - b = 5 * d * p - z * m
        BY <4>1
      <4> QED BY ONLY <4>2
    <3>2. trans' = [scale |-> z * s, den |-> 5 * d, off |-> y]
      BY <2>2, <2>3, <2>4, <2>5, <3>1 DEF Turned
    <3>3. trans'.scale = z * s /\ trans'.off = y /\ trans'.den = 5 * d
      BY <3>2
    <3> QED BY <3>1, <3>3
  <2>7. screenToGrid(trans, p) = [num |-> m, den |-> s]
    BY <2>4, <2>5 DEF screenToGrid
  <2>8. screenToGrid(trans', p) = [num |-> z * m, den |-> z * s]
    BY <2>6 DEF screenToGrid
  <2>9. m * (z * s) = (z * m) * s
    OBVIOUS
  <2> QED BY <2>3, <2>7, <2>8, <2>9 DEF SamePoint
<1>2. CameraIInv /\ [NextCamera]_cameraVars => [Kept]_cameraVars
  BY <1>1
<1> QED BY <1>2, CameraReachable, PTL DEF SpecCamera, PointKept

--------------------------------------------------------------------------------
(* The messager.                                                               *)

ChatTyped ==
  /\ text \in Seq(0 .. MaxTyped) /\ Len(text) <= MaxLength + 1 + queued
  /\ queued \in 0 .. MaxQueued /\ typed \in 0 .. MaxTyped /\ dangling \in {"none", "queued", "ran"}
  /\ content \in [Viewers -> Nat] /\ dimy \in Heights

(* No character is twice in a text.                                            *)
NoneTwice(t) == \A i, j \in DOMAIN t : t[i] = t[j] /\ t[i] # LineFeed => i = j

(* What lies behind the text, and so what packing it may send, was told.       *)
BehindTold == behind \in Seq(told \cup {LineFeed, Null}) /\ sent \subseteq told

ChatIInv == ChatTyped /\ ToldOnce /\ BehindTold

(* A text with one more character.                                             *)
LEMMA InsertedOnce ==
  ASSUME NEW S, NEW s \in Seq(S), NEW i \in 1 .. Len(s) + 1, NEW e \in S,
         NoneTwice(s), e = LineFeed \/ e \notin Range(s), NEW t, t = InsertAt(s, i, e)
  PROVE  t \in Seq(S) /\ Len(t) = Len(s) + 1 /\ Range(t) = Range(s) \cup {e} /\ NoneTwice(t)
<1>1. PICK n \in Nat : n = Len(s) /\ DOMAIN s = 1 .. n
  OBVIOUS
<1>2. /\ t \in Seq(S) /\ Len(t) = n + 1 /\ DOMAIN t = 1 .. n + 1 /\ t[i] = e
      /\ \A k \in 1 .. i - 1 : t[k] = s[k]
      /\ \A k \in i + 1 .. n + 1 : t[k] = s[k - 1]
  <2>1. InsertsAt(t, s, i, e, S)
    BY InsertedAt
  <2> QED BY <1>1, <2>1 DEF InsertsAt
<1>3. PICK o : o = [k \in 1 .. n + 1 |-> IF k < i THEN k ELSE k - 1]
  OBVIOUS
<1>4. ASSUME NEW k \in 1 .. n + 1, k # i PROVE o[k] \in 1 .. n /\ t[k] = s[o[k]]
  <2>1. CASE k < i
    <3>1. k \in 1 .. i - 1 /\ k \in 1 .. n /\ o[k] = k
      BY <1>1, <1>3, <2>1
    <3> QED BY <1>2, <3>1
  <2>2. CASE k > i
    <3>1. k \in i + 1 .. n + 1 /\ k - 1 \in 1 .. n /\ o[k] = k - 1
      BY <1>1, <1>3, <2>2
    <3> QED BY <1>2, <3>1
  <2> QED BY <1>1, <1>4, <2>1, <2>2
<1>5. ASSUME NEW j \in 1 .. n PROVE \E k \in 1 .. n + 1 : k # i /\ t[k] = s[j]
  <2>1. CASE j < i
    <3>1. j \in 1 .. i - 1 /\ j \in 1 .. n + 1 /\ j # i
      BY <1>1, <2>1
    <3> QED BY <1>2, <3>1
  <2>2. CASE j >= i
    <3>1. j + 1 \in i + 1 .. n + 1 /\ j + 1 \in 1 .. n + 1 /\ j + 1 # i /\ (j + 1) - 1 = j
      BY <1>1, <2>2
    <3> QED BY <1>2, <3>1
  <2> QED BY <1>1, <2>1, <2>2
<1>6. Range(t) = Range(s) \cup {e}
  <2>1. ASSUME NEW x \in Range(t) PROVE x \in Range(s) \cup {e}
    <3>1. PICK k \in 1 .. n + 1 : x = t[k]
      BY <1>2 DEF Range
    <3>2. CASE k = i
      BY <1>2, <3>1, <3>2
    <3>3. CASE k # i
      BY <1>1, <1>4, <3>1, <3>3 DEF Range
    <3> QED BY <3>2, <3>3
  <2>2. ASSUME NEW x \in Range(s) PROVE x \in Range(t)
    <3>1. PICK j \in 1 .. n : x = s[j]
      BY <1>1, <2>2 DEF Range
    <3>2. PICK k \in 1 .. n + 1 : t[k] = s[j]
      BY <1>5
    <3>3. k \in DOMAIN t /\ t[k] = x
      BY <1>2, <3>1, <3>2
    <3> QED BY <3>3 DEF Range
  <2>3. e \in Range(t)
    <3>1. i \in 1 .. n + 1
      BY <1>1
    <3> QED BY <1>2, <3>1 DEF Range
  <2> QED BY <2>1, <2>2, <2>3
<1>7. ASSUME NEW j \in 1 .. n + 1, NEW k \in 1 .. n + 1, t[j] = t[k], t[j] # LineFeed PROVE j = k
  <2>1. CASE j = i \/ k = i
    <3>1. ASSUME NEW l \in 1 .. n + 1, l # i, t[l] = e, e # LineFeed PROVE FALSE
      <4>1. s[o[l]] \in Range(s)
        BY <1>1, <1>4, <3>1 DEF Range
      <4> QED BY <1>4, <3>1, <4>1
    <3> QED BY <1>2, <1>7, <2>1, <3>1
  <2>2. CASE j # i /\ k # i
    <3>1. o[j] = o[k]
      BY <1>1, <1>4, <1>7, <2>2 DEF NoneTwice
    <3> QED BY <1>1, <1>3, <2>2, <3>1
  <2> QED BY <2>1, <2>2
<1>8. NoneTwice(t)
  BY <1>2, <1>7 DEF NoneTwice
<1> QED BY <1>1, <1>2, <1>6, <1>8

(* A text with one character less.                                             *)
LEMMA RemovedOnce ==
  ASSUME NEW S, NEW s \in Seq(S), NEW i \in 1 .. Len(s), NoneTwice(s), NEW t, t = RemoveAt(s, i)
  PROVE  /\ t \in Seq(S) /\ Len(t) = Len(s) - 1 /\ Range(t) \cup {s[i]} = Range(s) /\ NoneTwice(t)
         /\ s[i] # LineFeed => s[i] \notin Range(t)
<1>1. PICK n \in Nat : n = Len(s) /\ DOMAIN s = 1 .. n
  OBVIOUS
<1>2. /\ t \in Seq(S) /\ Len(t) = n - 1 /\ DOMAIN t = 1 .. n - 1
      /\ \A k \in 1 .. i - 1 : t[k] = s[k]
      /\ \A k \in i .. n - 1 : t[k] = s[k + 1]
  BY <1>1, WithoutPlace DEF WithoutAt
<1>3. PICK o : o = [k \in 1 .. n - 1 |-> IF k < i THEN k ELSE k + 1]
  OBVIOUS
<1>4. ASSUME NEW k \in 1 .. n - 1 PROVE o[k] \in 1 .. n /\ o[k] # i /\ t[k] = s[o[k]]
  <2>1. CASE k < i
    <3>1. k \in 1 .. i - 1 /\ k \in 1 .. n /\ o[k] = k
      BY <1>1, <1>3, <2>1
    <3> QED BY <1>2, <2>1, <3>1
  <2>2. CASE k >= i
    <3>1. k \in i .. n - 1 /\ k + 1 \in 1 .. n /\ k + 1 # i /\ o[k] = k + 1
      BY <1>1, <1>3, <2>2
    <3> QED BY <1>2, <3>1
  <2> QED BY <1>1, <2>1, <2>2
<1>5. ASSUME NEW j \in 1 .. n, j # i PROVE \E k \in 1 .. n - 1 : t[k] = s[j]
  <2>1. CASE j < i
    <3>1. j \in 1 .. i - 1 /\ j \in 1 .. n - 1
      BY <1>1, <2>1
    <3> QED BY <1>2, <3>1
  <2>2. CASE j > i
    <3>1. j - 1 \in i .. n - 1 /\ j - 1 \in 1 .. n - 1 /\ (j - 1) + 1 = j
      BY <1>1, <2>2
    <3> QED BY <1>2, <3>1
  <2> QED BY <1>1, <1>5, <2>1, <2>2
<1>6. Range(t) \cup {s[i]} = Range(s)
  <2>1. \A x \in Range(t) : x \in Range(s)
    BY <1>1, <1>2, <1>4 DEF Range
  <2>2. ASSUME NEW x \in Range(s), x # s[i] PROVE x \in Range(t)
    <3>1. PICK j \in 1 .. n : x = s[j]
      BY <1>1 DEF Range
    <3>2. PICK k \in 1 .. n - 1 : t[k] = s[j]
      BY <1>5, <2>2, <3>1
    <3> QED BY <1>2, <3>1, <3>2 DEF Range
  <2>3. s[i] \in Range(s)
    BY <1>1 DEF Range
  <2> QED BY <2>1, <2>2, <2>3
<1>7. ASSUME NEW j \in 1 .. n - 1, NEW k \in 1 .. n - 1, t[j] = t[k], t[j] # LineFeed PROVE j = k
  <2>1. o[j] = o[k]
    BY <1>1, <1>4, <1>7 DEF NoneTwice
  <2> QED BY <1>1, <1>3, <2>1
<1>8. ASSUME s[i] # LineFeed, s[i] \in Range(t) PROVE FALSE
  <2>1. PICK k \in 1 .. n - 1 : s[i] = t[k]
    BY <1>2, <1>8 DEF Range
  <2>2. o[k] = i
    BY <1>1, <1>4, <1>8, <2>1 DEF NoneTwice
  <2> QED BY <1>4, <2>2
<1> QED BY <1>1, <1>2, <1>6, <1>7, <1>8 DEF NoneTwice

(* The bytes of a text, of the Null and of what lies behind, and those of them *)
(* from one place to another, are characters of the text or were told.         *)
LEMMA BytesTold ==
  ASSUME NEW S, NEW t \in Seq(S), NEW rest \in Seq(S), Null \in S,
         NEW c, c = t \o <<Null>> \o rest
  PROVE  /\ c \in Seq(S) /\ Len(c) > 0 /\ Tail(c) \in Seq(S)
         /\ \A n \in Nat : n <= Len(c) => Range(SubSeq(c, 1, n)) \subseteq S
<1>1. <<Null>> \in Seq(S)
  OBVIOUS
<1>2. PICK a : a = t \o <<Null>>
  OBVIOUS
<1>3. a \in Seq(S) /\ Len(a) = Len(t) + Len(<<Null>>)
  BY <1>1, <1>2, Concatenated
<1>4. c \in Seq(S) /\ Len(c) = Len(a) + Len(rest)
  BY <1>2, <1>3, Concatenated
<1>5. Len(t) \in Nat /\ Len(rest) \in Nat /\ Len(<<Null>>) = 1
  OBVIOUS
<1>6. Len(c) > 0 /\ c # <<>>
  BY <1>3, <1>4, <1>5
<1>7. Tail(c) \in Seq(S)
  BY <1>4, <1>6
<1>8. ASSUME NEW n \in Nat, n <= Len(c) PROVE Range(SubSeq(c, 1, n)) \subseteq S
  <2>1. PICK u : u = SubSeq(c, 1, n)
    OBVIOUS
  <2>2. DOMAIN u = 1 .. n /\ \A k \in 1 .. n : u[k] = c[k]
    BY <1>4, <1>8, <2>1
  <2>3. \A k \in 1 .. n : k \in 1 .. Len(c) /\ c[k] \in S
    BY <1>4, <1>8
  <2> QED BY <2>1, <2>2, <2>3 DEF Range
<1> QED BY <1>4, <1>6, <1>7, <1>8

(* What is packed of a text are bytes of it or of what lies behind.            *)
LEMMA PackedTold ==
  ASSUME ChatAssumption, NEW S, NEW t \in Seq(S), NEW rest \in Seq(S), Null \in S
  PROVE  Characters(packChat(t, rest)) \subseteq S \ {LineFeed, Null} /\ Cleared(t, rest) \in Seq(S)
<1>1. PICK c : c = t \o <<Null>> \o rest
  OBVIOUS
<1>2. /\ c \in Seq(S) /\ Tail(c) \in Seq(S)
      /\ \A n \in Nat : n <= Len(c) => Range(SubSeq(c, 1, n)) \subseteq S
  BY <1>1, BytesTold
<1>3. Len(c) \in Nat /\ Len(t) \in Nat /\ MaxLength \in Nat
  BY <1>2 DEF ChatAssumption
<1>4. PICK n \in Nat : n = Smaller(PackedLength(t) + 1, Len(c)) /\ n <= Len(c)
  <2>1. PackedLength(t) \in Nat
    BY <1>3 DEF PackedLength, Smaller
  <2> QED BY <1>3, <2>1 DEF Smaller
<1>5. packChat(t, rest) = SubSeq(c, 1, n)
  BY <1>1, <1>4 DEF packChat
<1> QED BY <1>1, <1>2, <1>4, <1>5 DEF Characters, Cleared

(* However many messages are posted to a viewer, it has a number of rows.      *)
LEMMA PostCounts ==
  ASSUME dimy \in Heights, NEW rows \in Nat, NEW n \in Nat
  PROVE  Post(rows, n) \in Nat
<1>1. Rows \in Nat /\ Rows >= 1
  BY ChatAssumption DEF Rows
<1>2. \A r \in Nat : PostMessage(r) \in Nat
  BY <1>1 DEF PostMessage
<1>3. PICK R : R = [j \in 1 .. n |-> [r \in Nat |-> PostMessage(r)]]
  OBVIOUS
<1>S. PICK S : S = Nat /\ rows \in S
  OBVIOUS
<1>4. \A j \in 1 .. n : R[j] \in [S -> S]
  BY <1>2, <1>3, <1>S
<1>a. PICK f \in [0 .. n -> S] : Runs(f, rows, R, n)
  BY <1>4, <1>S, Iterates
<1>5. f \in [0 .. n -> S] /\ f[0] = rows /\ \A j \in 1 .. n : f[j] = R[j][f[j - 1]]
  BY <1>a DEF Runs
<1>6. f = [k \in 0 .. n |-> IF k = 0 THEN rows ELSE PostMessage(f[k - 1])]
  <2>1. ASSUME NEW k \in 1 .. n PROVE f[k] = PostMessage(f[k - 1])
    <3>1. k - 1 \in 0 .. n
      OBVIOUS
    <3>2. f[k - 1] \in Nat
      BY <1>5, <1>S, <3>1
    <3> QED BY <1>3, <1>5, <3>2
  <2>2. \A k \in 0 .. n : k = 0 \/ (k \in 1 .. n /\ k # 0)
    OBVIOUS
  <2> QED BY <1>5, <2>1, <2>2
<1>7. PICK g : g = CHOOSE h : h = [k \in 0 .. n |-> IF k = 0 THEN rows ELSE PostMessage(h[k - 1])]
  OBVIOUS
<1>8. g = [k \in 0 .. n |-> IF k = 0 THEN rows ELSE PostMessage(g[k - 1])]
  BY <1>6, <1>7
<1>9. Post(rows, n) = g[n]
  BY <1>7 DEF Post
<1>10. PICK T : T = {k \in 0 .. n : g[k] \in Nat}
  OBVIOUS
<1>11. 0 \in T
  BY <1>8, <1>10
<1>12. ASSUME NEW k \in 1 .. n, k - 1 \in T PROVE k \in T
  <2>1. k \in 0 .. n /\ k # 0 /\ g[k] = PostMessage(g[k - 1])
    BY <1>8
  <2> QED BY <1>2, <1>10, <1>12, <2>1
<1>13. \A k \in 0 .. n : k \in T
  BY <1>11, <1>12, Throughout
<1> QED BY <1>9, <1>10, <1>13

(* Posting a line to every viewer counts on in each.                           *)
LEMMA AllPosted ==
  ASSUME ChatTyped, NEW k \in Nat PROVE PostAll(k) \in [Viewers -> Nat]
<1>1. \A v \in Viewers : content[v] \in Nat /\ Post(content[v], k) \in Nat
  BY PostCounts DEF ChatTyped
<1> QED BY <1>1 DEF PostAll

(* Nothing is typed and nothing is told at first.                              *)
LEMMA ChatInitially == InitChat => ChatIInv
<1> SUFFICES ASSUME InitChat PROVE ChatIInv
  OBVIOUS
<1>1. ChatTyped
  BY ChatAssumption DEF InitChat, ChatTyped
<1>2. BehindTold
  BY DEF InitChat, BehindTold
<1>3. DOMAIN text = {} /\ Characters(text) = {} /\ 1 .. typed = {}
  BY DEF InitChat, Characters, Range
<1>4. ToldOnce
  BY <1>3 DEF InitChat, ToldOnce
<1> QED BY <1>1, <1>2, <1>4 DEF ChatIInv

(* A key that adds a character to the text.                                    *)
LEMMA KeyKeeps ==
  ASSUME ChatIInv, UNCHANGED <<told, sent, gone, dangling, content, dimy>>, NEW e, Insert(e),
         \/ /\ typed' = typed + 1 /\ typed < MaxTyped /\ e = typed + 1
            /\ Len(text) <= MaxLength /\ UNCHANGED queued
         \/ /\ typed' = typed /\ e = LineFeed
            /\ queued' = queued + 1 /\ queued < MaxQueued
  PROVE  ChatIInv'
<1>1. /\ typed \in 0 .. MaxTyped /\ queued \in 0 .. MaxQueued /\ text \in Seq(0 .. MaxTyped)
      /\ Len(text) \in Nat /\ Len(text) <= MaxLength + 1 + queued
      /\ MaxLength \in Nat /\ MaxTyped \in Nat /\ MaxQueued \in Nat
  BY ChatAssumption DEF ChatIInv, ChatTyped
<1>2. NoneTwice(text)
  BY DEF ChatIInv, ToldOnce, NoneTwice
<1>3. /\ Characters(text) \cup told \cup gone = 1 .. typed
      /\ Characters(text) \cap (told \cup gone) = {} /\ told \cap gone = {}
  BY DEF ChatIInv, ToldOnce
<1>4. PICK i \in 1 .. Len(text) + 1 : text' = InsertAt(text, i, e)
  BY DEF Insert
<1>5. /\ e \in 0 .. MaxTyped /\ typed' \in 0 .. MaxTyped /\ queued' \in 0 .. MaxQueued
      /\ Len(text) + 1 <= MaxLength + 1 + queued'
  <2>1. CASE typed' = typed + 1
    <3>1. typed < MaxTyped /\ e = typed + 1 /\ Len(text) <= MaxLength /\ queued' = queued
      BY <1>1, <2>1
    <3>2. typed + 1 \in 0 .. MaxTyped /\ Len(text) + 1 <= MaxLength + 1 + queued
      BY <1>1, <3>1
    <3> QED BY <1>1, <2>1, <3>1, <3>2
  <2>2. CASE typed' = typed
    <3>1. e = LineFeed /\ queued' = queued + 1 /\ queued < MaxQueued
      BY <1>1, <2>2
    <3>2. queued + 1 \in 0 .. MaxQueued /\ Len(text) + 1 <= MaxLength + 1 + (queued + 1) /\ LineFeed \in 0 .. MaxTyped
      BY <1>1, <3>1 DEF LineFeed
    <3> QED BY <1>1, <2>2, <3>1, <3>2
  <2> QED BY <2>1, <2>2
<1>6. e = LineFeed \/ e \notin Range(text)
  <2>1. CASE e # LineFeed
    <3>1. e = typed + 1 /\ e # LineFeed /\ e # Null /\ e \notin 1 .. typed
      BY <1>1, <2>1 DEF LineFeed, Null
    <3>2. e \notin Characters(text)
      BY <1>3, <3>1
    <3> QED BY <3>1, <3>2 DEF Characters
  <2> QED BY <2>1
<1>7. /\ text' \in Seq(0 .. MaxTyped) /\ Len(text') = Len(text) + 1
      /\ Range(text') = Range(text) \cup {e} /\ NoneTwice(text')
  <2>1. PICK t : t = text'
    OBVIOUS
  <2>2. t = InsertAt(text, i, e)
    BY <1>4, <2>1
  <2>3. t \in Seq(0 .. MaxTyped) /\ Len(t) = Len(text) + 1 /\ Range(t) = Range(text) \cup {e} /\ NoneTwice(t)
    BY <1>1, <1>2, <1>5, <1>6, <2>2, InsertedOnce
  <2> QED BY <2>1, <2>3
<1>8. ChatTyped'
  BY <1>5, <1>7 DEF ChatIInv, ChatTyped
<1>9. BehindTold'
  <2>1. PICK S : S = told \cup {LineFeed, Null} /\ behind \in Seq(S)
    BY DEF ChatIInv, BehindTold
  <2>2. behind' \in Seq(S)
    <3>1. PICK n \in Nat : n = Len(behind)
      BY <2>1
    <3>2. \A k \in 1 .. n : behind[k] \in S
      BY <2>1, <3>1, Elements
    <3>3. SubSeq(behind, 2, n) \in Seq(S)
      BY <2>1, <3>1, <3>2
    <3>4. <<>> \in Seq(S)
      OBVIOUS
    <3>5. behind' = <<>> \/ behind' = SubSeq(behind, 2, n)
      BY <3>1 DEF Insert
    <3> QED BY <3>3, <3>4, <3>5
  <2> QED BY <2>1, <2>2 DEF ChatIInv, BehindTold
<1>10. ToldOnce'
  <2>1. Characters(text') = IF e = LineFeed THEN Characters(text) ELSE Characters(text) \cup {e}
    <3>1. e # Null
      BY <1>5 DEF Null
    <3> QED BY <1>7, <3>1 DEF Characters
  <2>2. CASE e = LineFeed
    <3>1. typed' = typed
      BY <1>1, <2>2 DEF LineFeed
    <3> QED BY <1>3, <1>7, <2>1, <2>2, <3>1 DEF ToldOnce, NoneTwice
  <2>3. CASE e # LineFeed
    <3>1. e = typed + 1 /\ typed' = typed + 1
      BY <2>3
    <3>2. 1 .. typed' = (1 .. typed) \cup {e} /\ e \notin 1 .. typed
      BY <1>1, <3>1
    <3>3. e \notin told /\ e \notin gone
      BY <1>3, <3>2
    <3>4. Characters(text') = Characters(text) \cup {e}
      BY <2>1, <2>3
    <3>5. /\ Characters(text') \cup told \cup gone = 1 .. typed'
          /\ Characters(text') \cap (told \cup gone) = {}
      BY <1>3, <3>2, <3>3, <3>4
    <3> QED BY <1>3, <1>7, <3>5 DEF ToldOnce, NoneTwice
  <2> QED BY <2>2, <2>3
<1> QED BY <1>8, <1>9, <1>10 DEF ChatIInv

(* Erasing a character takes it out of the text, where it was once.            *)
LEMMA EraseKeeps == ASSUME ChatIInv, NEW i \in DOMAIN text, Erase(i) PROVE ChatIInv'
<1>1. /\ typed \in 0 .. MaxTyped /\ queued \in 0 .. MaxQueued /\ text \in Seq(0 .. MaxTyped)
      /\ Len(text) \in Nat /\ Len(text) <= MaxLength + 1 + queued /\ MaxLength \in Nat /\ MaxQueued \in Nat
  BY ChatAssumption DEF ChatIInv, ChatTyped
<1>2. NoneTwice(text)
  BY DEF ChatIInv, ToldOnce, NoneTwice
<1>3. i \in 1 .. Len(text)
  BY <1>1
<1>4. /\ text' \in Seq(0 .. MaxTyped) /\ Len(text') = Len(text) - 1
      /\ Range(text') \cup {text[i]} = Range(text) /\ NoneTwice(text')
      /\ text[i] # LineFeed => text[i] \notin Range(text')
  <2>1. PICK t : t = text'
    OBVIOUS
  <2>2. t = RemoveAt(text, i)
    BY <2>1 DEF Erase
  <2>3. /\ t \in Seq(0 .. MaxTyped) /\ Len(t) = Len(text) - 1
        /\ Range(t) \cup {text[i]} = Range(text) /\ NoneTwice(t)
        /\ text[i] # LineFeed => text[i] \notin Range(t)
    BY <1>1, <1>2, <1>3, <2>2, RemovedOnce
  <2> QED BY <2>1, <2>3
<1>5. ChatTyped'
  BY <1>1, <1>4 DEF Erase, viewerVars, ChatIInv, ChatTyped
<1>6. BehindTold'
  <2>1. PICK S : S = told \cup {LineFeed, Null} /\ behind \in Seq(S) /\ Null \in S
    BY DEF ChatIInv, BehindTold
  <2>2. PICK b : b = <<Null>> \o behind
    OBVIOUS
  <2>3. b \in Seq(S)
    <3>1. <<Null>> \in Seq(S)
      BY <2>1
    <3> QED BY <2>1, <2>2, <3>1, Concatenated
  <2> QED BY <2>1, <2>2, <2>3 DEF Erase, ChatIInv, BehindTold
<1>7. ToldOnce'
  <2>1. /\ Characters(text) \cup told \cup gone = 1 .. typed
        /\ Characters(text) \cap (told \cup gone) = {} /\ told \cap gone = {}
    BY DEF ChatIInv, ToldOnce
  <2>2. /\ gone' = gone \cup ({text[i]} \ {LineFeed}) /\ told' = told /\ typed' = typed
    BY DEF Erase
  <2>3. text[i] # Null
    <3>1. text[i] \in 0 .. MaxTyped
      BY <1>1, <1>3, Elements
    <3> QED BY <3>1 DEF Null
  <2>4. /\ Characters(text') \cup ({text[i]} \ {LineFeed}) = Characters(text)
        /\ Characters(text') \cap ({text[i]} \ {LineFeed}) = {}
    BY <1>4, <2>3 DEF Characters
  <2>5. /\ Characters(text') \cup told' \cup gone' = 1 .. typed'
        /\ Characters(text') \cap (told' \cup gone') = {} /\ told' \cap gone' = {}
    BY <2>1, <2>2, <2>4
  <2> QED BY <1>4, <2>5 DEF ToldOnce, NoneTwice
<1> QED BY <1>5, <1>6, <1>7 DEF ChatIInv

(* A messager that closes takes its text with it.                              *)
LEMMA CloseKeeps == ASSUME ChatIInv, CloseMessager PROVE ChatIInv'
<1>1. ChatTyped'
  BY ChatAssumption DEF CloseMessager, viewerVars, ChatIInv, ChatTyped
<1>2. BehindTold'
  BY DEF CloseMessager, ChatIInv, BehindTold
<1>3. DOMAIN text' = {} /\ Characters(text') = {}
  BY DEF CloseMessager, Characters, Range
<1>4. ToldOnce'
  BY <1>3 DEF CloseMessager, ChatIInv, ToldOnce
<1> QED BY <1>1, <1>2, <1>4 DEF ChatIInv

(* The responders tell the whole text; what they pack is of it, or lay behind  *)
(* it and was told before.                                                     *)
LEMMA ReturnsKeep == ASSUME ChatIInv, RunReturns PROVE ChatIInv'
<1>1. ChatTyped'
  <2>1. queued \in Nat /\ PostAll(queued) \in [Viewers -> Nat]
    BY ChatAssumption, AllPosted DEF ChatIInv, ChatTyped
  <2> QED BY <2>1, ChatAssumption DEF RunReturns, ChatIInv, ChatTyped
<1>2. DOMAIN text' = {} /\ Characters(text') = {}
  BY DEF RunReturns, Characters, Range
<1>3. ToldOnce'
  <2>1. /\ Characters(text) \cup told \cup gone = 1 .. typed
        /\ Characters(text) \cap (told \cup gone) = {} /\ told \cap gone = {}
    BY DEF ChatIInv, ToldOnce
  <2>2. told' = told \cup Characters(text) /\ gone' = gone /\ typed' = typed
    BY DEF RunReturns
  <2>3. /\ told' \cup gone' = 1 .. typed' /\ told' \cap gone' = {}
    BY <2>1, <2>2
  <2> QED BY <1>2, <2>3 DEF ToldOnce
<1>0. PICK S : S = told' \cup {LineFeed, Null}
  OBVIOUS
<1>4. S = told' \cup {LineFeed, Null} /\ Null \in S
  BY <1>0
<1>5. text \in Seq(S) /\ behind \in Seq(S)
  <2>1. text \in Seq(0 .. MaxTyped) /\ behind \in Seq(told \cup {LineFeed, Null})
    BY DEF ChatIInv, ChatTyped, BehindTold
  <2>2. told' = told \cup Characters(text)
    BY DEF RunReturns
  <2>3. \A k \in DOMAIN text : text[k] \in S
    BY <1>4, <2>2 DEF Characters, Range
  <2>4. \A k \in DOMAIN behind : behind[k] \in S
    <3>1. \A k \in DOMAIN behind : behind[k] \in told \cup {LineFeed, Null}
      BY <2>1
    <3> QED BY <1>4, <2>2, <3>1
  <2> QED BY <2>1, <2>3, <2>4
<1>6. Characters(packChat(text, behind)) \subseteq told' /\ Cleared(text, behind) \in Seq(S)
  BY <1>4, <1>5, PackedTold, ChatAssumption
<1>7. Characters(packChat(<<>>, Cleared(text, behind))) \subseteq told'
  <2>1. <<>> \in Seq(S)
    OBVIOUS
  <2>2. PICK c \in Seq(S) : c = Cleared(text, behind)
    BY <1>6
  <2>3. PICK e \in Seq(S) : e = <<>>
    BY <2>1
  <2>4. Characters(packChat(e, c)) \subseteq S \ {LineFeed, Null}
    BY <1>4, PackedTold, ChatAssumption
  <2> QED BY <1>4, <2>2, <2>3, <2>4
<1>8. BehindTold'
  <2>1. sent' = sent \cup Packed(queued) /\ behind' = Cleared(text, behind) /\ told \subseteq told'
    BY DEF RunReturns
  <2>2. Packed(queued) \subseteq told'
    BY <1>6, <1>7 DEF Packed
  <2> QED BY <1>4, <1>6, <2>1, <2>2 DEF ChatIInv, BehindTold
<1> QED BY <1>1, <1>3, <1>8 DEF ChatIInv

(* Every step keeps the inductive invariant.                                   *)
LEMMA ChatStep == ChatIInv /\ [NextChat]_chatVars => ChatIInv'
<1> SUFFICES ASSUME ChatIInv, [NextChat]_chatVars PROVE ChatIInv'
  OBVIOUS
<1>1. ASSUME UNCHANGED <<text, behind, typed, queued, gone, told, sent>>,
             dangling' \in {"none", "queued", "ran"}, content' \in [Viewers -> Nat], dimy' \in Heights
      PROVE  ChatIInv'
  BY <1>1 DEF ChatIInv, ChatTyped, ToldOnce, BehindTold
<1>2. /\ content \in [Viewers -> Nat] /\ dimy \in Heights
      /\ dangling \in {"none", "queued", "ran"}
  BY DEF ChatIInv, ChatTyped
<1>3. CASE UNCHANGED chatVars
  BY <1>1, <1>2, <1>3 DEF chatVars, inputVars, viewerVars
<1>4. CASE Type
  BY <1>4, KeyKeeps DEF Type, viewerVars
<1>5. CASE Return
  BY <1>5, KeyKeeps DEF Return, viewerVars
<1>6. CASE CloseMessager
  BY <1>6, CloseKeeps
<1>7. CASE RunReturns
  BY <1>7, ReturnsKeep
<1>8. CASE RunDangling
  BY <1>1, <1>2, <1>8 DEF RunDangling, viewerVars
<1>9. CASE ChatArrives
  <2>1. PostAll(1) \in [Viewers -> Nat]
    BY AllPosted DEF ChatIInv
  <2> QED BY <1>1, <1>2, <1>9, <2>1 DEF ChatArrives, inputVars
<1>10. ASSUME NEW i \in DOMAIN text, Erase(i) PROVE ChatIInv'
  BY <1>10, EraseKeeps
<1>11. ASSUME NEW v \in Viewers, OpenViewer(v) PROVE ChatIInv'
  BY <1>1, <1>2, <1>11 DEF OpenViewer, inputVars
<1>12. ASSUME NEW h \in Heights, Resize(h) PROVE ChatIInv'
  BY <1>1, <1>2, <1>12 DEF Resize, inputVars
<1> QED
  BY <1>3, <1>4, <1>5, <1>6, <1>7, <1>8, <1>9, <1>10, <1>11, <1>12 DEF NextChat

(* Each character typed is in the text, told or gone, and what lies behind the *)
(* text was told, after every key, every run of the returns, and when the      *)
(* messager closes, up to a responder that runs without its messager.          *)
THEOREM ChatReachable == SpecChat => []ChatIInv
<1>1. ChatIInv /\ [NextChat]_chatVars => ChatIInv'
  BY ChatStep
<1> QED BY <1>1, ChatInitially, PTL DEF SpecChat

(* Each character typed is once in the input, or was told once, or is gone,    *)
(* wherever the returns fall; what is sent was told, although the packing      *)
(* reads behind a short text.                                                  *)
THEOREM ChatHolds == SpecChat => []ChatInv
<1>1. ASSUME ChatIInv PROVE ChatInv
  <2>1. ChatTypeOK
    <3>1. Len(text) \in Nat /\ queued \in 0 .. MaxQueued /\ Len(text) <= MaxLength + 1 + queued
      BY <1>1 DEF ChatIInv, ChatTyped
    <3>2. Len(text) <= MaxLength + 1 + MaxQueued
      BY <3>1, ChatAssumption
    <3> QED BY <1>1, <3>2 DEF ChatIInv, ChatTyped, ChatTypeOK
  <2> QED BY <1>1, <2>1 DEF ChatIInv, BehindTold, SentWasTold, ChatInv
<1> QED BY <1>1, ChatReachable, PTL

--------------------------------------------------------------------------------
(* The inspectors.                                                             *)

Views == [object : Objects \cup {Nil}, idx : Nat]
Presses == [by : made, button : Buttons]

InspectionIInv ==
  /\ selectedGOs \in Seq(Objects)
  /\ inspectors \in [Inspectors -> Views]
  /\ opened \subseteq made /\ made \subseteq Inspectors
  /\ tracking \in Objects \cup {Nil}
  /\ pressed \in Seq(Presses)

(* What is shown is one of the selected objects.                               *)
LEMMA ShowsTyped ==
  ASSUME NEW sel \in Seq(Objects), NEW i \in Views, NEW k \in 0 .. Len(sel) - 1, NEW was
  PROVE  Shows(i, k, sel, was) \in Views
<1>1. sel[k + 1] \in Objects /\ k \in Nat
  OBVIOUS
<1> QED BY <1>1 DEF Shows, Views

(* The loop of ">", step by step.                                              *)
Forward(f, i, sel) ==
  /\ f \in [0 .. Len(sel) -> Views] /\ f[0] = i
  /\ \A j \in 1 .. Len(sel) :
       f[j] = Shows(f[j - 1], (f[j - 1].idx + j - 1) % Len(sel), sel, i.object)

(* The search of ">" goes through the selection step by step.                  *)
LEMMA NextRuns ==
  ASSUME NEW sel \in Seq(Objects), NEW i \in Views
  PROVE  \E f : Forward(f, i, sel) /\ nextInSelection(i, sel) = f[Len(sel)]
<1>1. PICK n \in Nat : n = Len(sel)
  OBVIOUS
<1> DEFINE St(x, j) == Shows(x, (x.idx + j - 1) % n, sel, i.object)
<1>2. ASSUME NEW x \in Views, NEW j \in 1 .. n PROVE St(x, j) \in Views
  <2>1. x.idx \in Nat
    BY DEF Views
  <2>2. (x.idx + j - 1) % n \in 0 .. n - 1
    BY <2>1
  <2> QED BY <1>1, <2>2, ShowsTyped
<1>3. PICK R : R = [j \in 1 .. n |-> [x \in Views |-> St(x, j)]]
  OBVIOUS
<1>4. \A j \in 1 .. n : R[j] \in [Views -> Views]
  BY <1>2, <1>3
<1>5. PICK f \in [0 .. n -> Views] : Runs(f, i, R, n)
  BY <1>4, Iterates
<1> HIDE DEF St
<1>6. f[0] = i /\ \A j \in 1 .. n : f[j] = St(f[j - 1], j)
  <2>1. ASSUME NEW j \in 1 .. n PROVE f[j] = St(f[j - 1], j)
    <3>1. j - 1 \in 0 .. n
      OBVIOUS
    <3>2. f[j - 1] \in Views
      BY <3>1
    <3> QED BY <1>3, <1>5, <3>2 DEF Runs
  <2> QED BY <1>5, <2>1 DEF Runs
<1>7. f = [j \in 0 .. n |-> IF j = 0 THEN i ELSE St(f[j - 1], j)]
  <2>1. \A j \in 0 .. n : j = 0 \/ (j \in 1 .. n /\ j # 0)
    OBVIOUS
  <2> QED BY <1>6, <2>1
<1>8. PICK g : g = CHOOSE h : h = [j \in 0 .. n |-> IF j = 0 THEN i ELSE St(h[j - 1], j)]
  OBVIOUS
<1>9. g = [j \in 0 .. n |-> IF j = 0 THEN i ELSE St(g[j - 1], j)]
  BY <1>7, <1>8
<1>10. nextInSelection(i, sel) = g[n]
  BY <1>1, <1>8 DEF nextInSelection, St
<1>11. g[0] = i /\ \A j \in 1 .. n : g[j] = St(g[j - 1], j)
  <2>1. \A j \in 1 .. n : j \in 0 .. n /\ j # 0
    OBVIOUS
  <2> QED BY <1>9, <2>1
<1>12. PICK T : T = {j \in 0 .. n : g[j] \in Views}
  OBVIOUS
<1>13. 0 \in T
  BY <1>11, <1>12
<1>14. ASSUME NEW j \in 1 .. n, j - 1 \in T PROVE j \in T
  <2>1. g[j] = St(g[j - 1], j) /\ j \in 0 .. n
    BY <1>11
  <2>2. g[j - 1] \in Views
    BY <1>12, <1>14
  <2>3. St(g[j - 1], j) \in Views
    BY <1>2, <2>2
  <2> QED BY <1>12, <2>1, <2>3
<1>15. \A j \in 0 .. n : j \in T
  BY <1>13, <1>14, Throughout
<1>16. g \in [0 .. n -> Views]
  <2>1. g = [j \in 0 .. n |-> g[j]]
    BY <1>9
  <2> QED BY <1>12, <1>15, <2>1
<1>17. Forward(g, i, sel)
  BY <1>1, <1>11, <1>16 DEF Forward, St
<1> QED BY <1>1, <1>10, <1>17

(* What ">" finds is a view.                                                   *)
LEMMA NextTyped ==
  ASSUME NEW sel \in Seq(Objects), NEW i \in Views PROVE nextInSelection(i, sel) \in Views
<1>1. PICK f : Forward(f, i, sel) /\ nextInSelection(i, sel) = f[Len(sel)]
  BY NextRuns
<1>2. Len(sel) \in 0 .. Len(sel)
  OBVIOUS
<1> QED BY <1>1, <1>2 DEF Forward

(* An index that wraps below zero is still one of the selection.               *)
LEMMA UnsignedBelow ==
  ASSUME NEW size \in Nat \ {0}, NEW k \in Int PROVE Unsigned(k, size) \in 0 .. size - 1
<1>1. Wrap % size \in Int
  BY DEF Wrap
<1>2. PICK w \in Int : w = (Wrap % size) * (Wrap % size) * (Wrap % size) * (Wrap % size)
  BY <1>1
<1>3. k % size \in 0 .. size - 1 /\ (w + k) % size \in 0 .. size - 1
  OBVIOUS
<1> QED BY <1>2, <1>3 DEF Unsigned

(* What "<" finds is a view.                                                   *)
LEMMA FormerTyped ==
  ASSUME NEW sel \in Seq(Objects), NEW i \in Views PROVE formerInSelection(i, sel) \in Views
<1>1. PICK n \in Nat : n = Len(sel)
  OBVIOUS
<1> DEFINE St(x, j) == Shows(x, Unsigned(x.idx - (j - 1), n), sel, i.object)
<1>2. ASSUME NEW x \in Views, NEW j \in 1 .. n PROVE St(x, j) \in Views
  <2>1. x.idx - (j - 1) \in Int /\ n \in Nat \ {0}
    BY DEF Views
  <2>2. Unsigned(x.idx - (j - 1), n) \in 0 .. n - 1
    BY <2>1, UnsignedBelow
  <2> QED BY <1>1, <2>2, ShowsTyped
<1>3. PICK R : R = [j \in 1 .. n |-> [x \in Views |-> St(x, j)]]
  OBVIOUS
<1>4. \A j \in 1 .. n : R[j] \in [Views -> Views]
  BY <1>2, <1>3
<1>5. PICK f \in [0 .. n -> Views] : Runs(f, i, R, n)
  BY <1>4, Iterates
<1> HIDE DEF St
<1>6. f[0] = i /\ \A j \in 1 .. n : f[j] = St(f[j - 1], j)
  <2>1. ASSUME NEW j \in 1 .. n PROVE f[j] = St(f[j - 1], j)
    <3>1. j - 1 \in 0 .. n
      OBVIOUS
    <3>2. f[j - 1] \in Views
      BY <3>1
    <3> QED BY <1>3, <1>5, <3>2 DEF Runs
  <2> QED BY <1>5, <2>1 DEF Runs
<1>7. f = [j \in 0 .. n |-> IF j = 0 THEN i ELSE St(f[j - 1], j)]
  <2>1. \A j \in 0 .. n : j = 0 \/ (j \in 1 .. n /\ j # 0)
    OBVIOUS
  <2> QED BY <1>6, <2>1
<1>8. PICK g : g = CHOOSE h : h = [j \in 0 .. n |-> IF j = 0 THEN i ELSE St(h[j - 1], j)]
  OBVIOUS
<1>9. g = [j \in 0 .. n |-> IF j = 0 THEN i ELSE St(g[j - 1], j)]
  BY <1>7, <1>8
<1>10. formerInSelection(i, sel) = g[n]
  BY <1>1, <1>8 DEF formerInSelection, St
<1>12. PICK T : T = {j \in 0 .. n : g[j] \in Views}
  OBVIOUS
<1>13. 0 \in T
  BY <1>9, <1>12
<1>14. ASSUME NEW j \in 1 .. n, j - 1 \in T PROVE j \in T
  <2>1. g[j] = St(g[j - 1], j) /\ j \in 0 .. n
    BY <1>9
  <2>2. St(g[j - 1], j) \in Views
    BY <1>2, <1>12, <1>14
  <2> QED BY <1>12, <2>1, <2>2
<1>15. \A j \in 0 .. n : j \in T
  BY <1>13, <1>14, Throughout
<1> QED BY <1>10, <1>12, <1>15

(* What the responders work on.                                                *)
Turns == [selected : Seq(Objects), inspectors : [Inspectors -> Views], tracking : Objects \cup {Nil}]

(* A responder leaves the inspectors and the selection typed.                  *)
LEMMA RespondTyped ==
  ASSUME made \subseteq Inspectors, NEW s \in Turns, NEW r \in Presses
  PROVE  Respond(s, r) \in Turns
<1>1. PICK sel \in Seq(Objects), ins \in [Inspectors -> Views], t \in Objects \cup {Nil} :
        s = [selected |-> sel, inspectors |-> ins, tracking |-> t]
  BY DEF Turns
<1>2. r.by \in Inspectors /\ r.button \in Buttons
  BY DEF Presses
<1>3. PICK i \in Views : i = ins[r.by] /\ i = s.inspectors[r.by]
  BY <1>1, <1>2
<1>4. i.object \in Objects \cup {Nil}
  BY DEF Views
<1>5. nextInSelection(i, sel) \in Views /\ formerInSelection(i, sel) \in Views
  BY NextTyped, FormerTyped
<1>6. removeFromSelection(i.object, sel) \in Seq(Objects)
  <2>1. CASE i.object \notin Range(sel)
    BY <2>1 DEF removeFromSelection
  <2>2. CASE i.object \in Range(sel)
    <3> DEFINE at == {k \in DOMAIN sel : sel[k] = i.object}
    <3>1. at \in SUBSET Nat /\ at # {}
      BY <2>2 DEF Range
    <3>2. PICK m \in at : \A k \in at : m <= k
      BY <3>1, LeastNumber
    <3>3. \A j \in 1 .. m - 1 : sel[j] # i.object
      <4>1. \A j \in 1 .. m - 1 : j \in DOMAIN sel /\ ~(m <= j)
        BY <3>2
      <4> QED BY <3>2, <4>1
    <3>4. PICK k \in 1 .. Len(sel) :
            k = CHOOSE l \in DOMAIN sel : sel[l] = i.object /\ \A j \in 1 .. l - 1 : sel[j] # i.object
      BY <3>2, <3>3
    <3>5. removeFromSelection(i.object, sel) = RemoveAt(sel, k)
      BY <2>2, <3>4 DEF removeFromSelection
    <3> QED BY <3>5, WithoutPlace DEF WithoutAt
  <2> QED BY <2>1, <2>2
<1>7. addToSelection(i.object, sel) \in Seq(Objects)
  <2>1. CASE i.object = Nil \/ i.object \in Range(sel)
    BY <2>1 DEF addToSelection
  <2>2. CASE ~(i.object = Nil \/ i.object \in Range(sel))
    BY <1>4, <2>2 DEF addToSelection
  <2> QED BY <2>1, <2>2
<1> HIDE DEF Views
<1>8. CASE r.button = "trk"
  <2>1. Respond(s, r) = [selected |-> sel, inspectors |-> ins, tracking |-> i.object]
    BY <1>1, <1>3, <1>8 DEF Respond
  <2> QED BY <1>4, <2>1 DEF Turns
<1>9. CASE r.button = "stp-trk"
  <2>1. Respond(s, r) = [selected |-> sel, inspectors |-> ins, tracking |-> Nil]
    BY <1>1, <1>9 DEF Respond
  <2> QED BY <2>1 DEF Turns
<1>10. CASE r.button = "x"
  <2>1. Respond(s, r) = [selected |-> removeFromSelection(i.object, sel), inspectors |-> ins, tracking |-> t]
    BY <1>1, <1>3, <1>10 DEF Respond
  <2> QED BY <1>6, <2>1 DEF Turns
<1>11. CASE r.button = "+"
  <2>1. Respond(s, r) = [selected |-> addToSelection(i.object, sel), inspectors |-> ins, tracking |-> t]
    BY <1>1, <1>3, <1>11 DEF Respond
  <2> QED BY <1>7, <2>1 DEF Turns
<1>12. CASE r.button = ">"
  <2>1. Respond(s, r) = [selected |-> sel, inspectors |-> [ins EXCEPT ![r.by] = nextInSelection(i, sel)], tracking |-> t]
    BY <1>1, <1>3, <1>12 DEF Respond
  <2>2. [ins EXCEPT ![r.by] = nextInSelection(i, sel)] \in [Inspectors -> Views]
    BY <1>2, <1>5
  <2> QED BY <2>1, <2>2 DEF Turns
<1>13. CASE r.button = "<"
  <2>1. Respond(s, r) = [selected |-> sel, inspectors |-> [ins EXCEPT ![r.by] = formerInSelection(i, sel)], tracking |-> t]
    BY <1>1, <1>3, <1>13 DEF Respond
  <2>2. [ins EXCEPT ![r.by] = formerInSelection(i, sel)] \in [Inspectors -> Views]
    BY <1>2, <1>5
  <2> QED BY <2>1, <2>2 DEF Turns
<1> QED BY <1>2, <1>8, <1>9, <1>10, <1>11, <1>12, <1>13 DEF Buttons

(* So do all the responders that are run together.                             *)
LEMMA RespondedTyped == ASSUME InspectionIInv PROVE Responded \in Turns
<1>1. PICK n \in Nat : n = Len(pressed)
  BY DEF InspectionIInv
<1>2. PICK a : a = [selected |-> selectedGOs, inspectors |-> inspectors, tracking |-> tracking]
  OBVIOUS
<1>3. a \in Turns
  BY <1>2 DEF InspectionIInv, Turns
<1>4. ASSUME NEW x \in Turns, NEW j \in 1 .. n PROVE Respond(x, pressed[j]) \in Turns
  <2>1. pressed[j] \in Presses /\ made \subseteq Inspectors
    BY <1>1 DEF InspectionIInv
  <2> QED BY <2>1, RespondTyped
<1>5. PICK R : R = [j \in 1 .. n |-> [x \in Turns |-> Respond(x, pressed[j])]]
  OBVIOUS
<1>6. \A j \in 1 .. n : R[j] \in [Turns -> Turns]
  BY <1>4, <1>5
<1>7. PICK f \in [0 .. n -> Turns] : Runs(f, a, R, n)
  BY <1>3, <1>6, Iterates
<1>8. f = [j \in 0 .. n |-> IF j = 0 THEN a ELSE Respond(f[j - 1], pressed[j])]
  <2>1. ASSUME NEW j \in 1 .. n PROVE f[j] = Respond(f[j - 1], pressed[j])
    <3>1. j - 1 \in 0 .. n
      OBVIOUS
    <3>2. f[j - 1] \in Turns
      BY <3>1
    <3> QED BY <1>5, <1>7, <3>2 DEF Runs
  <2>2. \A j \in 0 .. n : j = 0 \/ (j \in 1 .. n /\ j # 0)
    OBVIOUS
  <2>3. f[0] = a
    BY <1>7 DEF Runs
  <2> QED BY <2>1, <2>2, <2>3
<1>9. PICK g : g = CHOOSE h : h = [j \in 0 .. n |-> IF j = 0 THEN a ELSE Respond(h[j - 1], pressed[j])]
  OBVIOUS
<1>10. g = [j \in 0 .. n |-> IF j = 0 THEN a ELSE Respond(g[j - 1], pressed[j])]
  BY <1>8, <1>9
<1>11. Responded = g[n]
  BY <1>1, <1>2, <1>9 DEF Responded
<1>12. PICK T : T = {j \in 0 .. n : g[j] \in Turns}
  OBVIOUS
<1>13. 0 \in T
  BY <1>3, <1>10, <1>12
<1>14. ASSUME NEW j \in 1 .. n, j - 1 \in T PROVE j \in T
  <2>1. g[j] = Respond(g[j - 1], pressed[j]) /\ j \in 0 .. n
    BY <1>10
  <2>2. Respond(g[j - 1], pressed[j]) \in Turns
    BY <1>4, <1>12, <1>14
  <2> QED BY <1>12, <2>1, <2>2
<1>15. \A j \in 0 .. n : j \in T
  BY <1>13, <1>14, Throughout
<1> QED BY <1>11, <1>12, <1>15

(* No inspector is made at first.                                              *)
LEMMA InspectionInitially == InitInspection => InspectionIInv
  BY DEF InitInspection, InspectionIInv, Views

(* Selecting objects keeps the inspectors typed and those that are open made.  *)
LEMMA SelectKeeps ==
  ASSUME InspectionIInv, NEW g \in Seq(Objects \cup {Nil}), GameObjectSelect(g)
  PROVE  InspectionIInv'
<1>1. PICK at, t : at = {k \in DOMAIN g : g[k] # Nil} /\ t = Selection(g, at)
  OBVIOUS
<1>2. at \in SUBSET (DOMAIN g) /\ \A k \in at : g[k] \in Objects
  BY <1>1
<1>3. t \in Seq({g[k] : k \in at})
  BY <1>1, <1>2, Selected
<1>4. t \in Seq(Objects)
  BY <1>2, <1>3
<1>5. selectedGOs' \in Seq(Objects)
  BY <1>1, <1>4 DEF GameObjectSelect, InspectionIInv
<1>6. inspectors' \in [Inspectors -> Views]
  <2>1. PICK o \in Objects \cup {Nil} : o = (IF g = <<>> THEN Nil ELSE g[1])
    OBVIOUS
  <2>2. inspectors' = [n \in Inspectors |-> IF AliveInspector(n) THEN [inspectors[n] EXCEPT !.object = o]
                                            ELSE inspectors[n]]
    BY <2>1 DEF GameObjectSelect
  <2>3. \A n \in Inspectors : inspectors[n] \in Views /\ [inspectors[n] EXCEPT !.object = o] \in Views
    BY DEF InspectionIInv, Views
  <2> QED BY <2>2, <2>3
<1> QED BY <1>5, <1>6 DEF GameObjectSelect, InspectionIInv, Presses

(* Every step keeps the invariant.                                             *)
LEMMA InspectionStep == InspectionIInv /\ [NextInspection]_inspectionVars => InspectionIInv'
<1> SUFFICES ASSUME InspectionIInv, [NextInspection]_inspectionVars PROVE InspectionIInv'
  OBVIOUS
<1>1. ASSUME UNCHANGED <<selectedGOs, inspectors, tracking>>, made \subseteq made', made' \subseteq Inspectors,
             opened' \subseteq made', pressed' \in Seq(Presses)
      PROVE  InspectionIInv'
  <2>1. Presses \subseteq Presses'
    BY <1>1 DEF Presses
  <2>2. pressed' \in Seq(Presses')
    BY <1>1, <2>1
  <2> QED BY <1>1, <2>2 DEF InspectionIInv, Views
<1>2. opened \subseteq made /\ made \subseteq Inspectors /\ pressed \in Seq(Presses)
  BY DEF InspectionIInv
<1>3. CASE UNCHANGED inspectionVars
  BY <1>1, <1>2, <1>3 DEF inspectionVars
<1>4. ASSUME NEW n \in Inspectors, OpenInspector(n) PROVE InspectionIInv'
  BY <1>1, <1>2, <1>4 DEF OpenInspector
<1>5. ASSUME NEW n \in Inspectors, CloseInspector(n) PROVE InspectionIInv'
  BY <1>1, <1>2, <1>5 DEF CloseInspector
<1>6. ASSUME NEW n \in Inspectors, NEW button \in Buttons, PressButton(n, button) PROVE InspectionIInv'
  <2>1. [by |-> n, button |-> button] \in Presses
    BY <1>2, <1>6 DEF PressButton, Presses
  <2>2. pressed' \in Seq(Presses)
    BY <1>2, <1>6, <2>1 DEF PressButton
  <2> QED BY <1>1, <1>2, <1>6, <2>2 DEF PressButton
<1>7. ASSUME NEW g \in {<<>>, <<Nil>>} \cup {<<o>> : o \in Objects} \cup (Objects \X Objects),
             GameObjectSelect(g)
      PROVE  InspectionIInv'
  <2>1. PICK S : S = Objects \cup {Nil}
    OBVIOUS
  <2>2. g \in Seq(S)
    <3>1. CASE g \in {<<>>, <<Nil>>}
      <4>1. PICK x \in S : x = Nil
        BY <2>1
      <4>2. <<>> \in Seq(S) /\ <<x>> \in Seq(S)
        OBVIOUS
      <4> QED BY <3>1, <4>1, <4>2
    <3>2. CASE g \in {<<o>> : o \in Objects}
      BY <2>1, <3>2
    <3>3. CASE g \in Objects \X Objects
      <4>1. PICK a \in S, b \in S : g = <<a, b>>
        BY <2>1, <3>3
      <4> QED BY <4>1
    <3> QED BY <3>1, <3>2, <3>3
  <2> QED BY <1>7, <2>1, <2>2, SelectKeeps
<1>8. CASE RunResponders
  <2>1. PICK s : s = Responded /\ s \in Turns
    BY RespondedTyped
  <2>2. selectedGOs' = s.selected /\ inspectors' = s.inspectors /\ tracking' = s.tracking
        /\ pressed' = <<>> /\ UNCHANGED <<opened, made>>
    BY <1>8, <2>1 DEF RunResponders
  <2> QED BY <2>1, <2>2 DEF Turns, InspectionIInv, Views
<1> QED BY <1>3, <1>4, <1>5, <1>6, <1>7, <1>8 DEF NextInspection

(* Whatever is pressed, selected, opened or closed, every inspector holds an   *)
(* object or none, and every button that is pressed belongs to one that was    *)
(* made.                                                                       *)
THEOREM InspectionReachable == SpecInspection => []InspectionIInv
<1>1. InspectionIInv /\ [NextInspection]_inspectionVars => InspectionIInv'
  BY InspectionStep
<1> QED BY <1>1, InspectionInitially, PTL DEF SpecInspection

(* Whatever was shown: after ">" an inspector shows the object at its index,   *)
(* unless every selected object is what it showed.                             *)
InPlace(i, sel) == i \in Views /\ i.idx \in 0 .. Len(sel) - 1 /\ i.object = sel[i.idx + 1]

(* Of up to three selected objects the first press of ">" finds a place,       *)
(* unless the object is the only one there.                                    *)
LEMMA FirstPress ==
  ASSUME NEW sel \in Seq(Objects), NEW i \in Views, Len(sel) \in 1 .. 3
  PROVE  InPlace(nextInSelection(i, sel), sel) \/ \A j \in 1 .. Len(sel) : sel[j] = i.object
<1>1. PICK n \in 1 .. 3 : n = Len(sel)
  OBVIOUS
<1>2. PICK f : Forward(f, i, sel) /\ nextInSelection(i, sel) = f[n]
  BY <1>1, NextRuns
<1>3. PICK r \in Nat : r = i.idx
  BY DEF Views
<1>4. f \in [0 .. n -> Views] /\ f[0] = i
      /\ \A j \in 1 .. n : f[j] = Shows(f[j - 1], (f[j - 1].idx + j - 1) % n, sel, i.object)
  BY <1>1, <1>2 DEF Forward
<1> DEFINE Past(j) == f[j] = i /\ \A l \in 0 .. j - 1 : sel[((r + l) % n) + 1] = i.object
           T == {j \in 0 .. n : InPlace(f[j], sel) \/ Past(j)}
<1>5. 0 \in T
  BY <1>4
<1>6. ASSUME NEW j \in 1 .. n, j - 1 \in T PROVE j \in T
  <2>1. PICK v \in Views : v = f[j - 1]
    <3>1. j - 1 \in 0 .. n
      OBVIOUS
    <3> QED BY <1>4, <3>1
  <2>2. v.idx \in Nat
    BY DEF Views
  <2>3. PICK k \in 0 .. n - 1 : k = (v.idx + j - 1) % n
    BY <2>2
  <2>4. f[j] = Shows(v, k, sel, i.object)
    BY <1>4, <2>1, <2>3
  <2>5. sel[k + 1] \in Objects
    BY <1>1, <2>3
  <2>6. CASE sel[k + 1] # i.object
    <3>1. f[j] = [object |-> sel[k + 1], idx |-> k]
      BY <2>4, <2>6 DEF Shows
    <3>2. InPlace(f[j], sel)
      BY <1>1, <2>3, <2>5, <3>1 DEF InPlace, Views
    <3> QED BY <3>2
  <2>7. CASE sel[k + 1] = i.object
    <3>1. f[j] = v
      BY <2>4, <2>7 DEF Shows
    <3>2. CASE InPlace(f[j - 1], sel)
      BY <2>1, <3>1, <3>2
    <3>3. CASE Past(j - 1)
      <4>1. v = i /\ k = (r + (j - 1)) % n
        BY <1>3, <2>1, <2>3, <3>3
      <4>2. \A l \in 0 .. j - 1 : l = j - 1 \/ l \in 0 .. (j - 1) - 1
        OBVIOUS
      <4>3. \A l \in 0 .. j - 1 : sel[((r + l) % n) + 1] = i.object
        BY <2>7, <3>3, <4>1, <4>2
      <4> QED BY <3>1, <4>1, <4>3
    <3> QED BY <1>6, <3>2, <3>3
  <2> QED BY <2>6, <2>7
<1>7. n \in T
  <2> HIDE DEF T
  <2>1. \A j \in 0 .. n : j \in T
    BY <1>5, <1>6, Throughout
  <2> QED BY <2>1
<1>8. CASE InPlace(f[n], sel)
  BY <1>2, <1>8
<1>9. CASE Past(n)
  <2>1. ASSUME NEW j \in 1 .. n PROVE \E l \in 0 .. n - 1 : ((r + l) % n) + 1 = j
    <3>1. CASE n = 1
      BY <3>1
    <3>2. CASE n = 2
      <4>1. (r + 0) % 2 = j - 1 \/ (r + 1) % 2 = j - 1
        BY <3>2
      <4>2. 0 \in 0 .. n - 1 /\ 1 \in 0 .. n - 1
        BY <3>2
      <4> QED BY <3>2, <4>1, <4>2
    <3>3. CASE n = 3
      <4>1. (r + 0) % 3 = j - 1 \/ (r + 1) % 3 = j - 1 \/ (r + 2) % 3 = j - 1
        BY <3>3
      <4>2. 0 \in 0 .. n - 1 /\ 1 \in 0 .. n - 1 /\ 2 \in 0 .. n - 1
        BY <3>3
      <4> QED BY <3>3, <4>1, <4>2
    <3> QED BY <3>1, <3>2, <3>3
  <2>2. ASSUME NEW j \in 1 .. n PROVE sel[j] = i.object
    <3>1. PICK l \in 0 .. n - 1 : ((r + l) % n) + 1 = j
      BY <2>1
    <3> QED BY <1>9, <3>1
  <2> QED BY <1>1, <2>2
<1> QED BY <1>7, <1>8, <1>9

(* From its place ">" goes to the next object that is another, of up to three. *)
GoesOn(v, sel, r, n) ==
  /\ InPlace(v, sel)
  /\ v.idx = IF sel[((r + 1) % n) + 1] # sel[r + 1] THEN (r + 1) % n
             ELSE IF sel[((r + 2) % n) + 1] # sel[r + 1] THEN (r + 2) % n ELSE r

(* From its place ">" goes on to the next place with another object.           *)
LEMMA NextPlace ==
  ASSUME NEW sel \in Seq(Objects), NEW n \in 1 .. 3, n = Len(sel), NEW i, InPlace(i, sel),
         NEW r \in 0 .. n - 1, r = i.idx, NEW v, v = nextInSelection(i, sel)
  PROVE  GoesOn(v, sel, r, n)
<1> USE DEF GoesOn
<1>1. i \in Views /\ i.object = sel[r + 1]
  BY DEF InPlace
<1>2. PICK f : Forward(f, i, sel) /\ v = f[n]
  BY <1>1, NextRuns
<1>3. f \in [0 .. n -> Views] /\ f[0] = i
      /\ \A j \in 1 .. n : f[j] = Shows(f[j - 1], (f[j - 1].idx + j - 1) % n, sel, i.object)
  BY <1>2 DEF Forward
<1>4. \A k \in 0 .. n - 1 : sel[k + 1] \in Objects /\ InPlace([object |-> sel[k + 1], idx |-> k], sel)
  BY DEF InPlace, Views
<1>5. f[1] = i
  <2>1. 1 \in 1 .. n /\ (r + 1 - 1) % n = r
    <3>1. n = 1 \/ n = 2 \/ n = 3
      OBVIOUS
    <3> QED BY <3>1
  <2>2. f[1] = Shows(i, (r + 1 - 1) % n, sel, sel[r + 1])
    BY <1>1, <1>3, <2>1
  <2> QED BY <2>1, <2>2 DEF Shows
<1>6. CASE n = 1
  <2>1. v = i /\ (r + 1) % n = r /\ (r + 2) % n = r
    BY <1>2, <1>5, <1>6
  <2> QED BY <2>1
<1>7. CASE n \in {2, 3}
  <2>1. PICK r1 \in 0 .. n - 1 : r1 = (r + 1) % n
    BY <1>7
  <2>2. f[2] = Shows(i, r1, sel, sel[r + 1])
    <3>1. 2 \in 1 .. n /\ r + 2 - 1 = r + 1
      BY <1>7
    <3> QED BY <1>1, <1>3, <1>5, <2>1, <3>1
  <2>3. CASE n = 2
    <3>1. (r + 2) % n = r
      BY <2>3
    <3> QED BY <1>2, <1>4, <2>1, <2>2, <2>3, <3>1 DEF Shows
  <2>4. CASE n = 3
    <3>1. PICK r2 \in 0 .. n - 1 : r2 = (r + 2) % n
      BY <2>4
    <3>2. f[3] = Shows(f[2], (f[2].idx + 3 - 1) % n, sel, sel[r + 1])
      BY <1>1, <1>3, <2>4
    <3>3. CASE sel[r1 + 1] # sel[r + 1]
      <4>1. f[2] = [object |-> sel[r1 + 1], idx |-> r1]
        BY <2>2, <3>3 DEF Shows
      <4>2. (r1 + 3 - 1) % n = r
        BY <2>1, <2>4
      <4>3. f[3] = f[2]
        BY <3>2, <4>1, <4>2 DEF Shows
      <4>4. v = [object |-> sel[r1 + 1], idx |-> r1]
        BY <1>2, <2>4, <4>1, <4>3
      <4>5. InPlace(v, sel) /\ v.idx = r1
        BY <1>4, <4>4
      <4> QED BY <2>1, <3>3, <4>5
    <3>4. CASE sel[r1 + 1] = sel[r + 1]
      <4>1. f[2] = i
        BY <2>2, <3>4 DEF Shows
      <4>2. f[3] = Shows(i, r2, sel, sel[r + 1])
        <5>1. r + 3 - 1 = r + 2
          OBVIOUS
        <5> QED BY <3>1, <3>2, <4>1, <5>1
      <4>3. CASE sel[r2 + 1] # sel[r + 1]
        <5>1. f[3] = [object |-> sel[r2 + 1], idx |-> r2]
          BY <4>2, <4>3 DEF Shows
        <5> QED BY <1>2, <1>4, <2>1, <2>4, <3>1, <3>4, <4>3, <5>1
      <4>4. CASE sel[r2 + 1] = sel[r + 1]
        <5>1. f[3] = i
          BY <4>2, <4>4 DEF Shows
        <5> QED BY <1>2, <2>1, <2>4, <3>1, <3>4, <4>4, <5>1
      <4> QED BY <4>3, <4>4
    <3> QED BY <3>3, <3>4
  <2> QED BY <1>7, <2>3, <2>4
<1> QED BY <1>6, <1>7

(* Pressing again and again is pressing once more each time.                   *)
PressedOn(g, i, n) == g[0] = i /\ \A k \in 1 .. n : g[k] = nextInSelection(g[k - 1], selectedGOs)

(* Pressing ">" time after time is one search after the other.                 *)
LEMMA PressingRuns ==
  ASSUME selectedGOs \in Seq(Objects), NEW i \in Views, NEW n \in Nat
  PROVE  \E g : PressedOn(g, i, n) /\ Pressing(i, n) = g[n]
<1>1. \A x \in Views : nextInSelection(x, selectedGOs) \in Views
  BY NextTyped
<1>2. PICK R : R = [j \in 1 .. n |-> [x \in Views |-> nextInSelection(x, selectedGOs)]]
  OBVIOUS
<1>3. \A j \in 1 .. n : R[j] \in [Views -> Views]
  BY <1>1, <1>2
<1>4. PICK f \in [0 .. n -> Views] : Runs(f, i, R, n)
  BY <1>3, Iterates
<1>5. f = [k \in 0 .. n |-> IF k = 0 THEN i ELSE nextInSelection(f[k - 1], selectedGOs)]
  <2>1. ASSUME NEW k \in 1 .. n PROVE f[k] = nextInSelection(f[k - 1], selectedGOs)
    <3>1. k - 1 \in 0 .. n
      OBVIOUS
    <3>2. f[k - 1] \in Views
      BY <3>1
    <3> QED BY <1>2, <1>4, <3>2 DEF Runs
  <2>2. \A k \in 0 .. n : k = 0 \/ (k \in 1 .. n /\ k # 0)
    OBVIOUS
  <2>3. f[0] = i
    BY <1>4 DEF Runs
  <2> QED BY <2>1, <2>2, <2>3
<1>6. PICK g : g = CHOOSE h : h = [k \in 0 .. n |-> IF k = 0 THEN i ELSE nextInSelection(h[k - 1], selectedGOs)]
  OBVIOUS
<1>7. g = [k \in 0 .. n |-> IF k = 0 THEN i ELSE nextInSelection(g[k - 1], selectedGOs)]
  BY <1>5, <1>6
<1>8. Pressing(i, n) = g[n]
  BY <1>6 DEF Pressing
<1>9. PressedOn(g, i, n)
  <2>1. \A k \in 1 .. n : k \in 0 .. n /\ k # 0
    OBVIOUS
  <2> QED BY <1>7, <2>1 DEF PressedOn
<1> QED BY <1>8, <1>9

(* The first presses.                                                          *)
LEMMA PressedThrice ==
  ASSUME selectedGOs \in Seq(Objects), NEW i \in Views,
         NEW v1, v1 = nextInSelection(i, selectedGOs),
         NEW v2, v2 = nextInSelection(v1, selectedGOs),
         NEW v3, v3 = nextInSelection(v2, selectedGOs)
  PROVE  Pressing(i, 0) = i /\ Pressing(i, 1) = v1 /\ Pressing(i, 2) = v2 /\ Pressing(i, 3) = v3
<1>1. PICK g : PressedOn(g, i, 0) /\ Pressing(i, 0) = g[0]
  BY PressingRuns
<1>2. PICK h : PressedOn(h, i, 1) /\ Pressing(i, 1) = h[1]
  BY PressingRuns
<1>3. PICK k : PressedOn(k, i, 2) /\ Pressing(i, 2) = k[2]
  BY PressingRuns
<1>4. PICK l : PressedOn(l, i, 3) /\ Pressing(i, 3) = l[3]
  BY PressingRuns
<1>5. h[0] = i /\ k[0] = i /\ l[0] = i /\ g[0] = i
  BY <1>1, <1>2, <1>3, <1>4 DEF PressedOn
<1>6. h[1] = v1 /\ k[1] = v1 /\ l[1] = v1
  <2>1. 1 \in 1 .. 1 /\ 1 \in 1 .. 2 /\ 1 \in 1 .. 3 /\ 1 - 1 = 0
    OBVIOUS
  <2> QED BY <1>2, <1>3, <1>4, <1>5, <2>1 DEF PressedOn
<1>7. k[2] = v2 /\ l[2] = v2
  <2>1. 2 \in 1 .. 2 /\ 2 \in 1 .. 3 /\ 2 - 1 = 1
    OBVIOUS
  <2> QED BY <1>3, <1>4, <1>6, <2>1 DEF PressedOn
<1>8. l[3] = v3
  <2>1. 3 \in 1 .. 3 /\ 3 - 1 = 2
    OBVIOUS
  <2> QED BY <1>4, <1>7, <2>1 DEF PressedOn
<1> QED BY <1>1, <1>2, <1>3, <1>4, <1>5, <1>6, <1>7, <1>8

(* Three presses show every one of up to three objects.                        *)
LEMMA ReachesAll ==
  ASSUME selectedGOs \in Seq(Objects), Len(selectedGOs) <= 3, NEW i \in Views,
         NEW o \in Range(selectedGOs)
  PROVE  \E k \in 0 .. 2 * Len(selectedGOs) : Pressing(i, k).object = o
<1>1. PICK s : s = selectedGOs /\ s \in Seq(Objects)
  OBVIOUS
<1>2. PICK p \in 1 .. Len(s) : s[p] = o
  BY <1>1 DEF Range
<1>a. PICK m \in Nat : m = Len(s) /\ m <= 3
  BY <1>1
<1>b. p \in 1 .. m
  BY <1>2, <1>a
<1>3. PICK n \in 1 .. 3 : n = Len(s) /\ p \in 1 .. n
  BY <1>a, <1>b
<1>4. PICK v1 : v1 = nextInSelection(i, s)
  OBVIOUS
<1>5. PICK v2 : v2 = nextInSelection(v1, s)
  OBVIOUS
<1>6. PICK v3 : v3 = nextInSelection(v2, s)
  OBVIOUS
<1>7. Pressing(i, 0) = i /\ Pressing(i, 1) = v1 /\ Pressing(i, 2) = v2 /\ Pressing(i, 3) = v3
  BY <1>1, <1>4, <1>5, <1>6, PressedThrice
<1>8. 0 \in 0 .. 2 * n /\ 1 \in 0 .. 2 * n /\ 2 \in 0 .. 2 * n /\ (n > 1 => 3 \in 0 .. 2 * n)
  OBVIOUS
<1> SUFFICES \E k \in 0 .. 2 * n : Pressing(i, k).object = o
  BY <1>1, <1>3
<1>9. CASE \A j \in 1 .. n : s[j] = i.object
  BY <1>2, <1>3, <1>7, <1>8, <1>9
<1>10. CASE InPlace(v1, s)
  <2> DEFINE At(v, a) == InPlace(v, s) /\ v.idx = a
  <2>1. PICK a \in 0 .. n - 1 : At(v1, a)
    BY <1>3, <1>10 DEF InPlace
  <2>2. PICK b \in 0 .. n - 1, c \in 0 .. n - 1 : b = (a + 1) % n /\ c = (a + 2) % n
    OBVIOUS
  <2>3. At(v2, IF s[b + 1] # s[a + 1] THEN b ELSE IF s[c + 1] # s[a + 1] THEN c ELSE a)
    <3>1. GoesOn(v2, s, a, n)
      BY <1>1, <1>3, <1>5, <2>1, NextPlace
    <3> QED BY <2>2, <3>1 DEF GoesOn
  <2>4. p - 1 \in {a, b, c}
    <3>1. CASE n = 1
      BY <1>3, <3>1
    <3>2. CASE n = 2
      BY <1>3, <2>2, <3>2
    <3>3. CASE n = 3
      BY <1>3, <2>2, <3>3
    <3> QED BY <3>1, <3>2, <3>3
  <2>5. o \in {s[a + 1], s[b + 1], s[c + 1]}
    <3>1. p = (p - 1) + 1
      BY <1>3
    <3> QED BY <1>2, <2>4, <3>1
  <2>6. \A v, d : At(v, d) => v.object = s[d + 1]
    BY DEF InPlace
  <2>7. CASE o = s[a + 1]
    BY <1>7, <1>8, <2>1, <2>6, <2>7
  <2>8. CASE o = s[b + 1] /\ o # s[a + 1]
    <3>1. At(v2, b)
      BY <2>3, <2>8
    <3> QED BY <1>7, <1>8, <2>6, <2>8, <3>1
  <2>9. CASE o = s[c + 1] /\ o # s[a + 1] /\ o # s[b + 1]
    <3>1. CASE s[b + 1] = s[a + 1]
      <4>1. At(v2, c)
        BY <2>3, <2>9, <3>1
      <4> QED BY <1>7, <1>8, <2>6, <2>9, <4>1
    <3>2. CASE s[b + 1] # s[a + 1]
      <4>1. At(v2, b)
        BY <2>3, <3>2
      <4>2. n = 3
        <5>1. n = 1 => b = a
          BY <2>2
        <5>2. n = 2 => c = a
          BY <2>2
        <5> QED BY <2>9, <3>2, <5>1, <5>2
      <4>3. (b + 1) % n = c
        BY <2>2, <4>2
      <4>4. At(v3, IF s[((b + 1) % n) + 1] # s[b + 1] THEN (b + 1) % n
                   ELSE IF s[((b + 2) % n) + 1] # s[b + 1] THEN (b + 2) % n ELSE b)
        <5>1. GoesOn(v3, s, b, n)
          BY <1>1, <1>3, <1>6, <4>1, NextPlace
        <5> QED BY <5>1 DEF GoesOn
      <4>5. At(v3, c)
        BY <2>9, <4>3, <4>4
      <4> QED BY <1>7, <1>8, <2>6, <2>9, <4>2, <4>5
    <3> QED BY <3>1, <3>2
  <2> QED BY <2>5, <2>7, <2>8, <2>9
<1>11. InPlace(v1, s) \/ \A j \in 1 .. n : s[j] = i.object
  BY <1>1, <1>3, <1>4, FirstPress
<1> QED BY <1>9, <1>10, <1>11

(* The inspectors: their buttons find them there, whenever the main loop runs  *)
(* the responders, for the listener of an inspector keeps it; and ">" shows    *)
(* every one of up to three selected objects in time.                          *)
THEOREM InspectionHolds == SpecInspection => []InspectionInv
<1>1. ASSUME InspectionIInv PROVE InspectionInv
  <2>1. InspectionTypeOK
    <3>1. \A n \in Inspectors : inspectors[n] \in Views
      BY <1>1 DEF InspectionIInv
    <3>2. \A v \in Views : v.object \in Objects \cup {Nil} /\ v.idx \in Nat
      BY DEF Views
    <3> QED BY <1>1, <3>1, <3>2 DEF InspectionIInv, InspectionTypeOK
  <2>2. RespondersAlive
    <3>1. ASSUME NEW r \in Range(pressed) PROVE r.by \in made
      <4>1. r \in Presses
        BY <1>1 DEF InspectionIInv, Range
      <4> QED BY <4>1 DEF Presses
    <3> QED BY <3>1 DEF RespondersAlive, AliveInspector, HoldsItself
  <2>3. NextReachesAll
    <3>1. \A n \in made : inspectors[n] \in Views
      BY <1>1 DEF InspectionIInv
    <3>2. selectedGOs \in Seq(Objects)
      BY <1>1 DEF InspectionIInv
    <3> QED BY <3>1, <3>2, ReachesAll DEF NextReachesAll
  <2> QED BY <2>1, <2>2, <2>3 DEF InspectionInv
<1> QED BY <1>1, InspectionReachable, PTL

(* Of four different objects ">" goes from its place to the next but one.      *)
LEMMA NextOfFour ==
  ASSUME NEW sel \in Seq(Objects), Len(sel) = 4, \A j, k \in 1 .. 4 : sel[j] = sel[k] => j = k,
         NEW i, InPlace(i, sel), NEW r \in 0 .. 3, r = i.idx, NEW v, v = nextInSelection(i, sel)
  PROVE  InPlace(v, sel) /\ v.idx = (r + 2) % 4
<1>0. \A k \in 1 .. 4 : sel[k] \in Objects
  <2>1. \A k \in 1 .. Len(sel) : sel[k] \in Objects
    BY Elements
  <2> QED BY <2>1, Zenon
<1>1. i \in Views /\ i.object = sel[r + 1]
  BY DEF InPlace
<1>a. PICK f : Forward(f, i, sel) /\ v = f[Len(sel)]
  BY <1>1, NextRuns
<1>2. Forward(f, i, sel) /\ v = f[4]
  BY <1>a
<1>3. f[0] = i /\ \A j \in 1 .. 4 : f[j] = Shows(f[j - 1], (f[j - 1].idx + j - 1) % 4, sel, sel[r + 1])
  BY <1>1, <1>2 DEF Forward
<1>4. PICK a \in 0 .. 3, b \in 0 .. 3, c \in 0 .. 3 : a = (r + 1) % 4 /\ b = (r + 2) % 4 /\ c = (r + 3) % 4
  <2>1. (r + 1) % 4 \in 0 .. 3 /\ (r + 2) % 4 \in 0 .. 3 /\ (r + 3) % 4 \in 0 .. 3
    OBVIOUS
  <2> QED BY <2>1
<1>b. (a + 2) % 4 = c /\ (c + 3) % 4 = b /\ a # r /\ b # r /\ c # r
  <2>1. r = 0 \/ r = 1 \/ r = 2 \/ r = 3
    OBVIOUS
  <2>2. r = 0 => a = 1 /\ b = 2 /\ c = 3
    BY <1>4
  <2>3. r = 1 => a = 2 /\ b = 3 /\ c = 0
    BY <1>4
  <2>4. r = 2 => a = 3 /\ b = 0 /\ c = 1
    BY <1>4
  <2>5. r = 3 => a = 0 /\ b = 1 /\ c = 2
    BY <1>4
  <2> QED BY <2>1, <2>2, <2>3, <2>4, <2>5
<1>6. sel[a + 1] # sel[r + 1] /\ sel[b + 1] # sel[r + 1] /\ sel[c + 1] # sel[r + 1]
  <2>1. \A k \in 0 .. 3 : k # r => sel[k + 1] # sel[r + 1]
    <3>1. \A k \in 0 .. 3 : k + 1 \in 1 .. 4 /\ (k + 1 = r + 1 => k = r)
      OBVIOUS
    <3> QED BY <3>1
  <2> QED BY <1>b, <2>1
<1>7. f[1] = i
  <2>1. 1 \in 1 .. 4 /\ (r + 1 - 1) % 4 = r
    OBVIOUS
  <2>2. f[1] = Shows(i, (r + 1 - 1) % 4, sel, sel[r + 1])
    BY <1>3, <2>1
  <2> QED BY <2>1, <2>2 DEF Shows
<1>8. f[2] = [object |-> sel[a + 1], idx |-> a]
  <2>1. 2 \in 1 .. 4 /\ (r + 2 - 1) % 4 = a
    BY <1>4
  <2>2. f[2] = Shows(i, (r + 2 - 1) % 4, sel, sel[r + 1])
    BY <1>3, <1>7, <2>1
  <2> QED BY <1>6, <2>1, <2>2 DEF Shows
<1>9. f[3] = [object |-> sel[c + 1], idx |-> c]
  <2>1. 3 \in 1 .. 4 /\ (a + 3 - 1) % 4 = c
    BY <1>b
  <2>2. f[3] = Shows(f[2], (a + 3 - 1) % 4, sel, sel[r + 1])
    BY <1>3, <1>8, <2>1
  <2> QED BY <1>6, <2>1, <2>2 DEF Shows
<1>10. f[4] = [object |-> sel[b + 1], idx |-> b]
  <2>1. 4 \in 1 .. 4 /\ (c + 4 - 1) % 4 = b
    BY <1>b
  <2>2. f[4] = Shows(f[3], (c + 4 - 1) % 4, sel, sel[r + 1])
    BY <1>3, <1>9, <2>1
  <2> QED BY <1>6, <2>1, <2>2 DEF Shows
<1>11. sel[b + 1] \in Objects /\ b \in Nat
  <2>1. b + 1 \in 1 .. 4
    OBVIOUS
  <2> QED BY <1>0, <2>1
<1>12. v = [object |-> sel[b + 1], idx |-> b] /\ b \in 0 .. Len(sel) - 1
  BY <1>2, <1>10
<1>13. v \in Views
  BY <1>11, <1>12 DEF Views
<1> QED BY <1>4, <1>12, <1>13 DEF InPlace

(* Of four different selected objects an inspector that shows the one at its   *)
(* index never shows more than two, however often ">" is pressed.              *)
THEOREM EveryOther ==
  ASSUME selectedGOs \in Seq(Objects), Len(selectedGOs) = 4,
         \A j, k \in 1 .. 4 : selectedGOs[j] = selectedGOs[k] => j = k,
         NEW i, InPlace(i, selectedGOs), NEW n \in Nat
  PROVE  Pressing(i, n).object \in {selectedGOs[i.idx + 1], selectedGOs[((i.idx + 2) % 4) + 1]}
<1>1. PICK s : s = selectedGOs /\ s \in Seq(Objects) /\ Len(s) = 4
  OBVIOUS
<1>2. PICK r \in 0 .. 3 : r = i.idx
  BY DEF InPlace
<1>3. PICK b \in 0 .. 3 : b = (r + 2) % 4
  OBVIOUS
<1>4. i \in Views
  BY DEF InPlace
<1>5. PICK g : PressedOn(g, i, n) /\ Pressing(i, n) = g[n]
  BY <1>4, PressingRuns
<1>6. PICK T : T = {k \in 0 .. n : InPlace(g[k], s) /\ g[k].idx \in {r, b}}
  OBVIOUS
<1>7. 0 \in T
  BY <1>1, <1>2, <1>5, <1>6 DEF PressedOn
<1>8. ASSUME NEW k \in 1 .. n, k - 1 \in T PROVE k \in T
  <2>1. PICK v : v = g[k - 1] /\ InPlace(v, s) /\ v.idx \in {r, b}
    BY <1>6, <1>8
  <2>2. PICK q \in 0 .. 3 : q = v.idx /\ q \in {r, b}
    BY <2>1
  <2>3. g[k] = nextInSelection(v, s)
    BY <1>1, <1>5, <2>1 DEF PressedOn
  <2>4. InPlace(g[k], s) /\ g[k].idx = (q + 2) % 4
    <3>1. \A j, k2 \in 1 .. 4 : s[j] = s[k2] => j = k2
      BY <1>1
    <3>2. /\ InPlace(v, s) /\ q = v.idx
      BY <2>1, <2>2
    <3> QED BY <1>1, <2>3, <3>1, <3>2, NextOfFour
  <2>5. (q + 2) % 4 \in {r, b}
    <3>1. CASE q = r
      BY <1>3, <3>1
    <3>2. CASE q = b
      <4>1. \A e \in 0 .. 3 : (((e + 2) % 4) + 2) % 4 = e
        <5>1. 4 % 4 = 0 /\ 5 % 4 = 1 /\ 2 % 4 = 2 /\ 3 % 4 = 3
          OBVIOUS
        <5>2. \A e \in 0 .. 3 : e = 0 \/ e = 1 \/ e = 2 \/ e = 3
          OBVIOUS
        <5> QED BY <5>1, <5>2
      <4> QED BY <1>3, <3>2, <4>1
    <3> QED BY <2>2, <3>1, <3>2
  <2> QED BY <1>6, <2>4, <2>5
<1>9. n \in T
  <2>1. \A k \in 0 .. n : k \in T
    BY <1>7, <1>8, Throughout
  <2> QED BY <2>1
<1>10. g[n].object = s[g[n].idx + 1] /\ g[n].idx \in {r, b}
  BY <1>6, <1>9 DEF InPlace
<1> QED BY <1>1, <1>2, <1>3, <1>5, <1>10
=============================================================================
