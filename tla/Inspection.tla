------------------------------- MODULE Inspection -------------------------------
(***************************************************************************)
(* The objects that a client has selected and the inspectors that show     *)
(* them one by one.  A button of an inspector only queues a responder      *)
(* with the bare pointer of its inspector; the main loop runs it later,    *)
(* when the selection, or the window, may be another.                      *)
(*                                                                         *)
(* Objects do not die during a game, so the weak pointers of selectedGOs   *)
(* and of the inspectors never expire.                                     *)
(***************************************************************************)
EXTENDS Integers, SequencesExt, Selections

CONSTANTS Objects,       \* what lies in the grid
          Nil,           \* an empty pointer
          Inspectors,    \* the inspectors that may be opened
          MaxSelected,   \* bound: entries of selectedGOs
          MaxPressed     \* bound: buttons pressed in one turn

ASSUME InspectionAssumption == Nil \notin Objects /\ {MaxSelected, MaxPressed} \subseteq Nat

Buttons == {"trk", "stp-trk", "x", "+", ">", "<"}

VARIABLES selectedGOs,   \* the selected objects, in the order of the clicks
          inspectors,    \* what each inspector shows, and currentSelectionIdx
          opened, made,  \* those in a window, and those ever made
          stopTrackAt,   \* the inspector that has the one static button
          pressed,       \* the responders of the buttons
          tracking       \* cam.tracking

inspectionVars == <<selectedGOs, inspectors, opened, made, stopTrackAt, pressed, tracking>>

InitInspection ==
  /\ selectedGOs = <<>> /\ opened = {} /\ made = {} /\ pressed = <<>>
  /\ inspectors = [n \in Inspectors |-> [object |-> Nil, idx |-> 0]]
  /\ stopTrackAt = Nil /\ tracking = Nil

(* Altered form: the listener holds a weak pointer.                         *)
HeldWeakly(n) == FALSE
(* The listener of an inspector holds a shared pointer to the inspector     *)
(* that holds the listener.                                                 *)
HoldsItself(n) == n \in made
AliveInspector(n) == n \in opened \/ HoldsItself(n)

(* A component has one parent: the static button goes to the newest.        *)
OpenInspector(n) ==
  /\ n \notin made /\ opened' = opened \cup {n} /\ made' = made \cup {n}
  /\ stopTrackAt' = n
  /\ UNCHANGED <<selectedGOs, inspectors, pressed, tracking>>

CloseInspector(n) ==
  /\ n \in opened /\ opened' = opened \ {n}
  /\ UNCHANGED <<selectedGOs, inspectors, made, stopTrackAt, pressed, tracking>>

(* Altered form: null pointers are selected too.                            *)
SelectUnfiltered(g) ==
  /\ Len(selectedGOs) + Len(g) <= MaxSelected
  /\ selectedGOs' = selectedGOs \o g
  /\ UNCHANGED <<inspectors, opened, made, stopTrackAt, pressed, tracking>>
(* ON_GAMEOBJECT_SELECT: on_go_select and the listeners of the inspectors.  *)
GameObjectSelect(g) ==
  /\ Len(selectedGOs) + Len(g) <= MaxSelected
  /\ selectedGOs' = selectedGOs \o Selection(g, {k \in DOMAIN g : g[k] # Nil})
  /\ inspectors' = [n \in Inspectors |->
                      IF AliveInspector(n) THEN [inspectors[n] EXCEPT !.object = IF g = <<>> THEN Nil ELSE g[1]]
                      ELSE inspectors[n]]
  /\ UNCHANGED <<opened, made, stopTrackAt, pressed, tracking>>

PressButton(n, button) ==
  /\ n \in opened /\ Len(pressed) < MaxPressed
  /\ button = "stp-trk" => stopTrackAt = n
  /\ pressed' = Append(pressed, [by |-> n, button |-> button])
  /\ UNCHANGED <<selectedGOs, inspectors, opened, made, stopTrackAt, tracking>>

-----------------------------------------------------------------------------
(* What the buttons do, to a state [selected, shown, tracking].             *)

(* Altered form: the index is not stored.                                   *)
ShowsUnindexed(i, k, selected, was) ==
  IF selected[k + 1] = was THEN i ELSE [i EXCEPT !.object = selected[k + 1]]
(* ">" and "<" go on to the end of the loop, so the last object that        *)
(* differs is shown.  The index of "<" is computed without a sign: below    *)
(* zero it is that of 2^64 - j.                                             *)
Shows(i, k, selected, was) ==
  IF selected[k + 1] = was THEN i ELSE [object |-> selected[k + 1], idx |-> k]

nextInSelection(i, selected) ==
  LET size == Len(selected)
      after[j \in 0 .. size] ==
        IF j = 0 THEN i
        ELSE Shows(after[j - 1], (after[j - 1].idx + j - 1) % size, selected, i.object)
  IN  after[size]

Wrap == 65536         \* the fourth root of 2^64
Unsigned(k, size) == IF k >= 0 THEN k % size
                     ELSE ((Wrap % size) * (Wrap % size) * (Wrap % size) * (Wrap % size) + k) % size
formerInSelection(i, selected) ==
  LET size == Len(selected)
      after[j \in 0 .. size] ==
        IF j = 0 THEN i
        ELSE Shows(after[j - 1], Unsigned(after[j - 1].idx - (j - 1), size), selected, i.object)
  IN  after[size]

removeFromSelection(o, selected) ==
  IF o \notin Range(selected) THEN selected
  ELSE RemoveAt(selected, CHOOSE k \in DOMAIN selected :
                            selected[k] = o /\ \A j \in 1 .. k - 1 : selected[j] # o)
addToSelection(o, selected) ==
  IF o = Nil \/ o \in Range(selected) THEN selected ELSE Append(selected, o)

Respond(s, r) ==
  LET i == s.inspectors[r.by]
  IN  CASE r.button = "trk"     -> [s EXCEPT !.tracking = i.object]
        [] r.button = "stp-trk" -> [s EXCEPT !.tracking = Nil]
        [] r.button = "x"       -> [s EXCEPT !.selected = removeFromSelection(i.object, @)]
        [] r.button = "+"       -> [s EXCEPT !.selected = addToSelection(i.object, @)]
        [] r.button = ">"       -> [s EXCEPT !.inspectors[r.by] = nextInSelection(@, s.selected)]
        [] r.button = "<"       -> [s EXCEPT !.inspectors[r.by] = formerInSelection(@, s.selected)]

(* A turn of the main loop runs the responders in the order of the clicks.  *)
Responded ==
  LET after[k \in 0 .. Len(pressed)] ==
        IF k = 0 THEN [selected |-> selectedGOs, inspectors |-> inspectors, tracking |-> tracking]
        ELSE Respond(after[k - 1], pressed[k])
  IN  after[Len(pressed)]
RunResponders ==
  /\ pressed # <<>> /\ pressed' = <<>>
  /\ selectedGOs' = Responded.selected
  /\ inspectors' = Responded.inspectors
  /\ tracking' = Responded.tracking
  /\ UNCHANGED <<opened, made, stopTrackAt>>

NextInspection ==
  \/ \E n \in Inspectors : \/ OpenInspector(n) \/ CloseInspector(n)
                           \/ \E button \in Buttons : PressButton(n, button)
  \/ \E g \in {<<>>, <<Nil>>} \cup {<<o>> : o \in Objects} \cup (Objects \X Objects) :
       IsInjective(g) /\ GameObjectSelect(g)
  \/ RunResponders

SpecInspection == InitInspection /\ [][NextInspection]_inspectionVars

-----------------------------------------------------------------------------
(* Properties.                                                              *)

InspectionTypeOK ==
  /\ selectedGOs \in Seq(Objects) /\ opened \subseteq made
  /\ tracking \in Objects \cup {Nil}
  /\ \A n \in Inspectors : /\ inspectors[n].object \in Objects \cup {Nil}
                           /\ inspectors[n].idx \in Nat

(* A responder follows the bare pointer of its inspector.  The window may   *)
(* be closed before the main loop gets to it, yet the inspector is there.   *)
RespondersAlive == \A r \in Range(pressed) : AliveInspector(r.by)

(* However the selection has grown and shrunk since the index was taken,    *)
(* pressing ">" again and again shows each of up to three selected objects  *)
(* in time.  Of four it shows every other one only: the loop goes on after  *)
(* it has found the next one, and from there.                               *)
Pressing(i, n) ==
  LET after[k \in 0 .. n] == IF k = 0 THEN i ELSE nextInSelection(after[k - 1], selectedGOs)
  IN  after[n]

NextReachesAll ==
  Len(selectedGOs) <= 3 => \A n \in made : \A o \in Range(selectedGOs) :
    \E k \in 0 .. 2 * Len(selectedGOs) : Pressing(inspectors[n], k).object = o

(* The inspectors: their responders have what they point to, and ">" reaches *)
(* every one of up to three selected objects.                               *)
InspectionInv == InspectionTypeOK /\ RespondersAlive /\ NextReachesAll
=============================================================================
