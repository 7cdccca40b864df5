------------------------------- MODULE MCClientUI -------------------------------
(* The parts of the client's user interface for TLC.  They share no state, so  *)
(* each is explored with the others at rest: part says which one runs.         *)
EXTENDS Gestures, Windows, Inspection, Chat, Camera, Observer

CONSTANTS s1, s2, l1, l2, l3, l4, o1, o2, o3, i1, v1

VARIABLE part

MCPoints == {0, 1}
MCShips == {s1, s2}
MCWhere == [s \in Ships |-> IF s = s1 THEN 0 ELSE 1]
MCKinds == {"Message Viewer", "Messager"}
MCObjects == {o1, o2, o3}
MCInspectors == {i1}
MCHeights == {3, 4}
MCViewers == {v1}
MCCells == {1, 4}
MCPlaces == {-1, 2}
MCWidths == {4}
MCListeners == {l1, l2, l3, l4}
MCChannels == {"c1", "c2"}
MCChannelOf == [l \in Listeners |-> IF l = l4 THEN "c2" ELSE "c1"]
MCKeys == {"k"}

mcVars == <<part, gestureVars, windowVars, inspectionVars, chatVars, cameraVars, observerVars>>

Init ==
  /\ part \in {"gestures", "windows", "inspection", "chat", "camera", "observer"}
  /\ InitGestures /\ InitWindows /\ InitInspection /\ InitChat /\ InitCamera /\ InitObserver
  /\ part # "chat" => dimy = 3
  /\ part # "camera" => place = 2 /\ c_d_trans = Unset

Next ==
  /\ UNCHANGED part
  /\ \/ /\ part = "gestures" /\ NextGestures
        /\ UNCHANGED <<windowVars, inspectionVars, chatVars, cameraVars, observerVars>>
     \/ /\ part = "windows" /\ NextWindows
        /\ UNCHANGED <<gestureVars, inspectionVars, chatVars, cameraVars, observerVars>>
     \/ /\ part = "inspection" /\ NextInspection
        /\ UNCHANGED <<gestureVars, windowVars, chatVars, cameraVars, observerVars>>
     \/ /\ part = "chat" /\ NextChat
        /\ UNCHANGED <<gestureVars, windowVars, inspectionVars, cameraVars, observerVars>>
     \/ /\ part = "camera" /\ NextCamera
        /\ UNCHANGED <<gestureVars, windowVars, inspectionVars, chatVars, observerVars>>
     \/ /\ part = "observer" /\ NextObserver
        /\ UNCHANGED <<gestureVars, windowVars, inspectionVars, chatVars, cameraVars>>

Spec == Init /\ [][Next]_mcVars
=============================================================================
