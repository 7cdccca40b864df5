------------------------------ MODULE MCSceneSync ------------------------------
(* Instances of SceneSync for TLC.                                             *)
EXTENDS SceneSync

CONSTANTS p1, p2

MCTwo == 1 .. 2
MCThree == 1 .. 3
MCProcesses == {p1, p2}
(* The second game of p1 is that of 3.                                         *)
MCProcess == [c \in Clients |-> IF c = 2 THEN p2 ELSE p1]
(* How often the ships change course: those of the first games, or one alone.  *)
MCUneven == [c \in Clients |-> IF c = 1 THEN 2 ELSE IF c = 2 THEN 1 ELSE 0]
MCOnlyOne == [c \in Clients |-> IF c = 1 THEN 2 ELSE 0]

Changes(c) == IF c \in DOMAIN things[Process[c]] THEN Own(c).n ELSE 0

(* Bound: a second game is looked at while the other player is in his, after a *)
(* first without a change of course.  It keeps nobody but a player from doing  *)
(* something, who need not.                                                    *)
Bounded == link[3] = "off" \/ (Changes(1) = 0 /\ link[2] = "on" /\ stage[2] = "in")
MCSpec == Init /\ [][Next /\ Bounded']_vars /\ Fairness
================================================================================
