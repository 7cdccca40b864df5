------------------------------- MODULE MCLifecycle -------------------------------
(* What runs on by itself, for TLC: a session of the program, the motion of a  *)
(* ship and its power plant.  They share no state, so each is explored with    *)
(* the others at rest: part says which one runs.                               *)
EXTENDS Session, ShipMotion, PowerPlant

VARIABLE part

MCTargets == {-15, 0, 6, 21}
MCLineRates == 0 .. u_rotAccele
MCCapacities == {0, 3}
MCRates == {0, 3}
MCSteps == {1, 2, 5}
MCCurves == {Linear, [r \in Throttles |-> 3]}

mcVars == <<part, sessionVars, motionVars, plantVars>>

Init ==
  /\ part \in {"session", "motion", "plant"}
  /\ InitSession /\ InitMotion /\ InitPlant

In(p, next) == part = p /\ next
OnlySession(next) == In("session", next) /\ UNCHANGED <<part, motionVars, plantVars>>
OnlyMotion(next) == In("motion", next) /\ UNCHANGED <<part, sessionVars, plantVars>>

Next ==
  \/ OnlySession(NextSession)
  \/ OnlyMotion(NextMotion)
  \/ In("plant", NextPlant) /\ UNCHANGED <<part, sessionVars, motionVars>>

(* The fairness of the parts: that of SpecSession and of SpecMotion.           *)
Spec ==
  /\ Init /\ [][Next]_mcVars
  /\ WF_mcVars(OnlySession(AskPartition)) /\ WF_mcVars(OnlySession(TakePartition))
  /\ WF_mcVars(OnlySession(Accept \/ Refuse)) /\ WF_mcVars(OnlySession(Answer))
  /\ WF_mcVars(OnlyMotion(Update))

(* What a ship has computed and keeps, its matrix and the output of its        *)
(* curves, is that of its rotation and of its throttle; and its spin stays     *)
(* within what it can take off again.                                          *)
ShipInv == MotionInv /\ PlantInv
=============================================================================
