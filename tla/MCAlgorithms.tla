------------------------------- MODULE MCAlgorithms -------------------------------
(* The libraries of the game for TLC: geometry, curves, the division of loads, *)
(* the ids of classes and the bodies of messages.  They share no state, so     *)
(* each is explored with the others at rest: part says which one runs.         *)
EXTENDS Libraries, LoadDistribution, ClassRegistry, Codec, TLC

CONSTANTS r1, r2, r3

VARIABLE part

MCCoords == {-1, 0, 2}
MCSizes == {0, 1, 3}
MCEntries == {-1, 0, 2}
MCSpots == {V(0, 0), V(3, -1), V(-7, 6)}
MCClicks == -8 .. 8
MCProbes == 0 .. 4
Array(s) == [k \in 0 .. 3 |-> s[k + 1]]
MCCurves == {[class |-> "linear"],
             [class |-> "const", value |-> [n |-> 1, d |-> 1]], [class |-> "const", value |-> [n |-> 3, d |-> 1]],
             [class |-> "step", stepUp |-> TRUE, numSteps |-> [n |-> 21, d |-> 10]],
             [class |-> "step", stepUp |-> FALSE, numSteps |-> [n |-> 2, d |-> 1]],
             [class |-> "bezier", points |-> Array(<<0, 1, 3, 4>>), weights |-> Array(<<1, 1, 1, 1>>), unit |-> 4],
             [class |-> "bezier", points |-> Array(<<1, -2, 0, 1>>), weights |-> Array(<<1, 0, -1, 2>>), unit |-> 1]}
MCRequests == {r1, r2, r3}
MCShapes == {[min |-> 0, requested |-> 0], [min |-> 1, requested |-> 3]}
MCAmounts == {2, 4}
MCClasses == {"NormalCurve", "LinearCurve", "ConstCurve"}
MCAbstract == {"NormalCurve"}
MCObjectClasses == <<"Ship", "Grid", "GameObject">>
MCValues == 0 .. 2
MCMoving == {1}

MCSymmetry == Permutations(Requests)

mcVars == <<part, geometryVars, curveVars, loadVars, registryVars, codecVars>>

Init ==
  /\ part \in {"geometry", "curves", "loads", "registry", "codec"}
  /\ InitGeometry /\ InitCurves /\ InitLoads /\ InitRegistry /\ InitCodec
  /\ part # "loads" => total_avaliable = 2
  /\ part # "registry" => tables
  /\ part # "codec" => kind = "ship"

Next ==
  /\ UNCHANGED part
  /\ \/ /\ part = "geometry" /\ NextGeometry
        /\ UNCHANGED <<curveVars, loadVars, registryVars, codecVars>>
     \/ /\ part = "curves" /\ NextCurves
        /\ UNCHANGED <<geometryVars, loadVars, registryVars, codecVars>>
     \/ /\ part = "loads" /\ NextLoads
        /\ UNCHANGED <<geometryVars, curveVars, registryVars, codecVars>>
     \/ /\ part = "registry" /\ NextRegistry
        /\ UNCHANGED <<geometryVars, curveVars, loadVars, codecVars>>
     \/ /\ part = "codec" /\ NextCodec
        /\ UNCHANGED <<geometryVars, curveVars, loadVars, registryVars>>

Spec == Init /\ [][Next]_mcVars
=============================================================================
