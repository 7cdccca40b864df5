-------------------------------- MODULE Libraries --------------------------------
(* The pure libraries of the game together: the geometry of src/src/GameStructs *)
(* and the curves of src/src/Game/curves.  They share no state; each is asked   *)
(* one thing at a time, and none of their answers depends on an earlier one.    *)
EXTENDS Geometry, CurveShapes

(* The pure parts: every answer that the geometry and the curves give is that  *)
(* of a definition of its own, for each of the samples.                        *)
AgreesWithReference == GeometryAgrees /\ CurvesAgree
=============================================================================
