--------------------------- MODULE MCControlPlane ---------------------------
(* Instances of ControlPlane for TLC: the cfg files give every constant. *)
EXTENDS ControlPlaneRefinement
=============================================================================
