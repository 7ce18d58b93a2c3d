--------------------------- MODULE MCGatedTraining ---------------------------
(* The instance of GatedTraining for TLC: an adapter on each of the two      *)
(* sublayers.                                                                *)
EXTENDS GatedTraining, TLC

CONSTANTS a, b, s1, s2, a1, b2

MCLayerAt == (a :> (s1 :> a1 @@ s2 :> Base)) @@ (b :> (s1 :> Base @@ s2 :> b2))

=============================================================================
