---------------------------- MODULE MCE2ETraining ----------------------------
(* The instance of E2ETraining for TLC: one sublayer, one layer per adapter. *)
EXTENDS E2ETraining, TLC

CONSTANTS s1, a1, b1, r1

MCLayerAt == (TaskA :> (s1 :> a1)) @@ (TaskB :> (s1 :> b1)) @@ (Reloaded :> (s1 :> r1))
MCSize == (a1 :> 2) @@ (b1 :> 2) @@ (r1 :> 2)

=============================================================================
