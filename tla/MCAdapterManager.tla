--------------------------- MODULE MCAdapterManager ---------------------------
(* The instance of AdapterManager for TLC.                                  *)
EXTENDS AdapterManager, TLC

CONSTANTS a1, a2, l1, l2, l0

MCSize == (l1 :> 1) @@ (l2 :> 2) @@ (l0 :> 0)

\* Two adapters are alike; the layers are not.
Symmetry == Permutations(AdapterIds)

===============================================================================
