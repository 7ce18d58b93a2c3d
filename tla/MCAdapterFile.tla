---------------------------- MODULE MCAdapterFile ----------------------------
(* The instance of AdapterFile for TLC: two versions of one adapter, one of  *)
(* rank 1, one on fewer layers, one of another program, one without layers.  *)
EXTENDS AdapterFile, TLC

CONSTANTS v1, v2, thin, fewer, other, empty, n1, n2

MCLayersOf == (v1 :> {n1, n2}) @@ (v2 :> {n1, n2}) @@ (thin :> {n1, n2})
              @@ (fewer :> {n1}) @@ (other :> {n1, n2}) @@ (empty :> {})
MCRank == (v1 :> 2) @@ (v2 :> 2) @@ (thin :> 1) @@ (fewer :> 2) @@ (other :> 2)
          @@ (empty :> 2)

\* The two versions are alike.
Symmetry == Permutations({v1, v2})

=============================================================================
