----------------------------- MODULE AdapterStore -----------------------------
(****************************************************************************)
(* What save_adapter and load_adapter promise of one path: a place that has *)
(* a whole adapter or none.  A save replaces what is there, a crash may     *)
(* leave nothing, and a load that nobody disturbs returns what is there or  *)
(* has a reason to fail.                                                    *)
(****************************************************************************)
CONSTANTS Adapters, Foreign, Names, LayersOf, None, Mixed

VARIABLES
  stored,           \* the adapter that is there, or None
  safe,             \* a power loss does not take it
  pending,          \* the adapter that is being saved, or None
  load,             \* none, under way, returned, failed
  wanted,           \* the names of the layers that the load is for
  given,            \* what it has returned
  quiet             \* nobody has written since the load began

storeVars == <<stored, safe, pending, load, wanted, given, quiet>>

Nothing == [n \in Names |-> None]

Init ==
  /\ stored = None
  /\ safe = TRUE
  /\ pending = None
  /\ load = "none"
  /\ wanted = {}
  /\ given = Nothing
  /\ quiet = TRUE

BeginSave(a) ==
  /\ pending = None
  /\ pending' = a
  /\ UNCHANGED <<stored, safe, load, wanted, given, quiet>>

\* What was there before is lost first.
Clear ==
  /\ pending # None
  /\ stored' = None
  /\ safe' = FALSE
  /\ quiet' = FALSE
  /\ UNCHANGED <<pending, load, wanted, given>>

\* The adapter is there when the last piece is.
Fill ==
  /\ pending # None
  /\ stored = None
  /\ stored' \in {None, pending}
  /\ safe' = FALSE
  /\ quiet' = FALSE
  /\ UNCHANGED <<pending, load, wanted, given>>

\* The save returns or fails.
EndSave ==
  /\ pending # None
  /\ pending' = None
  /\ UNCHANGED <<stored, safe, load, wanted, given, quiet>>

WriteBack ==
  /\ pending = None
  /\ safe' = TRUE
  /\ UNCHANGED <<stored, pending, load, wanted, given, quiet>>

\* A load of nothing fails at once, or later.
BeginLoad(names) ==
  /\ load # "under way"
  /\ load' \in {"under way"} \cup IF stored = None THEN {"failed"} ELSE {}
  /\ wanted' = names
  /\ given' = Nothing
  /\ quiet' = TRUE
  /\ UNCHANGED <<stored, safe, pending>>

Loadable == stored # None /\ stored \notin Foreign /\ LayersOf[stored] = wanted

\* Whatever happens meanwhile, there is a value for each layer that is asked for.
Return ==
  /\ load = "under way"
  /\ load' = "returned"
  /\ given' \in [Names -> Adapters \cup {None, Mixed}]
  /\ \A n \in Names : given'[n] # None <=> n \in wanted
  /\ quiet => Loadable /\ \A n \in wanted : given'[n] = stored
  /\ UNCHANGED <<stored, safe, pending, wanted, quiet>>

Fail ==
  /\ load = "under way"
  /\ load' = "failed"
  /\ ~(quiet /\ Loadable)
  /\ UNCHANGED <<stored, safe, pending, wanted, given, quiet>>

PowerLoss ==
  /\ pending' = None
  /\ stored' \in {stored} \cup IF safe THEN {} ELSE {None}
  /\ safe' = TRUE
  /\ load' = IF load = "under way" THEN "failed" ELSE load
  /\ quiet' = FALSE
  /\ UNCHANGED <<wanted, given>>

Next ==
  \/ \E a \in Adapters : BeginSave(a)
  \/ Clear \/ Fill \/ EndSave \/ WriteBack
  \/ \E names \in SUBSET Names : BeginLoad(names)
  \/ Return \/ Fail
  \/ PowerLoss

Spec == Init /\ [][Next]_storeVars

===============================================================================
