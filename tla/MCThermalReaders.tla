-------------------------- MODULE MCThermalReaders --------------------------
(* An instance for TLC: a filter that takes every zone, one that takes      *)
(* "cpu", and one that takes "unknown".  The zones are interchangeable.     *)
EXTENDS ThermalReaders, TLC

MCFilters == {{"cpu", "unknown", ""}, {"cpu"}, {"unknown"}}

ZoneSymmetry == Permutations(Zones)

=============================================================================
