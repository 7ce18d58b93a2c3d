------------------------ MODULE LinuxThermalZoneReader ------------------------
(****************************************************************************)
(* LinuxThermalZoneReader and list_thermal_zones (src/python/msp/           *)
(* thermal.py): the constructor lists the zones once, keeps the paths of    *)
(* those that match, and raises if there are none; a call reads these paths *)
(* and raises if none of them can be read.                                  *)
(*                                                                          *)
(* The order of the zones, which sorted() fixes, changes no result and is   *)
(* left open.                                                               *)
(****************************************************************************)
EXTENDS ThermalReader

VARIABLES
  pPc,              \* "unbuilt", "list" in the constructor, "built", "read" in a call
  pTodo,            \* entries the constructor, or the call, has still to look at
  pPaths,           \* the zones of _temp_paths
  pAcc,             \* readings
  pOut,             \* what the constructor or the last call gave
  pSteady,          \* zones that have not changed since the last call began
  pSettled          \* zones that have not changed since the constructor began

pythonVars == <<pPc, pTodo, pPaths, pAcc, pOut, pSteady, pSettled>>

\* RuntimeError, from the constructor or from a call.
Raised == [kind |-> "raised", num |-> 0, den |-> 1]

\* An empty file is a label here; only a missing or unreadable one is "unknown".
ZoneType(z) ==
  CASE zone[z].type = "cpu" -> "cpu"
    [] zone[z].type = "empty" -> ""
    [] zone[z].type = "unreadable" -> "unknown"

\* Mutant: an unreadable type disqualifies the zone.
AcceptsTyped(z) ==
  /\ z \in numbered
  /\ zone[z].temp.file # "none"
  /\ zone[z].type # "unreadable"
  /\ ZoneType(z) \in filter

\* The zone is discovered and its type contains zone_type_substring.
Accepts(z) ==
  /\ z \in numbered
  /\ zone[z].temp.file # "none"
  /\ ZoneType(z) \in filter

PythonInit ==
  /\ pPc = "unbuilt"
  /\ pTodo = {}
  /\ pPaths = {}
  /\ pAcc = NoZones
  /\ pOut = NoAnswer
  /\ pSteady = {}
  /\ pSettled = {}

Construct ==
  /\ pPc = "unbuilt"
  /\ pPc' = "list"
  /\ pTodo' = IF listable THEN Present ELSE {}
  /\ pPaths' = {}
  /\ pOut' = NoAnswer
  /\ pSettled' = Zones
  /\ UNCHANGED <<pAcc, pSteady>>

Discover(z) ==
  /\ pPc = "list"
  /\ z \in pTodo
  /\ pTodo' = pTodo \ {z}
  /\ pPaths' = IF Accepts(z) THEN pPaths \cup {z} ELSE pPaths
  /\ UNCHANGED <<pPc, pAcc, pOut, pSteady, pSettled>>

\* A constructor that raises leaves no reader; the caller may try again.
Constructed ==
  /\ pPc = "list"
  /\ pTodo = {}
  /\ pPc' = IF pPaths = {} THEN "unbuilt" ELSE "built"
  /\ pOut' = IF pPaths = {} THEN Raised ELSE NoAnswer
  /\ UNCHANGED <<pTodo, pPaths, pAcc, pSteady, pSettled>>

Call ==
  /\ pPc = "built"
  /\ pPc' = "read"
  /\ pTodo' = pPaths
  /\ pAcc' = NoZones
  /\ pOut' = NoAnswer
  /\ pSteady' = Zones
  /\ UNCHANGED <<pPaths, pSettled>>

\* Mutant: a zone that cannot be read fails the whole call.
ReadPathOrRaise(z) ==
  /\ pPc = "read"
  /\ z \in pTodo
  /\ pTodo' = IF Readable(z) THEN pTodo \ {z} ELSE {}
  /\ pAcc' = IF Readable(z) THEN Add(pAcc, Value(z)) ELSE NoZones
  /\ UNCHANGED <<pPc, pPaths, pOut, pSteady, pSettled>>

\* int() and read_text() fail together with fscanf and fopen.
ReadPath(z) ==
  /\ pPc = "read"
  /\ z \in pTodo
  /\ pTodo' = pTodo \ {z}
  /\ pAcc' = IF Readable(z) THEN Add(pAcc, Value(z)) ELSE pAcc
  /\ UNCHANGED <<pPc, pPaths, pOut, pSteady, pSettled>>

Answer ==
  /\ pPc = "read"
  /\ pTodo = {}
  /\ pPc' = "built"
  /\ pOut' = IF pAcc.count = 0 THEN Raised ELSE Aggregated(pAcc)
  /\ pAcc' = NoZones
  /\ UNCHANGED <<pTodo, pPaths, pSteady, pSettled>>

PythonStep ==
  \/ Construct
  \/ \E z \in Zones : Discover(z)
  \/ Constructed
  \/ Call
  \/ \E z \in Zones : ReadPath(z)
  \/ Answer

PythonTypeOK ==
  /\ pPc \in {"unbuilt", "list", "built", "read"}
  /\ pTodo \subseteq Zones
  /\ pPaths \subseteq Zones
  /\ pAcc \in [sum : Int, max : Int, count : Nat]
  /\ pOut \in [kind : {"none", "value", "raised"}, num : Int, den : Nat \ {0}]
  /\ pSteady \subseteq Zones
  /\ pSettled \subseteq Zones

=============================================================================
