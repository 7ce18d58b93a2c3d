----------------------------- MODULE ThermalZones -----------------------------
(****************************************************************************)
(* The tree under /sys/class/thermal that the reader in C and the reader in *)
(* Python list and read, each at its own pace, while zones appear, vanish,  *)
(* heat, cool and fail to read.                                             *)
(*                                                                          *)
(* A zone is what a reader can tell of it: what its "type" file yields and  *)
(* what its "temp" file yields.  Both files are opened anew for each look.  *)
(****************************************************************************)
EXTENDS Integers, FiniteSets

CONSTANTS
  Zones,            \* the entries thermal_zone* there may be
  Temps,            \* what a sound "temp" file may say, in millidegrees
  Filters,          \* for each filter substring: the type labels that contain it
  MaxChanges        \* bounds the changes of the tree

VARIABLES
  numbered,         \* the zones whose name goes on with a number; never changes
  zone,             \* what each zone is now
  listable,         \* the base directory exists and can be listed
  changes

treeVars == <<numbered, zone, listable, changes>>

ASSUME ZonesAssumption ==
  /\ IsFiniteSet(Zones)
  /\ Temps \subseteq Int
  /\ MaxChanges \in Nat

\* A "type" file: a line, an empty file, or one that cannot be read.
TypeFiles == {"cpu", "empty", "unreadable"}

\* A filter is taken for the set of labels it is found in.
ASSUME FiltersAssumption == \A f \in Filters : f \subseteq {"cpu", "unknown", ""}

\* A "temp" file: a number, a file without one, or none.
Garbled == [file |-> "garbled", value |-> 0]
NoFile == [file |-> "none", value |-> 0]
Shows(t) == [file |-> "number", value |-> t]
TempFiles == {Shows(t) : t \in Temps} \cup {Garbled, NoFile}

Absent == [type |-> "unreadable", temp |-> NoFile, present |-> FALSE]
Plugged == [type : TypeFiles, temp : TempFiles, present : {TRUE}]

Present == {z \in Zones : zone[z].present}

\* The entry is there and its "temp" file has a number in it.
Readable(z) == zone[z].temp.file = "number"
Value(z) == zone[z].temp.value

TreeTypeOK ==
  /\ numbered \subseteq Zones
  /\ zone \in [Zones -> Plugged \cup {Absent}]
  /\ listable \in BOOLEAN
  /\ changes \in 0..MaxChanges

TreeInit ==
  /\ numbered \in SUBSET Zones
  /\ zone \in [Zones -> Plugged \cup {Absent}]
  /\ listable = TRUE
  /\ changes = 0

\* A zone is plugged in, vanishes, heats or cools, or its files become unreadable or
\* readable again (a device that does not answer, no descriptor left for fopen).
ChangeZone(z) ==
  /\ changes < MaxChanges
  /\ changes' = changes + 1
  /\ \E new \in Plugged \cup {Absent} :
       /\ new # zone[z]
       /\ zone[z].present /\ new.present /\ new.type # zone[z].type
            => "unreadable" \in {zone[z].type, new.type}
       /\ zone' = [zone EXCEPT ![z] = new]
  /\ UNCHANGED <<numbered, listable>>

\* The base directory can no longer be listed, or can be again: sysfs is unmounted,
\* or no descriptor is left for opendir.
ChangeBase ==
  /\ changes < MaxChanges
  /\ changes' = changes + 1
  /\ listable' = ~listable
  /\ UNCHANGED <<numbered, zone>>

=============================================================================
