----------------------------- MODULE ThermalReader ----------------------------
(****************************************************************************)
(* msp_thermal_reader_telemetry_fn (src/daemon/thermal_reader.c): every     *)
(* call lists the zones anew, takes those that match the filter and whose   *)
(* temperature can be read, and reports their maximum or mean; with none,   *)
(* +INFINITY.                                                               *)
(****************************************************************************)
EXTENDS ThermalZones

VARIABLES
  aggregate,        \* MSP_THERMAL_AGGREGATE_MAX or _MEAN; both readers have the same
  filter,           \* the labels that pass zone_type_filter
  cPc,              \* "idle", or "scan" between opendir and closedir
  cDue,             \* entries that readdir must still return
  cSeen,            \* entries it has returned
  cAcc,             \* sum_c, max_c, count
  cOut,             \* what the last call reported
  cSteady           \* zones that have not changed since the last call began

readerVars == <<cPc, cDue, cSeen, cAcc, cOut, cSteady>>
configVars == <<aggregate, filter>>

(* What both readers do with numbers.                                       *)

\* max means nothing until count > 0: the code has -HUGE_VAL there.
NoZones == [sum |-> 0, max |-> 0, count |-> 0]

\* Mutant: the last zone counts.
AddLast(acc, t) == [sum |-> acc.sum + t, max |-> t, count |-> acc.count + 1]

Add(acc, t) ==
  [sum   |-> acc.sum + t,
   max   |-> IF acc.count = 0 \/ t > acc.max THEN t ELSE acc.max,
   count |-> acc.count + 1]

\* A temperature is the fraction num / den, as the mean is one.
Temperature(num, den) == [kind |-> "value", num |-> num, den |-> den]
NoAnswer == [kind |-> "none", num |-> 0, den |-> 1]
Infinity == [kind |-> "infinity", num |-> 0, den |-> 1]

Aggregated(acc) ==
  IF aggregate = "mean" THEN Temperature(acc.sum, acc.count) ELSE Temperature(acc.max, 1)

(* The reader.                                                              *)

\* read_zone_type fails on an empty file too, and a failure is called "unknown".
Label(z) == IF zone[z].type = "cpu" THEN "cpu" ELSE "unknown"

Matches(z) == Label(z) \in filter

ReaderInit ==
  /\ aggregate \in {"max", "mean"}
  /\ filter \in Filters
  /\ cPc = "idle"
  /\ cDue = {}
  /\ cSeen = {}
  /\ cAcc = NoZones
  /\ cOut = NoAnswer
  /\ cSteady = {}

OpenDir ==
  /\ cPc = "idle"
  /\ listable
  /\ cPc' = "scan"
  /\ cDue' = Present
  /\ cSeen' = {}
  /\ cAcc' = NoZones
  /\ cOut' = NoAnswer
  /\ cSteady' = Zones

OpenDirFails ==
  /\ cPc = "idle"
  /\ ~listable
  /\ cOut' = Infinity
  /\ cSteady' = Zones
  /\ UNCHANGED <<cPc, cDue, cSeen, cAcc>>

\* Mutant: a zone is counted before its temperature is read.
ReadZoneCountsFirst(z) ==
  /\ cPc = "scan"
  /\ z \in (cDue \cup Present) \ cSeen
  /\ cDue' = cDue \ {z}
  /\ cSeen' = cSeen \cup {z}
  /\ cAcc' = IF ~Matches(z) THEN cAcc
             ELSE IF Readable(z) THEN Add(cAcc, Value(z))
             ELSE [cAcc EXCEPT !.count = @ + 1]
  /\ UNCHANGED <<cPc, cOut, cSteady>>

\* readdir returns an entry and the zone is looked at.  An entry that was plugged in
\* during the scan may be returned or not, one that has vanished may still be.
ReadZone(z) ==
  /\ cPc = "scan"
  /\ z \in (cDue \cup Present) \ cSeen
  /\ cDue' = cDue \ {z}
  /\ cSeen' = cSeen \cup {z}
  /\ cAcc' = IF Matches(z) /\ Readable(z) THEN Add(cAcc, Value(z)) ELSE cAcc
  /\ UNCHANGED <<cPc, cOut, cSteady>>

\* Mutant: the aggregate of no zones is reported.
CloseDirUnchecked ==
  /\ cPc = "scan"
  /\ cDue \cap Present = {}
  /\ cPc' = "idle"
  /\ cOut' = Aggregated(cAcc)
  /\ cDue' = {}
  /\ cSeen' = {}
  /\ cAcc' = NoZones
  /\ UNCHANGED cSteady

\* readdir has no more entries; one that vanished need not have been returned.
CloseDir ==
  /\ cPc = "scan"
  /\ cDue \cap Present = {}
  /\ cPc' = "idle"
  /\ cOut' = IF cAcc.count = 0 THEN Infinity ELSE Aggregated(cAcc)
  /\ cDue' = {}
  /\ cSeen' = {}
  /\ cAcc' = NoZones
  /\ UNCHANGED cSteady

ReaderStep ==
  /\ \/ OpenDir
     \/ OpenDirFails
     \/ \E z \in Zones : ReadZone(z)
     \/ CloseDir
  /\ UNCHANGED configVars

ReaderTypeOK ==
  /\ aggregate \in {"max", "mean"}
  /\ filter \in Filters
  /\ cPc \in {"idle", "scan"}
  /\ cDue \subseteq Zones
  /\ cSeen \subseteq Zones
  /\ cAcc \in [sum : Int, max : Int, count : Nat]
  /\ cOut \in [kind : {"none", "value", "infinity"}, num : Int, den : Nat \ {0}]
  /\ cSteady \subseteq Zones

=============================================================================
