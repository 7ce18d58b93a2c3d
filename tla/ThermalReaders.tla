---------------------------- MODULE ThermalReaders ----------------------------
(****************************************************************************)
(* The two readers on one tree: the one of watchdogd and the one of         *)
(* Python's ThermalMonitor, which "implement the same policy".              *)
(****************************************************************************)
EXTENDS LinuxThermalZoneReader, FiniteSetsExt

vars == <<treeVars, configVars, readerVars, pythonVars>>

Init == TreeInit /\ ReaderInit /\ PythonInit

\* A zone that changes is no longer steady for the calls that are under way or done.
Unsettle(changed) ==
  /\ cSteady' = cSteady \ changed
  /\ pSteady' = pSteady \ changed
  /\ pSettled' = pSettled \ changed
  /\ UNCHANGED <<configVars, cPc, cDue, cSeen, cAcc, cOut, pPc, pTodo, pPaths, pAcc, pOut>>

Change ==
  \/ \E z \in Zones : ChangeZone(z) /\ Unsettle({z})
  \/ ChangeBase /\ Unsettle(Zones)

CStep == ReaderStep /\ UNCHANGED <<treeVars, pythonVars>>

PyStep == PythonStep /\ UNCHANGED <<treeVars, configVars, readerVars>>

Next == CStep \/ PyStep \/ Change

Spec == Init /\ [][Next]_vars

----------------------------------------------------------------------------
(* Properties                                                               *)

TypeOK == TreeTypeOK /\ ReaderTypeOK /\ PythonTypeOK

\* The answer is at least as hot as t, if it is an answer to MSP_THERMAL_AGGREGATE_MAX.
AsHotAs(out, t) == out.kind = "value" /\ aggregate = "max" => out.num >= t * out.den

\* No reader reports less than a matching zone that could be read, and did not change,
\* for the whole of the call: neither zones that vanish or fail to read, nor the entries
\* that come and go during readdir, make a hot zone be missed.
HotZonesAreSeen ==
  /\ \A z \in cSteady : Matches(z) /\ Readable(z) => AsHotAs(cOut, Value(z))
  /\ \A z \in pSteady \cap pPaths : Readable(z) => AsHotAs(pOut, Value(z))

\* "Fail hot" and RuntimeError are kept for total failure: one zone that could be read
\* all along is enough for an answer ("skipped for that call rather than failing the
\* whole read, as long as at least one other matching zone is readable").
FailsOnlyWhenBlind ==
  /\ cOut.kind = "infinity" => \A z \in cSteady : ~(listable /\ Matches(z) /\ Readable(z))
  /\ pOut.kind = "raised" /\ pPc = "built"
       => \A z \in pSteady \cap pPaths : ~Readable(z)
  /\ pOut.kind = "raised" /\ pPc = "unbuilt"
       => \A z \in pSettled : ~(listable /\ z \in Present /\ Accepts(z))

Shown == [z \in Zones |-> Value(z)]

\* What a read of a tree that does not change must give, from its zones at once.
Exact(zones, failure) ==
  IF zones = {}
  THEN failure
  ELSE IF aggregate = "mean"
       THEN Temperature(SumFunctionOnSet(Shown, zones), Cardinality(zones))
       ELSE Temperature(Max({Value(z) : z \in zones}), 1)

\* A call during which the tree did not change reports the maximum, or the mean, of
\* the readable zones that match, each counted once, and fails if there are none.
SteadyReadsAreExact ==
  /\ cOut.kind # "none" /\ cSteady = Zones
       => cOut = Exact({z \in Present : listable /\ Matches(z) /\ Readable(z)}, Infinity)
  /\ pPc = "built" /\ pOut.kind # "none" /\ pSteady = Zones
       => pOut = Exact({z \in pPaths : Readable(z)}, Raised)

\* The two differ on these zones by their code: a name without a number, which only the
\* C reader takes, and an empty "type", which only it calls "unknown".
SameForBoth(z) ==
  zone[z].present =>
    /\ z \in numbered
    /\ zone[z].type = "empty" => ("" \in filter <=> "unknown" \in filter)

\* On a tree that has not changed since the Python reader was constructed both report
\* the same number, or the one reports +INFINITY and the other raises.
ReadersAgree ==
  cOut.kind # "none" /\ pOut.kind # "none" /\ cSteady = Zones /\ pSettled = Zones
  /\ (\A z \in Zones : SameForBoth(z))
    => \/ cOut = pOut
       \/ cOut.kind = "infinity" /\ pOut.kind = "raised"

=============================================================================
