------------------------- MODULE ThermalReadersProofs -------------------------
(****************************************************************************)
(* Whatever the tree does during a call, no reader misses a hot zone that   *)
(* could be read all along, and none fails while there is one.              *)
(*                                                                          *)
(* ReadersInv is inductive.  ScanInv and CallInv say of a call under way    *)
(* that each steady zone is still to be looked at or is in the accumulator; *)
(* at its end nothing is still to be looked at.                             *)
(*                                                                          *)
(* On a tree that does not change, both readers give the same number.       *)
(* ExactInv says what the zones read so far make of the accumulator, and    *)
(* which zones these are; the sums are those of SetSums.                    *)
(****************************************************************************)
EXTENDS ThermalReaders, SetSums, TLAPS

\* The accumulator has the temperature t, or a higher one, in it.
Covers(acc, t) == acc.count > 0 /\ acc.max >= t

ScanInv ==
  cPc = "scan" =>
    /\ cOut = NoAnswer
    /\ \A z \in cSteady :
         /\ z \in Present => z \in cDue \cup cSeen
         /\ z \in cSeen /\ Matches(z) /\ Readable(z) => Covers(cAcc, Value(z))

COutInv ==
  cPc = "idle" =>
    /\ \A z \in cSteady : Matches(z) /\ Readable(z) => AsHotAs(cOut, Value(z))
    /\ cOut.kind = "infinity" => \A z \in cSteady : ~(listable /\ Matches(z) /\ Readable(z))

ListInv ==
  pPc = "list" =>
    /\ pOut = NoAnswer
    /\ \A z \in pSettled : listable /\ z \in Present /\ Accepts(z) => z \in pTodo \cup pPaths

CallInv ==
  pPc = "read" =>
    /\ pOut = NoAnswer
    /\ \A z \in pSteady \cap pPaths : Readable(z) => z \in pTodo \/ Covers(pAcc, Value(z))

POutInv ==
  /\ pPc = "unbuilt" => pOut.kind # "value"
  /\ pPc = "unbuilt" /\ pOut.kind = "raised"
       => \A z \in pSettled : ~(listable /\ z \in Present /\ Accepts(z))
  /\ pPc = "built" =>
       /\ \A z \in pSteady \cap pPaths : Readable(z) => AsHotAs(pOut, Value(z))
       /\ pOut.kind = "raised" => \A z \in pSteady \cap pPaths : ~Readable(z)

ReadersInv == TypeOK /\ ScanInv /\ COutInv /\ ListInv /\ CallInv /\ POutInv

\* The accumulator holds the temperatures of these zones, each of them once.
AccumulatorOf(acc, zones) ==
  /\ acc.count = Cardinality(zones)
  /\ acc.sum = SumFunctionOnSet(Shown, zones)
  /\ zones # {} => /\ \E z \in zones : acc.max = Value(z)
                   /\ \A z \in zones : acc.max >= Value(z)

\* What a call of the C reader on a tree that does not change should read.
ReadableToC == {z \in Present : listable /\ Matches(z) /\ Readable(z)}

ScanExactInv ==
  cPc = "scan" /\ cSteady = Zones =>
    /\ Zones = {} \/ listable
    /\ AccumulatorOf(cAcc, {z \in cSeen : Matches(z) /\ Readable(z)})

COutExactInv ==
  cOut.kind # "none" /\ cSteady = Zones => cOut = Exact(ReadableToC, Infinity)

\* The constructor has taken the zones that it accepts, of those it has looked at.
PathsExactInv ==
  /\ pPc = "list" /\ pSettled = Zones =>
       /\ \A z \in pTodo : z \in Present /\ listable
       /\ pPaths = {z \in Present \ pTodo : listable /\ Accepts(z)}
  /\ pPc \in {"built", "read"} \/ pOut.kind = "raised" =>
       (pSettled = Zones => pPaths = {z \in Present : listable /\ Accepts(z)})

CallExactInv ==
  pPc = "read" =>
    /\ pTodo \subseteq pPaths
    /\ pSettled \subseteq pSteady
    /\ pSteady = Zones => AccumulatorOf(pAcc, {z \in pPaths \ pTodo : Readable(z)})

POutExactInv ==
  pPc = "built" /\ pOut.kind # "none" =>
    /\ pSettled \subseteq pSteady
    /\ pSteady = Zones => pOut = Exact({z \in pPaths : Readable(z)}, Raised)

ExactInv ==
  /\ ScanExactInv /\ COutExactInv
  /\ PathsExactInv /\ CallExactInv /\ POutExactInv

USE ZonesAssumption

----------------------------------------------------------------------------
(* The tree and the accumulator                                             *)

\* A zone that can be read is there, and shows an integer.
LEMMA ReadableZones ==
  ASSUME TypeOK, NEW z \in Zones
  PROVE  /\ zone[z].present \in BOOLEAN
         /\ Readable(z) => z \in Present /\ Value(z) \in Int
<1>1. CASE zone[z] = Absent
  BY <1>1 DEF Absent, NoFile, Readable
<1>2. CASE zone[z] \in Plugged
  <2>1. zone[z].present = TRUE /\ zone[z].temp \in TempFiles
    BY <1>2 DEF Plugged
  <2>2. zone[z].temp.file = "number" => zone[z].temp.value \in Temps
    BY <2>1 DEF TempFiles, Shows, Garbled, NoFile
  <2> QED
    BY <2>1, <2>2 DEF Readable, Value, Present
<1> QED
  BY <1>1, <1>2 DEF TypeOK, TreeTypeOK

\* Adding a temperature covers it, and uncovers none.
LEMMA AddCovers ==
  ASSUME NEW acc \in [sum : Int, max : Int, count : Nat], NEW t \in Int
  PROVE  /\ Add(acc, t) \in [sum : Int, max : Int, count : Nat]
         /\ Covers(Add(acc, t), t)
         /\ \A u \in Int : Covers(acc, u) => Covers(Add(acc, t), u)
BY DEF Add, Covers

\* The maximum that is reported is as hot as all it covers.
LEMMA AggregatedIsHot ==
  ASSUME NEW acc \in [sum : Int, max : Int, count : Nat], acc.count # 0
  PROVE  /\ Aggregated(acc) \in [kind : {"value"}, num : Int, den : Nat \ {0}]
         /\ \A t \in Int : Covers(acc, t) => AsHotAs(Aggregated(acc), t)
BY DEF Aggregated, Temperature, Covers, AsHotAs

----------------------------------------------------------------------------
(* The steps                                                                *)

LEMMA CStepKeeps == ASSUME ReadersInv, CStep PROVE ReadersInv'
<1> USE DEF ReadersInv
<1>1. /\ UNCHANGED <<numbered, zone, listable, changes, aggregate, filter>>
      /\ UNCHANGED <<pPc, pTodo, pPaths, pAcc, pOut, pSteady, pSettled>>
  BY DEF CStep, ReaderStep, treeVars, configVars, pythonVars
<1>2. /\ TreeTypeOK' /\ PythonTypeOK'
      /\ ListInv' /\ CallInv' /\ POutInv'
  <2>1. TreeTypeOK' /\ PythonTypeOK'
    BY <1>1 DEF TypeOK, TreeTypeOK, PythonTypeOK
  <2>2. \A z : /\ Accepts(z)' = Accepts(z) /\ Readable(z)' = Readable(z)
               /\ Value(z)' = Value(z)
    BY <1>1 DEF Accepts, ZoneType, Readable, Value
  <2>3. Present' = Present /\ \A t : AsHotAs(pOut, t)' = AsHotAs(pOut, t)
    BY <1>1 DEF Present, AsHotAs
  <2> QED
    BY <1>1, <2>1, <2>2, <2>3 DEF ListInv, CallInv, POutInv
<1>3. \A z : Matches(z)' = Matches(z) /\ Readable(z)' = Readable(z) /\ Value(z)' = Value(z)
  BY <1>1 DEF Matches, Label, Readable, Value
<1>4. Present' = Present
  BY <1>1 DEF Present
<1>5. CASE OpenDir
  <2>1. ReaderTypeOK'
    BY <1>1, <1>5 DEF OpenDir, TypeOK, ReaderTypeOK, NoZones, NoAnswer, Present
  <2>2. ScanInv' /\ COutInv'
    BY <1>3, <1>4, <1>5 DEF OpenDir, ScanInv, COutInv
  <2> QED
    BY <1>2, <2>1, <2>2 DEF TypeOK
<1>6. CASE OpenDirFails
  <2>1. ReaderTypeOK'
    BY <1>1, <1>6 DEF OpenDirFails, TypeOK, ReaderTypeOK, Infinity
  <2>2. ScanInv' /\ COutInv'
    BY <1>1, <1>6 DEF OpenDirFails, ScanInv, COutInv, Infinity, AsHotAs
  <2> QED
    BY <1>2, <2>1, <2>2 DEF TypeOK
<1>7. ASSUME NEW z \in Zones, ReadZone(z) PROVE ReadersInv'
  <2>1. /\ ReaderTypeOK'
        /\ \A t \in Int : Covers(cAcc, t) => Covers(cAcc', t)
        /\ Matches(z) /\ Readable(z) => Covers(cAcc', Value(z))
    BY <1>1, <1>7, ReadableZones, AddCovers DEF ReadZone, TypeOK, ReaderTypeOK
  <2>2. \A u \in cSteady : Readable(u) => Value(u) \in Int
    BY ReadableZones DEF TypeOK, ReaderTypeOK
  <2>3. ScanInv'
    BY <1>3, <1>4, <1>7, <2>1, <2>2 DEF ReadZone, ScanInv
  <2>4. COutInv'
    BY <1>7 DEF ReadZone, COutInv
  <2> QED
    BY <1>2, <2>1, <2>3, <2>4 DEF TypeOK
<1>8. CASE CloseDir
  <2>1. \A z \in cSteady : Matches(z) /\ Readable(z) => Covers(cAcc, Value(z)) /\ Value(z) \in Int
    BY <1>8, ReadableZones DEF CloseDir, ScanInv, TypeOK, ReaderTypeOK
  <2>2. CASE cAcc.count = 0
    <3>1. ReaderTypeOK'
      BY <1>1, <1>8, <2>2 DEF CloseDir, TypeOK, ReaderTypeOK, Infinity, NoZones
    <3>2. ScanInv' /\ COutInv'
      BY <1>3, <1>8, <2>1, <2>2
      DEF CloseDir, ScanInv, COutInv, Infinity, AsHotAs, Covers
    <3> QED
      BY <1>2, <3>1, <3>2 DEF TypeOK
  <2>3. CASE cAcc.count # 0
    <3>1. /\ cOut' = Aggregated(cAcc)
          /\ Aggregated(cAcc) \in [kind : {"value"}, num : Int, den : Nat \ {0}]
          /\ \A t \in Int : Covers(cAcc, t) => AsHotAs(cOut, t)'
      BY <1>1, <1>8, <2>3, AggregatedIsHot DEF CloseDir, TypeOK, ReaderTypeOK, AsHotAs
    <3>2. ReaderTypeOK'
      BY <1>1, <1>8, <3>1 DEF CloseDir, TypeOK, ReaderTypeOK, NoZones
    <3>3. ScanInv' /\ COutInv'
      BY <1>1, <1>3, <1>8, <2>1, <3>1 DEF CloseDir, ScanInv, COutInv, AsHotAs
    <3> QED
      BY <1>2, <3>2, <3>3 DEF TypeOK
  <2> QED
    BY <2>2, <2>3
<1> QED
  BY <1>5, <1>6, <1>7, <1>8 DEF CStep, ReaderStep

LEMMA PyStepKeeps == ASSUME ReadersInv, PyStep PROVE ReadersInv'
<1> USE DEF ReadersInv
<1>1. /\ UNCHANGED <<numbered, zone, listable, changes, aggregate, filter>>
      /\ UNCHANGED <<cPc, cDue, cSeen, cAcc, cOut, cSteady>>
  BY DEF PyStep, treeVars, configVars, readerVars
<1>2. /\ TreeTypeOK' /\ ReaderTypeOK'
      /\ ScanInv' /\ COutInv'
  BY <1>1 DEF TypeOK, TreeTypeOK, ReaderTypeOK, ScanInv, COutInv, Present, Matches, Label,
              Readable, Value, AsHotAs
<1>3. \A z : Accepts(z)' = Accepts(z) /\ Readable(z)' = Readable(z) /\ Value(z)' = Value(z)
  BY <1>1 DEF Accepts, ZoneType, Readable, Value
<1>4. Present' = Present
  BY <1>1 DEF Present
<1>5. CASE Construct
  <2>1. PythonTypeOK'
    BY <1>5 DEF Construct, TypeOK, PythonTypeOK, NoAnswer, Present
  <2>2. ListInv' /\ CallInv' /\ POutInv'
    BY <1>1, <1>3, <1>4, <1>5 DEF Construct, ListInv, CallInv, POutInv
  <2> QED
    BY <1>2, <2>1, <2>2 DEF TypeOK
<1>6. ASSUME NEW z \in Zones, Discover(z) PROVE ReadersInv'
  <2>1. PythonTypeOK'
    BY <1>6 DEF Discover, TypeOK, PythonTypeOK
  <2>2. ListInv' /\ CallInv' /\ POutInv'
    BY <1>1, <1>3, <1>4, <1>6 DEF Discover, ListInv, CallInv, POutInv
  <2> QED
    BY <1>2, <2>1, <2>2 DEF TypeOK
<1>7. CASE Constructed
  <2>1. PythonTypeOK'
    BY <1>7 DEF Constructed, TypeOK, PythonTypeOK, NoAnswer, Raised
  <2>2. ListInv' /\ CallInv' /\ POutInv'
    BY <1>1, <1>3, <1>4, <1>7
    DEF Constructed, ListInv, CallInv, POutInv, Raised, NoAnswer, AsHotAs
  <2> QED
    BY <1>2, <2>1, <2>2 DEF TypeOK
<1>8. CASE Call
  <2>1. PythonTypeOK'
    BY <1>8 DEF Call, TypeOK, PythonTypeOK, NoAnswer, NoZones
  <2>2. ListInv' /\ CallInv' /\ POutInv'
    BY <1>8 DEF Call, ListInv, CallInv, POutInv
  <2> QED
    BY <1>2, <2>1, <2>2 DEF TypeOK
<1>9. ASSUME NEW z \in Zones, ReadPath(z) PROVE ReadersInv'
  <2>1. /\ PythonTypeOK'
        /\ \A t \in Int : Covers(pAcc, t) => Covers(pAcc', t)
        /\ Readable(z) => Covers(pAcc', Value(z))
    BY <1>9, ReadableZones, AddCovers DEF ReadPath, TypeOK, PythonTypeOK
  <2>2. \A u \in pSteady : Readable(u) => Value(u) \in Int
    BY ReadableZones DEF TypeOK, PythonTypeOK
  <2>3. ListInv' /\ CallInv' /\ POutInv'
    BY <1>3, <1>9, <2>1, <2>2 DEF ReadPath, ListInv, CallInv, POutInv
  <2> QED
    BY <1>2, <2>1, <2>3 DEF TypeOK
<1>10. CASE Answer
  <2>1. \A z \in pSteady \cap pPaths :
          Readable(z) => Covers(pAcc, Value(z)) /\ Value(z) \in Int
    BY <1>10, ReadableZones DEF Answer, CallInv, TypeOK, PythonTypeOK
  <2>2. CASE pAcc.count = 0
    <3>1. PythonTypeOK'
      BY <1>10, <2>2 DEF Answer, TypeOK, PythonTypeOK, Raised, NoZones
    <3>2. ListInv' /\ CallInv' /\ POutInv'
      BY <1>3, <1>10, <2>1, <2>2
      DEF Answer, ListInv, CallInv, POutInv, Raised, AsHotAs, Covers
    <3> QED
      BY <1>2, <3>1, <3>2 DEF TypeOK
  <2>3. CASE pAcc.count # 0
    <3>1. /\ pOut' = Aggregated(pAcc)
          /\ Aggregated(pAcc) \in [kind : {"value"}, num : Int, den : Nat \ {0}]
          /\ \A t \in Int : Covers(pAcc, t) => AsHotAs(pOut, t)'
      BY <1>1, <1>10, <2>3, AggregatedIsHot DEF Answer, TypeOK, PythonTypeOK, AsHotAs
    <3>2. PythonTypeOK'
      BY <1>10, <3>1 DEF Answer, TypeOK, PythonTypeOK, NoZones
    <3>3. ListInv' /\ CallInv' /\ POutInv'
      BY <1>1, <1>3, <1>10, <2>1, <3>1 DEF Answer, ListInv, CallInv, POutInv, AsHotAs
    <3> QED
      BY <1>2, <3>2, <3>3 DEF TypeOK
  <2> QED
    BY <2>2, <2>3
<1> QED
  BY <1>5, <1>6, <1>7, <1>8, <1>9, <1>10 DEF PyStep, PythonStep

\* A change takes a zone out of the steady ones and leaves the others as they are.
LEMMA ChangeKeeps == ASSUME ReadersInv, Change PROVE ReadersInv'
<1> USE DEF ReadersInv
<1>1. ASSUME NEW z \in Zones, ChangeZone(z), Unsettle({z}) PROVE ReadersInv'
  <2>1. /\ cSteady' = cSteady \ {z} /\ pSteady' = pSteady \ {z} /\ pSettled' = pSettled \ {z}
        /\ UNCHANGED <<aggregate, filter, cPc, cDue, cSeen, cAcc, cOut>>
        /\ UNCHANGED <<pPc, pTodo, pPaths, pAcc, pOut, numbered, listable>>
    BY <1>1 DEF ChangeZone, Unsettle, configVars
  <2>2. TypeOK'
    <3>1. TreeTypeOK'
      <4>1. zone' \in [Zones -> Plugged \cup {Absent}]
        BY <1>1 DEF ChangeZone, TypeOK, TreeTypeOK
      <4> QED
        BY <1>1, <4>1 DEF ChangeZone, TypeOK, TreeTypeOK
    <3>2. ReaderTypeOK' /\ PythonTypeOK'
      BY <2>1 DEF TypeOK, ReaderTypeOK, PythonTypeOK
    <3> QED
      BY <3>1, <3>2 DEF TypeOK
  <2>3. \A u \in Zones \ {z} : zone'[u] = zone[u]
    BY <1>1 DEF ChangeZone, TypeOK, TreeTypeOK
  <2>4. /\ cSteady' \subseteq Zones \ {z} /\ pSteady' \subseteq Zones \ {z}
        /\ pSettled' \subseteq Zones \ {z}
    BY <2>1 DEF TypeOK, ReaderTypeOK, PythonTypeOK
  <2>5. \A u \in Zones \ {z} :
          /\ Matches(u)' = Matches(u) /\ Accepts(u)' = Accepts(u)
          /\ Readable(u)' = Readable(u) /\ Value(u)' = Value(u)
          /\ (u \in Present') = (u \in Present)
    <3> SUFFICES ASSUME NEW u \in Zones \ {z}
                 PROVE  /\ Matches(u)' = Matches(u) /\ Accepts(u)' = Accepts(u)
                        /\ Readable(u)' = Readable(u) /\ Value(u)' = Value(u)
                        /\ (u \in Present') = (u \in Present)
      OBVIOUS
    <3>1. zone'[u] = zone[u]
      BY <2>3
    <3> QED
      BY <2>1, <3>1 DEF Matches, Label, Accepts, ZoneType, Readable, Value, Present
  <2>6. ScanInv' /\ COutInv'
    BY <2>1, <2>4, <2>5 DEF ScanInv, COutInv, AsHotAs
  <2>7. ListInv' /\ CallInv' /\ POutInv'
    BY <2>1, <2>4, <2>5 DEF ListInv, CallInv, POutInv, AsHotAs
  <2> QED
    BY <2>2, <2>6, <2>7
<1>2. CASE ChangeBase /\ Unsettle(Zones)
  <2>1. /\ cSteady' = {} /\ pSteady' = {} /\ pSettled' = {}
        /\ UNCHANGED <<aggregate, filter, cPc, cDue, cSeen, cAcc, cOut>>
        /\ UNCHANGED <<pPc, pTodo, pPaths, pAcc, pOut, numbered, zone>>
    BY <1>2 DEF ChangeBase, Unsettle, configVars, TypeOK, ReaderTypeOK, PythonTypeOK
  <2>2. TypeOK'
    BY <1>2, <2>1 DEF ChangeBase, TypeOK, TreeTypeOK, ReaderTypeOK, PythonTypeOK
  <2>3. ScanInv' /\ COutInv' /\ ListInv' /\ CallInv' /\ POutInv'
    BY <2>1 DEF ScanInv, COutInv, ListInv, CallInv, POutInv
  <2> QED
    BY <2>2, <2>3
<1> QED
  BY <1>1, <1>2 DEF Change

----------------------------------------------------------------------------
(* The accumulator and what is exact                                        *)

\* The accumulator starts with no zones.
LEMMA StartsWithNone == AccumulatorOf(NoZones, {})
BY FS_EmptySet, SumUnfolds DEF AccumulatorOf, NoZones

\* Every subset of the tree that a reader has read shows integers.
LEMMA ReadableShow ==
  ASSUME TypeOK, NEW S \in SUBSET Zones, \A z \in S : Readable(z)
  PROVE  IsFiniteSet(S) /\ \A z \in S : Value(z) \in Int /\ Shown[z] = Value(z)
<1>1. IsFiniteSet(S)
  BY FS_Subset
<1>2. \A z \in S : Value(z) \in Int
  BY ReadableZones
<1>3. \A z \in S : Shown[z] = Value(z)
  BY DEF Shown
<1> QED
  BY <1>1, <1>2, <1>3

\* Adding a zone that is not in it yet keeps it exact.
LEMMA AddsOne ==
  ASSUME TypeOK, NEW acc \in [sum : Int, max : Int, count : Nat], NEW S \in SUBSET Zones,
         NEW z \in Zones, z \notin S, Readable(z), \A y \in S : Readable(y),
         AccumulatorOf(acc, S)
  PROVE  AccumulatorOf(Add(acc, Value(z)), S \cup {z})
<1> DEFINE T == S \cup {z}
<1>1. IsFiniteSet(T) /\ \A y \in T : Value(y) \in Int /\ Shown[y] = Value(y)
  <2>1. T \in SUBSET Zones /\ \A y \in T : Readable(y)
    OBVIOUS
  <2> HIDE DEF T
  <2> QED
    BY <2>1, ReadableShow
<1>2. IsFiniteSet(S)
  BY FS_Subset
<1>3. Cardinality(T) = Cardinality(S) + 1 /\ Cardinality(S) \in Nat
  BY <1>2, FS_AddElement, FS_CardinalityType
<1>4. SumFunctionOnSet(Shown, T) = SumFunctionOnSet(Shown, S) + Shown[z]
  <2>1. \A y \in S \cup {z} : Shown[y] \in Int
    BY <1>1
  <2> QED
    BY <1>2, <2>1, SumAdds
<1>5. Add(acc, Value(z)).count = Cardinality(T)
  BY <1>3 DEF Add, AccumulatorOf
<1>6. Add(acc, Value(z)).sum = SumFunctionOnSet(Shown, T)
  BY <1>1, <1>4 DEF Add, AccumulatorOf
<1>7. /\ \E y \in T : Add(acc, Value(z)).max = Value(y)
      /\ \A y \in T : Add(acc, Value(z)).max >= Value(y)
  <2>1. CASE S = {}
    <3>1. acc.count = 0
      BY <2>1, FS_EmptySet DEF AccumulatorOf
    <3> QED
      BY <1>1, <2>1, <3>1 DEF Add
  <2>2. CASE S # {}
    <3>1. acc.count # 0
      BY <1>2, <2>2, FS_EmptySet DEF AccumulatorOf
    <3>2. PICK y \in S : acc.max = Value(y)
      BY <2>2 DEF AccumulatorOf
    <3>3. \A u \in S : acc.max >= Value(u)
      BY <2>2 DEF AccumulatorOf
    <3>4. Add(acc, Value(z)).max = IF Value(z) > acc.max THEN Value(z) ELSE acc.max
      BY <3>1 DEF Add
    <3> QED
      BY <1>1, <3>2, <3>3, <3>4
  <2> QED
    BY <2>1, <2>2
<1> QED
  BY <1>5, <1>6, <1>7 DEF AccumulatorOf

\* What is made of an exact accumulator is what the zones at once should give.
LEMMA AnswersExactly ==
  ASSUME TypeOK, NEW acc \in [sum : Int, max : Int, count : Nat], NEW S \in SUBSET Zones,
         \A z \in S : Readable(z), AccumulatorOf(acc, S), NEW failure
  PROVE  (IF acc.count = 0 THEN failure ELSE Aggregated(acc)) = Exact(S, failure)
<1>1. IsFiniteSet(S) /\ \A z \in S : Value(z) \in Int
  BY ReadableShow
<1>2. acc.count = 0 <=> S = {}
  BY <1>1, FS_EmptySet DEF AccumulatorOf
<1>3. CASE S = {}
  BY <1>2, <1>3 DEF Exact
<1>4. CASE S # {}
  <2>1. PICK z \in S : acc.max = Value(z) /\ \A y \in S : acc.max >= Value(y)
    BY <1>4 DEF AccumulatorOf
  <2> DEFINE V == {Value(y) : y \in S}
  <2>2. acc.max \in V /\ V \subseteq Int /\ \A v \in V : acc.max >= v
    BY <1>1, <2>1
  <2>3. Max(V) = acc.max
    <3> HIDE DEF V
    <3>1. \A m \in V : (\A v \in V : m >= v) => m = acc.max
      BY <2>2
    <3> QED
      BY <2>2, <3>1 DEF Max
  <2>4. /\ acc.sum = SumFunctionOnSet(Shown, S)
        /\ acc.count = Cardinality(S)
    BY DEF AccumulatorOf
  <2> QED
    BY <1>2, <1>4, <2>3, <2>4 DEF Exact, Aggregated
<1> QED
  BY <1>3, <1>4

----------------------------------------------------------------------------
(* The steps, on a tree that does not change                                *)

\* As long as no file changes, the zones, and what is made of them, are the same.
LEMMA SameTree ==
  ASSUME UNCHANGED <<numbered, zone, listable, aggregate, filter>>
  PROVE  /\ Present' = Present /\ ReadableToC' = ReadableToC
         /\ \A z : /\ Matches(z)' = Matches(z) /\ Accepts(z)' = Accepts(z)
                   /\ Readable(z)' = Readable(z) /\ Value(z)' = Value(z)
         /\ \A acc, S : AccumulatorOf(acc, S)' = AccumulatorOf(acc, S)
         /\ \A S, failure : Exact(S, failure)' = Exact(S, failure)
<1>1. \A z : /\ Matches(z)' = Matches(z) /\ Accepts(z)' = Accepts(z)
             /\ Readable(z)' = Readable(z) /\ Value(z)' = Value(z)
  BY DEF Matches, Label, Accepts, ZoneType, Readable, Value
<1>2. Present' = Present /\ ReadableToC' = ReadableToC
  BY DEF Present, ReadableToC, Matches, Label, Readable
<1>3. Shown' = Shown
  BY DEF Shown, Value
<1>4. ASSUME NEW acc, NEW S PROVE AccumulatorOf(acc, S)' = AccumulatorOf(acc, S)
  BY <1>3, Zenon DEF AccumulatorOf, Value
<1>5. ASSUME NEW S, NEW failure PROVE Exact(S, failure)' = Exact(S, failure)
  BY <1>3, Zenon DEF Exact, Value
<1> QED
  BY <1>1, <1>2, <1>4, <1>5
LEMMA CStepExact == ASSUME ReadersInv, ExactInv, CStep PROVE ExactInv'
<1> USE DEF ReadersInv, ExactInv
<1>1. /\ UNCHANGED <<numbered, zone, listable, aggregate, filter>>
      /\ UNCHANGED <<pPc, pTodo, pPaths, pAcc, pOut, pSteady, pSettled>>
  BY DEF CStep, ReaderStep, treeVars, configVars, pythonVars
<1>2. PathsExactInv' /\ CallExactInv' /\ POutExactInv'
  <2>1. PathsExactInv'
    BY <1>1, SameTree DEF PathsExactInv
  <2>2. CallExactInv'
    <3>1. {z \in pPaths \ pTodo : Readable(z)}' = {z \in pPaths \ pTodo : Readable(z)}
      BY <1>1, SameTree
    <3> QED
      BY <1>1, <3>1 DEF CallExactInv, AccumulatorOf, Shown, Value
  <2>3. POutExactInv'
    <3>1. {z \in pPaths : Readable(z)}' = {z \in pPaths : Readable(z)}
      BY <1>1, SameTree
    <3> QED
      BY <1>1, <3>1 DEF POutExactInv, Exact, Shown, Value
  <2> QED
    BY <2>1, <2>2, <2>3
<1>3. CASE OpenDir
  <2>1. {z \in cSeen : Matches(z) /\ Readable(z)}' = {}
    BY <1>3 DEF OpenDir
  <2>2. AccumulatorOf(cAcc', {})
    BY <1>3, StartsWithNone DEF OpenDir
  <2>3. AccumulatorOf(cAcc, {z \in cSeen : Matches(z) /\ Readable(z)})'
    BY <1>1, <2>1, <2>2 DEF AccumulatorOf, Shown, Value
  <2>4. ScanExactInv' /\ COutExactInv'
    BY <1>1, <1>3, <2>3 DEF OpenDir, ScanExactInv, COutExactInv, NoAnswer
  <2> QED
    BY <1>2, <2>4
<1>4. CASE OpenDirFails
  <2>1. ReadableToC' = {}
    BY <1>1, <1>4 DEF OpenDirFails, ReadableToC
  <2>2. cOut' = Infinity /\ cPc' = "idle"
    BY <1>4 DEF OpenDirFails
  <2>3. ScanExactInv' /\ COutExactInv'
    BY <2>1, <2>2 DEF ScanExactInv, COutExactInv, Exact
  <2> QED
    BY <1>2, <2>3
<1>5. ASSUME NEW z \in Zones, ReadZone(z) PROVE ExactInv'
  <2> DEFINE Read == {y \in cSeen : Matches(y) /\ Readable(y)}
  <2>1. COutExactInv'
    BY <1>5 DEF ReadZone, COutExactInv, ScanInv, NoAnswer
  <2>2. ASSUME cSteady = Zones
        PROVE  AccumulatorOf(cAcc', {y \in cSeen' : Matches(y) /\ Readable(y)})
    <3>1. AccumulatorOf(cAcc, Read) /\ z \notin cSeen /\ cSeen' = cSeen \cup {z}
      BY <1>5, <2>2 DEF ReadZone, ScanExactInv
    <3>2. CASE Matches(z) /\ Readable(z)
      <4>1. {y \in cSeen' : Matches(y) /\ Readable(y)} = Read \cup {z}
        BY <3>1, <3>2
      <4>2. cAcc' = Add(cAcc, Value(z))
        BY <1>5, <3>2 DEF ReadZone
      <4>3. /\ Read \in SUBSET Zones /\ z \notin Read /\ \A y \in Read : Readable(y)
            /\ cAcc \in [sum : Int, max : Int, count : Nat]
        BY <3>1 DEF TypeOK, ReaderTypeOK
      <4> HIDE DEF Read
      <4>4. AccumulatorOf(Add(cAcc, Value(z)), Read \cup {z})
        BY <3>1, <3>2, <4>3, AddsOne
      <4> QED
        BY <4>1, <4>2, <4>4, Zenon
    <3>3. CASE ~(Matches(z) /\ Readable(z))
      <4>1. {y \in cSeen' : Matches(y) /\ Readable(y)} = Read
        BY <3>1, <3>3
      <4>2. cAcc' = cAcc
        BY <1>5, <3>3 DEF ReadZone
      <4> QED
        BY <3>1, <4>1, <4>2, Zenon
    <3> QED
      BY <3>2, <3>3
  <2>3. ScanExactInv'
    <3> SUFFICES ASSUME cSteady = Zones
                 PROVE  /\ (Zones = {} \/ listable)'
                        /\ AccumulatorOf(cAcc, {y \in cSeen : Matches(y) /\ Readable(y)})'
      BY <1>5 DEF ReadZone, ScanExactInv
    <3>1. (Zones = {} \/ listable)'
      BY <1>1, <1>5 DEF ReadZone, ScanExactInv
    <3>2. {y \in cSeen : Matches(y) /\ Readable(y)}' = {y \in cSeen' : Matches(y) /\ Readable(y)}
      BY <1>1, SameTree
    <3> QED
      BY <1>1, <2>2, <3>1, <3>2 DEF AccumulatorOf, Shown, Value
  <2> QED
    BY <1>2, <2>1, <2>3
<1>6. CASE CloseDir
  <2>1. ASSUME cSteady = Zones PROVE cOut' = Exact(ReadableToC, Infinity)
    <3> DEFINE Read == {y \in cSeen : Matches(y) /\ Readable(y)}
    <3>1. /\ AccumulatorOf(cAcc, Read) /\ (Zones = {} \/ listable)
          /\ \A y \in Present : y \in cSeen
      BY <1>6, <2>1 DEF CloseDir, ScanExactInv, ScanInv, Present
    <3>2. Read \in SUBSET Zones /\ \A y \in Read : Readable(y)
      BY DEF TypeOK, ReaderTypeOK
    <3>3. Read = ReadableToC
      <4>1. \A y \in Read : y \in Present
        BY <3>2, ReadableZones
      <4> QED
        BY <3>1, <3>2, <4>1 DEF ReadableToC, Present
    <3>4. cAcc \in [sum : Int, max : Int, count : Nat]
      BY DEF TypeOK, ReaderTypeOK
    <3> HIDE DEF Read
    <3>5. (IF cAcc.count = 0 THEN Infinity ELSE Aggregated(cAcc)) = Exact(Read, Infinity)
      BY <3>1, <3>2, <3>4, AnswersExactly
    <3>6. Exact(Read, Infinity) = Exact(ReadableToC, Infinity)
      BY <3>3, Zenon
    <3> QED
      BY <1>6, <3>5, <3>6 DEF CloseDir
  <2>2. cSteady' = cSteady /\ cPc' = "idle"
    BY <1>6 DEF CloseDir
  <2>3. COutExactInv'
    BY <1>1, <2>1, <2>2, SameTree DEF COutExactInv, Exact, Shown, Value
  <2> QED
    BY <1>2, <2>2, <2>3 DEF ScanExactInv
<1> QED
  BY <1>3, <1>4, <1>5, <1>6 DEF CStep, ReaderStep

LEMMA PyStepExact == ASSUME ReadersInv, ExactInv, PyStep PROVE ExactInv'
<1> USE DEF ReadersInv, ExactInv
<1>1. /\ UNCHANGED <<numbered, zone, listable, aggregate, filter>>
      /\ UNCHANGED <<cPc, cDue, cSeen, cAcc, cOut, cSteady>>
  BY DEF PyStep, treeVars, configVars, readerVars
<1>2. ScanExactInv' /\ COutExactInv'
  <2>1. ScanExactInv'
    <3>1. {z \in cSeen : Matches(z) /\ Readable(z)}' = {z \in cSeen : Matches(z) /\ Readable(z)}
      BY <1>1, SameTree
    <3> QED
      BY <1>1, <3>1 DEF ScanExactInv, AccumulatorOf, Shown, Value
  <2>2. COutExactInv'
    BY <1>1, SameTree DEF COutExactInv, Exact, Shown, Value
  <2> QED
    BY <2>1, <2>2
<1>3. CASE Construct
  <2>1. PathsExactInv'
    BY <1>1, <1>3, SameTree DEF Construct, PathsExactInv, NoAnswer
  <2>2. CallExactInv' /\ POutExactInv'
    BY <1>3 DEF Construct, CallExactInv, POutExactInv
  <2> QED
    BY <1>2, <2>1, <2>2
<1>4. ASSUME NEW z \in Zones, Discover(z) PROVE ExactInv'
  <2>1. PathsExactInv'
    <3>1. /\ pPc' = "list" /\ pOut' = NoAnswer /\ pSettled' = pSettled
          /\ pTodo' = pTodo \ {z} /\ z \in pTodo
          /\ pPaths' = IF Accepts(z) THEN pPaths \cup {z} ELSE pPaths
      BY <1>4 DEF Discover, ListInv
    <3>2. SUFFICES ASSUME pSettled = Zones
                   PROVE  /\ \A u \in pTodo' : u \in Present /\ listable
                          /\ pPaths' = {u \in Present \ pTodo' : listable /\ Accepts(u)}
      BY <1>1, <3>1, SameTree DEF PathsExactInv, NoAnswer
    <3>3. pPaths = {u \in Present \ pTodo : listable /\ Accepts(u)}
      BY <1>4, <3>2 DEF Discover, PathsExactInv
    <3>4. \A u \in pTodo : u \in Present /\ listable
      BY <1>4, <3>2 DEF Discover, PathsExactInv
    <3> QED
      BY <3>1, <3>3, <3>4
  <2>2. CallExactInv' /\ POutExactInv'
    BY <1>4 DEF Discover, CallExactInv, POutExactInv
  <2> QED
    BY <1>2, <2>1, <2>2
<1>5. CASE Constructed
  <2>1. PathsExactInv'
    BY <1>1, <1>5, SameTree DEF Constructed, PathsExactInv, NoAnswer
  <2>2. CallExactInv' /\ POutExactInv'
    BY <1>5 DEF Constructed, CallExactInv, POutExactInv, NoAnswer
  <2> QED
    BY <1>2, <2>1, <2>2
<1>6. CASE Call
  <2>1. PathsExactInv'
    BY <1>1, <1>6, SameTree DEF Call, PathsExactInv
  <2>2. CallExactInv'
    <3>1. {z \in pPaths \ pTodo : Readable(z)}' = {}
      BY <1>6 DEF Call
    <3>2. AccumulatorOf(pAcc', {})
      BY <1>6, StartsWithNone DEF Call
    <3>3. AccumulatorOf(pAcc, {z \in pPaths \ pTodo : Readable(z)})'
      BY <1>1, <3>1, <3>2 DEF AccumulatorOf, Shown, Value
    <3> QED
      BY <1>6, <3>3 DEF Call, CallExactInv, TypeOK, PythonTypeOK
  <2>3. POutExactInv'
    BY <1>6 DEF Call, POutExactInv
  <2> QED
    BY <1>2, <2>1, <2>2, <2>3
<1>7. ASSUME NEW z \in Zones, ReadPath(z) PROVE ExactInv'
  <2> DEFINE Read == {y \in pPaths \ pTodo : Readable(y)}
  <2>1. PathsExactInv' /\ POutExactInv'
    BY <1>1, <1>7, SameTree DEF ReadPath, PathsExactInv, POutExactInv
  <2>2. ASSUME pSteady = Zones
        PROVE  AccumulatorOf(pAcc', {y \in pPaths' \ pTodo' : Readable(y)})
    <3>1. /\ AccumulatorOf(pAcc, Read) /\ z \in pTodo /\ z \in pPaths
          /\ pTodo' = pTodo \ {z} /\ pPaths' = pPaths
      BY <1>7, <2>2 DEF ReadPath, CallExactInv
    <3>2. CASE Readable(z)
      <4>1. {y \in pPaths' \ pTodo' : Readable(y)} = Read \cup {z}
        BY <3>1, <3>2
      <4>2. pAcc' = Add(pAcc, Value(z))
        BY <1>7, <3>2 DEF ReadPath
      <4>3. /\ Read \in SUBSET Zones /\ z \notin Read /\ \A y \in Read : Readable(y)
            /\ pAcc \in [sum : Int, max : Int, count : Nat]
        BY <3>1 DEF TypeOK, PythonTypeOK
      <4> HIDE DEF Read
      <4>4. AccumulatorOf(Add(pAcc, Value(z)), Read \cup {z})
        BY <3>1, <3>2, <4>3, AddsOne
      <4> QED
        BY <4>1, <4>2, <4>4, Zenon
    <3>3. CASE ~Readable(z)
      <4>1. {y \in pPaths' \ pTodo' : Readable(y)} = Read
        BY <3>1, <3>3
      <4>2. pAcc' = pAcc
        BY <1>7, <3>3 DEF ReadPath
      <4> QED
        BY <3>1, <4>1, <4>2, Zenon
    <3> QED
      BY <3>2, <3>3
  <2>3. CallExactInv'
    <3>1. (pTodo \subseteq pPaths)' /\ (pSettled \subseteq pSteady)'
      BY <1>7 DEF ReadPath, CallExactInv
    <3>2. ASSUME pSteady = Zones
          PROVE  AccumulatorOf(pAcc, {y \in pPaths \ pTodo : Readable(y)})'
      <4>1. {y \in pPaths \ pTodo : Readable(y)}' = {y \in pPaths' \ pTodo' : Readable(y)}
        BY <1>1, SameTree
      <4> QED
        BY <1>1, <2>2, <3>2, <4>1 DEF AccumulatorOf, Shown, Value
    <3> QED
      BY <1>7, <3>1, <3>2 DEF ReadPath, CallExactInv
  <2> QED
    BY <1>2, <2>1, <2>3
<1>8. CASE Answer
  <2>1. PathsExactInv'
    <3>1. pPc' = "built" /\ pPaths' = pPaths /\ pSettled' = pSettled
      BY <1>8 DEF Answer
    <3> QED
      BY <1>1, <1>8, <3>1, SameTree DEF Answer, PathsExactInv
  <2>2. ASSUME pSteady = Zones PROVE pOut' = Exact({z \in pPaths : Readable(z)}, Raised)
    <3> DEFINE Read == {z \in pPaths : Readable(z)}
    <3>1. {z \in pPaths \ pTodo : Readable(z)} = Read
      BY <1>8 DEF Answer
    <3>2. AccumulatorOf(pAcc, {z \in pPaths \ pTodo : Readable(z)})
      BY <1>8, <2>2 DEF Answer, CallExactInv
    <3>3. AccumulatorOf(pAcc, Read)
      BY <3>1, <3>2, Zenon
    <3>4. /\ Read \in SUBSET Zones /\ \A z \in Read : Readable(z)
          /\ pAcc \in [sum : Int, max : Int, count : Nat]
      BY DEF TypeOK, PythonTypeOK
    <3> HIDE DEF Read
    <3>5. (IF pAcc.count = 0 THEN Raised ELSE Aggregated(pAcc)) = Exact(Read, Raised)
      BY <3>3, <3>4, AnswersExactly
    <3>6. pOut' = Exact(Read, Raised)
      BY <1>8, <3>5 DEF Answer
    <3> QED
      BY <3>6 DEF Read
  <2>3. POutExactInv'
    <3>1. {z \in pPaths : Readable(z)}' = {z \in pPaths : Readable(z)}
      BY <1>1, <1>8, SameTree DEF Answer
    <3>2. pSteady' = pSteady /\ pSettled' = pSettled /\ pSettled \subseteq pSteady
      BY <1>8 DEF Answer, CallExactInv
    <3> QED
      BY <1>1, <2>2, <3>1, <3>2 DEF POutExactInv, Exact, Shown, Value
  <2>4. CallExactInv'
    BY <1>8 DEF Answer, CallExactInv
  <2> QED
    BY <1>2, <2>1, <2>3, <2>4
<1> QED
  BY <1>3, <1>4, <1>5, <1>6, <1>7, <1>8 DEF PyStep, PythonStep

\* After a change no call under way, and none that has ended, is steady any more; with no
\* zones at all there is nothing to change but the directory, and nothing to read.
LEMMA ChangeExact == ASSUME ReadersInv, ExactInv, Change PROVE ExactInv'
<1> USE DEF ReadersInv, ExactInv
<1>1. ASSUME NEW z \in Zones, ChangeZone(z), Unsettle({z}) PROVE ExactInv'
  <2>1. /\ cSteady' # Zones /\ pSteady' # Zones /\ pSettled' # Zones
        /\ pSettled \subseteq pSteady => pSettled' \subseteq pSteady'
        /\ UNCHANGED <<cPc, cOut, pPc, pTodo, pPaths, pOut>>
    BY <1>1 DEF Unsettle
  <2> QED
    BY <2>1 DEF ScanExactInv, COutExactInv, PathsExactInv, CallExactInv, POutExactInv
<1>2. CASE ChangeBase /\ Unsettle(Zones)
  <2>1. /\ cSteady' = {} /\ pSteady' = {} /\ pSettled' = {}
        /\ UNCHANGED <<aggregate, filter, cPc, cDue, cSeen, cAcc, cOut>>
        /\ UNCHANGED <<pPc, pTodo, pPaths, pAcc, pOut, numbered, zone>>
    BY <1>2 DEF ChangeBase, Unsettle, configVars, TypeOK, ReaderTypeOK, PythonTypeOK
  <2>2. CASE Zones # {}
    BY <2>1, <2>2 DEF ScanExactInv, COutExactInv, PathsExactInv, CallExactInv, POutExactInv
  <2>3. CASE Zones = {}
    <3>1. /\ cSteady = {} /\ pSteady = {} /\ pSettled = {}
          /\ cSeen = {} /\ pPaths = {} /\ Present = {} /\ Present' = {}
      BY <2>3 DEF TypeOK, ReaderTypeOK, PythonTypeOK, Present
    <3>2. ScanExactInv'
      <4>1. /\ {z \in cSeen : Matches(z) /\ Readable(z)} = {}
            /\ {z \in cSeen : Matches(z) /\ Readable(z)}' = {}
        BY <2>1, <3>1
      <4> QED
        BY <2>1, <2>3, <3>1, <4>1 DEF ScanExactInv, AccumulatorOf, Shown, Value
    <3>3. COutExactInv'
      <4>1. ReadableToC = {} /\ ReadableToC' = {}
        BY <3>1 DEF ReadableToC
      <4> QED
        BY <2>1, <2>3, <3>1, <4>1 DEF COutExactInv, Exact
    <3>4. PathsExactInv'
      BY <2>1, <3>1 DEF PathsExactInv
    <3>5. CallExactInv'
      <4>1. /\ {z \in pPaths \ pTodo : Readable(z)} = {}
            /\ {z \in pPaths \ pTodo : Readable(z)}' = {}
        BY <2>1, <3>1
      <4> QED
        BY <2>1, <2>3, <3>1, <4>1 DEF CallExactInv, AccumulatorOf, Shown, Value
    <3>6. POutExactInv'
      <4>1. {z \in pPaths : Readable(z)} = {} /\ {z \in pPaths : Readable(z)}' = {}
        BY <2>1, <3>1
      <4> QED
        BY <2>1, <2>3, <3>1, <4>1 DEF POutExactInv, Exact
    <3> QED
      BY <3>2, <3>3, <3>4, <3>5, <3>6
  <2> QED
    BY <2>2, <2>3
<1> QED
  BY <1>1, <1>2 DEF Change

----------------------------------------------------------------------------
(* The theorems                                                             *)

\* The invariant that the other theorems follow from.
THEOREM ReadersInvariant == Spec => []ReadersInv
<1>1. Init => ReadersInv
  <2> SUFFICES ASSUME Init PROVE ReadersInv
    OBVIOUS
  <2>1. TypeOK
    BY DEF Init, TreeInit, ReaderInit, PythonInit, NoZones, NoAnswer, TypeOK, TreeTypeOK,
           ReaderTypeOK, PythonTypeOK
  <2>2. ScanInv /\ COutInv /\ ListInv /\ CallInv /\ POutInv
    BY DEF Init, ReaderInit, PythonInit, NoAnswer, ScanInv, COutInv, ListInv, CallInv, POutInv
  <2> QED
    BY <2>1, <2>2 DEF ReadersInv
<1>2. ReadersInv /\ UNCHANGED vars => ReadersInv'
  <2> SUFFICES ASSUME ReadersInv, UNCHANGED vars PROVE ReadersInv'
    OBVIOUS
  <2> USE DEF vars, treeVars, configVars, readerVars, pythonVars
  <2>1. TypeOK'
    BY DEF ReadersInv, TypeOK, TreeTypeOK, ReaderTypeOK, PythonTypeOK
  <2>2. \A z : /\ Matches(z)' = Matches(z) /\ Accepts(z)' = Accepts(z)
               /\ Readable(z)' = Readable(z) /\ Value(z)' = Value(z)
    BY DEF Matches, Label, Accepts, ZoneType, Readable, Value
  <2>3. /\ Present' = Present
        /\ \A t : AsHotAs(cOut, t)' = AsHotAs(cOut, t) /\ AsHotAs(pOut, t)' = AsHotAs(pOut, t)
    BY DEF Present, AsHotAs
  <2>4. ScanInv' /\ COutInv'
    BY <2>2, <2>3 DEF ReadersInv, ScanInv, COutInv
  <2>5. ListInv' /\ CallInv' /\ POutInv'
    BY <2>2, <2>3 DEF ReadersInv, ListInv, CallInv, POutInv
  <2> QED
    BY <2>1, <2>4, <2>5 DEF ReadersInv
<1>3. ReadersInv /\ [Next]_vars => ReadersInv'
  BY <1>2, CStepKeeps, PyStepKeeps, ChangeKeeps DEF Next
<1> QED
  BY <1>1, <1>3, PTL DEF Spec

\* Every variable of both readers keeps its type; no mean is ever divided by 0.
THEOREM TypeCorrect == Spec => []TypeOK
<1>1. ReadersInv => TypeOK
  BY DEF ReadersInv
<1> QED
  BY <1>1, ReadersInvariant, PTL

\* For any tree, any changes and any filter: neither reader reports less than a
\* matching zone that it could read during the whole of the call.
THEOREM NoHotZoneIsMissed == Spec => []HotZonesAreSeen
<1>1. ReadersInv => HotZonesAreSeen
  <2> SUFFICES ASSUME ReadersInv PROVE HotZonesAreSeen
    OBVIOUS
  <2> USE DEF ReadersInv
  <2>1. ASSUME NEW z \in cSteady, Matches(z), Readable(z) PROVE AsHotAs(cOut, Value(z))
    BY <2>1 DEF TypeOK, ReaderTypeOK, ScanInv, COutInv, NoAnswer, AsHotAs
  <2>2. ASSUME NEW z \in pSteady \cap pPaths, Readable(z) PROVE AsHotAs(pOut, Value(z))
    BY <2>2 DEF TypeOK, PythonTypeOK, ListInv, CallInv, POutInv, NoAnswer, AsHotAs
  <2> QED
    BY <2>1, <2>2 DEF HotZonesAreSeen
<1> QED
  BY <1>1, ReadersInvariant, PTL

\* +INFINITY and RuntimeError mean that no zone could be read during the whole call.
THEOREM FailureIsTotal == Spec => []FailsOnlyWhenBlind
<1>1. ReadersInv => FailsOnlyWhenBlind
  BY DEF ReadersInv, TypeOK, ReaderTypeOK, ScanInv, COutInv, POutInv, NoAnswer,
         FailsOnlyWhenBlind
<1> QED
  BY <1>1, ReadersInvariant, PTL

\* What the readers have read of a tree that has not changed so far.
THEOREM ExactInvariant == Spec => []ExactInv
<1>1. Init => ExactInv
  BY DEF Init, ReaderInit, PythonInit, NoAnswer, ExactInv, ScanExactInv, COutExactInv,
         PathsExactInv, CallExactInv, POutExactInv
<1>2. ReadersInv /\ ExactInv /\ UNCHANGED vars => ExactInv'
  <2> SUFFICES ASSUME ReadersInv, ExactInv, UNCHANGED vars PROVE ExactInv'
    OBVIOUS
  <2> USE DEF vars, treeVars, configVars, readerVars, pythonVars, ExactInv
  <2>1. ScanExactInv'
    <3>1. {z \in cSeen : Matches(z) /\ Readable(z)}' = {z \in cSeen : Matches(z) /\ Readable(z)}
      BY SameTree
    <3> QED
      BY <3>1 DEF ScanExactInv, AccumulatorOf, Shown, Value
  <2>2. COutExactInv'
    BY SameTree DEF COutExactInv, Exact, Shown, Value
  <2>3. PathsExactInv'
    BY SameTree DEF PathsExactInv
  <2>4. CallExactInv'
    <3>1. {z \in pPaths \ pTodo : Readable(z)}' = {z \in pPaths \ pTodo : Readable(z)}
      BY SameTree
    <3> QED
      BY <3>1 DEF CallExactInv, AccumulatorOf, Shown, Value
  <2>5. POutExactInv'
    <3>1. {z \in pPaths : Readable(z)}' = {z \in pPaths : Readable(z)}
      BY SameTree
    <3> QED
      BY <3>1 DEF POutExactInv, Exact, Shown, Value
  <2> QED
    BY <2>1, <2>2, <2>3, <2>4, <2>5
<1>3. ReadersInv /\ ExactInv /\ [Next]_vars => ExactInv'
  BY <1>2, CStepExact, PyStepExact, ChangeExact DEF Next
<1> QED
  BY <1>1, <1>3, ReadersInvariant, PTL DEF Spec

\* A read of a tree that did not change, of any number of zones read in any order: the
\* exact maximum or mean of the zones that match and can be read, each counted once.
THEOREM SteadyReadsGiveTheAggregate == Spec => []SteadyReadsAreExact
<1>1. ReadersInv /\ ExactInv => SteadyReadsAreExact
  BY DEF ReadersInv, ExactInv, COutExactInv, POutExactInv, ReadableToC, SteadyReadsAreExact
<1> QED
  BY <1>1, ReadersInvariant, ExactInvariant, PTL

\* On a tree that has not changed since the Python reader was constructed, the daemon and
\* Python's monitor agree on the temperature, whatever the zones, the filter and the
\* aggregate, except on zones that SameForBoth excludes.
THEOREM BothReadersAgree == Spec => []ReadersAgree
<1>1. ASSUME ReadersInv, ExactInv PROVE ReadersAgree
  <2> USE <1>1 DEF ReadersInv, ExactInv
  <2> SUFFICES ASSUME cOut.kind # "none", pOut.kind # "none",
                      cSteady = Zones, pSettled = Zones, \A z \in Zones : SameForBoth(z)
               PROVE  cOut = pOut \/ (cOut.kind = "infinity" /\ pOut.kind = "raised")
    BY DEF ReadersAgree
  <2>1. \A z \in Present : /\ Matches(z) <=> ZoneType(z) \in filter
                           /\ z \in numbered
    <3> SUFFICES ASSUME NEW z \in Present
                 PROVE  (Matches(z) <=> ZoneType(z) \in filter) /\ z \in numbered
      OBVIOUS
    <3>1. zone[z].type \in TypeFiles /\ z \in Zones /\ zone[z].present
      <4>1. zone[z] \in Plugged
        BY DEF Present, TypeOK, TreeTypeOK, Absent
      <4> QED
        BY <4>1 DEF Plugged, Present
    <3>2. z \in numbered /\ (zone[z].type = "empty" => ("" \in filter <=> "unknown" \in filter))
      BY <3>1 DEF SameForBoth
    <3> QED
      BY <3>1, <3>2 DEF Matches, Label, ZoneType, TypeFiles
  <2>2. cOut = Exact(ReadableToC, Infinity)
    BY DEF COutExactInv
  <2>3. \A z \in ReadableToC : listable /\ z \in Present /\ Accepts(z)
    BY <2>1 DEF ReadableToC, Accepts, Readable
  <2>4. CASE pPc = "unbuilt"
    <3>1. pOut.kind = "raised"
      BY <2>4 DEF POutInv, TypeOK, PythonTypeOK
    <3>2. ReadableToC = {}
      BY <2>3, <2>4, <3>1 DEF POutInv, Present
    <3> QED
      BY <2>2, <3>1, <3>2 DEF Exact, Infinity
  <2>5. CASE pPc = "built"
    <3>1. pPaths = {z \in Present : listable /\ Accepts(z)}
      BY <2>5 DEF PathsExactInv
    <3>2. {z \in pPaths : Readable(z)} = ReadableToC
      BY <2>1, <2>3, <3>1 DEF ReadableToC, Accepts
    <3>3. pOut = Exact({z \in pPaths : Readable(z)}, Raised)
      BY <2>5 DEF POutExactInv, TypeOK, PythonTypeOK
    <3>4. pOut = Exact(ReadableToC, Raised)
      BY <3>2, <3>3, Zenon
    <3>5. CASE ReadableToC = {}
      BY <2>2, <3>4, <3>5 DEF Exact, Infinity, Raised
    <3>6. CASE ReadableToC # {}
      BY <2>2, <3>4, <3>6 DEF Exact
    <3> QED
      BY <3>5, <3>6
  <2>6. pPc \in {"unbuilt", "built"}
    BY DEF TypeOK, PythonTypeOK, ListInv, CallInv, NoAnswer
  <2> QED
    BY <2>4, <2>5, <2>6
<1> QED
  BY <1>1, ReadersInvariant, ExactInvariant, PTL

===============================================================================
