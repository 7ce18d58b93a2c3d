--------------------------- MODULE AdapterFileProofs ---------------------------
(****************************************************************************)
(* What a load returns, for all adapters, layers and ranks, whatever saves, *)
(* failures, crashes and power losses there have been.                      *)
(****************************************************************************)
EXTENDS AdapterFile, TLAPS

\* Who writes the file holds its adapter.
SaveInv ==
  /\ spc # "idle" => saving # None
  /\ spc = "writing" => file = saving

Before == lpc \in {"load_file", "read_metadata", "check_names"}
Opened == lpc \in {"read_metadata", "check_names", "build", "returned"}
Described == lpc \in {"check_names", "build", "returned"}
Matched == lpc \in {"build", "returned"}

\* What a load that has come so far has found, and what each layer was built from.
LoadInv ==
  /\ \A n \in Names \ wanted : result[n] = None
  /\ Before => \A n \in Names : result[n] = None
  /\ Opened => tensors # None
  /\ Described => metadata # None /\ metadata \notin Foreign
  /\ Matched =>
       /\ LayersOf[metadata] = wanted
       /\ \A n \in wanted : result[n] # None => n \in LayersOf[tensors]
  /\ lpc = "returned" => \A n \in wanted : result[n] # None

\* Both looks at a file that nobody writes are of the same complete file.
QuietInv ==
  quiet =>
    /\ Opened => Complete /\ tensors = file
    /\ Described => metadata = file
    /\ Matched => \A n \in wanted : result[n] \in {None, file}

FileInv == TypeOK /\ SaveInv /\ LoadInv /\ QuietInv

USE FileAssumption
USE DEF Busy, Pieces, fileVars, saveVars, loadVars

----------------------------------------------------------------------------

\* save_adapter keeps the invariant: it only touches the file, and then no load is
\* quiet any more.
LEMMA SaveKeeps == FileInv /\ (Save \/ WriteBack) => FileInv'
<1> SUFFICES ASSUME FileInv, Save \/ WriteBack PROVE FileInv'
  OBVIOUS
<1> USE DEF FileInv
<1>1. ASSUME NEW a \in Adapters, BeginSave(a) PROVE FileInv'
  BY <1>1 DEF BeginSave, TypeOK, SaveInv, LoadInv, QuietInv, Complete, Before, Opened,
              Described, Matched
<1>2. CASE Create
  BY <1>2 DEF Create, TypeOK, SaveInv, LoadInv, QuietInv, Before, Opened, Described, Matched
<1>3. ASSUME NEW piece \in Names \cup {Header}, Write(piece) PROVE FileInv'
  BY <1>3 DEF Write, TypeOK, SaveInv, LoadInv, QuietInv, Before, Opened, Described, Matched
<1>4. CASE EndSave \/ SaveFails
  <2>1. UNCHANGED <<file, written, lpc, wanted, tensors, metadata, result, quiet>>
    BY <1>4 DEF EndSave, SaveFails
  <2>2. TypeOK' /\ SaveInv'
    BY <1>4, <2>1 DEF EndSave, SaveFails, TypeOK, SaveInv
  <2> QED
    BY <2>1, <2>2 DEF LoadInv, QuietInv, Complete, Before, Opened, Described, Matched
<1>5. CASE WriteBack
  BY <1>5 DEF WriteBack, TypeOK, SaveInv, LoadInv, QuietInv, Complete, Before, Opened,
              Described, Matched
<1> QED
  BY <1>1, <1>2, <1>3, <1>4, <1>5 DEF Save

----------------------------------------------------------------------------

\* A layer is built from what load_file saw, or from what somebody has written since.
LEMMA BuildKeeps ==
  ASSUME FileInv, NEW n \in Names, BuildLayer(n)
  PROVE  FileInv'
<1> USE DEF FileInv, Before, Opened, Described, Matched
<1>1. CASE Fits(n)
  <2>1. PICK v \in Found(n) : result' = [result EXCEPT ![n] = v] /\ UNCHANGED lpc
    BY <1>1 DEF BuildLayer
  <2>2. tensors \in Adapters /\ metadata \in Adapters /\ lpc = "build"
    BY DEF BuildLayer, LoadInv, TypeOK
  <2>3. v \in Adapters \cup {Mixed}
    BY <2>1, <2>2 DEF Found, TypeOK, SameLayout
  <2>4. n \in wanted /\ n \in LayersOf[tensors]
    BY <1>1 DEF BuildLayer, Unbuilt, Fits
  <2>5. quiet => v = file
    BY <2>1, <2>2 DEF Found, QuietInv, Complete
  <2>6. TypeOK'
    BY <2>1, <2>3 DEF BuildLayer, TypeOK
  <2>7. LoadInv'
    BY <2>1, <2>2, <2>3, <2>4 DEF BuildLayer, TypeOK, LoadInv
  <2>8. QuietInv'
    BY <2>1, <2>2, <2>5 DEF BuildLayer, TypeOK, QuietInv, Complete
  <2>9. SaveInv'
    BY DEF BuildLayer, SaveInv
  <2> QED
    BY <2>6, <2>7, <2>8, <2>9
<1>2. CASE ~Fits(n)
  BY <1>2 DEF BuildLayer, TypeOK, SaveInv, LoadInv, QuietInv, Complete
<1> QED
  BY <1>1, <1>2

\* load_adapter keeps the invariant, step by step.
LEMMA LoadKeeps == FileInv /\ Load => FileInv'
<1> SUFFICES ASSUME FileInv, Load PROVE FileInv'
  OBVIOUS
<1> USE DEF FileInv, Before, Opened, Described, Matched
<1>1. ASSUME NEW names \in SUBSET Names, BeginLoad(names) PROVE FileInv'
  BY <1>1 DEF BeginLoad, TypeOK, SaveInv, LoadInv, QuietInv
<1>2. CASE LoadFile
  BY <1>2 DEF LoadFile, TypeOK, SaveInv, LoadInv, QuietInv, Complete
<1>3. CASE ReadMetadata
  <2>1. Header \in written /\ file \notin Foreign => file \in Adapters
    BY DEF TypeOK
  <2> QED
    BY <1>3, <2>1 DEF ReadMetadata, TypeOK, SaveInv, LoadInv, QuietInv, Complete
<1>4. CASE CheckNames
  <2>1. \A n \in Names : result[n] = None
    BY <1>4 DEF CheckNames, LoadInv
  <2> QED
    BY <1>4, <2>1 DEF CheckNames, TypeOK, SaveInv, LoadInv, QuietInv, Complete
<1>5. ASSUME NEW n \in Names, BuildLayer(n) PROVE FileInv'
  BY <1>5, BuildKeeps
<1>6. CASE BusError
  BY <1>6 DEF BusError, TypeOK, SaveInv, LoadInv, QuietInv, Complete
<1>7. CASE Return
  BY <1>7 DEF Return, Unbuilt, TypeOK, SaveInv, LoadInv, QuietInv, Complete
<1> QED
  BY <1>1, <1>2, <1>3, <1>4, <1>5, <1>6, <1>7 DEF Load

\* A power loss ends a load that was under way, and whatever is left of the file is a
\* part of what was there.
LEMMA PowerLossKeeps == FileInv /\ PowerLoss => FileInv'
<1> SUFFICES ASSUME FileInv, PowerLoss PROVE FileInv'
  OBVIOUS
<1>1. written' \subseteq written
  BY DEF PowerLoss
<1> QED
  BY <1>1 DEF PowerLoss, FileInv, TypeOK, SaveInv, LoadInv, QuietInv, Before, Opened,
              Described, Matched

\* The invariant of the file, of its writer and of its reader.
THEOREM FileInvariant == Spec => []FileInv
<1>1. Init => FileInv
  BY DEF Init, FileInv, TypeOK, SaveInv, LoadInv, QuietInv, Before, Opened, Described, Matched
<1>2. FileInv /\ [Next]_vars => FileInv'
  <2> SUFFICES ASSUME FileInv, [Next]_vars PROVE FileInv'
    OBVIOUS
  <2>1. CASE UNCHANGED vars
    BY <2>1 DEF vars, FileInv, TypeOK, SaveInv, LoadInv, QuietInv, Complete, Before, Opened,
                Described, Matched
  <2> QED
    BY <2>1, SaveKeeps, LoadKeeps, PowerLossKeeps DEF Next
<1> QED
  BY <1>1, <1>2, PTL DEF Spec

\* The file never holds a piece of another adapter than the one that was saved last.
THEOREM TypeCorrect == Spec => []TypeOK
<1>1. FileInv => TypeOK
  BY DEF FileInv
<1> QED
  BY <1>1, FileInvariant, PTL

\* A load that nobody disturbed returns what was saved last, all of it.
THEOREM UndisturbedLoadsAreExact == Spec => []QuietLoadsAreExact
<1>1. FileInv => QuietLoadsAreExact
  BY DEF FileInv, LoadInv, QuietInv, QuietLoadsAreExact, Returned, Before, Opened, Described, Matched
<1> QED
  BY <1>1, FileInvariant, PTL

\* No load that returns is partial, whoever writes the file meanwhile.
THEOREM NoLoadIsPartial == Spec => []NoPartialLoad
<1>1. FileInv => NoPartialLoad
  BY DEF FileInv, LoadInv, NoPartialLoad, Returned, Matched
<1> QED
  BY <1>1, FileInvariant, PTL

----------------------------------------------------------------------------
(* The store                                                                *)

\* While the file is being written nothing of it is safe.
UnsafeInv == spc = "writing" => ~durable

Stored == IF Complete THEN file ELSE None
Pending == IF spc = "idle" THEN None ELSE saving
Given == IF Returned THEN result ELSE [n \in Names |-> None]

USE DEF Stored, Pending, Given, LoadIs, Returned

\* A write is not safe before the save is over.
LEMMA UnsafeStep == UnsafeInv /\ [Next]_vars => UnsafeInv'
BY DEF UnsafeInv, Next, Save, Load, BeginSave, Create, Write, EndSave, SaveFails, WriteBack,
       BeginLoad, LoadFile, ReadMetadata, CheckNames, BuildLayer, BusError, Return, PowerLoss,
       vars

\* The saves are the store's: what was there goes first, and the adapter is there with
\* its last piece.
LEMMA SavesAreStoreSteps ==
  ASSUME FileInv, UnsafeInv, Save \/ WriteBack
  PROVE  [Store!Next]_(Store!storeVars)
<1> USE DEF FileInv, Store!storeVars
<1>1. ASSUME NEW a \in Adapters, BeginSave(a) PROVE Store!BeginSave(a)
  BY <1>1 DEF BeginSave, Store!BeginSave, Complete
<1>2. CASE Create
  <2>1. Pending # None /\ Pending' = Pending
    BY <1>2 DEF Create, SaveInv
  <2>2. Stored' = None
    BY <1>2 DEF Create, Complete
  <2>3. Store!Clear
    BY <1>2, <2>1, <2>2 DEF Create, Store!Clear
  <2> QED
    BY <2>3 DEF Store!Next
<1>3. ASSUME NEW piece \in Names \cup {Header}, Write(piece) PROVE Store!Fill
  <2>1. Pending # None /\ Pending' = Pending
    BY <1>3 DEF Write, SaveInv
  <2>2. Stored = None /\ Stored' \in {None, Pending}
    BY <1>3 DEF Write, SaveInv, Complete
  <2>3. ~durable /\ UNCHANGED durable
    BY <1>3 DEF Write, UnsafeInv
  <2>4. durable = FALSE
    BY <2>3 DEF TypeOK
  <2> QED
    BY <1>3, <2>1, <2>2, <2>3, <2>4 DEF Write, Store!Fill
<1>4. CASE EndSave \/ SaveFails
  <2>1. Pending # None /\ Pending' = None
    BY <1>4 DEF EndSave, SaveFails, SaveInv
  <2>2. UNCHANGED <<Stored, durable, LoadIs, wanted, Given, quiet>>
    BY <1>4 DEF EndSave, SaveFails, Complete
  <2> QED
    BY <2>1, <2>2 DEF Store!EndSave, Store!Next
<1>5. CASE WriteBack
  <2>1. Store!WriteBack
    BY <1>5 DEF WriteBack, Store!WriteBack, Complete
  <2> QED
    BY <2>1 DEF Store!Next
<1> QED
  BY <1>1, <1>2, <1>3, <1>4, <1>5 DEF Save, Store!Next

\* A load that gives up has a reason: somebody has written meanwhile, or the file is not
\* one that it could return.
LEMMA FailureHasReason ==
  ASSUME FileInv, lpc \in Busy, lpc' \in {"raised", "died"},
         LoadFile \/ ReadMetadata \/ CheckNames \/ BusError \/ \E n \in Names : BuildLayer(n)
  PROVE  Store!Fail
<1> USE DEF FileInv
<1>1. UNCHANGED <<fileVars, saveVars, wanted, result, quiet>>
  BY DEF LoadFile, ReadMetadata, CheckNames, BusError, BuildLayer
<1>2. UNCHANGED <<Stored, durable, Pending, wanted, Given, quiet>>
  BY <1>1 DEF Complete
<1>3. ASSUME quiet, Complete, file \notin Foreign, LayersOf[file] = wanted PROVE FALSE
  <2>1. LoadFile => lpc' = "read_metadata"
    BY <1>3 DEF LoadFile
  <2>2. ReadMetadata => lpc' = "check_names"
    BY <1>3 DEF ReadMetadata, Complete
  <2>3. CheckNames => lpc' = "build"
    BY <1>3 DEF CheckNames, QuietInv, Described
  <2>4. ~BusError
    BY <1>3 DEF BusError
  <2>5. ASSUME NEW n \in Names, BuildLayer(n) PROVE lpc' = "build"
    <3>1. tensors = file /\ metadata = file /\ n \in wanted /\ lpc = "build"
      BY <1>3, <2>5 DEF BuildLayer, QuietInv, Opened, Described, Unbuilt
    <3>2. Fits(n)
      BY <1>3, <3>1 DEF Fits
    <3> QED
      BY <2>5, <3>1, <3>2 DEF BuildLayer
  <2> QED
    BY <2>1, <2>2, <2>3, <2>4, <2>5
<1>4. LoadIs = "under way" /\ LoadIs' = "failed"
  OBVIOUS
<1>5. ~(quiet /\ Store!Loadable)
  BY <1>3 DEF Store!Loadable
<1> QED
  BY <1>2, <1>4, <1>5 DEF Store!Fail

\* The loads are the store's.
LEMMA LoadsAreStoreSteps ==
  ASSUME FileInv, Load
  PROVE  [Store!Next]_(Store!storeVars)
<1> USE DEF FileInv, Store!storeVars
<1>1. ASSUME NEW names \in SUBSET Names, BeginLoad(names) PROVE Store!BeginLoad(names)
  <2>1. UNCHANGED <<Stored, durable, Pending>>
    BY <1>1 DEF BeginLoad, Complete
  <2>2. LoadIs # "under way" /\ Given' = [n \in Names |-> None]
    BY <1>1 DEF BeginLoad
  <2>3. LoadIs' = "under way" \/ (LoadIs' = "failed" /\ Stored = None)
    BY <1>1 DEF BeginLoad, Complete
  <2> QED
    BY <1>1, <2>1, <2>2, <2>3 DEF BeginLoad, Store!BeginLoad, Store!Nothing
<1>2. CASE LoadFile \/ ReadMetadata \/ CheckNames \/ BusError \/ \E n \in Names : BuildLayer(n)
  <2>1. lpc \in Busy /\ lpc' \in Busy \cup {"raised", "died"}
    BY <1>2 DEF LoadFile, ReadMetadata, CheckNames, BusError, BuildLayer
  <2>2. ASSUME lpc' \in Busy PROVE UNCHANGED Store!storeVars
    <3>1. UNCHANGED <<fileVars, saveVars, wanted, quiet>>
      BY <1>2 DEF LoadFile, ReadMetadata, CheckNames, BusError, BuildLayer
    <3> QED
      BY <2>1, <2>2, <3>1 DEF Complete
  <2> QED
    BY <1>2, <2>1, <2>2, FailureHasReason DEF Store!Next
<1>3. CASE Return
  <2>1. /\ lpc = "build" /\ lpc' = "returned"
        /\ \A n \in wanted : result[n] # None
        /\ UNCHANGED <<fileVars, saveVars, wanted, result, quiet>>
    BY <1>3 DEF Return, Unbuilt
  <2>2. Given' = result /\ result \in [Names -> Adapters \cup {None, Mixed}]
    BY <2>1 DEF TypeOK
  <2>3. \A n \in Names : result[n] # None <=> n \in wanted
    BY <2>1 DEF LoadInv
  <2>4. UNCHANGED <<Stored, durable, Pending, wanted, quiet>>
    BY <2>1 DEF Complete
  <2>5. quiet => Store!Loadable /\ \A n \in wanted : result[n] = Stored
    <3> SUFFICES ASSUME quiet PROVE Store!Loadable /\ \A n \in wanted : result[n] = Stored
      OBVIOUS
    <3>1. Complete /\ metadata = file /\ LayersOf[file] = wanted
      BY <2>1 DEF QuietInv, LoadInv, Opened, Described, Matched
    <3>2. \A n \in wanted : result[n] = file
      BY <2>1 DEF QuietInv, Matched
    <3>3. file \notin Foreign
      BY <2>1, <3>1 DEF LoadInv, Described
    <3> QED
      BY <3>1, <3>2, <3>3 DEF Store!Loadable, Complete
  <2>6. LoadIs = "under way" /\ LoadIs' = "returned"
    BY <2>1
  <2> QED
    BY <2>2, <2>3, <2>4, <2>5, <2>6 DEF Store!Return, Store!Next
<1> QED
  BY <1>1, <1>2, <1>3 DEF Load, Store!Next

\* So are power losses: they take what is not safe, whole.
LEMMA PowerLossesAreStoreSteps ==
  ASSUME FileInv, PowerLoss
  PROVE  Store!PowerLoss
<1> USE DEF FileInv
<1>1. Stored' \in {Stored} \cup IF durable THEN {} ELSE {None}
  <2>1. CASE durable
    BY <2>1 DEF PowerLoss, Complete
  <2>2. CASE ~durable
    <3>1. written' \subseteq written /\ file' = file
      BY DEF PowerLoss
    <3>2. Complete' => Complete
      BY <3>1 DEF Complete, TypeOK
    <3> QED
      BY <2>2, <3>1, <3>2
  <2> QED
    BY <2>1, <2>2
<1>2. Pending' = None
  BY DEF PowerLoss
<1>3. LoadIs' = (IF LoadIs = "under way" THEN "failed" ELSE LoadIs) /\ Given' = Given
  BY DEF PowerLoss
<1> QED
  BY <1>1, <1>2, <1>3 DEF PowerLoss, Store!PowerLoss

\* save_adapter and load_adapter implement AdapterStore: whatever is cut short or
\* overlaps, the path has a whole adapter or none, an undisturbed load returns it, and
\* one that fails has a reason to.
THEOREM FileActsAsStore == Spec => ActsAsStore
<1>1. Init => Store!Init /\ UnsafeInv
  BY DEF Init, Store!Init, Store!Nothing, Complete, UnsafeInv
<1>2. FileInv /\ UnsafeInv /\ [Next]_vars => [Store!Next]_(Store!storeVars)
  <2> SUFFICES ASSUME FileInv, UnsafeInv, [Next]_vars
               PROVE  [Store!Next]_(Store!storeVars)
    OBVIOUS
  <2>1. UNCHANGED vars => UNCHANGED Store!storeVars
    BY DEF vars, Store!storeVars, Complete
  <2> QED
    BY <2>1, SavesAreStoreSteps, LoadsAreStoreSteps, PowerLossesAreStoreSteps
       DEF Next, Store!Next
<1> QED
  BY <1>1, <1>2, UnsafeStep, FileInvariant, PTL DEF Spec, ActsAsStore, Store!Spec

================================================================================
