----------------------------- MODULE AdapterFile -----------------------------
(****************************************************************************)
(* save_adapter and load_adapter (persistence.py) on one path.              *)
(*                                                                          *)
(* safetensors writes the file in place, piece by piece: a save that is cut *)
(* short, and a load that runs while the file is written again, are what    *)
(* load_adapter has to cope with.  It opens the file twice, for the tensors *)
(* and for the metadata, and the tensors may be a map of the file.          *)
(****************************************************************************)
EXTENDS Naturals

CONSTANTS
  Adapters,         \* dicts of layers with their weights, which someone may save
  Foreign,          \* those that another program wrote, without our metadata
  Names,            \* of layers
  LayersOf,         \* the names of each adapter's layers
  Rank,             \* of each adapter's matrices
  None,
  Header,           \* the piece of a file before the tensors: its length, JSON
  Mixed             \* values that nobody has saved

ASSUME FileAssumption ==
  /\ Foreign \subseteq Adapters
  /\ LayersOf \in [Adapters -> SUBSET Names]
  /\ Rank \in [Adapters -> Nat \ {0}]
  /\ None \notin Adapters
  /\ Mixed \notin Adapters \cup {None}
  /\ Header \notin Names

VARIABLES
  file,             \* whose bytes the file holds; None while there is no file
  written,          \* the pieces of it that are there
  durable,          \* they are on the disk
  spc,              \* save_adapter: idle, begun, writing
  saving,           \* its adapter
  lpc,              \* load_adapter: where it is, or how it ended
  wanted,           \* the keys of base_layers
  tensors,          \* the adapter whose header load_file has read
  metadata,         \* the adapter whose metadata _read_metadata has returned
  result,           \* of each layer that is built: whose values it has
  quiet             \* history: the file has not changed since the load began

fileVars == <<file, written, durable>>
saveVars == <<spc, saving>>
loadVars == <<lpc, wanted, tensors, metadata, result>>
vars == <<fileVars, saveVars, loadVars, quiet>>

Pieces(a) == {Header} \cup LayersOf[a]
Complete == file # None /\ written = Pieces(file)
Busy == {"load_file", "read_metadata", "check_names", "build"}

TypeOK ==
  /\ file \in Adapters \cup {None}
  /\ written \subseteq IF file = None THEN {} ELSE Pieces(file)
  /\ durable \in BOOLEAN
  /\ spc \in {"idle", "begun", "writing"}
  /\ saving \in Adapters \cup {None}
  /\ spc # "idle" => saving # None
  /\ lpc \in Busy \cup {"idle", "returned", "raised", "died"}
  /\ wanted \subseteq Names
  /\ tensors \in Adapters \cup {None}
  /\ metadata \in Adapters \cup {None}
  /\ result \in [Names -> Adapters \cup {None, Mixed}]
  /\ quiet \in BOOLEAN

Init ==
  /\ file = None
  /\ written = {}
  /\ durable = TRUE
  /\ spc = "idle"
  /\ saving = None
  /\ lpc = "idle"
  /\ wanted = {}
  /\ tensors = None
  /\ metadata = None
  /\ result = [n \in Names |-> None]
  /\ quiet = TRUE

----------------------------------------------------------------------------
(* save_adapter.  One save at a time: two that overlap on one path would    *)
(* write into each other's file, and nothing says that they may.            *)

\* The checks, copies of the tensors, the metadata, mkdir.
BeginSave(a) ==
  /\ spc = "idle"
  /\ LayersOf[a] # {}
  /\ spc' = "begun"
  /\ saving' = a
  /\ UNCHANGED <<fileVars, loadVars, quiet>>

\* Mutant: what the file held before is not cut off.
CreateKeeps ==
  /\ spc = "begun"
  /\ spc' = "writing"
  /\ file' = saving
  /\ written' = written
  /\ durable' = FALSE
  /\ quiet' = FALSE
  /\ UNCHANGED <<saving, loadVars>>

\* save_file opens the file and truncates it.
Create ==
  /\ spc = "begun"
  /\ spc' = "writing"
  /\ file' = saving
  /\ written' = {}
  /\ durable' = FALSE
  /\ quiet' = FALSE
  /\ UNCHANGED <<saving, loadVars>>

\* The header is first; safetensors chooses the order of the tensors.
Write(piece) ==
  /\ spc = "writing"
  /\ piece \in Pieces(saving) \ written
  /\ piece # Header => Header \in written
  /\ written' = written \cup {piece}
  /\ quiet' = FALSE
  /\ UNCHANGED <<file, durable, saveVars, loadVars>>

EndSave ==
  /\ spc = "writing"
  /\ Complete
  /\ spc' = "idle"
  /\ UNCHANGED <<fileVars, saving, loadVars, quiet>>

\* OSError, a full disk, the end of the saving process.
SaveFails ==
  /\ spc # "idle"
  /\ spc' = "idle"
  /\ UNCHANGED <<fileVars, saving, loadVars, quiet>>

\* The kernel writes back what the file holds.  Nobody calls fsync().
WriteBack ==
  /\ file # None
  /\ ~durable
  /\ spc = "idle"
  /\ durable' = TRUE
  /\ UNCHANGED <<file, written, saveVars, loadVars, quiet>>

----------------------------------------------------------------------------
(* load_adapter                                                             *)

BeginLoad(names) ==
  /\ lpc \notin Busy
  /\ lpc' = IF file = None THEN "raised" ELSE "load_file"
  /\ wanted' = names
  /\ tensors' = None
  /\ metadata' = None
  /\ result' = [n \in Names |-> None]
  /\ quiet' = TRUE
  /\ UNCHANGED <<fileVars, saveVars>>

\* load_file reads the header and compares it with the length of the file.
LoadFile ==
  /\ lpc = "load_file"
  /\ IF Complete
       THEN lpc' = "read_metadata" /\ tensors' = file
       ELSE lpc' = "raised" /\ UNCHANGED tensors
  /\ UNCHANGED <<fileVars, saveVars, wanted, metadata, result, quiet>>

\* The second open: None, or JSON that does not parse, while the header is not
\* there; a header without our key.
ReadMetadata ==
  /\ lpc = "read_metadata"
  /\ IF Header \in written /\ file \notin Foreign
       THEN lpc' = "check_names" /\ metadata' = file
       ELSE lpc' = "raised" /\ UNCHANGED metadata
  /\ UNCHANGED <<fileVars, saveVars, wanted, tensors, result, quiet>>

\* Mutant: saved layers that nobody asked for are left out.
CheckExtra ==
  /\ lpc = "check_names"
  /\ lpc' = IF wanted \subseteq LayersOf[metadata] THEN "build" ELSE "raised"
  /\ UNCHANGED <<fileVars, saveVars, wanted, tensors, metadata, result, quiet>>

CheckNames ==
  /\ lpc = "check_names"
  /\ lpc' = IF LayersOf[metadata] = wanted THEN "build" ELSE "raised"
  /\ UNCHANGED <<fileVars, saveVars, wanted, tensors, metadata, result, quiet>>

Unbuilt == {n \in wanted : result[n] = None}

\* The layer's metadata and tensors are there, and copy_ takes them: they have the
\* same shape, or rank 1, which it repeats.
Fits(n) ==
  /\ n \in LayersOf[metadata] \cap LayersOf[tensors]
  /\ Rank[tensors] \in {1, Rank[metadata]}

SameLayout(a, b) == LayersOf[a] = LayersOf[b] /\ Rank[a] = Rank[b]

\* What copy_ finds: what load_file saw or, where the tensor is a map, what the
\* file holds at its place now.
Found(n) ==
  {tensors} \cup
    IF file = tensors /\ written = Pieces(file) THEN {}
    ELSE IF SameLayout(file, tensors) /\ n \in written THEN {file}
    ELSE {Mixed}

\* Mutant: a layer without a tensor keeps its initial values.
BuildLayerAnyway(n) ==
  /\ lpc = "build"
  /\ n \in Unbuilt
  /\ result' = [result EXCEPT ![n] = metadata]
  /\ UNCHANGED <<fileVars, saveVars, lpc, wanted, tensors, metadata, quiet>>

BuildLayer(n) ==
  /\ lpc = "build"
  /\ n \in Unbuilt
  /\ IF Fits(n)
       THEN /\ \E v \in Found(n) : result' = [result EXCEPT ![n] = v]
            /\ UNCHANGED lpc
       ELSE lpc' = "raised" /\ UNCHANGED result
  /\ UNCHANGED <<fileVars, saveVars, wanted, tensors, metadata, quiet>>

\* A map of a file that has been cut short ends in SIGBUS.
BusError ==
  /\ lpc = "build"
  /\ Unbuilt # {}
  /\ ~Complete
  /\ lpc' = "died"
  /\ UNCHANGED <<fileVars, saveVars, wanted, tensors, metadata, result, quiet>>

Return ==
  /\ lpc = "build"
  /\ Unbuilt = {}
  /\ lpc' = "returned"
  /\ UNCHANGED <<fileVars, saveVars, wanted, tensors, metadata, result, quiet>>

----------------------------------------------------------------------------

\* The power fails: both processes are gone, and what was not written back may be.
PowerLoss ==
  /\ spc' = "idle"
  /\ lpc' = IF lpc \in Busy THEN "died" ELSE lpc
  /\ written' \in IF durable THEN {written} ELSE SUBSET written
  /\ durable' = TRUE
  /\ quiet' = FALSE
  /\ UNCHANGED <<file, saving, wanted, tensors, metadata, result>>

Save == (\E a \in Adapters : BeginSave(a)) \/ Create \/ EndSave \/ SaveFails
        \/ (\E piece \in Names \cup {Header} : Write(piece))

Load == (\E names \in SUBSET Names : BeginLoad(names)) \/ LoadFile \/ ReadMetadata
        \/ CheckNames \/ (\E n \in Names : BuildLayer(n)) \/ BusError \/ Return

Next == Save \/ WriteBack \/ Load \/ PowerLoss

Spec == Init /\ [][Next]_vars

----------------------------------------------------------------------------
Returned == lpc = "returned"

\* A load during which nobody wrote the file returns the adapter that was saved
\* last, all of it, and with its own metadata, on exactly the layers it was saved
\* for; after a crash, a full disk or a power loss it returns nothing
\* (persistence.py:83-92, 105-110).
QuietLoadsAreExact ==
  Returned /\ quiet =>
    /\ Complete
    /\ tensors = file /\ metadata = file
    /\ LayersOf[file] = wanted
    /\ \A n \in wanted : result[n] = file

\* "A silent partial load would be worse than an explicit error": whatever was
\* written meanwhile, a load that returns has built every layer of base_layers, and
\* each from a tensor the opened file had for it (persistence.py:105-110, 132-141).
NoPartialLoad ==
  Returned =>
    /\ \A n \in wanted : result[n] # None
    /\ wanted \subseteq LayersOf[tensors]
    /\ \A n \in Names \ wanted : result[n] = None

\* Saves and loads, piece by piece, amount to a place that has a whole adapter or none: a
\* load returns what is there, or has a reason to fail that the docs name
\* (persistence.py:83-92, 95-141).
LoadIs ==
  IF lpc \in Busy THEN "under way"
  ELSE IF lpc = "idle" THEN "none"
  ELSE IF lpc = "returned" THEN lpc
  ELSE "failed"

Store == INSTANCE AdapterStore WITH
  stored <- IF Complete THEN file ELSE None,
  safe <- durable,
  pending <- IF spc = "idle" THEN None ELSE saving,
  load <- LoadIs,
  given <- IF Returned THEN result ELSE [n \in Names |-> None]

ActsAsStore == Store!Spec

=============================================================================
