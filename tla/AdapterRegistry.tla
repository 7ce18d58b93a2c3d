--------------------------- MODULE AdapterRegistry ---------------------------
(****************************************************************************)
(* What AdapterManager promises: adapters come and go as a whole, within a  *)
(* budget, with memory for each of their layers, and one resident adapter   *)
(* may be active.  One load may go wrong: an exception out of the allocator *)
(* leaves the adapter with a part of its memory until it is unloaded.       *)
(****************************************************************************)
EXTENDS Naturals, Functions

CONSTANTS AdapterIds, Layers, NoAdapter, Size, Budget

VARIABLES
  resident,
  layersOf,         \* of each resident adapter
  memory,           \* pairs of an adapter and a layer it has memory for
  active

registryVars == <<resident, layersOf, memory, active>>

BytesOf(layers) == SumFunctionOnSet(Size, layers)

\* A layer without bytes needs no memory.
MemoryFor(a, layers) == {a} \X {layer \in layers : Size[layer] > 0}

BytesWith(held, adapters) == SumFunctionOnSet([a \in AdapterIds |-> BytesOf(held[a])], adapters)
ResidentBytes == BytesWith(layersOf, resident)

Init ==
  /\ resident = {}
  /\ layersOf = [a \in AdapterIds |-> {}]
  /\ memory = {}
  /\ active = NoAdapter

Admit(a, layers) ==
  /\ a \notin resident
  /\ ResidentBytes + BytesOf(layers) <= Budget
  /\ resident' = resident \cup {a}
  /\ layersOf' = [layersOf EXCEPT ![a] = layers]
  /\ UNCHANGED active

Load(a, layers) == Admit(a, layers) /\ memory' = memory \cup MemoryFor(a, layers)

LoadInterrupted(a, layers) ==
  /\ Admit(a, layers)
  /\ \E part \in SUBSET MemoryFor(a, layers) : memory' = memory \cup part

Unload(a) ==
  /\ a \in resident
  /\ resident' = resident \ {a}
  /\ layersOf' = [layersOf EXCEPT ![a] = {}]
  /\ memory' = {m \in memory : m[1] # a}
  /\ active' = IF active = a THEN NoAdapter ELSE active

Activate(a) ==
  /\ a \in resident
  /\ active' = a
  /\ UNCHANGED <<resident, layersOf, memory>>

\* The manager is dropped and replaced.
Renew == Init'

Next ==
  \/ \E a \in AdapterIds, layers \in SUBSET Layers :
       Load(a, layers) \/ LoadInterrupted(a, layers)
  \/ \E a \in AdapterIds : Unload(a) \/ Activate(a)
  \/ Renew

Spec == Init /\ [][Next]_registryVars

==============================================================================
