---------------------------- MODULE AdapterManager ----------------------------
(****************************************************************************)
(* AdapterManager (adapter_manager.py), backed by the EloraAllocator, and   *)
(* the gradient gates of the layers it holds (plugin_layer.py).             *)
(*                                                                          *)
(* The manager has one caller.  A load asks the allocator layer by layer,   *)
(* and each request may be refused or raise.                                *)
(****************************************************************************)
EXTENDS EloraAllocator, Functions

CONSTANTS
  AdapterIds,
  NoAdapter,
  Size,             \* parameter_bytes() of each layer
  Budget            \* memory_budget_bytes

ASSUME ManagerAssumption ==
  /\ NoAdapter \notin AdapterIds
  /\ IsFiniteSet(Layers)
  /\ Size \in [Layers -> Nat]
  /\ Budget \in Nat \ {0}

VARIABLES
  adapters,         \* the keys of _adapters
  layersOf,         \* the layers of each record; an adapter may share layers with another
  nativeIds,        \* _native_ids; 0 for an adapter without one
  nextId,           \* _next_native_id
  active,           \* _active_adapter_id
  loading,          \* the adapter inside load_adapter, or NoAdapter
  todo,             \* its layers that the allocator has not been asked for
  gated             \* the layers with gradient-gate hooks

managerVars == <<adapters, layersOf, nativeIds, nextId, active, loading, todo, gated>>
vars == <<managerVars, allocatorVars>>

TypeOK ==
  /\ AllocatorTypeOK
  /\ adapters \subseteq AdapterIds
  /\ layersOf \in [AdapterIds -> SUBSET Layers]
  /\ nativeIds \in [AdapterIds -> Ids \cup {0}]
  /\ nextId \in 1..MaxIds + 1
  /\ active \in AdapterIds \cup {NoAdapter}
  /\ loading \in AdapterIds \cup {NoAdapter}
  /\ todo \subseteq Layers
  /\ gated \subseteq Layers

Init ==
  /\ adapters = {}
  /\ layersOf = [a \in AdapterIds |-> {}]
  /\ nativeIds = [a \in AdapterIds |-> 0]
  /\ nextId = 1
  /\ active = NoAdapter
  /\ loading = NoAdapter
  /\ todo = {}
  /\ gated = {}
  /\ AllocatorInit

Idle == loading = NoAdapter

BytesOf(layers) == SumFunctionOnSet(Size, layers)
ResidentBytes == SumFunctionOnSet([a \in AdapterIds |-> BytesOf(layersOf[a])], adapters)

----------------------------------------------------------------------------
(* load_adapter                                                             *)

\* Mutant: the adapter's own id for its native id.
EnterOwnId(a, layers) ==
  /\ adapters' = adapters \cup {a}
  /\ layersOf' = [layersOf EXCEPT ![a] = layers]
  /\ nativeIds' = [nativeIds EXCEPT ![a] = a]
  /\ nextId' = nextId + 1
  /\ loading' = a
  /\ todo' = layers
  /\ UNCHANGED <<active, gated, allocatorVars>>

\* The record, and the id, are entered before the allocator is asked.
Enter(a, layers) ==
  /\ adapters' = adapters \cup {a}
  /\ layersOf' = [layersOf EXCEPT ![a] = layers]
  /\ nativeIds' = [nativeIds EXCEPT ![a] = nextId]
  /\ nextId' = nextId + 1
  /\ loading' = a
  /\ todo' = layers
  /\ UNCHANGED <<active, gated, allocatorVars>>

\* The checks.  The bound MaxIds is not in the code.
BeginLoad(a, layers) ==
  /\ Idle
  /\ a \notin adapters
  /\ ResidentBytes + BytesOf(layers) <= Budget
  /\ nextId <= MaxIds
  /\ Enter(a, layers)

\* A layer without bytes is passed over.
SkipEmpty(layer) ==
  /\ layer \in todo
  /\ Size[layer] = 0
  /\ todo' = todo \ {layer}
  /\ UNCHANGED <<adapters, layersOf, nativeIds, nextId, active, loading, gated, allocatorVars>>

Reserve(layer) ==
  /\ layer \in todo
  /\ Size[layer] > 0
  /\ AllocateKvContext(nativeIds[loading], layer)
  /\ todo' = todo \ {layer}
  /\ UNCHANGED <<adapters, layersOf, nativeIds, nextId, active, loading, gated>>

\* Mutant: the blocks reserved so far stay.
RollBackRecordOnly(layer) ==
  /\ layer \in todo
  /\ Size[layer] > 0
  /\ adapters' = adapters \ {loading}
  /\ layersOf' = [layersOf EXCEPT ![loading] = {}]
  /\ nativeIds' = [nativeIds EXCEPT ![loading] = 0]
  /\ loading' = NoAdapter
  /\ todo' = {}
  /\ UNCHANGED <<nextId, active, gated, allocatorVars>>

\* allocate_kv_context returns None: the load is taken back.
RollBack(layer) ==
  /\ layer \in todo
  /\ Size[layer] > 0
  /\ ExecuteDependencyEviction(nativeIds[loading])
  /\ adapters' = adapters \ {loading}
  /\ layersOf' = [layersOf EXCEPT ![loading] = {}]
  /\ nativeIds' = [nativeIds EXCEPT ![loading] = 0]
  /\ loading' = NoAdapter
  /\ todo' = {}
  /\ UNCHANGED <<nextId, active, gated>>

\* allocate_kv_context raises: load_adapter does not catch it.
Raise(layer) ==
  /\ layer \in todo
  /\ Size[layer] > 0
  /\ AllocateThrows(nativeIds[loading], layer)
  /\ loading' = NoAdapter
  /\ todo' = {}
  /\ UNCHANGED <<adapters, layersOf, nativeIds, nextId, active, gated>>

EndLoad ==
  /\ ~Idle
  /\ todo = {}
  /\ loading' = NoAdapter
  /\ UNCHANGED <<adapters, layersOf, nativeIds, nextId, active, todo, gated, allocatorVars>>

----------------------------------------------------------------------------
(* The other calls                                                          *)

\* Mutant: the unloaded adapter stays active.
UnloadKeepsActive(a) ==
  /\ Idle
  /\ a \in adapters
  /\ adapters' = adapters \ {a}
  /\ layersOf' = [layersOf EXCEPT ![a] = {}]
  /\ gated' = gated \ layersOf[a]
  /\ nativeIds' = [nativeIds EXCEPT ![a] = 0]
  /\ ExecuteDependencyEviction(nativeIds[a])
  /\ UNCHANGED <<nextId, active, loading, todo>>

UnloadAdapter(a) ==
  /\ Idle
  /\ a \in adapters
  /\ adapters' = adapters \ {a}
  /\ layersOf' = [layersOf EXCEPT ![a] = {}]
  /\ gated' = gated \ layersOf[a]
  /\ active' = IF active = a THEN NoAdapter ELSE active
  /\ nativeIds' = [nativeIds EXCEPT ![a] = 0]
  /\ ExecuteDependencyEviction(nativeIds[a])
  /\ UNCHANGED <<nextId, loading, todo>>

\* activate, and swap, which only activates.
Activate(a) ==
  /\ Idle
  /\ a \in adapters
  /\ active' = a
  /\ UNCHANGED <<adapters, layersOf, nativeIds, nextId, loading, todo, gated, allocatorVars>>

\* gate_gradients and clear_gradient_gate, which the training code calls.
GateGradients(layer) ==
  /\ Idle
  /\ gated' = gated \cup {layer}
  /\ UNCHANGED <<adapters, layersOf, nativeIds, nextId, active, loading, todo, allocatorVars>>

ClearGradientGate(layer) ==
  /\ Idle
  /\ gated' = gated \ {layer}
  /\ UNCHANGED <<adapters, layersOf, nativeIds, nextId, active, loading, todo, allocatorVars>>

\* The manager is dropped, with its allocator, and another one is made.  The
\* layers remain.
Renew ==
  /\ Idle
  /\ adapters' = {}
  /\ layersOf' = [a \in AdapterIds |-> {}]
  /\ nativeIds' = [a \in AdapterIds |-> 0]
  /\ nextId' = 1
  /\ active' = NoAdapter
  /\ Destroy
  /\ UNCHANGED <<loading, todo, gated>>

Next ==
  \/ \E a \in AdapterIds, layers \in SUBSET Layers : BeginLoad(a, layers)
  \/ \E layer \in Layers :
       SkipEmpty(layer) \/ Reserve(layer) \/ RollBack(layer) \/ Raise(layer)
  \/ EndLoad
  \/ \E a \in AdapterIds : UnloadAdapter(a) \/ Activate(a)
  \/ \E layer \in Layers : GateGradients(layer) \/ ClearGradientGate(layer)
  \/ Renew

Spec == Init /\ [][Next]_vars

----------------------------------------------------------------------------

\* Native memory belongs to a resident adapter, so that unloading can free it: a
\* refused load, or one that raised, leaves no block that no key leads to
\* (adapter_manager.py:128-142, 158-161; elora_allocator.cpp:59-69).
NoOrphanedContext ==
  \A id \in Ids : tree[id] # {} =>
    \E a \in adapters : nativeIds[a] = id /\ tree[id] \subseteq layersOf[a]

\* What has been allocated is in the tree or was lost in a push_back that raised,
\* and nothing in the tree has been freed (elora_allocator.cpp:47-69).
HeapIsAccountedFor == heap = Owned \cup leaked

\* An unload takes the gate from no layer but its own
\* (adapter_manager.py:153-154).
GatesAreOwn ==
  [][adapters' # adapters =>
       \A layer \in gated \ gated' :
         \E a \in adapters \ adapters' : layer \in layersOf[a]]_vars

\* Loads are atomic for the caller, with all their memory or with none, but for
\* one that raised.  A load under way is not there yet.
Settled == adapters \ {loading}

SettledLayers == [a \in AdapterIds |-> IF a \in Settled THEN layersOf[a] ELSE {}]
SettledMemory ==
  {m \in AdapterIds \X Layers : m[1] \in Settled /\ m[2] \in tree[nativeIds[m[1]]]}

Registry == INSTANCE AdapterRegistry WITH
  resident <- Settled, layersOf <- SettledLayers, memory <- SettledMemory

ActsAsRegistry == Registry!Spec

===============================================================================
