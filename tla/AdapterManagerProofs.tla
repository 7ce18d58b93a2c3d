------------------------- MODULE AdapterManagerProofs -------------------------
(****************************************************************************)
(* The memory safety of AdapterManager for all adapters, layers, sizes and  *)
(* budgets.                                                                 *)
(****************************************************************************)
EXTENDS AdapterManager, SetSums, TLAPS

\* A load under way is of a resident adapter, and what it has yet to reserve is
\* not in the tree.
LoadInv ==
  /\ \A a \in AdapterIds \ adapters : nativeIds[a] = 0 /\ layersOf[a] = {}
  /\ loading # NoAdapter => loading \in adapters /\ todo \subseteq layersOf[loading]
  /\ loading = NoAdapter => todo = {}

\* Ids are handed out once.
IdInv ==
  /\ \A a \in adapters : nativeIds[a] \in 1..nextId - 1
  /\ \A a, b \in adapters : nativeIds[a] = nativeIds[b] => a = b

\* A block in the tree is of a layer of the adapter that has its id.
TreeInv ==
  /\ \A id \in Ids : tree[id] # {} => \E a \in adapters : nativeIds[a] = id
  /\ \A a \in adapters : tree[nativeIds[a]] \subseteq layersOf[a]

\* The heap, block by block: a block is in the tree or lost, not both; no block has
\* an id that is still to be handed out, or is one still to be asked for.
HeapInv ==
  /\ \A id \in Ids, layer \in Layers :
       /\ <<id, layer>> \in heap <=> layer \in tree[id] \/ <<id, layer>> \in leaked
       /\ <<id, layer>> \in leaked => layer \notin tree[id] /\ id < nextId
  /\ \A layer \in todo : <<nativeIds[loading], layer>> \notin heap

ManagerInv == TypeOK /\ LoadInv /\ IdInv /\ TreeInv /\ HeapInv

USE ManagerAssumption, AllocatorAssumption
USE DEF Idle, Ids, Blocks

\* The blocks of the tree, one by one.
LEMMA OwnedIsInTree ==
  ASSUME TypeOK, NEW id \in Ids, NEW layer \in Layers
  PROVE  <<id, layer>> \in Owned <=> layer \in tree[id]
BY DEF Owned, TypeOK, AllocatorTypeOK

\* Every step keeps the types.
LEMMA TypeStep == ManagerInv /\ [Next]_vars => TypeOK'
<1> SUFFICES ASSUME ManagerInv, [Next]_vars PROVE TypeOK'
  OBVIOUS
<1> USE DEF ManagerInv, TypeOK, AllocatorTypeOK, allocatorVars
<1>1. ASSUME NEW a \in AdapterIds, NEW layers \in SUBSET Layers, BeginLoad(a, layers)
      PROVE  TypeOK'
  BY <1>1 DEF BeginLoad, Enter
<1>2. ASSUME NEW layer \in Layers, SkipEmpty(layer)
      PROVE  TypeOK'
  BY <1>2 DEF SkipEmpty
<1>3. ASSUME NEW layer \in Layers, Reserve(layer) \/ RollBack(layer) \/ Raise(layer)
      PROVE  TypeOK'
  <2>1. nativeIds[loading] \in Ids
    BY <1>3 DEF Reserve, RollBack, Raise, LoadInv, IdInv
  <2>2. CASE Reserve(layer)
    BY <2>1, <2>2 DEF Reserve, AllocateKvContext
  <2>3. CASE RollBack(layer)
    BY <2>1, <2>3 DEF RollBack, ExecuteDependencyEviction
  <2>4. CASE Raise(layer)
    BY <2>1, <2>4 DEF Raise, AllocateThrows
  <2> QED
    BY <1>3, <2>2, <2>3, <2>4
<1>4. CASE EndLoad
  BY <1>4 DEF EndLoad
<1>5. ASSUME NEW a \in AdapterIds, UnloadAdapter(a)
      PROVE  TypeOK'
  BY <1>5 DEF UnloadAdapter, ExecuteDependencyEviction
<1>6. ASSUME NEW a \in AdapterIds, Activate(a)
      PROVE  TypeOK'
  BY <1>6 DEF Activate
<1>7. ASSUME NEW layer \in Layers, GateGradients(layer) \/ ClearGradientGate(layer)
      PROVE  TypeOK'
  BY <1>7 DEF GateGradients, ClearGradientGate
<1>8. CASE Renew
  BY <1>8 DEF Renew, Destroy
<1>9. CASE UNCHANGED vars
  BY <1>9 DEF vars, managerVars
<1> QED
  BY <1>1, <1>2, <1>3, <1>4, <1>5, <1>6, <1>7, <1>8, <1>9 DEF Next

\* A load is of a resident adapter until it ends, and an adapter that goes leaves
\* neither id nor layers.
LEMMA LoadStep == ManagerInv /\ [Next]_vars => LoadInv'
<1> SUFFICES ASSUME ManagerInv, [Next]_vars PROVE LoadInv'
  OBVIOUS
<1> USE DEF ManagerInv, TypeOK, LoadInv
<1>1. ASSUME NEW a \in AdapterIds, NEW layers \in SUBSET Layers, BeginLoad(a, layers)
      PROVE  LoadInv'
  BY <1>1 DEF BeginLoad, Enter
<1>2. ASSUME NEW layer \in Layers, SkipEmpty(layer) \/ Reserve(layer)
      PROVE  LoadInv'
  BY <1>2 DEF SkipEmpty, Reserve
<1>3. ASSUME NEW layer \in Layers, RollBack(layer) \/ Raise(layer)
      PROVE  LoadInv'
  BY <1>3 DEF RollBack, Raise
<1>4. CASE EndLoad
  BY <1>4 DEF EndLoad
<1>5. ASSUME NEW a \in AdapterIds, UnloadAdapter(a)
      PROVE  LoadInv'
  BY <1>5 DEF UnloadAdapter
<1>6. ASSUME NEW a \in AdapterIds, Activate(a)
      PROVE  LoadInv'
  BY <1>6 DEF Activate
<1>7. ASSUME NEW layer \in Layers, GateGradients(layer) \/ ClearGradientGate(layer)
      PROVE  LoadInv'
  BY <1>7 DEF GateGradients, ClearGradientGate
<1>8. CASE Renew
  BY <1>8 DEF Renew
<1>9. CASE UNCHANGED vars
  BY <1>9 DEF vars, managerVars
<1> QED
  BY <1>1, <1>2, <1>3, <1>4, <1>5, <1>6, <1>7, <1>8, <1>9 DEF Next

\* No id is handed out twice.
LEMMA IdStep == ManagerInv /\ [Next]_vars => IdInv'
<1> SUFFICES ASSUME ManagerInv, [Next]_vars PROVE IdInv'
  OBVIOUS
<1> USE DEF ManagerInv, TypeOK, IdInv
<1>1. ASSUME NEW a \in AdapterIds, NEW layers \in SUBSET Layers, BeginLoad(a, layers)
      PROVE  IdInv'
  BY <1>1 DEF BeginLoad, Enter
<1>2. ASSUME NEW layer \in Layers, SkipEmpty(layer) \/ Reserve(layer) \/ Raise(layer)
      PROVE  IdInv'
  BY <1>2 DEF SkipEmpty, Reserve, Raise
<1>3. ASSUME NEW layer \in Layers, RollBack(layer)
      PROVE  IdInv'
  BY <1>3 DEF RollBack, LoadInv
<1>4. CASE EndLoad
  BY <1>4 DEF EndLoad
<1>5. ASSUME NEW a \in AdapterIds, UnloadAdapter(a)
      PROVE  IdInv'
  BY <1>5 DEF UnloadAdapter
<1>6. ASSUME NEW a \in AdapterIds, Activate(a)
      PROVE  IdInv'
  BY <1>6 DEF Activate
<1>7. ASSUME NEW layer \in Layers, GateGradients(layer) \/ ClearGradientGate(layer)
      PROVE  IdInv'
  BY <1>7 DEF GateGradients, ClearGradientGate
<1>8. CASE Renew
  BY <1>8 DEF Renew
<1>9. CASE UNCHANGED vars
  BY <1>9 DEF vars, managerVars
<1> QED
  BY <1>1, <1>2, <1>3, <1>4, <1>5, <1>6, <1>7, <1>8, <1>9 DEF Next

\* Blocks are reserved under the id of the adapter whose layers they are for, and go
\* before the id does.
LEMMA TreeStep == ManagerInv /\ [Next]_vars => TreeInv'
<1> SUFFICES ASSUME ManagerInv, [Next]_vars PROVE TreeInv'
  OBVIOUS
<1> USE DEF ManagerInv, TypeOK, AllocatorTypeOK, IdInv, TreeInv, allocatorVars
<1>1. ASSUME NEW a \in AdapterIds, NEW layers \in SUBSET Layers, BeginLoad(a, layers)
      PROVE  TreeInv'
  BY <1>1 DEF BeginLoad, Enter
<1>2. ASSUME NEW layer \in Layers, SkipEmpty(layer) \/ Raise(layer)
      PROVE  TreeInv'
  BY <1>2 DEF SkipEmpty, Raise, AllocateThrows
<1>3. ASSUME NEW layer \in Layers, Reserve(layer)
      PROVE  TreeInv'
  BY <1>3 DEF Reserve, AllocateKvContext, LoadInv
<1>4. ASSUME NEW layer \in Layers, RollBack(layer)
      PROVE  TreeInv'
  BY <1>4 DEF RollBack, ExecuteDependencyEviction, LoadInv
<1>5. CASE EndLoad
  BY <1>5 DEF EndLoad
<1>6. ASSUME NEW a \in AdapterIds, UnloadAdapter(a)
      PROVE  TreeInv'
  BY <1>6 DEF UnloadAdapter, ExecuteDependencyEviction
<1>7. ASSUME NEW a \in AdapterIds, Activate(a)
      PROVE  TreeInv'
  BY <1>7 DEF Activate
<1>8. ASSUME NEW layer \in Layers, GateGradients(layer) \/ ClearGradientGate(layer)
      PROVE  TreeInv'
  BY <1>8 DEF GateGradients, ClearGradientGate
<1>9. CASE Renew
  BY <1>9 DEF Renew, Destroy
<1>10. CASE UNCHANGED vars
  BY <1>10 DEF vars, managerVars
<1> QED
  BY <1>1, <1>2, <1>3, <1>4, <1>5, <1>6, <1>7, <1>8, <1>9, <1>10 DEF Next

\* What is freed is what was in the tree, and what is reserved is new.
LEMMA HeapStep == ManagerInv /\ [Next]_vars => HeapInv'
<1> SUFFICES ASSUME ManagerInv, [Next]_vars PROVE HeapInv'
  OBVIOUS
<1> USE DEF ManagerInv, TypeOK, AllocatorTypeOK, HeapInv, allocatorVars
<1>1. ASSUME NEW a \in AdapterIds, NEW layers \in SUBSET Layers, BeginLoad(a, layers)
      PROVE  HeapInv'
  BY <1>1 DEF BeginLoad, Enter, IdInv, TreeInv
<1>2. ASSUME NEW layer \in Layers, SkipEmpty(layer)
      PROVE  HeapInv'
  BY <1>2 DEF SkipEmpty
<1>3. ASSUME NEW layer \in Layers, Reserve(layer)
      PROVE  HeapInv'
  BY <1>3 DEF Reserve, AllocateKvContext, LoadInv, IdInv
<1>4. ASSUME NEW layer \in Layers, RollBack(layer)
      PROVE  HeapInv'
  BY <1>4 DEF RollBack, ExecuteDependencyEviction, LoadInv, IdInv
<1>5. ASSUME NEW layer \in Layers, Raise(layer)
      PROVE  HeapInv'
  BY <1>5 DEF Raise, AllocateThrows, LoadInv, IdInv
<1>6. CASE EndLoad
  BY <1>6 DEF EndLoad
<1>7. ASSUME NEW a \in AdapterIds, UnloadAdapter(a)
      PROVE  HeapInv'
  BY <1>7 DEF UnloadAdapter, ExecuteDependencyEviction, LoadInv, IdInv
<1>8. ASSUME NEW a \in AdapterIds, Activate(a)
      PROVE  HeapInv'
  BY <1>8 DEF Activate
<1>9. ASSUME NEW layer \in Layers, GateGradients(layer) \/ ClearGradientGate(layer)
      PROVE  HeapInv'
  BY <1>9 DEF GateGradients, ClearGradientGate
<1>10. CASE Renew
  BY <1>10, OwnedIsInTree DEF Renew, Destroy, LoadInv
<1>11. CASE UNCHANGED vars
  BY <1>11 DEF vars, managerVars
<1> QED
  BY <1>1, <1>2, <1>3, <1>4, <1>5, <1>6, <1>7, <1>8, <1>9, <1>10, <1>11 DEF Next

----------------------------------------------------------------------------
(* The theorems                                                             *)

\* The invariant that the other theorems follow from; types among it.
THEOREM ManagerInvariant == Spec => []ManagerInv
<1>1. Init => ManagerInv
  BY DEF Init, AllocatorInit, ManagerInv, TypeOK, AllocatorTypeOK, LoadInv, IdInv, TreeInv,
         HeapInv
<1>2. ManagerInv /\ [Next]_vars => ManagerInv'
  BY TypeStep, LoadStep, IdStep, TreeStep, HeapStep DEF ManagerInv
<1> QED
  BY <1>1, <1>2, PTL DEF Spec

\* The manager and the allocator keep every variable in its type: every id that is
\* handed out is one of Ids, and every block is of an id and a layer.
THEOREM TypeCorrect == Spec => []TypeOK
<1>1. ManagerInv => TypeOK
  BY DEF ManagerInv
<1> QED
  BY <1>1, ManagerInvariant, PTL

\* Every block in the tree is under the id of a resident adapter, and of its layers:
\* a load that is refused or raises orphans nothing.
THEOREM NothingIsOrphaned == Spec => []NoOrphanedContext
<1>1. ManagerInv => NoOrphanedContext
  BY DEF ManagerInv, TreeInv, NoOrphanedContext
<1> QED
  BY <1>1, ManagerInvariant, PTL

\* No block is freed twice, and none is lost but where push_back raises.
THEOREM NothingLeaks == Spec => []HeapIsAccountedFor
<1>1. ManagerInv => HeapIsAccountedFor
  <2> SUFFICES ASSUME ManagerInv PROVE heap = Owned \cup leaked
    BY DEF HeapIsAccountedFor
  <2>1. heap \subseteq Ids \X Layers /\ leaked \subseteq Ids \X Layers
        /\ Owned \subseteq Ids \X Layers
    BY DEF ManagerInv, TypeOK, AllocatorTypeOK, Owned
  <2>2. \A id \in Ids, layer \in Layers :
          <<id, layer>> \in heap <=> <<id, layer>> \in Owned \cup leaked
    BY OwnedIsInTree DEF ManagerInv, HeapInv
  <2> QED
    BY <2>1, <2>2
<1> QED
  BY <1>1, ManagerInvariant, PTL

\* Only the gates of the layers of the unloaded adapter are cleared.
THEOREM UnloadsClearOwnGates == Spec => GatesAreOwn
<1>1. [Next]_vars => [adapters' # adapters =>
                        \A layer \in gated \ gated' :
                          \E a \in adapters \ adapters' : layer \in layersOf[a]]_vars
  <2> SUFFICES ASSUME Next, adapters' # adapters, NEW layer \in gated \ gated'
               PROVE  \E a \in adapters \ adapters' : layer \in layersOf[a]
    BY DEF vars
  <2>1. PICK a \in AdapterIds : UnloadAdapter(a)
    BY DEF Next, BeginLoad, Enter, SkipEmpty, Reserve, RollBack, Raise, EndLoad, Activate,
           GateGradients, ClearGradientGate, Renew
  <2> QED
    BY <2>1 DEF UnloadAdapter
<1> QED
  BY <1>1, PTL DEF Spec, GatesAreOwn

----------------------------------------------------------------------------
(* The budget                                                               *)

\* What the allocator holds for adapters, id by id.
HeldFor == [id \in Ids |-> BytesOf(tree[id])]
NativeBytes == SumFunctionOnSet(HeldFor, Ids)

\* The memory that is reserved natively is within what the manager has admitted, and that
\* within the budget; also in the middle of a load, and after one that raised.
WithinBudget == NativeBytes <= ResidentBytes /\ ResidentBytes <= Budget

RecordBytes == [a \in AdapterIds |-> BytesOf(layersOf[a])]

BudgetInv == IsFiniteSet(adapters) /\ ResidentBytes <= Budget

\* Bytes are natural numbers, and fewer layers do not have more.
LEMMA BytesGrow ==
  ASSUME NEW layers \in SUBSET Layers, NEW some \in SUBSET layers
  PROVE  BytesOf(some) \in Nat /\ BytesOf(layers) \in Nat /\ BytesOf(some) <= BytesOf(layers)
<1>1. IsFiniteSet(layers)
  BY FS_Subset
<1>2. \A layer \in layers : Size[layer] \in Nat /\ Size[layer] <= Size[layer]
  OBVIOUS
<1>3. SumFunctionOnSet(Size, layers) \in Nat
  BY <1>1, <1>2, SumGrows
<1>4. /\ SumFunctionOnSet(Size, some) \in Nat
      /\ SumFunctionOnSet(Size, some) <= SumFunctionOnSet(Size, layers)
  BY <1>1, <1>2, SumOfSubset
<1> QED
  BY <1>3, <1>4 DEF BytesOf

\* The manager's bytes are a natural number.
LEMMA RecordsAreNat ==
  ASSUME TypeOK, BudgetInv
  PROVE  /\ \A a \in AdapterIds : RecordBytes[a] \in Nat
         /\ ResidentBytes = SumFunctionOnSet(RecordBytes, adapters)
         /\ ResidentBytes \in Nat
<1>1. \A a \in AdapterIds : RecordBytes[a] \in Nat
  BY BytesGrow DEF RecordBytes, TypeOK
<1>2. \A a \in adapters : RecordBytes[a] \in Nat /\ RecordBytes[a] <= RecordBytes[a]
  BY <1>1 DEF TypeOK
<1>3. SumFunctionOnSet(RecordBytes, adapters) \in Nat
  BY <1>2, SumGrows DEF BudgetInv
<1> QED
  BY <1>1, <1>3 DEF ResidentBytes, RecordBytes

\* An adapter that comes adds its bytes.
LEMMA BeginAdds ==
  ASSUME ManagerInv, BudgetInv, NEW a \in AdapterIds, NEW layers \in SUBSET Layers,
         BeginLoad(a, layers)
  PROVE  BudgetInv'
<1> USE DEF ManagerInv, TypeOK
<1>1. /\ a \notin adapters /\ adapters' = adapters \cup {a}
      /\ layersOf' = [layersOf EXCEPT ![a] = layers]
      /\ ResidentBytes + BytesOf(layers) <= Budget
  BY DEF BeginLoad, Enter
<1>2. RecordBytes' = [RecordBytes EXCEPT ![a] = BytesOf(layers)]
  BY <1>1 DEF RecordBytes, BytesOf
<1>3. \A b \in adapters : RecordBytes'[b] = RecordBytes[b] /\ RecordBytes'[b] \in Nat
  BY <1>1, <1>2, RecordsAreNat DEF RecordBytes
<1>4. RecordBytes'[a] = BytesOf(layers) /\ BytesOf(layers) \in Nat
  BY <1>2, BytesGrow DEF RecordBytes
<1>5. SumFunctionOnSet(RecordBytes', adapters) = ResidentBytes
  BY <1>3, RecordsAreNat, SumOfEquals DEF BudgetInv
<1>6. \A b \in adapters \cup {a} : RecordBytes'[b] \in Int
  BY <1>3, <1>4
<1>7. /\ IsFiniteSet(adapters \cup {a})
      /\ SumFunctionOnSet(RecordBytes', adapters \cup {a}) = ResidentBytes + BytesOf(layers)
  BY <1>1, <1>4, <1>5, <1>6, SumAdds DEF BudgetInv
<1>8. ResidentBytes' = SumFunctionOnSet(RecordBytes', adapters')
  BY DEF ResidentBytes, RecordBytes
<1> QED
  BY <1>1, <1>7, <1>8 DEF BudgetInv

\* An adapter that goes takes none of the others' bytes.
LEMMA GoneTakes ==
  ASSUME TypeOK, BudgetInv, NEW a \in adapters, adapters' = adapters \ {a},
         layersOf' = [layersOf EXCEPT ![a] = {}]
  PROVE  BudgetInv'
<1> USE DEF TypeOK
<1>1. IsFiniteSet(adapters')
  BY FS_RemoveElement DEF BudgetInv
<1>2. \A b \in adapters' : RecordBytes[b] = RecordBytes'[b] /\ RecordBytes[b] \in Nat
  BY RecordsAreNat DEF RecordBytes, BytesOf
<1>3. SumFunctionOnSet(RecordBytes, adapters') = SumFunctionOnSet(RecordBytes', adapters')
  BY <1>1, <1>2, SumOfEquals
<1>4. /\ SumFunctionOnSet(RecordBytes, adapters') \in Nat
      /\ SumFunctionOnSet(RecordBytes, adapters') <= SumFunctionOnSet(RecordBytes, adapters)
  <2>1. \A b \in adapters : RecordBytes[b] \in Nat
    BY RecordsAreNat
  <2> QED
    BY <2>1, SumOfSubset DEF BudgetInv
<1>5. ResidentBytes' = SumFunctionOnSet(RecordBytes', adapters')
  BY DEF ResidentBytes, RecordBytes
<1> QED
  BY <1>1, <1>3, <1>4, <1>5, RecordsAreNat DEF BudgetInv

\* Whoever comes or goes, the records stay within the budget.
LEMMA BudgetStep == ManagerInv /\ BudgetInv /\ [Next]_vars => BudgetInv'
<1> SUFFICES ASSUME ManagerInv, BudgetInv, [Next]_vars PROVE BudgetInv'
  OBVIOUS
<1> USE DEF ManagerInv
<1>1. ASSUME NEW a \in AdapterIds, NEW layers \in SUBSET Layers, BeginLoad(a, layers)
      PROVE  BudgetInv'
  BY <1>1, BeginAdds
<1>2. ASSUME NEW layer \in Layers, RollBack(layer)
      PROVE  BudgetInv'
  BY <1>2, GoneTakes DEF RollBack, LoadInv
<1>3. ASSUME NEW a \in AdapterIds, UnloadAdapter(a)
      PROVE  BudgetInv'
  BY <1>3, GoneTakes DEF UnloadAdapter
<1>4. CASE Renew
  <2>1. adapters' = {}
    BY <1>4 DEF Renew
  <2>2. ResidentBytes' = 0
    BY <2>1, SumOfNone DEF ResidentBytes
  <2> QED
    BY <2>1, <2>2, FS_EmptySet DEF BudgetInv
<1>5. CASE UNCHANGED <<adapters, layersOf>>
  BY <1>5 DEF BudgetInv, ResidentBytes, BytesOf
<1>6. UNCHANGED <<adapters, layersOf>>
      \/ (\E a \in AdapterIds, layers \in SUBSET Layers : BeginLoad(a, layers))
      \/ (\E layer \in Layers : RollBack(layer))
      \/ (\E a \in AdapterIds : UnloadAdapter(a)) \/ Renew
  BY DEF Next, SkipEmpty, Reserve, Raise, EndLoad, Activate, GateGradients,
         ClearGradientGate, vars, managerVars
<1> QED
  BY <1>1, <1>2, <1>3, <1>4, <1>5, <1>6

\* Of each id the allocator holds no more than its adapter was admitted with, and
\* without an adapter nothing.
LEMMA NativeIsAdmitted ==
  ASSUME ManagerInv, BudgetInv
  PROVE  NativeBytes <= ResidentBytes
<1> USE DEF ManagerInv, TypeOK, AllocatorTypeOK
<1> DEFINE used == {nativeIds[a] : a \in adapters}
           reserved == [a \in adapters |-> HeldFor[nativeIds[a]]]
<1>1. \A a \in adapters : nativeIds[a] \in Ids
  BY DEF IdInv
<1>2. \A id \in Ids : HeldFor[id] \in Nat
  BY BytesGrow DEF HeldFor
<1>3. \A id \in Ids \ used : HeldFor[id] = 0
  <2> TAKE id \in Ids \ used
  <2>1. tree[id] = {}
    BY DEF TreeInv
  <2> QED
    BY <2>1, SumOfNone DEF HeldFor, BytesOf
<1>4. SumFunctionOnSet(HeldFor, used) = NativeBytes
  <2>1. used \in SUBSET Ids
    BY <1>1
  <2>2. IsFiniteSet(Ids)
    BY FS_Interval
  <2> HIDE DEF used, Ids
  <2> QED
    BY <1>2, <1>3, <2>1, <2>2, SumOfSubset DEF NativeBytes
<1>5. \A a \in adapters : reserved[a] \in Nat /\ reserved[a] <= RecordBytes[a]
  <2> TAKE a \in adapters
  <2>1. tree[nativeIds[a]] \in SUBSET layersOf[a] /\ layersOf[a] \in SUBSET Layers
    BY DEF TreeInv
  <2>2. reserved[a] = BytesOf(tree[nativeIds[a]]) /\ RecordBytes[a] = BytesOf(layersOf[a])
    BY <1>1 DEF HeldFor, RecordBytes
  <2> HIDE DEF reserved
  <2> QED
    BY <2>1, <2>2, BytesGrow
<1>6. SumFunctionOnSet(HeldFor, used) = SumFunctionOnSet(reserved, adapters)
  <2>1. \A a, b \in adapters : nativeIds[a] = nativeIds[b] => a = b
    BY DEF IdInv
  <2>2. \A a \in adapters : reserved[a] = HeldFor[nativeIds[a]] /\ reserved[a] \in Nat
    BY <1>5
  <2> HIDE DEF reserved
  <2> QED
    BY <2>1, <2>2, SumRenamed DEF BudgetInv
<1>7. SumFunctionOnSet(reserved, adapters) <= SumFunctionOnSet(RecordBytes, adapters)
  <2>1. \A a \in adapters : /\ reserved[a] \in Nat /\ RecordBytes[a] \in Nat
                            /\ reserved[a] <= RecordBytes[a]
    BY <1>5, RecordsAreNat
  <2> HIDE DEF reserved
  <2> QED
    BY <2>1, SumGrows DEF BudgetInv
<1> QED
  BY <1>4, <1>6, <1>7, RecordsAreNat

\* Neither the records nor the native memory for them exceed the budget, whatever is
\* loaded, refused, interrupted and unloaded in whatever order.
THEOREM BudgetIsKept == Spec => []WithinBudget
<1>1. Init => BudgetInv
  <2> SUFFICES ASSUME Init PROVE BudgetInv
    OBVIOUS
  <2>1. adapters = {} /\ ResidentBytes = 0
    BY SumOfNone DEF Init, ResidentBytes
  <2> QED
    BY <2>1, FS_EmptySet DEF BudgetInv
<1>2. ManagerInv /\ BudgetInv => WithinBudget
  BY NativeIsAdmitted DEF BudgetInv, WithinBudget
<1> QED
  BY <1>1, <1>2, BudgetStep, ManagerInvariant, PTL DEF Spec

----------------------------------------------------------------------------
(* The registry                                                             *)

\* The manager and the registry add up bytes alike.
LEMMA SameSums == \A f, S : Registry!SumFunctionOnSet(f, S) = SumFunctionOnSet(f, S)
BY DEF Registry!SumFunctionOnSet, SumFunctionOnSet, Registry!FoldFunctionOnSet,
       FoldFunctionOnSet, Registry!MapThenFoldSet, MapThenFoldSet

\* A load under way fits the budget, and every layer of it with bytes is reserved or
\* is still to be; nothing else is reserved.
AdmitInv ==
  loading # NoAdapter =>
    /\ Registry!ResidentBytes + Registry!BytesOf(layersOf[loading]) <= Budget
    /\ \A layer \in layersOf[loading] :
         Size[layer] > 0 => layer \in todo \cup tree[nativeIds[loading]]
    /\ \A layer \in tree[nativeIds[loading]] : Size[layer] > 0

\* What a settled adapter has.
LEMMA SettledHas ==
  ASSUME TypeOK
  PROVE  /\ Settled \subseteq AdapterIds
         /\ \A a \in Settled : SettledLayers[a] = layersOf[a]
         /\ \A a \in AdapterIds \ Settled : SettledLayers[a] = {}
BY DEF TypeOK, Settled, SettledLayers

\* With no load under way the registry has the manager's bytes.
LEMMA BytesWhenIdle ==
  ASSUME TypeOK, LoadInv, Idle
  PROVE  /\ Settled = adapters
         /\ SettledLayers = layersOf
         /\ Registry!ResidentBytes = ResidentBytes
<1>1. Settled = adapters
  BY DEF Settled, TypeOK
<1>2. SettledLayers = layersOf
  BY <1>1 DEF SettledLayers, TypeOK, LoadInv
<1>3. \A layers : Registry!BytesOf(layers) = BytesOf(layers)
  BY SameSums DEF Registry!BytesOf, BytesOf
<1>4. [a \in AdapterIds |-> Registry!BytesOf(SettledLayers[a])]
        = [a \in AdapterIds |-> BytesOf(layersOf[a])]
  BY <1>2, <1>3
<1> QED
  BY <1>1, <1>2, <1>4, SameSums DEF Registry!ResidentBytes, Registry!BytesWith, ResidentBytes

\* Bytes only depend on who is settled with which layers.
LEMMA SameBytes ==
  ASSUME UNCHANGED <<Settled, SettledLayers>>
  PROVE  Registry!ResidentBytes' = Registry!ResidentBytes
BY DEF Registry!ResidentBytes, Registry!BytesWith, Registry!BytesOf

\* Beginning a load changes nothing that is settled.
LEMMA BeginIsHidden ==
  ASSUME ManagerInv, NEW a \in AdapterIds, NEW layers \in SUBSET Layers, BeginLoad(a, layers)
  PROVE  /\ UNCHANGED <<Settled, SettledLayers, SettledMemory, active>>
         /\ AdmitInv'
<1> USE DEF ManagerInv, TypeOK, AllocatorTypeOK
<1>1. /\ Settled = adapters
      /\ SettledLayers = layersOf
      /\ Registry!ResidentBytes = ResidentBytes
  BY BytesWhenIdle DEF BeginLoad
<1>2. /\ loading' = a /\ a \notin adapters /\ adapters' = adapters \cup {a}
      /\ nextId \in Ids
      /\ layersOf' = [layersOf EXCEPT ![a] = layers]
      /\ nativeIds' = [nativeIds EXCEPT ![a] = nextId]
      /\ todo' = layers
      /\ UNCHANGED <<active, tree>>
  BY DEF BeginLoad, Enter, allocatorVars
<1>3. Settled' = Settled
  BY <1>1, <1>2 DEF Settled
<1>4. SettledLayers' = SettledLayers
  BY <1>2, <1>3 DEF SettledLayers, Settled
<1>5. SettledMemory' = SettledMemory
  BY <1>1, <1>2, <1>3 DEF SettledMemory
<1>6. Registry!ResidentBytes' + Registry!BytesOf(layers) <= Budget
  <2>1. Registry!BytesOf(layers) = BytesOf(layers)
    BY SameSums DEF Registry!BytesOf, BytesOf
  <2>2. Registry!ResidentBytes' = Registry!ResidentBytes
    BY <1>3, <1>4, SameBytes
  <2> QED
    BY <1>1, <2>1, <2>2 DEF BeginLoad
<1>7. tree[nextId] = {}
  BY <1>2 DEF TreeInv, IdInv
<1>8. Registry!BytesOf(layers)' = Registry!BytesOf(layers)
  BY DEF Registry!BytesOf
<1>9. AdmitInv'
  <2>1. layersOf'[a] = layers /\ nativeIds'[a] = nextId
    BY <1>2
  <2>2. Registry!BytesOf(layersOf[loading])' = Registry!BytesOf(layers)
    BY <1>2, <2>1 DEF Registry!BytesOf
  <2> QED
    BY <1>2, <1>6, <1>7, <2>1, <2>2 DEF AdmitInv
<1> QED
  BY <1>2, <1>3, <1>4, <1>5, <1>9

\* Neither do the layers of a load, one by one.
LEMMA ReserveIsHidden ==
  ASSUME ManagerInv, AdmitInv, NEW layer \in Layers, SkipEmpty(layer) \/ Reserve(layer)
  PROVE  /\ UNCHANGED <<Settled, SettledLayers, SettledMemory, active>>
         /\ AdmitInv'
<1> USE DEF ManagerInv, TypeOK, AllocatorTypeOK
<1>1. UNCHANGED <<adapters, layersOf, nativeIds, active, loading>> /\ todo' = todo \ {layer}
  BY DEF SkipEmpty, Reserve
<1>2. loading \in adapters /\ layer \in todo
  BY DEF SkipEmpty, Reserve, LoadInv
<1>3. \/ tree' = tree /\ Size[layer] = 0
      \/ tree' = [tree EXCEPT ![nativeIds[loading]] = @ \cup {layer}] /\ Size[layer] > 0
  BY DEF SkipEmpty, Reserve, AllocateKvContext, allocatorVars
<1>4. Settled' = Settled /\ SettledLayers' = SettledLayers
  BY <1>1 DEF Settled, SettledLayers
<1>5. \A a \in Settled : tree'[nativeIds[a]] = tree[nativeIds[a]]
  BY <1>2, <1>3 DEF Settled, IdInv
<1>6. SettledMemory' = SettledMemory
  BY <1>1, <1>4, <1>5 DEF SettledMemory
<1>7. nativeIds[loading] \in Ids
  BY <1>2 DEF IdInv
<1>8. AdmitInv'
  <2>1. Registry!ResidentBytes' = Registry!ResidentBytes
    BY <1>4, SameBytes
  <2>2. Registry!BytesOf(layersOf[loading])' = Registry!BytesOf(layersOf[loading])
    BY <1>1 DEF Registry!BytesOf
  <2>3. tree'[nativeIds[loading]] \subseteq tree[nativeIds[loading]] \cup {layer}
        /\ tree[nativeIds[loading]] \subseteq tree'[nativeIds[loading]]
        /\ (layer \in tree'[nativeIds[loading]] \/ Size[layer] = 0)
        /\ (Size[layer] = 0 => tree' = tree)
    BY <1>3, <1>7
  <2> QED
    BY <1>1, <1>2, <2>1, <2>2, <2>3 DEF AdmitInv
<1> QED
  BY <1>1, <1>4, <1>6, <1>8

\* A load that is refused leaves what is settled as it was.
LEMMA RollBackIsHidden ==
  ASSUME ManagerInv, NEW layer \in Layers, RollBack(layer)
  PROVE  UNCHANGED <<Settled, SettledLayers, SettledMemory, active>>
<1> USE DEF ManagerInv, TypeOK, AllocatorTypeOK
<1>1. /\ loading \in adapters /\ nativeIds[loading] \in Ids
      /\ adapters' = adapters \ {loading} /\ loading' = NoAdapter
      /\ layersOf' = [layersOf EXCEPT ![loading] = {}]
      /\ nativeIds' = [nativeIds EXCEPT ![loading] = 0]
      /\ tree' = [tree EXCEPT ![nativeIds[loading]] = {}]
      /\ active' = active
  BY DEF RollBack, ExecuteDependencyEviction, LoadInv, IdInv
<1>2. Settled' = Settled
  BY <1>1 DEF Settled
<1>3. \A a \in Settled : /\ a # loading /\ layersOf'[a] = layersOf[a]
                         /\ nativeIds'[a] = nativeIds[a]
                         /\ tree'[nativeIds[a]] = tree[nativeIds[a]]
  BY <1>1 DEF Settled, IdInv
<1>4. SettledLayers' = SettledLayers
  BY <1>2, <1>3 DEF SettledLayers
<1>5. SettledMemory' = SettledMemory
  BY <1>2, <1>3 DEF SettledMemory
<1> QED
  BY <1>1, <1>2, <1>4, <1>5

\* The end of a load admits its adapter.
LEMMA EndAdmits ==
  ASSUME ManagerInv, AdmitInv, ~Idle, loading' = NoAdapter,
         UNCHANGED <<adapters, layersOf, nativeIds, active, tree>>
  PROVE  /\ Registry!Admit(loading, layersOf[loading])
         /\ SettledMemory' = SettledMemory \cup {loading} \X tree[nativeIds[loading]]
         /\ {loading} \X tree[nativeIds[loading]]
              \subseteq Registry!MemoryFor(loading, layersOf[loading])
<1> USE DEF ManagerInv, TypeOK, AllocatorTypeOK
<1>1. loading \in adapters /\ nativeIds[loading] \in Ids
      /\ tree[nativeIds[loading]] \subseteq layersOf[loading]
  BY DEF LoadInv, IdInv, TreeInv
<1>2. Settled' = Settled \cup {loading} /\ loading \notin Settled
  BY <1>1 DEF Settled
<1>3. SettledLayers' = [SettledLayers EXCEPT ![loading] = layersOf[loading]]
  BY <1>1, <1>2 DEF SettledLayers
<1>4. SettledMemory' = SettledMemory \cup {loading} \X tree[nativeIds[loading]]
  BY <1>1, <1>2 DEF SettledMemory
<1>5. {loading} \X tree[nativeIds[loading]]
        \subseteq Registry!MemoryFor(loading, layersOf[loading])
  BY <1>1 DEF AdmitInv, Registry!MemoryFor
<1> QED
  BY <1>2, <1>3, <1>4, <1>5 DEF Registry!Admit, AdmitInv

\* An unload is the registry's.
LEMMA UnloadIsUnload ==
  ASSUME ManagerInv, NEW a \in AdapterIds, UnloadAdapter(a)
  PROVE  Registry!Unload(a)
<1> USE DEF ManagerInv, TypeOK, AllocatorTypeOK
<1>1. /\ a \in adapters /\ nativeIds[a] \in Ids /\ loading = NoAdapter /\ loading' = NoAdapter
      /\ adapters' = adapters \ {a}
      /\ layersOf' = [layersOf EXCEPT ![a] = {}]
      /\ nativeIds' = [nativeIds EXCEPT ![a] = 0]
      /\ tree' = [tree EXCEPT ![nativeIds[a]] = {}]
      /\ active' = IF active = a THEN NoAdapter ELSE active
  BY DEF UnloadAdapter, ExecuteDependencyEviction, IdInv
<1>2. Settled = adapters /\ Settled' = Settled \ {a}
  BY <1>1 DEF Settled
<1>3. SettledLayers' = [SettledLayers EXCEPT ![a] = {}]
  BY <1>1, <1>2 DEF SettledLayers
<1>4. \A b \in Settled \ {a} : nativeIds'[b] = nativeIds[b]
                             /\ tree'[nativeIds[b]] = tree[nativeIds[b]]
  BY <1>1, <1>2 DEF IdInv
<1>5. SettledMemory' = {m \in SettledMemory : m[1] # a}
  BY <1>2, <1>4 DEF SettledMemory
<1> QED
  BY <1>1, <1>2, <1>3, <1>5 DEF Registry!Unload

\* Each step of the manager is one of the registry or hidden from it.
LEMMA StepsAreRegistrySteps ==
  ManagerInv /\ AdmitInv /\ [Next]_vars
    => [Registry!Next]_(Registry!registryVars) /\ AdmitInv'
<1> SUFFICES ASSUME ManagerInv, AdmitInv, [Next]_vars
             PROVE  [Registry!Next]_(Registry!registryVars) /\ AdmitInv'
  OBVIOUS
<1> USE DEF Registry!registryVars
<1>1. ASSUME NEW a \in AdapterIds, NEW layers \in SUBSET Layers, BeginLoad(a, layers)
      PROVE  [Registry!Next]_(Registry!registryVars) /\ AdmitInv'
  BY <1>1, BeginIsHidden
<1>2. ASSUME NEW layer \in Layers, SkipEmpty(layer) \/ Reserve(layer)
      PROVE  [Registry!Next]_(Registry!registryVars) /\ AdmitInv'
  BY <1>2, ReserveIsHidden
<1>3. ASSUME NEW layer \in Layers, RollBack(layer)
      PROVE  [Registry!Next]_(Registry!registryVars) /\ AdmitInv'
  <2>1. AdmitInv'
    BY <1>3 DEF RollBack, AdmitInv
  <2> QED
    BY <1>3, <2>1, RollBackIsHidden
<1>4. CASE EndLoad
  <2>1. /\ ~Idle /\ todo = {} /\ loading' = NoAdapter
        /\ UNCHANGED <<adapters, layersOf, nativeIds, active, tree>>
    BY <1>4 DEF EndLoad, allocatorVars
  <2>2. loading \in AdapterIds /\ layersOf[loading] \in SUBSET Layers
    BY <2>1 DEF ManagerInv, TypeOK
  <2>3. Registry!MemoryFor(loading, layersOf[loading])
          \subseteq {loading} \X tree[nativeIds[loading]]
    BY <2>1 DEF AdmitInv, Registry!MemoryFor
  <2>4. Registry!Load(loading, layersOf[loading])
    BY <2>1, <2>3, EndAdmits DEF Registry!Load
  <2>5. AdmitInv'
    BY <2>1 DEF AdmitInv
  <2> QED
    BY <2>2, <2>4, <2>5 DEF Registry!Next
<1>5. ASSUME NEW layer \in Layers, Raise(layer)
      PROVE  [Registry!Next]_(Registry!registryVars) /\ AdmitInv'
  <2>1. /\ ~Idle /\ loading' = NoAdapter
        /\ UNCHANGED <<adapters, layersOf, nativeIds, active, tree>>
    BY <1>5 DEF Raise, AllocateThrows, ManagerInv, LoadInv
  <2>2. loading \in AdapterIds /\ layersOf[loading] \in SUBSET Layers
    BY <2>1 DEF ManagerInv, TypeOK
  <2>3. Registry!LoadInterrupted(loading, layersOf[loading])
    BY <2>1, EndAdmits DEF Registry!LoadInterrupted
  <2>4. AdmitInv'
    BY <2>1 DEF AdmitInv
  <2> QED
    BY <2>2, <2>3, <2>4 DEF Registry!Next
<1>6. ASSUME NEW a \in AdapterIds, UnloadAdapter(a)
      PROVE  [Registry!Next]_(Registry!registryVars) /\ AdmitInv'
  <2>1. AdmitInv'
    BY <1>6 DEF UnloadAdapter, AdmitInv
  <2> QED
    BY <1>6, <2>1, UnloadIsUnload DEF Registry!Next
<1>7. ASSUME NEW a \in AdapterIds, Activate(a)
      PROVE  [Registry!Next]_(Registry!registryVars) /\ AdmitInv'
  <2>1. Registry!Activate(a) /\ AdmitInv'
    BY <1>7 DEF Activate, Registry!Activate, Settled, SettledLayers, SettledMemory, AdmitInv,
                allocatorVars, ManagerInv, TypeOK
  <2> QED
    BY <2>1 DEF Registry!Next
<1>8. CASE Renew
  <2>1. Registry!Renew /\ AdmitInv'
    BY <1>8 DEF Renew, Destroy, Registry!Renew, Registry!Init, Settled, SettledLayers,
                SettledMemory, AdmitInv
  <2> QED
    BY <2>1 DEF Registry!Next
<1>9. CASE UNCHANGED vars \/ \E layer \in Layers : GateGradients(layer) \/ ClearGradientGate(layer)
  <2>1. UNCHANGED <<adapters, layersOf, nativeIds, active, loading, todo, tree>>
    BY <1>9 DEF vars, managerVars, allocatorVars, GateGradients, ClearGradientGate
  <2>2. UNCHANGED <<Settled, SettledLayers, SettledMemory>>
    BY <2>1 DEF Settled, SettledLayers, SettledMemory
  <2>3. Registry!ResidentBytes' = Registry!ResidentBytes
    BY <2>2, SameBytes
  <2>4. AdmitInv'
    BY <2>1, <2>3 DEF AdmitInv, Registry!BytesOf
  <2> QED
    BY <2>1, <2>2, <2>4
<1> QED
  BY <1>1, <1>2, <1>3, <1>4, <1>5, <1>6, <1>7, <1>8, <1>9 DEF Next

\* The manager implements AdapterRegistry: loads are atomic and within the budget, and
\* what is active is resident, whatever the allocator refuses or raises.
THEOREM ManagerActsAsRegistry == Spec => ActsAsRegistry
<1>1. Init => Registry!Init /\ AdmitInv
  BY DEF Init, Registry!Init, Settled, SettledLayers, SettledMemory, AdmitInv
<1> QED
  BY <1>1, StepsAreRegistrySteps, ManagerInvariant, PTL DEF Spec, ActsAsRegistry, Registry!Spec

===============================================================================
