---------------------------- MODULE EloraAllocator ----------------------------
(****************************************************************************)
(* msp::EloraAllocator (elora_allocator.cpp): blocks of memory bound to the *)
(* integer id of the adapter that owns them, freed together.                *)
(****************************************************************************)
EXTENDS Naturals, FiniteSets

CONSTANTS
  Layers,           \* what blocks are asked for: the layers of adapters
  MaxIds            \* bound: ids handed out by one manager

ASSUME AllocatorAssumption == MaxIds \in Nat

Ids == 1..MaxIds

VARIABLES
  tree,             \* dependency_tree_: the blocks of each id
  heap,             \* what raw_allocate has returned and raw_free has not had back
  leaked            \* history: the part of it that nothing points to any more

allocatorVars == <<tree, heap, leaked>>

Blocks(id, layers) == {id} \X layers

AllocatorTypeOK ==
  /\ tree \in [Ids -> SUBSET Layers]
  /\ heap \subseteq Ids \X Layers
  /\ leaked \subseteq Ids \X Layers

AllocatorInit ==
  /\ tree = [id \in Ids |-> {}]
  /\ heap = {}
  /\ leaked = {}

AllocateKvContext(id, layer) ==
  /\ tree' = [tree EXCEPT ![id] = @ \cup {layer}]
  /\ heap' = heap \cup Blocks(id, {layer})
  /\ UNCHANGED leaked

\* push_back throws bad_alloc: nothing holds the raw block any more.
AllocateThrows(id, layer) ==
  /\ heap' = heap \cup Blocks(id, {layer})
  /\ leaked' = leaked \cup Blocks(id, {layer})
  /\ UNCHANGED tree

\* Mutant: forgets the blocks without freeing them.
EvictionForgets(id) ==
  /\ tree' = [tree EXCEPT ![id] = {}]
  /\ UNCHANGED <<heap, leaked>>

ExecuteDependencyEviction(id) ==
  /\ tree' = [tree EXCEPT ![id] = {}]
  /\ heap' = heap \ Blocks(id, tree[id])
  /\ UNCHANGED leaked

Owned == UNION {Blocks(id, tree[id]) : id \in Ids}

\* The destructor.  What was lost is counted no more.
Destroy ==
  /\ tree' = [id \in Ids |-> {}]
  /\ heap' = (heap \ Owned) \ leaked
  /\ leaked' = {}

===============================================================================
