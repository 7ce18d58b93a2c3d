SPECIFICATION Spec
CONSTANTS
  a1 = a1
  a2 = a2
  l0 = l0
  l1 = l1
  l2 = l2
  AdapterIds = {a1, a2}
  Layers = {l0, l1, l2}
  NoAdapter = NoAdapter
  Size <- MCSize
  Budget = 4
  MaxIds = 3
SYMMETRY Symmetry
INVARIANTS
  TypeOK
  NoOrphanedContext
  HeapIsAccountedFor
PROPERTY ActsAsRegistry
