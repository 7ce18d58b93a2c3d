SPECIFICATION Spec
CONSTANTS
  v1 = v1
  v2 = v2
  thin = thin
  fewer = fewer
  other = other
  empty = empty
  n1 = n1
  n2 = n2
  Adapters = {v1, v2, thin, fewer, other, empty}
  Foreign = {other}
  Names = {n1, n2}
  LayersOf <- MCLayersOf
  Rank <- MCRank
  None = None
  Header = Header
  Mixed = Mixed
SYMMETRY Symmetry
INVARIANTS
  TypeOK
  NoPartialLoad
 
