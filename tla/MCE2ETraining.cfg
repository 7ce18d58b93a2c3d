SPECIFICATION MainSpec
CONSTANTS
  TaskA = a
  TaskB = b
  Reloaded = r
  None = None
  s1 = s1
  a1 = a1
  b1 = b1
  r1 = r1
  Adapters = {a, b, r}
  Sublayers = {s1}
  Layers = {a1, b1, r1}
  LayerAt <- MCLayerAt
  Base = Base
  Served = {a1, b1, r1}
  Rank = 1
  OutFeatures = 2
  RatioNumerator = 1
  RatioDenominator = 5
  Temperatures = {75, 76}
  Threshold = 75
  Broken = Broken
  Versions = 2
  Size <- MCSize
  Budget = 3
INVARIANTS
  LiveIsManaged
  EvictedIsUnreferenced
  ReloadedIsTrained
  AnswersAreCoherent
