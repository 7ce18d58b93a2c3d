SPECIFICATION Spec
CONSTANTS
  a = a
  b = b
  s1 = s1
  s2 = s2
  a1 = a1
  b2 = b2
  Adapters = {a, b}
  Sublayers = {s1, s2}
  Layers = {a1, b2}
  LayerAt <- MCLayerAt
  Base = Base
  Served = {a1}
  Rank = 2
  OutFeatures = 3
  RatioNumerator = 2
  RatioDenominator = 5
  Temperatures = {75, 76}
  Threshold = 75
  Broken = Broken
  Versions = 2
INVARIANTS
  TypeOK
  StepsUseFreshGradients
  StepsFollowTheTemperature
  GatesEndWithTraining
PROPERTY OnlyOwnLiveLayersLearn
