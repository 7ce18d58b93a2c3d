CONSTANTS
  Zones = {z0, z1}
  z0 = z0
  z1 = z1
  Temps = {40, 90}
  Filters <- MCFilters
  MaxChanges = 1

SYMMETRY ZoneSymmetry

SPECIFICATION Spec

INVARIANTS
  TypeOK
  HotZonesAreSeen
  FailsOnlyWhenBlind
  SteadyReadsAreExact
  ReadersAgree
