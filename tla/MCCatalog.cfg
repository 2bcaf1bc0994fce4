SPECIFICATION Spec
CONSTANTS
  Hashes = {x, y}
  Hole = Hole
  Paths = {p, q}
  Keys = {k1, k2}
  Snapshots = {s1}
  Vlogs = {v1, v2}
  NoKey = NoKey
  Retention = 1
  CollectLimit = 1
  MaxExtents = 2
  MaxFiles = 2
  MaxTime = 1
SYMMETRY Symmetry
INVARIANTS RefcountsExact OwnedVersionsIntact CatalogInv
PROPERTIES OutcomesStable
