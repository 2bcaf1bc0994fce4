SPECIFICATION ServiceSpec
CONSTANTS
  Hashes = {x}
  Paths = {p}
  Keys = {k1, k2}
  ClientKeys = {k1}
  Snapshots = {s1}
  Vlogs = {v1}
  Handles = {a, b}
  Failures = TRUE
  Retention = 1
  CollectLimit = 1
  MaxExtents = 1
  MaxFiles = 1
  MaxTime = 1
  Hole = Hole
  NoHandle = NoHandle
  NoKey = NoKey
  NoVlog = NoVlog
SYMMETRY Symmetry
PROPERTIES UsesCatalog
