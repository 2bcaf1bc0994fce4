SPECIFICATION ServiceSpec
CONSTANTS
  Hashes = {x}
  Paths = {p}
  Keys = {k1, k2}
  ClientKeys = {k1}
  Snapshots = {}
  Vlogs = {v1, v2}
  Handles = {a, b}
  Failures = TRUE
  Retention = 1
  CollectLimit = 1
  MaxExtents = 1
  MaxFiles = 2
  MaxTime = 0
  Hole = Hole
  NoHandle = NoHandle
  NoKey = NoKey
  NoVlog = NoVlog
SYMMETRY Symmetry
INVARIANTS RowsHaveBytes PinnedContentSurvives PlannedContentSurvives DrainedSourceRetires ServiceInv
