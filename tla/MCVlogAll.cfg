SPECIFICATION Spec
CONSTANTS
  Replicas = {r1, r2}
  MinCopies = 2
  Values = {a, b}
  Writers = {w1}
  Committer = Committer
  Stray = Stray
  Domains <- OneEach
  LateWriters = FALSE
  MaxLength = 2
  MaxParts = 2
  MaxRequests = 3
  MaxFaults = 2
  MaxMoves = 2
  MaxRestarts = 1
SYMMETRY Symmetry
INVARIANTS MirrorInv
CHECK_DEADLOCK FALSE
