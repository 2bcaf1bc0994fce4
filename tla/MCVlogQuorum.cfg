SPECIFICATION Spec
CONSTANTS
  Replicas = {r1, r2, r3}
  MinCopies = 2
  Values = {a, b}
  Writers = {w1}
  Committer = Committer
  Stray = Stray
  Domains <- OneEach
  LateWriters = FALSE
  MaxLength = 2
  MaxParts = 1
  MaxRequests = 5
  MaxFaults = 2
  MaxMoves = 2
  MaxRestarts = 0
SYMMETRY Symmetry
INVARIANTS CompleteCopiesAgree RecordedOnQuorum AcknowledgedIsMounted
CHECK_DEADLOCK FALSE
