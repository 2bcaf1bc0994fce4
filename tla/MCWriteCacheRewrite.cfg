SPECIFICATION Spec
CONSTANTS
  SpillThreshold = 2
  SpillCarry = 1
  MaxBase = 0
  MaxWrite = 3
  MaxLength = 4
  MaxCalls = 3
  MaxFaults = 0
INVARIANTS PublishedIsWritten
