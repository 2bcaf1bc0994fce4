SPECIFICATION Spec
CONSTANTS
  SpillThreshold = 2
  SpillCarry = 1
  MaxBase = 3
  MaxWrite = 3
  MaxLength = 5
  MaxCalls = 4
  MaxFaults = 1
INVARIANTS CacheInv SpliceExact ReadYourWrites SpansDisjoint UntouchedReused
