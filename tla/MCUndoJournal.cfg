SPECIFICATION FairSpec
CONSTANTS
  LastSector = 2
  Contents = {a, b}
  Absent = Absent
  NoJournal = NoJournal
  Hidden = Hidden
  MaxFaults = 3
INVARIANTS PowerLossSafe NeverStranded IInv
PROPERTIES ImplementsContract EventuallyIdle
