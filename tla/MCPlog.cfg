SPECIFICATION Spec
CONSTANTS
  SectorUnits = 2
  HashesPerBlock = 2
  Values = {x, y}
  Zero = Zero
  Poison = Poison
  Bitrot = Bitrot
  NoHash = NoHash
  Hidden = Hidden
  MaxUnits = 5
  MaxAppend = 2
  MaxFaults = 2
  MaxRot = 1
SYMMETRY Symmetry
INVARIANTS IntactPlogReadable NeverWrongBytes PlogInv
PROPERTIES RecordedPrefixStable WritesStayProtected UsesContract
CHECK_DEADLOCK FALSE
