SPECIFICATION Spec
CONSTANTS
  Zero = Zero
  Unit <- Units
  NoSize = NoSize
  PtrsPerUnit = 1
  MaxLevels = 3
  MaxUnits = 6
  Width = 3
  Cases <- AllCases
INVARIANT
  ContentIsPlaced
