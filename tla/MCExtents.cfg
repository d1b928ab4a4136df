SPECIFICATION Spec
CONSTANTS
  Zero = Zero
  Unit <- Units
  PtrsPerUnit = 1
  MaxLevels = 3
  MaxRuns = 3
  Cases <- AllCases
INVARIANTS
  TypeOK
  RunsAreTheFiles
PROPERTIES
  Terminates
