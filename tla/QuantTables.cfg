SPECIFICATION Spec
CONSTANTS
  Zero = "zero"
  Matrices <- TwoMatrices
  Default <- Defaults
  Loaded <- NonIntra
  Scales <- TwoScales
INVARIANTS
  TypeOK
  TablesInForce
