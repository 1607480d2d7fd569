SPECIFICATION Spec
CONSTANTS
  Width = 32
  Height = 64
  Formats = {0, 1}
  Structures = {"frame", "top", "bottom"}
  Vectors <- SomeVectors
  Deltas <- AllDeltas
  FCode = 2
INVARIANTS
  ReadsInside
  WritesTile
  ChromaFollowsLuma
  ReadsOtherField
