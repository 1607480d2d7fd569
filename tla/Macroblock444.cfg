SPECIFICATION Spec
CONSTANTS
  Width = 32
  Height = 64
  Formats = {2}
  Structures = {"frame"}
  Vectors <- SomeVectors
  Deltas <- AllDeltas
  FCode = 2
INVARIANT
  WritesTile444
