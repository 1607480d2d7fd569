SPECIFICATION Spec
CONSTANTS
  Prefix = 1
  BufferSize = 4
  MaxInput = 2
  Geometries = {g1, g2}
  NoSequence = none
  PlainExt = {quant_matrix}
  Regions <- SomeRegions
  ResetAt <- ResetButInvalidEnd
SYMMETRY Symmetry
INVARIANTS
  TypeOK
  SlicesInsidePicture
  GeometryAgrees
  ExtensionsMatch
  BufferDrained
  UserDataIntact
  UserDataCounted
  HeaderIsWhole
  SliceIsWhole
PROPERTIES
  SliceFollowsPicture
