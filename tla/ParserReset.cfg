SPECIFICATION Spec
CONSTANTS
  Prefix = 1
  BufferSize = 2
  MaxInput = 1
  Geometries = {g1, g2}
  NoSequence = none
  PlainExt = {quant_matrix}
  Regions <- SkipOrAll
  ResetAt <- ResetAnywhere
INVARIANT
  GeometryAgreesAfterReset
