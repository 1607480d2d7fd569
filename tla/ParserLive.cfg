SPECIFICATION FairSpec
CONSTANTS
  Prefix = 1
  BufferSize = 2
  MaxInput = 2
  Geometries = {g1}
  NoSequence = none
  PlainExt = {}
  Regions <- SkipOrAll
  ResetAt <- ResetAtBuffer
PROPERTIES
  CallsReturn
  InputDrains
