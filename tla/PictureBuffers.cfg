SPECIFICATION Spec
CONSTANTS
  MaxFrames = 4
  Pool <- Buffers
  Converts = {FALSE, TRUE}
  Customs = {FALSE, TRUE}
  Skips = {FALSE, TRUE}
  Damaged = FALSE
INVARIANTS
  TypeOK
  PredictsNewest
  DisplayDescribed
  NoUseAfterDiscard
  BufferAvailable
PROPERTIES
  DisplayOrderImplemented
