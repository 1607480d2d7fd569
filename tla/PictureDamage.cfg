SPECIFICATION Spec
CONSTANTS
  MaxFrames = 3
  Pool <- Buffers
  Converts = {FALSE}
  Customs = {TRUE}
  Skips = {FALSE}
  Damaged = TRUE
CHECK_DEADLOCK FALSE
INVARIANTS
  TargetIsFree
  SecondFieldFits
