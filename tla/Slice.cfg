SPECIFICATION Spec
CONSTANTS
  Width = 2
  Rows = 2
  Pictures <- SomePictures
  BlockSize = 3
  MaxRun = 2
  Fx = {0, 3, 8}
  Fy = {0, 4}
  F1 = {0, 6}
INVARIANTS
  BitsInOrder
  BlockClear
  InsidePicture
  PredictorsReset
  CpuStateRestored
  RowsConverted
