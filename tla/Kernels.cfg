SPECIFICATION Spec
CONSTANTS
  Processors = {"c", "mmx", "mmxext", "3dnow", "altivec", "alpha", "vis", "arm"}
  Heights = {4, 8, 16}
  Alignments = {0, 1, 2, 3, 4, 5, 6, 7, 8, 9, 10, 11, 12, 13, 14, 15}
  Values = {0, 1, 255}
INVARIANTS
  RowsPredicted
  RoundsLikeC
  ReadsBlock
CHECK_DEADLOCK FALSE
