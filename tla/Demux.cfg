SPECIFICATION Spec
CONSTANTS
  Files <- SomeFiles
  Sizes = {1, 2, 3, 4, 5, 6, 7, 8, 9, 10, 11, 12, 13, 17, 23, 30, 31, 33, 40, 47, 64, 200}
  PacketSize = 16
INVARIANTS
  TypeOK
  AsInOnePiece
PROPERTY
  EndsEverywhere
CHECK_DEADLOCK FALSE
