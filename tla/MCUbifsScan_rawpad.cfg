SPECIFICATION Spec
CONSTANTS
  IntMax = 255
  LebSize = 96
  MinIoSize = 8
  Images <- MCImages
  Starts = {0, 32}
  Pieces = {"cs", "raw8", "raw24", "raw32"}
  MaxPieces = 2
INVARIANTS
  AlignedPaddingAccepted
