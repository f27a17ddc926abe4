SPECIFICATION Spec
CONSTANTS
  IntMax = 255
  LebSize = 96
  MinIoSize = 8
  Images <- MCImages
  Starts = {0, 32}
  Pieces = {"cs", "junk", "gap"}
  MaxPieces = 2
INVARIANTS
  QuietIsSilent
