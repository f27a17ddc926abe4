SPECIFICATION Spec
CONSTANTS
  IntMax = 255
  LebSize = 96
  MinIoSize = 8
  Images <- MCImages
  Starts = {0, 32}
  Pieces = {"cs", "pad4", "wrap", "leap"}
  MaxPieces = 2
INVARIANTS
  PadOverrunRejected
CHECK_DEADLOCK FALSE
