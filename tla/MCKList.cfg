SPECIFICATION Spec
CONSTANTS
  Cells = {c1, c2, c3, c4, c5}
  Nodes = head
SYMMETRY CellSymmetry
INVARIANTS
  ListIsRing
  LiveIsListed
PROPERTIES
  ImplementsSequence
