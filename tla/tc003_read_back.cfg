SPECIFICATION Spec
CONSTANTS
  a = a
  b = b
  c = c
  Names = {a, b, c}
  NoName = NoName
  NoDir = NoDir
  None = None
  N = 4
  S = 2
  MaxPacket = 2
  MaxUnits = 4
  MaxTransfers = 3
  Wrap = 7
  Ops = {"create", "rewrite", "grow"}
SYMMETRY Symmetry
INVARIANTS AckedReadsBack
CHECK_DEADLOCK FALSE
