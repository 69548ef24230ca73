SPECIFICATION Spec
CONSTANTS
  a = a
  b = b
  c = c
  Names = {a, b, c}
  NoName = NoName
  NoDir = NoDir
  None = None
  N = 4
  S = 2
  MaxPacket = 2
  MaxUnits = 4
  MaxTransfers = 4
  Wrap = 7
  Ops <- OpsGrow
SYMMETRY Symmetry
INVARIANTS AckedListed OneRunReadsBack
PROPERTIES OwnedSectorsUntouched
CHECK_DEADLOCK FALSE
