SPECIFICATION Spec
CONSTANTS
  a = a
  b = b
  Names = {a, b}
  NoName = NoName
  NoDir = NoDir
  None = None
  N = 4
  S = 2
  MaxPacket = 2
  MaxUnits = 3
  MaxTransfers = 5
  Wrap = 7
  Ops <- OpsLast
SYMMETRY Symmetry
INVARIANTS RangesOwned EntriesIntact RestartKeepsFiles
