SPECIFICATION FwSpec
CONSTANTS
  a = a
  b = b
  Names = {a, b}
  NoName = NoName
  NoDir = NoDir
  None = None
  N = 3
  S = 2
  MaxPacket = 2
  MaxUnits = 2
  MaxTransfers = 4
  Wrap = 6
  FirmwareLimit = 3
  Ops <- OpsAny
SYMMETRY Symmetry
INVARIANTS TypeOK NamesUnique FirmwareWhole
