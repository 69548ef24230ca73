SPECIFICATION Spec
CONSTANTS
  Bytes = {0, 1}
  Size = 5
  Lens = {3, 5}
  MaxCall = 3
INVARIANTS TypeOK FlagTrue SectorsHold
PROPERTIES HoldsLastBytes CallsAddUp
