SPECIFICATION FairSpec
CONSTANTS
  ReadHalf = 2
  WriteHalf = 2
  MaxTries = 2
  MaxSaves = 3
  Faults = {"read", "write"}
INVARIANTS CopySurvives CopiesCurrent
PROPERTIES ReadsCurrent OperationEnds
