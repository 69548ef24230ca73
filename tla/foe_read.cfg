SPECIFICATION FairSpec
CONSTANTS
  Sizes <- SmallSizes
  Sector = 8
  Slack = 3
  MaxBlock = 3
  Clear = Clear
  MaxOpens = 2
INVARIANTS WindowOK NoEarlyEnd
PROPERTIES DeliversFile TransferEnds
CHECK_DEADLOCK FALSE
