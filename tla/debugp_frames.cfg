SPECIFICATION Spec
CONSTANTS
  Addresses = {1}
  Values = {0, 85}
  Ids <- TwoIds
  Checks = {7}
  Resends = TRUE
  Noise = {2, 4, 170}
  Capacity = 3
  MaxRequests = 3
  MaxLine = 16
  MaxFaults = 1
INVARIANTS TypeOK NoPhantom AnswersTrue
PROPERTIES RequestAnswered
CHECK_DEADLOCK FALSE
