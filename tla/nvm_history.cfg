SPECIFICATION Spec
CONSTANTS
  NumAxes = 2
  Interval = 4
  Erring = {0, 1, 2}
  Running = {}
  Failing = {0, 1, 2}
  MaxSeconds = 0
INVARIANTS TypeOK FlagOrKept
PROPERTIES HistorySaved
