SPECIFICATION Spec
CONSTANTS
  NumAxes = 0
  Interval = 4
  Erring = {}
  Running = {2}
  Failing = {1}
  MaxSeconds = 5
INVARIANTS WearBounded RunTimeSaved
PROPERTIES LossSavedOnce
